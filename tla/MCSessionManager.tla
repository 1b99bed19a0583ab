---------------------------- MODULE MCSessionManager ----------------------------
(***************************************************************************)
(* Small instances of SessionManager: two session IDs, 1 < 2.              *)
(***************************************************************************)
EXTENDS SessionManager, TLC

CONSTANTS p1, p2, k1, k2

Op(kind, src, id, at) == [kind |-> kind, id |-> id, src |-> src, at |-> at]

\* Reads and writes of session 1, a CAS at each length, and a fork of it,
\* which leases both IDs.
WriteOps ==
  {Op(kind, 1, 1, 0) : kind \in {"create", "get", "append", "patch", "delete"}}
    \cup {Op("appendAt", 1, 1, n) : n \in 0 .. MaxLen}
    \cup {Op("fork", 1, 2, 0)}

\* Forks in both directions and a reader.
LockingOps ==
  {Op("create", 1, 1, 0), Op("fork", 1, 2, 0), Op("fork", 2, 1, 0), Op("get", 1, 1, 0)}

Symmetric == Permutations(Clients)
================================================================================
