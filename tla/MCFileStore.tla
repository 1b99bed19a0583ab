------------------------------ MODULE MCFileStore ------------------------------
(***************************************************************************)
(* Instances of FileStore: a live store and a maintenance dry-run of one   *)
(* directory.                                                              *)
(***************************************************************************)
EXTENDS FileStore, TLC

CONSTANTS live, dry, s1, v1, v2, t1, t2, i1, i2

Symmetric == Permutations(Temps) \cup Permutations(Inodes) \cup Permutations(Values)
================================================================================
