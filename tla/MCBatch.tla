-------------------------------- MODULE MCBatch --------------------------------
(***************************************************************************)
(* Small instances of Batch: batches named by model values, one resource,  *)
(* file, beside the root.                                                  *)
(***************************************************************************)
EXTENDS Batch

CONSTANTS root, file, b1, b2

Set(rootAccess, fileAccess) == (root :> rootAccess) @@ (file :> fileAccess)

Call(k, claims) == [kind |-> k, static |-> claims]

Rejected  == Call("rejected", NoClaims)
Serial    == Call("plain", Set(2, 0))
PlanWrite == Call("plain", Set(1, 2))
FileTool  == Call("activator", Set(1, 0))

Workload(s1, s2) == (b1 :> s1) @@ (b2 :> s2)

\* One batch with every kind of call, whose live ones meet on the file; two
\* activators whose discoveries may conflict; two batches of one executor that
\* contend for the root; two batches of which the ticket space has room for
\* one only.
Workloads ==
  {Workload(<<Rejected, FileTool, PlanWrite>>, <<>>),
   Workload(<<FileTool, FileTool>>, <<>>),
   Workload(<<FileTool>>, <<Serial>>),
   Workload(<<Serial>>, <<Rejected, Rejected, Rejected>>)}

\* Calls that can wait for each other when there is one permit; the built-in
\* tools; a batch that the ticket space has no room for after the other.
LiveWorkloads ==
  {Workload(<<PlanWrite, FileTool>>, <<>>),
   Workload(<<FileTool, Serial>>, <<>>),
   Workload(<<Serial>>, <<FileTool, Rejected>>)}

Shapes == UNION {Outcomes(w[b]) : w \in Requested, b \in Planners} \ {<<>>}

WritesFile == {NoClaims, Set(0, 2)}
================================================================================
