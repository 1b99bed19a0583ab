----------------------------- MODULE MCCoordinator -----------------------------
(***************************************************************************)
(* Small instances of Coordinator.  Every plan holds a read claim on the   *)
(* executor-wide root resource; a tool without a Planner claims root for   *)
(* writing (batch.go, Start).                                              *)
(***************************************************************************)
EXTENDS Coordinator

CONSTANTS root, file   \* resources

Set(rootAccess, fileAccess) == (root :> rootAccess) @@ (file :> fileAccess)

Call(k, claims) == [kind |-> k, static |-> claims]

Rejected   == Call("rejected", NoClaims)
Serial     == Call("plain", Set(2, 0))      \* no Planner (the bash tool)
PlanRead   == Call("plain", Set(1, 1))      \* Planner only
PlanWrite  == Call("plain", Set(1, 2))
FileTool   == Call("activator", Set(1, 0))  \* Planner and Activator
FileReader == Call("activator", Set(1, 1))

\* Every kind of call; batches of one to three calls.
MixedBatches ==
  {<<Rejected, FileTool>>, <<PlanRead, FileReader>>, <<PlanWrite, FileTool>>,
   <<Serial>>, <<FileTool, FileTool, PlanRead>>}

\* One planned call before one activated call.
PlanThenActivate == {<<PlanWrite, FileTool>>}

\* What Activate may find: nothing, a read or a write of the file, or an attempt to
\* take the root.
Discoveries == {NoClaims, Set(0, 1), Set(0, 2), Set(1, 2)}

FileDiscoveries == {NoClaims, Set(0, 1), Set(0, 2)}
================================================================================
