--------------------------------- MODULE Batch ---------------------------------
(***************************************************************************)
(* Tool batches over the shared coordinator (core/tools/batch.go).         *)
(*                                                                         *)
(* Executor.Start preflights the calls of a batch, running each Planner    *)
(* under a permit; the first Next registers the batch and spawns one       *)
(* goroutine per call (runCall); events travel to the reader through a     *)
(* buffered channel; Close cancels and waits.  Every action below is one   *)
(* step of one of those goroutines; where the code calls the coordinator   *)
(* the action contains the coordinator's action.                           *)
(*                                                                         *)
(* A batch is named by the goroutine that starts it, so the batches are    *)
(* the Planners of module Coordinator.                                     *)
(***************************************************************************)
EXTENDS Coordinator

CONSTANTS
  Root,       \* rootResource
  Requested   \* the workloads: the calls of each batch, as their tools
              \* classify them; <<>> where a workload has no such batch

\* What Start makes of the calls s: a plan may turn any of them into a rejected one.
Outcomes(s) ==
  {[i \in 1 .. Len(s) |-> IF i \in R THEN [s[i] EXCEPT !.kind = "rejected"] ELSE s[i]] :
     R \in SUBSET (1 .. Len(s))}

ASSUME RequestedAssumption ==
  /\ Root \in Resources
  /\ Requested \subseteq [Planners -> Seq(PreparedCall)]
  /\ \A w \in Requested, b \in Planners : w[b] # <<>> => Outcomes(w[b]) \subseteq BatchShapes

VARIABLES
  phase,       \* Start's progress: "starting", "prepared" or "refused"
  planned,     \* calls preflighted so far
  checked,     \* calls whose extend passed its context check
  calls,       \* Batch.calls
  started,     \* Batch.started
  closed,      \* Batch.closed
  cancelled,   \* Batch.cancel was called
  parentDone,  \* the context given to Start is done
  disp,        \* the dispatch goroutine: "none", "registering", "spawning", "done"
  spawned,     \* calls dispatch has handed out
  base,        \* the first ticket of the batch
  slots,       \* Batch.slots
  fatals,      \* Batch.fatals: [index, ctx], ctx telling a context error
  err,         \* Batch.err: <<>>, <<"context">>, <<"register">>, <<"fatal", index>>
  log,         \* every event sent on Batch.events
  recv,        \* how many of them Next has delivered
  chanClosed,  \* how often close(Batch.events) ran
  drained,     \* Next has returned false
  closeDone    \* a call of Close has returned

ctlVars == <<phase, planned, checked, calls, started, closed, cancelled, parentDone,
             disp, spawned, base, recv, chanClosed, drained, closeDone, err>>
batchVars == <<ctlVars, slots, fatals, log>>
allVars == <<vars, batchVars>>

Size(b) == Len(calls[b])

Indices(b) == 1 .. Size(b)

Ticket(b, i) == base[b] + i - 1

Live(b, i) == disp[b] = "spawning" /\ i <= spawned[b]

CtxDone(b) == cancelled[b] \/ parentDone[b]

SkipAll(s) == [i \in DOMAIN s |-> IF s[i] = "pending" THEN "skipped" ELSE s[i]]

Event(k, i) == [kind |-> k, index |-> i]

--------------------------------------------------------------------------------
(***************************************************************************)
(* Executor.Start and callPlan.                                            *)
(***************************************************************************)

\* A tool without a Planner was given the root write claim.
HasPlanner(call) ==
  call.kind = "activator" \/ (call.kind = "plain" /\ call.static[Root] # 2)

Preparing(b) == phase[b] = "starting" /\ planned[b] < Size(b)

\* One more call is classified; the last one completes Start.
Classify(b, call) ==
  /\ calls' = [calls EXCEPT ![b][planned[b] + 1] = call]
  /\ planned' = [planned EXCEPT ![b] = @ + 1]
  /\ phase' = [phase EXCEPT ![b] = IF planned[b] + 1 = Size(b) THEN "prepared" ELSE @]
  /\ UNCHANGED <<checked, started, closed, cancelled, parentDone, disp, spawned, base, recv,
                 chanClosed, drained, closeDone, err, slots, fatals, log>>

Refuse(b) ==
  /\ phase' = [phase EXCEPT ![b] = "refused"]
  /\ UNCHANGED <<planned, checked, calls, started, closed, cancelled, parentDone, disp, spawned,
                 base, recv, chanClosed, drained, closeDone, err, slots, fatals, log>>

\* A call that needs no Plan: rejected locally, or serialized on the root.
Preflight(b) ==
  /\ Preparing(b)
  /\ ~ parentDone[b]
  /\ ~ HasPlanner(calls[b][planned[b] + 1])
  /\ Classify(b, calls[b][planned[b] + 1])
  /\ UNCHANGED vars

PlanAcquire(b) ==
  /\ Preparing(b)
  /\ ~ parentDone[b]
  /\ HasPlanner(calls[b][planned[b] + 1])
  /\ Acquire(b)
  /\ UNCHANGED batchVars

PlanWake(b) == Wake(b) /\ UNCHANGED batchVars

\* Plan returns: a plan, a CallError (the call is rejected), or a fatal error.
PlanReturns(b) ==
  /\ ReleasePermit(b)
  /\ LET call == calls[b][planned[b] + 1] IN
     \/ Classify(b, call)
     \/ Classify(b, [call EXCEPT !.kind = "rejected"])
     \/ Refuse(b)

StartCancelled(b) ==
  /\ Preparing(b)
  /\ parentDone[b]
  /\ \/ stage[b] = "ready" /\ UNCHANGED vars
     \/ CancelWait(b)
  /\ Refuse(b)

--------------------------------------------------------------------------------
(***************************************************************************)
(* Next and dispatch.                                                      *)
(***************************************************************************)

\* The first Next starts the dispatcher, or finds the context done.
NextFirst(b) ==
  /\ phase[b] = "prepared" /\ ~ started[b]
  /\ started' = [started EXCEPT ![b] = TRUE]
  /\ IF CtxDone(b)
     THEN /\ slots' = [slots EXCEPT ![b] = SkipAll(@)]
          /\ err' = [err EXCEPT ![b] = <<"context">>]
          /\ chanClosed' = [chanClosed EXCEPT ![b] = @ + 1]
          /\ drained' = [drained EXCEPT ![b] = TRUE]
          /\ UNCHANGED disp
     ELSE /\ disp' = [disp EXCEPT ![b] = "registering"]
          /\ UNCHANGED <<slots, err, chanClosed, drained>>
  /\ UNCHANGED <<phase, planned, checked, calls, closed, cancelled, parentDone, spawned, base,
                 recv, closeDone, fatals, log>>
  /\ UNCHANGED vars

\* Next receives an event, or finds the closed channel empty.
NextReceive(b) ==
  /\ started[b] /\ ~ drained[b]
  /\ \/ /\ recv[b] < Len(log[b])
        /\ recv' = [recv EXCEPT ![b] = @ + 1]
        /\ UNCHANGED drained
     \/ /\ recv[b] = Len(log[b])
        /\ chanClosed[b] > 0
        /\ drained' = [drained EXCEPT ![b] = TRUE]
        /\ UNCHANGED recv
  /\ UNCHANGED <<phase, planned, checked, calls, started, closed, cancelled, parentDone, disp,
                 spawned, base, chanClosed, closeDone, err, slots, fatals, log>>
  /\ UNCHANGED vars

\* dispatch registers the batch; the ticket space may be exhausted.
Register(b) ==
  /\ disp[b] = "registering"
  /\ \/ /\ RegisterBatch(calls[b])
        /\ base' = [base EXCEPT ![b] = next]
        /\ disp' = [disp EXCEPT ![b] = "spawning"]
        /\ UNCHANGED <<slots, err, chanClosed>>
     \/ /\ next > MaxTicket - Size(b)
        /\ err' = [err EXCEPT ![b] = <<"register">>]
        /\ slots' = [slots EXCEPT ![b] = SkipAll(@)]
        /\ chanClosed' = [chanClosed EXCEPT ![b] = @ + 1]
        /\ disp' = [disp EXCEPT ![b] = "done"]
        /\ UNCHANGED <<base, vars>>
  /\ UNCHANGED <<phase, planned, checked, calls, started, closed, cancelled, parentDone, spawned,
                 recv, drained, closeDone, fatals, log>>

\* emitRejected: both events of a call that never executes.
EmitRejected(b, i) ==
  /\ slots' = [slots EXCEPT ![b][i] = "finished"]
  /\ log' = [log EXCEPT ![b] = @ \o <<Event("started", i), Event("finished", i)>>]

\* dispatch walks the calls: a rejected one is answered, another is spawned.
Spawn(b) ==
  LET i == spawned[b] + 1 IN
  /\ disp[b] = "spawning" /\ spawned[b] < Size(b)
  /\ spawned' = [spawned EXCEPT ![b] = i]
  /\ IF calls[b][i].kind = "rejected"
     THEN EmitRejected(b, i)
     ELSE UNCHANGED <<slots, log>>
  /\ UNCHANGED <<phase, planned, checked, calls, started, closed, cancelled, parentDone, disp,
                 base, recv, chanClosed, drained, closeDone, err, fatals>>
  /\ UNCHANGED vars

\* Mutant: the lowest index wins, whatever the error.
PickFatalLowest(f) == CHOOSE e \in f : \A o \in f : e.index <= o.index

\* pickFatal: the lowest-index fatal that is not a context error, else the lowest.
PickFatal(f) ==
  LET genuine == {e \in f : ~ e.ctx}
      pool    == IF genuine # {} THEN genuine ELSE f
  IN  CHOOSE e \in pool : \A o \in pool : e.index <= o.index

\* workers.Wait returned: settle the error and the slots, close the channel.
DispatchEnds(b) ==
  /\ disp[b] = "spawning" /\ spawned[b] = Size(b)
  /\ \A i \in Indices(b) : stage[Ticket(b, i)] = "done"
  /\ err' = [err EXCEPT ![b] = IF parentDone[b] THEN <<"context">>
                               ELSE IF fatals[b] # {}
                               THEN <<"fatal", PickFatal(fatals[b]).index>> ELSE @]
  /\ slots' = [slots EXCEPT ![b] = SkipAll(@)]
  /\ chanClosed' = [chanClosed EXCEPT ![b] = @ + 1]
  /\ disp' = [disp EXCEPT ![b] = "done"]
  /\ UNCHANGED <<phase, planned, checked, calls, started, closed, cancelled, parentDone, spawned,
                 base, recv, drained, closeDone, fatals, log>>
  /\ UNCHANGED vars

--------------------------------------------------------------------------------
(***************************************************************************)
(* runCall, the goroutine of call i of batch b.                            *)
(***************************************************************************)

\* The call leaves without having run and without an event.
SkipSlot(b, i) ==
  /\ slots' = [slots EXCEPT ![b][i] = "skipped"]
  /\ UNCHANGED <<ctlVars, fatals, log>>

\* The end of a call that stops its batch: cancel, record, publish, release.
EndFailed(b, i, ctxErr, slot) ==
  /\ cancelled' = [cancelled EXCEPT ![b] = TRUE]
  /\ fatals' = [fatals EXCEPT ![b] = @ \cup {[index |-> i, ctx |-> ctxErr]}]
  /\ slots' = [slots EXCEPT ![b][i] = slot]
  /\ log' = [log EXCEPT ![b] = Append(@, Event("failed", i))]
  /\ UNCHANGED <<phase, planned, checked, calls, started, closed, parentDone, disp, spawned, base,
                 recv, chanClosed, drained, closeDone, err>>
  /\ Release(Ticket(b, i))

\* Mutant: the slot is not set.
FailForgetsSlot(b, i, ctxErr) == EndFailed(b, i, ctxErr, slots[b][i])

Fail(b, i, ctxErr) == EndFailed(b, i, ctxErr, "failed")

\* cancelled: a started call fails visibly unless Close asked for the stop.
Cancelled(b, i, ran) ==
  /\ fatals' = IF parentDone[b]
               THEN [fatals EXCEPT ![b] = @ \cup {[index |-> i, ctx |-> TRUE]}]
               ELSE fatals
  /\ IF ran /\ (parentDone[b] \/ ~ closed[b])
     THEN /\ slots' = [slots EXCEPT ![b][i] = "failed"]
          /\ log' = [log EXCEPT ![b] = Append(@, Event("failed", i))]
     ELSE /\ slots' = [slots EXCEPT ![b][i] = "skipped"]
          /\ UNCHANGED log
  /\ UNCHANGED ctlVars
  /\ Release(Ticket(b, i))

\* Mutant: the slot is skipped but the ticket is never released.
SkipCallKeepsTicket(b, i) ==
  /\ Live(b, i)
  /\ \/ stage[Ticket(b, i)] = "ready" /\ CtxDone(b)
     \/ stage[Ticket(b, i)] = "leaving"
  /\ SkipSlot(b, i)
  /\ UNCHANGED vars

\* The context is done before acquire, or acquire returned its error.
SkipCall(b, i) ==
  /\ Live(b, i)
  /\ \/ stage[Ticket(b, i)] = "ready" /\ CtxDone(b)
     \/ stage[Ticket(b, i)] = "leaving"
  /\ Release(Ticket(b, i))
  /\ SkipSlot(b, i)

AcquireCall(b, i) ==
  /\ Live(b, i)
  /\ ~ CtxDone(b)
  /\ Acquire(Ticket(b, i))
  /\ UNCHANGED batchVars

WakeCall(b, i) ==
  /\ Live(b, i)
  /\ Wake(Ticket(b, i))
  /\ UNCHANGED batchVars

CancelWaiting(b, i) ==
  /\ Live(b, i)
  /\ CtxDone(b)
  /\ CancelWait(Ticket(b, i))
  /\ UNCHANGED batchVars

\* Activate found its claims, and they only tighten the plan.  extend looks at
\* the context first and takes the claims later, when it may be done.
Activated(b, i, extra) ==
  /\ Live(b, i)
  /\ Discover(Ticket(b, i), extra)
  /\ checked' = IF CtxDone(b) THEN checked ELSE [checked EXCEPT ![b] = @ \cup {i}]
  /\ UNCHANGED <<phase, planned, calls, started, closed, cancelled, parentDone, disp,
                 spawned, base, recv, chanClosed, drained, closeDone, err>>
  /\ UNCHANGED <<slots, fatals, log>>

\* Activate refused the call, was interrupted, or failed; a failure may wrap a
\* context error of the tool's own making.
NotActivated(b, i) ==
  /\ Live(b, i)
  /\ stage[Ticket(b, i)] = "activating"
  /\ \/ EmitRejected(b, i) /\ Release(Ticket(b, i)) /\ UNCHANGED <<ctlVars, fatals>>
     \/ CtxDone(b) /\ Cancelled(b, i, FALSE)
     \/ ~ CtxDone(b) /\ Fail(b, i, TRUE)
     \/ Fail(b, i, FALSE)

ExtendCall(b, i) ==
  /\ Live(b, i)
  /\ i \in checked[b]
  /\ Extend(Ticket(b, i))
  /\ UNCHANGED batchVars

\* extend returned the context error; closing the activation may fail too.
ExtendCancelled(b, i) ==
  /\ Live(b, i)
  /\ stage[Ticket(b, i)] = "extending"
  /\ CtxDone(b)
  /\ Cancelled(b, i, FALSE) \/ Fail(b, i, TRUE)

BeginCallback(b, i) ==
  /\ Live(b, i)
  /\ stage[Ticket(b, i)] = "running" /\ slots[b][i] = "pending"
  /\ slots' = [slots EXCEPT ![b][i] = "running"]
  /\ log' = [log EXCEPT ![b] = Append(@, Event("started", i))]
  /\ UNCHANGED <<ctlVars, fatals, vars>>

\* The callback returned: an output, a fatal error, or a context error, which
\* may be its context's or one of its own.
CallbackReturns(b, i) ==
  /\ Live(b, i)
  /\ stage[Ticket(b, i)] = "running" /\ slots[b][i] = "running"
  /\ \/ /\ slots' = [slots EXCEPT ![b][i] = "finished"]
        /\ log' = [log EXCEPT ![b] = Append(@, Event("finished", i))]
        /\ Release(Ticket(b, i))
        /\ UNCHANGED <<ctlVars, fatals>>
     \/ Fail(b, i, FALSE)
     \/ IF closed[b] THEN Cancelled(b, i, TRUE) ELSE Fail(b, i, TRUE)

--------------------------------------------------------------------------------
(***************************************************************************)
(* Close, and the caller's context.                                        *)
(***************************************************************************)

\* The first Close: an unstarted batch ends here, a started one is cancelled.
CloseBatch(b) ==
  /\ phase[b] = "prepared" /\ ~ closed[b]
  /\ closed' = [closed EXCEPT ![b] = TRUE]
  /\ cancelled' = [cancelled EXCEPT ![b] = TRUE]
  /\ started' = [started EXCEPT ![b] = TRUE]
  /\ IF started[b]
     THEN UNCHANGED <<slots, chanClosed, closeDone>>
     ELSE /\ slots' = [slots EXCEPT ![b] = SkipAll(@)]
          /\ chanClosed' = [chanClosed EXCEPT ![b] = @ + 1]
          /\ closeDone' = [closeDone EXCEPT ![b] = TRUE]
  /\ UNCHANGED <<phase, planned, checked, calls, parentDone, disp, spawned, base, recv, drained,
                 err, fatals, log>>
  /\ UNCHANGED vars

\* Mutant: Close does not wait for the dispatcher.
CloseReturnsAtOnce(b) ==
  /\ closed[b] /\ ~ closeDone[b]
  /\ closeDone' = [closeDone EXCEPT ![b] = TRUE]
  /\ UNCHANGED <<phase, planned, checked, calls, started, closed, cancelled, parentDone, disp,
                 spawned, base, recv, chanClosed, drained, err, slots, fatals, log>>
  /\ UNCHANGED vars

\* wg.Wait: Close returns once the dispatcher has.
CloseReturns(b) ==
  /\ closed[b] /\ ~ closeDone[b]
  /\ disp[b] \in {"none", "done"}
  /\ closeDone' = [closeDone EXCEPT ![b] = TRUE]
  /\ UNCHANGED <<phase, planned, checked, calls, started, closed, cancelled, parentDone, disp,
                 spawned, base, recv, chanClosed, drained, err, slots, fatals, log>>
  /\ UNCHANGED vars

ParentCancelled(b) ==
  /\ ~ parentDone[b]
  /\ parentDone' = [parentDone EXCEPT ![b] = TRUE]
  /\ UNCHANGED <<phase, planned, checked, calls, started, closed, cancelled, disp, spawned, base,
                 recv, chanClosed, drained, closeDone, err, slots, fatals, log>>
  /\ UNCHANGED vars

--------------------------------------------------------------------------------
BInit ==
  /\ Init
  /\ calls \in Requested
  /\ phase = [b \in Planners |-> IF calls[b] = <<>> THEN "refused" ELSE "starting"]
  /\ planned = [b \in Planners |-> 0]
  /\ checked = [b \in Planners |-> {}]
  /\ started = [b \in Planners |-> FALSE]
  /\ closed = [b \in Planners |-> FALSE]
  /\ cancelled = [b \in Planners |-> FALSE]
  /\ parentDone = [b \in Planners |-> FALSE]
  /\ disp = [b \in Planners |-> "none"]
  /\ spawned = [b \in Planners |-> 0]
  /\ base = [b \in Planners |-> 0]
  /\ slots = [b \in Planners |-> [i \in Indices(b) |-> "pending"]]
  /\ fatals = [b \in Planners |-> {}]
  /\ err = [b \in Planners |-> <<>>]
  /\ log = [b \in Planners |-> <<>>]
  /\ recv = [b \in Planners |-> 0]
  /\ chanClosed = [b \in Planners |-> 0]
  /\ drained = [b \in Planners |-> FALSE]
  /\ closeDone = [b \in Planners |-> FALSE]

StartStep(b) ==
  Preflight(b) \/ PlanAcquire(b) \/ PlanWake(b) \/ PlanReturns(b) \/ StartCancelled(b)

DispatchStep(b) == Register(b) \/ Spawn(b) \/ DispatchEnds(b)

CallStep(b, i) ==
  \/ SkipCall(b, i) \/ AcquireCall(b, i) \/ WakeCall(b, i) \/ CancelWaiting(b, i)
  \/ \E extra \in ActivationClaims : Activated(b, i, extra)
  \/ NotActivated(b, i) \/ ExtendCall(b, i) \/ ExtendCancelled(b, i)
  \/ BeginCallback(b, i) \/ CallbackReturns(b, i)

BNext ==
  \E b \in Planners :
    \/ StartStep(b)
    \/ NextFirst(b) \/ NextReceive(b)
    \/ DispatchStep(b)
    \/ \E i \in Indices(b) : CallStep(b, i)
    \/ CloseBatch(b) \/ CloseReturns(b)
    \/ ParentCancelled(b)

BSpec == BInit /\ [][BNext]_allVars

(***************************************************************************)
(* Goroutines run and callbacks return.  The reader keeps pulling, as      *)
(* runStateMachine does; nobody is obliged to call Close or to cancel.     *)
(***************************************************************************)
BFairness ==
  \A b \in Planners :
    /\ WF_allVars(StartStep(b))
    /\ WF_allVars(NextFirst(b) \/ NextReceive(b))
    /\ WF_allVars(DispatchStep(b))
    /\ WF_allVars(CloseReturns(b))
    /\ \A i \in 1 .. MaxTicket : WF_allVars(CallStep(b, i))

BFairSpec == BSpec /\ BFairness

--------------------------------------------------------------------------------
(***************************************************************************)
(* Properties.                                                             *)
(***************************************************************************)

Sent(b, i, k) == {j \in 1 .. Len(log[b]) : log[b][j] = Event(k, i)}

\* The events channel is closed once, and only after every goroutine that
\* could send on it is over and every slot has its outcome.
ChannelClosedOnceAtEnd ==
  \A b \in Planners :
    /\ chanClosed[b] <= 1
    /\ chanClosed[b] = 1 =>
         /\ disp[b] \in {"none", "done"}
         /\ \A i \in Indices(b) : slots[b][i] \in {"finished", "failed", "skipped"}
         /\ disp[b] = "done" /\ err[b] # <<"register">> =>
              \A i \in Indices(b) : Ticket(b, i) \in released

\* The buffer of 2n+1 holds whatever a batch of n calls can send even if the
\* reader never pulls, so send neither blocks a worker nor drops an event.
SendNeverBlocks ==
  \A b \in Planners : Len(log[b]) <= 2 * Size(b) + 1

\* The events of a call match its slot: finished after started, one terminal
\* event, and (unless Close interrupted it) none at all when skipped.
EventsMatchSlots ==
  \A b \in Planners : \A i \in Indices(b) :
    LET s == Sent(b, i, "started")
        f == Sent(b, i, "finished")
        e == Sent(b, i, "failed")
    IN  /\ slots[b][i] = "finished" => Cardinality(f) = 1 /\ e = {}
        /\ slots[b][i] = "failed" => Cardinality(e) = 1 /\ f = {}
        /\ slots[b][i] \in {"pending", "running", "skipped"} => f \cup e = {}
        /\ slots[b][i] = "skipped" /\ ~ closed[b] => s = {}
        /\ \A j \in f : \E k \in s : k < j

\* The channel, its events and the slots agree whoever closes the batch and
\* however slow the reader is: ToolBatchFailed in a reader's hands means the
\* slot failed, and the end of the channel means that nothing is still running.
EventStreamSound == ChannelClosedOnceAtEnd /\ SendNeverBlocks /\ EventsMatchSlots

FailedCalls(b) == {i \in Indices(b) : slots[b][i] = "failed"}

\* The calls that failed for a reason of their own, not for a context that ended.
OwnFailures(b) == {f.index : f \in {g \in fatals[b] : ~ g.ctx}}

\* A batch read to its end without an error finished every call, but for those
\* that Close kept from running: runStateMachine commits the exchange on that
\* ground.
NoErrorMeansComplete ==
  \A b \in Planners :
    drained[b] /\ err[b] = <<>> =>
      \A i \in Indices(b) :
        slots[b][i] = "finished" \/ (closed[b] /\ slots[b][i] = "skipped")

\* The failures joined in Err are those of the calls whose slot failed, no more
\* and no less, and the one that leads is an own failure wherever a call has one.
\* It is the first by position, not by time: which failure began the
\* cancellation is not recorded, so that of a later call which a sibling's own
\* failure cancelled never leads, but that of an earlier one may (pickFatal).
ErrNamesFailures ==
  \A b \in Planners :
    (err[b] # <<>> /\ err[b][1] = "fatal") =>
      LET pool == IF OwnFailures(b) # {} THEN OwnFailures(b) ELSE FailedCalls(b)
      IN  /\ {f.index : f \in fatals[b]} = FailedCalls(b)
          /\ err[b][2] \in pool
          /\ \A i \in pool : err[b][2] <= i

\* A context error is that of the caller's context, never one the batch caused.
ContextMeansCaller ==
  \A b \in Planners : err[b] = <<"context">> => parentDone[b]

\* Err accounts for the batch: nil when nothing failed, the caller's context when
\* that ended, and otherwise exactly the failed calls, in the order of pickFatal.
ErrAccountsForFailures == NoErrorMeansComplete /\ ErrNamesFailures /\ ContextMeansCaller

\* Once Close has returned no callback of the batch runs and no ticket,
\* permit or claim of it is left behind.
CloseLeavesNothing ==
  \A b \in Planners : closeDone[b] =>
    /\ disp[b] \in {"none", "done"}
    /\ disp[b] = "done" /\ err[b] # <<"register">> =>
         \A i \in Indices(b) : Ticket(b, i) \in released /\ Ticket(b, i) \notin holders

\* Close always returns, even where calls wait for each other.
CloseTerminates == \A b \in Planners : closed[b] ~> closeDone[b]

\* The reader always reaches the end of the batch, however its calls contend,
\* are refused, fail or are cancelled, unless the permits are deadlocked.
BatchEnds ==
  (\A b \in Planners : started[b] ~> drained[b]) \/ <>[]PermitDeadlock

\* Neither a reader nor a caller of Close is left waiting, but for the permit
\* deadlock, which Close resolves.
BatchTerminates == CloseTerminates /\ BatchEnds
================================================================================
