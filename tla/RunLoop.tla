-------------------------------- MODULE RunLoop --------------------------------
(***************************************************************************)
(* One agent run: the pull state machine behind loops.Stream               *)
(* (runtime/loops/stream.go, policy.go, run_state.go).                     *)
(*                                                                         *)
(* The reader calls Next until it returns false; `pc' is where it stands   *)
(* inside Next.  Another goroutine may call Close at any moment.  Steps    *)
(* under runStateMachine.mu are single actions; mu is a variable because   *)
(* Close and fail hold it while Batch.Close waits.  The model stream and   *)
(* the tool batch are external: a response is its classification, a batch  *)
(* (module Batch) the calls it finished, its failure and its error.        *)
(*                                                                         *)
(* drainToolBatch and commitCompletedTools read s.batch.batch without mu:  *)
(* each read is a step of its own and may find what Close left there.      *)
(***************************************************************************)
EXTENDS Integers, Sequences, FiniteSets

CONSTANTS
  MaxModelTurns, MaxToolCalls, MaxIdenticalSteps, MaxObservedTokens,  \* loops.Limits
  MaxInt,       \* math.MaxInt64, where the token counter saturates
  MaxEvents,    \* model events per turn (the stream limits)
  Usages,       \* the total tokens a response may report
  BatchSizes,   \* how many tool calls a response may contain
  Fingerprints, \* what stepFingerprint may yield
  Choices       \* the tool choices a request may carry

ASSUME RunLoopAssumption ==
  /\ {MaxModelTurns, MaxToolCalls, MaxIdenticalSteps} \subseteq Nat \ {0}
  /\ {MaxObservedTokens, MaxInt, MaxEvents} \subseteq Nat
  /\ Usages \subseteq 0 .. MaxInt
  /\ BatchSizes \subseteq Nat \ {0}
  /\ Choices \subseteq {"auto", "none", "required"}

VARIABLES
  phase, err, closed, finished,   \* runStateMachine
  stop,        \* record.stopReason, "" while open
  base,        \* the request's tool choice
  turnChoice,  \* turnToolChoice
  budget,      \* runBudget
  turns,       \* the transcript suffix: tool calls and results of each exchange, 0 of
               \* both for the final answer
  stream,      \* the model stream the handle or the reader refers to
  handle,      \* s.batch.batch: "nil" or "set"
  batch,       \* the tool batch itself
  contents,    \* results collected by commitCompletedTools, -1 before it ran
  ctx,         \* s.ctx: "live", "canceled" or "deadline"
  mu,          \* who holds the mutex across a wait
  pc, event, pendingErr,   \* the reader inside Next
  closer,      \* where the caller of Close stands
  delivered    \* what Next has returned: run_end events, and any event after Close

runVars == <<phase, err, closed, finished, stop, base, turnChoice, budget, turns>>
extVars == <<stream, handle, batch, contents>>
rvars == <<runVars, extVars, ctx, mu, pc, event, pendingErr, closer, delivered>>

Controlled == {"completed", "max_model_turns", "max_tool_calls", "max_observed_tokens", "stalled"}

NoStream == [owner |-> "none", sent |-> 0, closes |-> 0]

NoBatch == [n |-> 0, fin |-> 0, read |-> 0, sent |-> 0, failed |-> FALSE, over |-> TRUE,
            err |-> "none", open |-> FALSE, run |-> FALSE]

NewBatch(n) == [NoBatch EXCEPT !.n = n, !.over = FALSE, !.open = TRUE]

CtxDone == ctx # "live"

\* The error a done context yields; only context.Canceled counts as cancelled.
CtxErr == IF ctx = "deadline" THEN "failed" ELSE "canceled"

\* What a model or a tool may fail with: its own error may be a cancellation.
Failures == {"failed", "canceled"}

Ready == phase \in {"RunEnd", "Done"}

--------------------------------------------------------------------------------
(***************************************************************************)
(* Policy.                                                                 *)
(***************************************************************************)

\* runRecord.setStopReason: the first writer wins.
SetStopReason(reason) == IF stop = "" THEN reason ELSE stop

\* resolveToolChoice: a completed batch relaxes a forced choice.
ResolveToolChoice == IF budget.batches > 0 /\ base # "none" THEN "auto" ELSE base

\* validateToolChoice.
ChoiceAllows(calls) ==
  /\ turnChoice = "none" => calls = 0
  /\ turnChoice = "required" => calls > 0

\* observeTokens: saturating addition.
ObserveTokens(b, used) ==
  IF b.tokens > MaxInt - used
  THEN [b EXCEPT !.tokens = MaxInt, !.overflow = TRUE]
  ELSE [b EXCEPT !.tokens = @ + used]

\* stopBeforeTools, in the order the limits are consulted.
StopBeforeTools(calls) ==
  IF budget.turns >= MaxModelTurns THEN "max_model_turns"
  ELSE IF MaxObservedTokens > 0 /\ (budget.overflow \/ budget.tokens > MaxObservedTokens)
       THEN "max_observed_tokens"
  ELSE IF calls > MaxToolCalls - budget.calls THEN "max_tool_calls" ELSE ""

\* recordStep: how often the same step ran in a row.
RecordStep(b, fp) ==
  [b EXCEPT !.same = IF fp = b.last THEN @ + 1 ELSE 1, !.last = fp]

--------------------------------------------------------------------------------
(***************************************************************************)
(* The frame of Next.                                                      *)
(***************************************************************************)

\* The reader goes on inside Next without an event.
Loop == pc' = "loop" /\ UNCHANGED <<event, pendingErr>>

Publish(kind) == pc' = "publish" /\ event' = kind /\ UNCHANGED pendingErr

\* step returned an error: Next calls fail.
FailWith(e) == pc' = "failing" /\ pendingErr' = e /\ UNCHANGED event

GoTo(where) == pc' = where /\ UNCHANGED <<event, pendingErr>>

Private == UNCHANGED <<ctx, mu, closer, delivered>>

\* Next's guard: failures and non-terminal closes end the stream.
NextCall ==
  /\ pc = "idle"
  /\ mu = "free"
  /\ GoTo(IF err # "none" \/ ((finished \/ closed) /\ ~ Ready) THEN "exhausted" ELSE "loop")
  /\ UNCHANGED <<runVars, extVars>> /\ Private

\* The context is checked before every step.
LoopCheck ==
  /\ pc = "loop"
  /\ mu = "free"
  /\ IF CtxDone /\ ~ Ready THEN FailWith(CtxErr) ELSE GoTo("step")
  /\ UNCHANGED <<runVars, extVars>> /\ Private

Deliver(suppressed) ==
  /\ pc = "publish"
  /\ mu = "free"
  /\ IF suppressed
     THEN GoTo("exhausted") /\ UNCHANGED <<delivered, finished>>
     ELSE /\ delivered' = IF event = "run_end"
                          THEN [delivered EXCEPT !.runEnds = @ + 1]
                          ELSE [delivered EXCEPT !.late = @ \/ closed]
          /\ finished' = (finished \/ phase = "Done")
          /\ GoTo("idle")
  /\ UNCHANGED <<phase, err, closed, stop, base, turnChoice, budget, turns>>
  /\ UNCHANGED <<extVars, ctx, mu, closer>>

\* Mutant: Close suppresses run_end too.
PublishNothingLate == Deliver(closed)

\* The event is published unless Close came first; run_end always is.
PublishEvent == Deliver(closed /\ event # "run_end")

\* The end of fail and of Close: the handles are closed, the run is finished.
CloseStream == IF stream.owner = "handle"
               THEN [stream EXCEPT !.owner = "none", !.closes = @ + 1] ELSE stream

\* Batch.Close waits for a batch that is under way.
BatchClosable == handle = "set" /\ batch.run => batch.over

CloseBatchHandle ==
  /\ handle' = "nil"
  /\ batch' = IF handle = "set" THEN [batch EXCEPT !.open = FALSE, !.over = TRUE] ELSE batch

\* fail: the first error closes what is open; a later one is only joined.
FailFirst ==
  /\ pc = "failing"
  /\ mu = "free"
  /\ err = "none"
  /\ err' = pendingErr
  /\ stop' = SetStopReason(IF pendingErr = "canceled" THEN "cancelled" ELSE "failed")
  /\ stream' = CloseStream
  /\ mu' = "reader"
  /\ GoTo("failClosing")
  /\ UNCHANGED <<phase, closed, finished, base, turnChoice, budget, turns>>
  /\ UNCHANGED <<handle, batch, contents, ctx, closer, delivered>>

\* Batch.Close returned: fail unlocks, and Next returns false.
FailDone ==
  /\ pc = "failClosing"
  /\ BatchClosable
  /\ CloseBatchHandle
  /\ finished' = TRUE
  /\ mu' = "free"
  /\ GoTo("exhausted")
  /\ UNCHANGED <<phase, err, closed, stop, base, turnChoice, budget, turns>>
  /\ UNCHANGED <<stream, contents, ctx, closer, delivered>>

FailJoined ==
  /\ pc = "failing"
  /\ mu = "free"
  /\ err # "none"
  /\ GoTo("exhausted")
  /\ UNCHANGED <<runVars, extVars>> /\ Private

--------------------------------------------------------------------------------
(***************************************************************************)
(* step, one action per phase.                                             *)
(***************************************************************************)

AtStep(p) == pc = "step" /\ phase = p /\ mu = "free"

RunStart ==
  /\ AtStep("RunStart")
  /\ phase' = "ModelStart"
  /\ Publish("run_start")
  /\ UNCHANGED <<err, closed, finished, stop, base, turnChoice, budget, turns>>
  /\ UNCHANGED extVars /\ Private

\* beginModelTurn, up to the unlock.
BeginModelTurn ==
  /\ AtStep("ModelStart")
  /\ IF budget.turns >= MaxModelTurns
     THEN /\ stop' = SetStopReason("max_model_turns")
          /\ phase' = "RunEnd"
          /\ Loop
          /\ UNCHANGED <<budget, turnChoice>>
     ELSE /\ budget' = [budget EXCEPT !.turns = @ + 1]
          /\ turnChoice' = ResolveToolChoice
          /\ GoTo("modelCall")
          /\ UNCHANGED <<stop, phase>>
  /\ UNCHANGED <<err, closed, finished, base, turns>>
  /\ UNCHANGED extVars /\ Private

\* The request is prepared and the model called, without mu.
ModelCall ==
  /\ pc = "modelCall"
  /\ \/ (\E e \in Failures : FailWith(e)) /\ UNCHANGED stream
     \/ stream' = [NoStream EXCEPT !.owner = "reader"] /\ GoTo("attach")
  /\ UNCHANGED <<runVars, handle, batch, contents>> /\ Private

\* Mutant: the fresh stream is attached although Close has been called.
AttachStreamUnchecked ==
  /\ pc = "attach"
  /\ mu = "free"
  /\ stream' = [stream EXCEPT !.owner = "handle"]
  /\ phase' = "ModelStream"
  /\ Publish("model_start")
  /\ UNCHANGED <<err, closed, finished, stop, base, turnChoice, budget, turns>>
  /\ UNCHANGED <<handle, batch, contents>> /\ Private

\* Close may have come while the model was called: re-check before attaching.
AttachStream ==
  /\ pc = "attach"
  /\ mu = "free"
  /\ IF closed \/ CtxDone
     THEN /\ stream' = [stream EXCEPT !.owner = "none", !.closes = @ + 1]
          /\ FailWith(CtxErr)
          /\ UNCHANGED phase
     ELSE /\ stream' = [stream EXCEPT !.owner = "handle"]
          /\ phase' = "ModelStream"
          /\ Publish("model_start")
  /\ UNCHANGED <<err, closed, finished, stop, base, turnChoice, budget, turns>>
  /\ UNCHANGED <<handle, batch, contents>> /\ Private

\* consumeModelEvent takes the active stream under mu and pulls it without.
TakeStream ==
  /\ AtStep("ModelStream")
  /\ IF stream.owner = "handle" THEN GoTo("modelNext") ELSE FailWith("failed")
  /\ UNCHANGED <<runVars, extVars>> /\ Private

\* The stream yields an event, fails, or ends with a response.
ModelNext ==
  /\ pc = "modelNext"
  /\ \/ /\ stream.sent < MaxEvents /\ stream.closes = 0
        /\ stream' = [stream EXCEPT !.sent = @ + 1]
        /\ Publish("model_event")
     \/ /\ pc' = "detachFail" /\ pendingErr' \in Failures
        /\ UNCHANGED <<stream, event>>
     \/ /\ stream.closes = 0
        /\ GoTo("detachEnd")
        /\ UNCHANGED stream
  /\ UNCHANGED <<runVars, handle, batch, contents>> /\ Private

\* detachTurn under mu, then the caller closes the stream it was reading.
DetachAndClose ==
  /\ pc \in {"detachFail", "detachEnd"}
  /\ mu = "free"
  /\ stream' = [stream EXCEPT !.owner = "none", !.closes = @ + 1]
  /\ pc' = IF pc = "detachFail" THEN "failing" ELSE "record"
  /\ UNCHANGED <<event, pendingErr>>
  /\ UNCHANGED <<runVars, handle, batch, contents>> /\ Private

\* The response is checked, recorded and its usage observed.
RecordResponse ==
  /\ pc = "record"
  /\ mu = "free"
  /\ \/ FailWith("failed") /\ UNCHANGED <<budget, phase>>
     \/ /\ \E used \in Usages : budget' = ObserveTokens(budget, used)
        /\ phase' = "ModelEnd"
        /\ Loop
  /\ UNCHANGED <<err, closed, finished, stop, base, turnChoice, turns>>
  /\ UNCHANGED extVars /\ Private

EmitModelEnd ==
  /\ AtStep("ModelEnd")
  /\ phase' = "Decide"
  /\ Publish("model_end")
  /\ UNCHANGED <<err, closed, finished, stop, base, turnChoice, budget, turns>>
  /\ UNCHANGED extVars /\ Private

\* applyAfterModel: a final answer or a refusal completes the run.
Complete ==
  /\ AtStep("Decide")
  /\ ChoiceAllows(0)
  /\ turns' = Append(turns, [calls |-> 0, results |-> 0])
  /\ stop' = SetStopReason("completed")
  /\ phase' = "RunEnd"
  /\ Loop
  /\ UNCHANGED <<err, closed, finished, base, turnChoice, budget>>
  /\ UNCHANGED extVars /\ Private

\* applyAfterModel: the response, the choice or the admission is refused.
Refused ==
  /\ AtStep("Decide")
  /\ \E e \in Failures : FailWith(e)
  /\ UNCHANGED <<runVars, extVars>> /\ Private

\* applyAfterModel: tool calls, if the budgets allow them.
Admit(n) ==
  LET reason == StopBeforeTools(n) IN
  /\ AtStep("Decide")
  /\ ChoiceAllows(n)
  /\ IF reason # ""
     THEN /\ stop' = SetStopReason(reason)
          /\ phase' = "RunEnd"
          /\ Loop
          /\ UNCHANGED batch
     ELSE /\ batch' = [NoBatch EXCEPT !.n = n]
          /\ GoTo("startTools")
          /\ UNCHANGED <<stop, phase>>
  /\ UNCHANGED <<err, closed, finished, base, turnChoice, budget, turns>>
  /\ UNCHANGED <<stream, handle, contents>> /\ Private

\* startAdmittedTools: the batch is started without mu.
StartTools ==
  /\ pc = "startTools"
  /\ \/ FailWith("failed") /\ batch' = NoBatch
     \/ CtxDone /\ FailWith(CtxErr) /\ batch' = NoBatch
     \/ batch' = NewBatch(batch.n) /\ GoTo("attachBatch")
  /\ UNCHANGED <<runVars, stream, handle, contents>> /\ Private

AttachBatch ==
  /\ pc = "attachBatch"
  /\ mu = "free"
  /\ handle' = "set"
  /\ contents' = -1
  /\ phase' = "ToolDrain"
  /\ Loop
  /\ UNCHANGED <<err, closed, finished, stop, base, turnChoice, budget, turns>>
  /\ UNCHANGED <<stream, batch>> /\ Private

--------------------------------------------------------------------------------
(***************************************************************************)
(* drainToolBatch: four reads of s.batch.batch, none of them under mu.     *)
(***************************************************************************)

\* A read that is dereferenced: nil when Close has already run.
Deref(then) == IF handle = "set" THEN then ELSE GoTo("panicked")

\* The nil check (the phase was read under mu).
DrainCheck ==
  /\ AtStep("ToolDrain")
  /\ IF handle = "nil"
     THEN phase' = "AfterTools" /\ Loop
     ELSE GoTo("batchNext") /\ UNCHANGED phase
  /\ UNCHANGED <<err, closed, finished, stop, base, turnChoice, budget, turns>>
  /\ UNCHANGED extVars /\ Private

\* The second read; the first call of Batch.Next sets the batch going.
CallBatchNext ==
  /\ pc = "batchNext"
  /\ Deref(GoTo("pulling"))
  /\ batch' = IF handle = "set" THEN [batch EXCEPT !.run = TRUE] ELSE batch
  /\ UNCHANGED <<runVars, stream, handle, contents>> /\ Private

\* Batch.Next returns an event, or false when the channel is closed and empty.
BatchNext ==
  /\ pc = "pulling"
  /\ \/ /\ batch.sent < (IF batch.over THEN batch.fin ELSE batch.n)
        /\ batch' = [batch EXCEPT !.sent = @ + 1]
        /\ pc' = "batchEvent" /\ event' = "tool_start"
     \/ /\ batch.read < batch.fin /\ batch.read < batch.sent
        /\ batch' = [batch EXCEPT !.read = @ + 1]
        /\ pc' = "batchEvent" /\ event' = "tool_end"
     \/ /\ batch.failed
        /\ pc' = "batchEvent" /\ event' = "tool_failed"
        /\ UNCHANGED batch
     \/ /\ batch.over /\ ~ batch.failed /\ batch.read = batch.fin
        /\ pc' = "batchErr"
        /\ UNCHANGED <<batch, event>>
  /\ UNCHANGED <<runVars, stream, handle, contents, pendingErr>> /\ Private

\* Batch.Event, and what each kind of event leads to.
BatchEvent ==
  /\ pc = "batchEvent"
  /\ Deref(\/ event = "tool_start" /\ Publish("tool_start")
           \/ event = "tool_end" /\ Publish("tool_end")
           \/ /\ event \in {"tool_end", "tool_failed"}
              /\ pc' = "commitCheck"
              /\ pendingErr' \in (IF event = "tool_failed" THEN Failures ELSE {"failed"})
              /\ UNCHANGED event)
  /\ UNCHANGED <<runVars, extVars>> /\ Private

\* Batch.Err, after the last event.
BatchErr ==
  /\ pc = "batchErr"
  /\ Deref(IF batch.err # "none" THEN FailWith(batch.err) ELSE GoTo("drained"))
  /\ UNCHANGED <<runVars, extVars>> /\ Private

Drained ==
  /\ pc = "drained"
  /\ mu = "free"
  /\ phase' = "AfterTools"
  /\ Loop
  /\ UNCHANGED <<err, closed, finished, stop, base, turnChoice, budget, turns>>
  /\ UNCHANGED extVars /\ Private

--------------------------------------------------------------------------------
(***************************************************************************)
(* commitCompletedTools and finishToolBatch.  pendingErr tells whether the *)
(* caller is on its way to fail.                                           *)
(***************************************************************************)

AfterCommit == GoTo(IF pendingErr = "none" THEN "project" ELSE "failing")

FinishCheck ==
  /\ AtStep("AfterTools")
  /\ GoTo("commitCheck")
  /\ UNCHANGED <<runVars, extVars>> /\ Private

\* The first read: without a batch there is nothing to commit.
CommitCheck ==
  /\ pc = "commitCheck"
  /\ IF handle = "nil" THEN AfterCommit ELSE GoTo("commitResults")
  /\ UNCHANGED <<runVars, extVars>> /\ Private

\* The second read, Batch.Results; adapting an output may fail.
CommitResults ==
  /\ pc = "commitResults"
  /\ Deref(GoTo("collect") \/ FailWith("failed"))
  /\ UNCHANGED <<runVars, extVars>> /\ Private

\* What finished is collected, once.
Collect ==
  /\ pc = "collect"
  /\ mu = "free"
  /\ AfterCommit
  /\ contents' = IF contents = -1 THEN batch.fin ELSE contents
  /\ UNCHANGED <<runVars, stream, handle, batch>> /\ Private

\* Sizes and the next request are checked, without mu at the end.
Project ==
  /\ pc = "project"
  /\ mu = "free"
  /\ (\E e \in Failures : FailWith(e)) \/ GoTo("commitExchange")
  /\ UNCHANGED <<runVars, extVars>> /\ Private

Collected == IF contents = -1 THEN 0 ELSE contents

\* The exchange enters the transcript and the counters; a stalled run stops.
RecordExchange ==
  \E fp \in Fingerprints :
    LET counted == RecordStep([budget EXCEPT !.calls = @ + Collected], fp) IN
    /\ turns' = Append(turns, [calls |-> batch.n, results |-> Collected])
    /\ IF counted.same >= MaxIdenticalSteps
       THEN /\ budget' = counted
            /\ stop' = SetStopReason("stalled")
            /\ phase' = "RunEnd"
            /\ UNCHANGED <<handle, batch, contents>>
       ELSE /\ budget' = [counted EXCEPT !.batches = @ + 1]
            /\ phase' = "ModelStart"
            /\ CloseBatchHandle
            /\ contents' = -1
            /\ UNCHANGED stop
    /\ Loop

\* Mutant: neither the context nor the history is checked before the commit.
CommitExchangeUnchecked ==
  /\ pc = "commitExchange"
  /\ mu = "free"
  /\ RecordExchange
  /\ UNCHANGED <<err, closed, finished, base, turnChoice, stream>> /\ Private

\* conversation.commitExchange refuses a call without its result.
CommitExchange ==
  /\ pc = "commitExchange"
  /\ mu = "free"
  /\ IF CtxDone \/ Collected # batch.n
     THEN /\ FailWith(IF CtxDone THEN CtxErr ELSE "failed")
          /\ UNCHANGED <<budget, turns, stop, phase, handle, batch, contents>>
     ELSE RecordExchange
  /\ UNCHANGED <<err, closed, finished, base, turnChoice, stream>> /\ Private

RunEnd ==
  /\ AtStep("RunEnd")
  /\ phase' = "Done"
  /\ Publish("run_end")
  /\ UNCHANGED <<err, closed, finished, stop, base, turnChoice, budget, turns>>
  /\ UNCHANGED extVars /\ Private

\* Nothing is left: Next returns false.
Exhaust ==
  /\ AtStep("Done")
  /\ finished' = TRUE
  /\ GoTo("exhausted")
  /\ UNCHANGED <<phase, err, closed, stop, base, turnChoice, budget, turns>>
  /\ UNCHANGED extVars /\ Private

--------------------------------------------------------------------------------
(***************************************************************************)
(* Close, the caller's context, and the tool batch at work.                *)
(***************************************************************************)

CloseCall ==
  /\ closer = "idle"
  /\ closer' = "locking"
  /\ UNCHANGED <<runVars, extVars, ctx, mu, pc, event, pendingErr, delivered>>

\* Close with mu held, up to the wait for the batch.
BeginClose(c) ==
  /\ closer = "locking"
  /\ mu = "free"
  /\ closed' = TRUE
  /\ ctx' = c
  /\ stream' = CloseStream
  /\ mu' = "closer"
  /\ closer' = "closing"
  /\ UNCHANGED <<phase, err, finished, stop, base, turnChoice, budget, turns>>
  /\ UNCHANGED <<handle, batch, contents, pc, event, pendingErr, delivered>>

\* Mutant: Close does not cancel the run's context.
CloseLocksUncancelled == BeginClose(ctx)

CloseLocks == BeginClose(IF CtxDone THEN ctx ELSE "canceled")

\* What Close records: a run nothing else has decided is cancelled.
CloseReturn ==
  LET cancels == ~ finished /\ err = "none" /\ stop = "" IN
  /\ closer = "closing"
  /\ BatchClosable
  /\ CloseBatchHandle
  /\ err' = IF cancels THEN "canceled" ELSE err
  /\ stop' = IF cancels THEN SetStopReason("cancelled") ELSE stop
  /\ finished' = TRUE
  /\ mu' = "free"
  /\ closer' = "returned"
  /\ UNCHANGED <<phase, closed, base, turnChoice, budget, turns>>
  /\ UNCHANGED <<stream, contents, ctx, pc, event, pendingErr, delivered>>

ContextDone ==
  /\ ~ CtxDone
  /\ ctx' \in {"canceled", "deadline"}
  /\ UNCHANGED <<runVars, extVars, mu, pc, event, pendingErr, closer, delivered>>

(***************************************************************************)
(* The batch under way: a call finishes or fails; the batch ends when all  *)
(* its calls have finished, or when a failure, the context or Batch.Close  *)
(* cut the others short, or its tickets were refused.  See module Batch.   *)
(***************************************************************************)
BatchRunning == batch.run /\ ~ batch.over

BatchCall ==
  /\ BatchRunning
  /\ batch.fin < batch.n
  /\ \/ batch' = [batch EXCEPT !.fin = @ + 1]
     \/ ~ batch.failed /\ batch' = [batch EXCEPT !.failed = TRUE]
  /\ UNCHANGED <<runVars, stream, handle, contents, ctx, mu, pc, event, pendingErr>>
  /\ UNCHANGED <<closer, delivered>>

EndBatch(errs) == \E e \in errs : batch' = [batch EXCEPT !.over = TRUE, !.err = e]

BatchEnds ==
  /\ BatchRunning
  /\ \/ CtxDone /\ EndBatch({CtxErr})
     \/ ~ CtxDone /\ batch.failed /\ EndBatch(Failures)
     \/ ~ CtxDone /\ ~ batch.failed /\ batch.fin = batch.n /\ EndBatch({"none"})
     \/ ~ CtxDone /\ batch.fin = 0 /\ batch.sent = 0 /\ EndBatch({"failed"})
     \/ mu # "free" /\ EndBatch({"canceled"})
  /\ UNCHANGED <<runVars, stream, handle, contents, ctx, mu, pc, event, pendingErr>>
  /\ UNCHANGED <<closer, delivered>>

--------------------------------------------------------------------------------
RInit ==
  /\ phase = "RunStart" /\ err = "none" /\ closed = FALSE /\ finished = FALSE
  /\ stop = ""
  /\ base \in Choices
  /\ turnChoice = "auto"
  /\ budget = [turns |-> 0, calls |-> 0, batches |-> 0, tokens |-> 0, overflow |-> FALSE,
               same |-> 0, last |-> "none"]
  /\ turns = <<>>
  /\ stream = NoStream /\ handle = "nil" /\ batch = NoBatch /\ contents = -1
  /\ ctx = "live" /\ mu = "free"
  /\ pc = "idle" /\ event = "none" /\ pendingErr = "none"
  /\ closer = "idle"
  /\ delivered = [runEnds |-> 0, late |-> FALSE]

\* The calls that may take forever unless the context ends them.
ModelAnswers == ModelCall \/ ModelNext

ReaderSteps ==
  \/ NextCall \/ LoopCheck \/ PublishEvent \/ FailFirst \/ FailDone \/ FailJoined
  \/ RunStart \/ BeginModelTurn \/ AttachStream \/ TakeStream
  \/ DetachAndClose \/ RecordResponse \/ EmitModelEnd \/ Complete \/ Refused
  \/ (\E n \in BatchSizes : Admit(n)) \/ StartTools \/ AttachBatch
  \/ DrainCheck \/ CallBatchNext \/ BatchNext \/ BatchEvent \/ BatchErr \/ Drained
  \/ FinishCheck \/ CommitCheck \/ CommitResults \/ Collect \/ Project \/ CommitExchange
  \/ RunEnd \/ Exhaust

RNext ==
  \/ ReaderSteps \/ ModelAnswers
  \/ CloseCall \/ CloseLocks \/ CloseReturn
  \/ ContextDone \/ BatchCall \/ BatchEnds

RSpec == RInit /\ [][RNext]_rvars

(***************************************************************************)
(* The reader keeps pulling and Close runs to its end once called.  The    *)
(* model answers once its context is done, a batch ends once cut short or  *)
(* complete; neither is obliged to finish by itself, and nobody to call    *)
(* Close or to cancel.                                                     *)
(***************************************************************************)
RFairSpec ==
  /\ RSpec
  /\ WF_rvars(ReaderSteps) /\ WF_rvars(CtxDone /\ ModelAnswers)
  /\ WF_rvars(CloseLocks) /\ WF_rvars(CloseReturn) /\ WF_rvars(BatchEnds)

--------------------------------------------------------------------------------
(***************************************************************************)
(* Properties.                                                             *)
(***************************************************************************)

Exhausted == pc = "exhausted" /\ mu = "free"

\* Once Next has returned false the run has ended in one of three ways.  A
\* controlled stop: run_end was delivered and Err is nil, whether or not Close
\* came ("A concurrent Close cannot suppress the run_end of an already-decided
\* controlled stop", stream.go:17).  A failure or a cancellation: Err is set and
\* there is no run_end.  Or both, in one case only: Close recorded its
\* cancellation after the reader's last look at the context and before that step
\* ended the run, so a run_end that tells "cancelled" goes with that error.
\* stream.go:16 excludes the third way; see FailureHasNoRunEnd.
OutcomeReported ==
  Exhausted =>
    \/ stop \in Controlled /\ err = "none" /\ delivered.runEnds = 1
    \/ stop \in {"cancelled", "failed"} /\ err # "none" /\ delivered.runEnds = 0
    \/ stop = "cancelled" /\ err = "canceled" /\ delivered.runEnds = 1 /\ closed

\* After Close no event but run_end reaches the reader.
NothingAfterClose == ~ delivered.late

\* However Close, the context and the reader interleave, Err, run_end and the
\* stop reason of Result tell of one of those three ends, and nothing but a
\* run_end follows Close.
OutcomeSound == OutcomeReported /\ NothingAfterClose

\* An exchange enters the transcript with the result of every call, although
\* Close may take the batch away between any two reads of it.
ExchangesComplete ==
  \A i \in 1 .. Len(turns) : turns[i].calls = turns[i].results

\* A completed run ends in its only final answer: what Turn commits.
CompletedHasAnswer ==
  /\ stop = "completed" => turns # <<>> /\ turns[Len(turns)].calls = 0
  /\ \A i \in 1 .. Len(turns) - 1 : turns[i].calls > 0

\* The calls executed and the tokens observed stay within Limits, at the last
\* allowed call and where a sum would overflow.
BudgetsHold == budget.calls <= MaxToolCalls /\ budget.tokens <= MaxInt

\* What a run leaves for Turn to commit can be replayed to a model: every call
\* has its result and a completed run its answer, within the budgets.
TranscriptSound == ExchangesComplete /\ CompletedHasAnswer /\ BudgetsHold

\* No model stream stays open behind an exhausted run.
StreamsReleased == Exhausted => stream.owner = "none"

\* A reader that keeps pulling is not left waiting once the run is cancelled or
\* closed, although the model and the tools may then return only because of it.
CancelledRunEnds == CtxDone \/ closed ~> pc \in {"exhausted", "panicked"}

\* Close returns, although fail and Close itself hold mu while a batch ends.
RunCloseReturns == (closer = "locking") ~> (closer = "returned")

\* Neither side waits for the other for ever.
RunReturns == CancelledRunEnds /\ RunCloseReturns

(***************************************************************************)
(* What comments of the repository say of this code and it does not do.    *)
(***************************************************************************)

\* "Close is idempotent and may run concurrently with Next" (stream.go:19):
\* no read of the batch finds the nil that Close left.
NoNilBatch == pc # "panicked"

\* "failures expose Err without synthesizing run_end" (stream.go:16): the third
\* way of OutcomeReported does not happen.
FailureHasNoRunEnd == ~ (err # "none" /\ delivered.runEnds > 0)

\* "Callers that receive a Batch from Start must Close it" (core/tools/doc.go:17).
BatchesClosed == Exhausted /\ closer = "returned" => ~ batch.open
================================================================================
