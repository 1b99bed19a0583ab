---------------------------------- MODULE Turn ----------------------------------
(***************************************************************************)
(* One conversational turn (compose/turn.go): read the session, run the    *)
(* agent on it, append what the run added with a compare-and-set on the    *)
(* transcript's length.  The session layer is module Sessions, which       *)
(* SessionManager implements; the run is reduced to what module RunLoop    *)
(* shows of it to its reader.  A turn's suffix is one message, its name.   *)
(***************************************************************************)
EXTENDS Sessions, FiniteSets

CONSTANT Turns   \* the turns; each is also the message it commits

\* What stands for "no transcript".
Nothing == <<"nothing">>

ASSUME TurnsAssumption == Turns \subseteq Clients /\ Nothing \notin Seq(Clients)

VARIABLES
  tx,        \* turnTxn: the session and the history the turn read
  ctx,       \* the turns whose context is done
  inner,     \* the run: why it stopped, its error, whether Close was called
  next,      \* where the caller of Turn.Next (or Send) stands
  commit,    \* done, commitErr and committed of the turn
  applied,   \* history: the transcript each committed suffix was put behind
  reborn     \* history: turns whose session was deleted since they read it

turnVars == <<tx, ctx, inner, next, commit, applied, reborn>>

NoTx == [id |-> 0, read |-> <<>>, streamed |-> FALSE]
\* end says whether the reader has yet to see, sees or has seen run_end.
NoRun == [stop |-> "", err |-> "none", closed |-> TRUE, end |-> "ahead"]
NoCommit == [done |-> FALSE, err |-> "none", session |-> FALSE]

Pre(t) == Len(tx[t].read)

Advance(t, where) == next' = [next EXCEPT ![t] = where]

--------------------------------------------------------------------------------
(***************************************************************************)
(* TurnService.begin and the start of the run.                             *)
(***************************************************************************)

\* begin: Get, and the request projected from its snapshot.  Stream and Send
\* differ in who reads the run and in the context of the commit.
Begin(t, id, streamed) ==
  /\ next[t] = "new"
  /\ open
  /\ Exists(id)
  /\ tx' = [tx EXCEPT ![t] = [id |-> id, read |-> saved[id].msgs, streamed |-> streamed]]
  /\ inner' = [inner EXCEPT ![t].closed = FALSE]
  /\ Advance(t, "idle")
  /\ UNCHANGED <<svars, ctx, commit, applied, reborn>>

\* Get fails (no such session, store closed, cancelled) or the run is refused.
BeginFails(t) ==
  /\ next[t] = "new"
  /\ Advance(t, "over")
  /\ UNCHANGED <<svars, tx, ctx, inner, commit, applied, reborn>>

--------------------------------------------------------------------------------
(***************************************************************************)
(* The inner stream (external to this module: see RunLoop).                *)
(***************************************************************************)

\* The stream is exhausted: after run_end, or by a failure, a cancellation or Close.
Exhaust(t) ==
  LET e == IF ctx[t] \/ inner[t].closed THEN "canceled" ELSE "failed"
  IN /\ inner' = IF inner[t].end = "shown" THEN [inner EXCEPT ![t].end = "past"]
                 ELSE [inner EXCEPT ![t].err = IF inner[t].err = "none" THEN e ELSE inner[t].err,
                                    ![t].stop = IF inner[t].stop = "" THEN e ELSE inner[t].stop,
                                    ![t].end = "past"]
     /\ Advance(t, "finish")

\* Next looks at closed and at the context first.
CallNext(t) ==
  /\ next[t] \in {"idle", "ended"}
  /\ IF inner[t].closed \/ ctx[t] THEN Exhaust(t)
     ELSE Advance(t, "inside") /\ UNCHANGED inner
  /\ UNCHANGED <<svars, tx, ctx, commit, applied, reborn>>

\* An event other than run_end; Send discards them.
InnerEvent(t) ==
  /\ next[t] = "inside"
  /\ tx[t].streamed
  /\ inner[t].stop = "" /\ inner[t].err = "none" /\ ~ inner[t].closed
  /\ Advance(t, "event")
  /\ UNCHANGED <<svars, tx, ctx, inner, commit, applied, reborn>>

\* The run reaches its end and shows run_end, also when Close came meanwhile and
\* has set an error: the first stop reason wins.
InnerRunEnd(t) ==
  /\ next[t] = "inside"
  /\ inner[t].end = "ahead"
  /\ \E reason \in {"completed", "limited"} :
       inner' = [inner EXCEPT ![t].stop = IF inner[t].stop = "" THEN reason ELSE inner[t].stop,
                           ![t].end = "shown"]
  /\ Advance(t, "finish")
  /\ UNCHANGED <<svars, tx, ctx, commit, applied, reborn>>

InnerExhausted(t) ==
  /\ next[t] = "inside"
  /\ Exhaust(t)
  /\ UNCHANGED <<svars, tx, ctx, commit, applied, reborn>>

\* runStateMachine.Close, through Turn.Close: never commits.
InnerClose(t) ==
  inner' = [inner EXCEPT ![t] =
              IF ~ @.closed /\ @.err = "none" /\ @.stop = ""
              THEN [@ EXCEPT !.stop = "canceled", !.err = "canceled", !.closed = TRUE]
              ELSE [@ EXCEPT !.closed = TRUE]]

--------------------------------------------------------------------------------
(***************************************************************************)
(* finish: the commit decision, made once.                                 *)
(***************************************************************************)

\* Next returns: with run_end, or with the end of the stream.
NextReturns(t) == Advance(t, IF inner[t].end = "shown" THEN "ended" ELSE "over")

FinishAt(t, ends) ==
  /\ next[t] = "finish"
  /\ IF inner[t].end \in ends /\ ~ commit[t].done /\ inner[t].err = "none"
     THEN Advance(t, "deciding") ELSE NextReturns(t)
  /\ commit' = [commit EXCEPT ![t].done = @ \/ inner[t].end \in ends]
  /\ UNCHANGED <<svars, tx, ctx, inner, applied, reborn>>

\* Mutant: the decision is made only when the stream is exhausted.
FinishLate(t) == FinishAt(t, {"past"})

\* finish up to inner.Err(): a second call and a failed run commit nothing.
Finish(t) == FinishAt(t, {"shown", "past"})

\* streamCommitContext and suffixToCommit: only a completed run is committed,
\* under the caller's context while that is live.
DecideCommit(t) ==
  /\ next[t] = "deciding"
  /\ IF inner[t].stop # "completed" THEN NextReturns(t)
     ELSE Advance(t, IF tx[t].streamed /\ ctx[t] THEN "detached" ELSE "append")
  /\ UNCHANGED <<svars, tx, ctx, inner, commit, applied, reborn>>

Appending(t) == next[t] \in {"append", "detached"}

\* Mutant: AppendAt appends whatever the length is.
LengthAny(t) == TRUE

\* The comparison of AppendAt.
LengthMatches(t) == Len(saved[tx[t].id].msgs) = Pre(t)

\* AppendAt's write: saved, or published with an uncertain commit.
AppendApplies(t, result) ==
  /\ Appending(t)
  /\ open
  /\ Exists(tx[t].id)
  /\ LengthMatches(t)
  /\ Len(saved[tx[t].id].msgs) < MaxLen
  /\ \E now \in Times : AppendMessage(tx[t].id, t, now)
  /\ applied' = [applied EXCEPT ![t] = saved[tx[t].id].msgs]
  /\ commit' = [commit EXCEPT ![t].err = result, ![t].session = result = "none"]
  /\ NextReturns(t)
  /\ UNCHANGED <<open, tx, ctx, inner, reborn>>

CommitSucceeds(t) == AppendApplies(t, "none")

CommitUncertain(t) == AppendApplies(t, "uncertain")

\* Nothing is written: another length, no such session, a closed store, a
\* context that ended first, a refused or failed save.
CommitErrors(t) ==
  UNION {IF open /\ Exists(tx[t].id) /\ ~ LengthMatches(t) THEN {"conflict"} ELSE {},
         IF next[t] = "append" /\ ctx[t] THEN {"canceled"} ELSE {},
         {"failed", "uncertain"}}

CommitFails(t) ==
  /\ Appending(t)
  /\ \E e \in CommitErrors(t) : commit' = [commit EXCEPT ![t].err = e]
  /\ NextReturns(t)
  /\ UNCHANGED <<svars, tx, ctx, inner, applied, reborn>>

--------------------------------------------------------------------------------
\* Turn.Err: the run's error, otherwise the commit's.
TurnErr(t) == IF inner[t].err # "none" THEN inner[t].err ELSE commit[t].err

\* The context of the turn is cancelled by the caller.
Cancel(t) == ctx' = [ctx EXCEPT ![t] = TRUE]

\* A deletion, as the turns that read the session will not notice it.
DeleteSession(id) ==
  /\ open
  /\ Delete(id)
  /\ reborn' = [t \in Turns |-> reborn[t] \/ tx[t].id = id]

TurnSteps(t) ==
  \/ InnerEvent(t) \/ InnerRunEnd(t) \/ InnerExhausted(t)
  \/ Finish(t) \/ DecideCommit(t)
  \/ CommitSucceeds(t) \/ CommitUncertain(t) \/ CommitFails(t)

TurnInit ==
  /\ tx = [t \in Turns |-> NoTx]
  /\ ctx = [t \in Turns |-> FALSE]
  /\ inner = [t \in Turns |-> NoRun]
  /\ next = [t \in Turns |-> "new"]
  /\ commit = [t \in Turns |-> NoCommit]
  /\ applied = [t \in Turns |-> Nothing]
  /\ reborn = [t \in Turns |-> FALSE]
================================================================================
