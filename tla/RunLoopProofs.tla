----------------------------- MODULE RunLoopProofs -----------------------------
(***************************************************************************)
(* What an agent run guarantees its reader and the transcript it leaves:   *)
(* the inductive invariant of RunLoop and the theorems it yields, for any  *)
(* limits, responses and interleaving of the reader with Close.            *)
(***************************************************************************)
EXTENDS RunLoop, SequenceTheorems, TLAPS

Phases == {"RunStart", "ModelStart", "ModelStream", "ModelEnd", "Decide", "ToolDrain", "AfterTools",
           "RunEnd", "Done"}
Errs == {"none", "failed", "canceled"}
CommitPcs == {"commitCheck", "commitResults", "collect"}

BudgetType ==
  [turns : Nat, calls : Nat, batches : Nat, tokens : Nat, overflow : BOOLEAN, same : Nat,
   last : Fingerprints \cup {"none"}]

BatchType ==
  [n : Nat, fin : Nat, read : Nat, sent : Nat, failed : BOOLEAN, over : BOOLEAN, err : Errs,
   open : BOOLEAN, run : BOOLEAN]

Exchange == [calls : Nat, results : Nat]

\* The state of the run that the other parts speak of.
RTypeOK ==
  /\ phase \in Phases /\ err \in Errs /\ closed \in BOOLEAN /\ finished \in BOOLEAN
  /\ stop \in Controlled \cup {"", "cancelled", "failed"}
  /\ budget \in BudgetType
  /\ turns \in Seq(Exchange)
  /\ stream \in [owner : {"none", "reader", "handle"}, sent : Nat, closes : Nat]
  /\ batch \in BatchType
  /\ contents \in Nat \cup {-1}
  /\ ctx \in {"live", "canceled", "deadline"}
  /\ pendingErr \in Errs
  /\ delivered \in [runEnds : Nat, late : BOOLEAN]

\* Where in Next the reader can be in each phase; only Next changes the phase.
ControlInv ==
  /\ pc \in {"modelCall", "attach"} => phase = "ModelStart"
  /\ pc \in {"modelNext", "detachFail", "detachEnd", "record"} => phase = "ModelStream"
  /\ pc \in {"startTools", "attachBatch"} => phase = "Decide"
  /\ pc \in {"batchNext", "pulling", "batchEvent", "batchErr", "drained"} => phase = "ToolDrain"
  /\ pc \in CommitPcs => \/ phase = "AfterTools"
                         \/ phase = "ToolDrain" /\ pendingErr # "none"
  /\ pc \in {"project", "commitExchange"} => phase = "AfterTools"
  /\ pc = "publish" => phase # "RunEnd" /\ (event = "run_end" <=> phase = "Done")
  /\ pc \in {"detachFail", "failing"} => ~ Ready /\ pendingErr # "none"
  /\ pc = "failClosing" => err # "none" /\ mu = "reader"
  /\ err # "none" => \/ closed /\ err = "canceled" /\ stop = "cancelled"
                     \/ pc \in {"failClosing", "exhausted"} /\ ~ Ready

\* Close marks the run closed for as long as it holds mu, finished afterwards.
CloseInv ==
  /\ mu = "closer" <=> closer = "closing"
  /\ closed <=> closer \in {"closing", "returned"}
  /\ closer = "returned" => finished

\* A run has a stop reason exactly when it has failed or decided to end.
StopInv ==
  /\ err # "none" <=> stop \in {"cancelled", "failed"}
  /\ stop \in Controlled => Ready
  /\ Ready => stop # ""
  /\ finished => err # "none" \/ Ready

\* run_end is delivered once, from phase Done; the reader stops only with an
\* error or after it.
EndInv ==
  /\ delivered.runEnds = IF phase = "Done" /\ ~ (pc = "publish") THEN 1 ELSE 0
  /\ ~ delivered.late
  /\ pc = "exhausted" => err # "none" \/ phase = "Done"

\* The open model stream: with the reader until it is attached, then where
\* fail and Close find it.
StreamInv ==
  /\ stream.owner = "reader" <=> pc = "attach"
  /\ pc = "record" => stream.owner = "none"
  /\ stream.owner = "handle" => phase = "ModelStream" /\ ~ closed /\ err = "none"

\* A batch admitted and not yet recorded fits in what is left of MaxToolCalls.
Admitted == phase \in {"ToolDrain", "AfterTools"} \/ pc \in {"startTools", "attachBatch"}

BudgetInv ==
  /\ budget.calls <= MaxToolCalls
  /\ budget.tokens <= MaxInt
  /\ Admitted => batch.n > 0 /\ batch.n <= MaxToolCalls - budget.calls

\* Only the answer that ends the run has no calls.
TurnsInv ==
  /\ \A i \in 1 .. Len(turns) : turns[i].calls = turns[i].results
  /\ \A i \in 1 .. Len(turns) : i < Len(turns) \/ ~ Ready => turns[i].calls > 0
  /\ stop = "completed" => Len(turns) > 0 /\ turns[Len(turns)].calls = 0

RInv ==
  RTypeOK /\ ControlInv /\ CloseInv /\ StopInv /\ EndInv /\ StreamInv /\ BudgetInv /\ TurnsInv

--------------------------------------------------------------------------------
(***************************************************************************)
(* Types.                                                                  *)
(***************************************************************************)

\* Which steps change what, the reader's place in Next apart.
Frame ==
  /\ UNCHANGED budget \/ BeginModelTurn \/ RecordResponse \/ CommitExchange
  /\ UNCHANGED turns \/ Complete \/ CommitExchange
  /\ \/ UNCHANGED batch \/ FailDone \/ (\E n \in BatchSizes : Admit(n)) \/ StartTools
     \/ CallBatchNext \/ BatchNext \/ CommitExchange \/ CloseReturn \/ BatchCall \/ BatchEnds
  /\ \/ UNCHANGED stream \/ FailFirst \/ ModelCall \/ AttachStream \/ ModelNext
     \/ DetachAndClose \/ CloseLocks
  /\ UNCHANGED contents \/ AttachBatch \/ Collect \/ CommitExchange
  /\ UNCHANGED ctx \/ CloseLocks \/ ContextDone
  /\ UNCHANGED delivered \/ PublishEvent
  /\ UNCHANGED finished \/ PublishEvent \/ FailDone \/ Exhaust \/ CloseReturn
  /\ UNCHANGED <<mu, closer, closed>> \/ FailFirst \/ FailDone \/ CloseCall \/ CloseLocks \/ CloseReturn
  /\ UNCHANGED err \/ FailFirst \/ CloseReturn
  /\ \/ UNCHANGED stop \/ FailFirst \/ BeginModelTurn \/ Complete \/ (\E n \in BatchSizes : Admit(n))
     \/ CommitExchange \/ CloseReturn
  /\ \/ UNCHANGED phase \/ RunStart \/ BeginModelTurn \/ AttachStream \/ RecordResponse
     \/ EmitModelEnd \/ Complete \/ (\E n \in BatchSizes : Admit(n)) \/ AttachBatch \/ DrainCheck
     \/ Drained \/ CommitExchange \/ RunEnd

\* The frame of every step.
LEMMA FrameHolds == [RNext]_rvars => Frame
<1> SUFFICES ASSUME [RNext]_rvars
             PROVE  Frame
  OBVIOUS
<1>1. CASE NextCall
  BY <1>1 DEF NextCall, GoTo, Private, Frame, runVars, extVars
<1>2. CASE LoopCheck
  BY <1>2 DEF LoopCheck, GoTo, FailWith, CtxErr, Private, Frame, runVars, extVars
<1>3. CASE PublishEvent
  BY <1>3 DEF PublishEvent, Deliver, GoTo, Frame, runVars, extVars
<1>4. CASE FailFirst
  BY <1>4 DEF FailFirst, GoTo, SetStopReason, CloseStream, Frame, runVars, extVars
<1>5. CASE FailDone
  BY <1>5 DEF FailDone, GoTo, CloseBatchHandle, Frame, runVars, extVars
<1>6. CASE FailJoined
  BY <1>6 DEF FailJoined, GoTo, Private, Frame, runVars, extVars
<1>7. CASE RunStart
  BY <1>7 DEF RunStart, AtStep, Publish, Private, Frame, runVars, extVars
<1>8. CASE BeginModelTurn
  BY <1>8 DEF BeginModelTurn, AtStep, SetStopReason, Loop, GoTo, Private, Frame, runVars, extVars
<1>9. CASE ModelCall
  BY <1>9 DEF ModelCall, FailWith, Failures, NoStream, GoTo, Private, Frame, runVars, extVars
<1>10. CASE AttachStream
  BY <1>10 DEF AttachStream, FailWith, CtxErr, Publish, Private, Frame, runVars, extVars
<1>11. CASE TakeStream
  BY <1>11 DEF TakeStream, AtStep, GoTo, FailWith, Private, Frame, runVars, extVars
<1>12. CASE ModelNext
  BY <1>12 DEF ModelNext, Publish, GoTo, Failures, Private, Frame, runVars, extVars
<1>13. CASE DetachAndClose
  BY <1>13 DEF DetachAndClose, Private, Frame, runVars, extVars
<1>14. CASE RecordResponse
  BY <1>14 DEF RecordResponse, FailWith, ObserveTokens, Loop, Private, Frame, runVars, extVars
<1>15. CASE EmitModelEnd
  BY <1>15 DEF EmitModelEnd, AtStep, Publish, Private, Frame, runVars, extVars
<1>16. CASE Complete
  BY <1>16 DEF Complete, AtStep, SetStopReason, Loop, Private, Frame, runVars, extVars
<1>17. CASE Refused
  BY <1>17 DEF Refused, AtStep, FailWith, Failures, Private, Frame, runVars, extVars
<1>18. CASE \E n \in BatchSizes : Admit(n)
  BY <1>18 DEF Frame, Admit, runVars, extVars, Private
<1>19. CASE StartTools
  BY <1>19 DEF StartTools, FailWith, CtxErr, NoBatch, NewBatch, GoTo, Private, Frame, runVars,
     extVars
<1>20. CASE AttachBatch
  BY <1>20 DEF AttachBatch, Loop, Private, Frame, runVars, extVars
<1>21. CASE DrainCheck
  BY <1>21 DEF DrainCheck, AtStep, Loop, GoTo, Private, Frame, runVars, extVars
<1>22. CASE CallBatchNext
  BY <1>22 DEF CallBatchNext, Deref, GoTo, Private, Frame, runVars, extVars
<1>23. CASE BatchNext
  BY <1>23 DEF BatchNext, Private, Frame, runVars, extVars
<1>24. CASE BatchEvent
  BY <1>24 DEF BatchEvent, Deref, Publish, GoTo, Failures, Private, Frame, runVars, extVars
<1>25. CASE BatchErr
  BY <1>25 DEF BatchErr, Deref, FailWith, GoTo, Private, Frame, runVars, extVars
<1>26. CASE Drained
  BY <1>26 DEF Drained, Loop, Private, Frame, runVars, extVars
<1>27. CASE FinishCheck
  BY <1>27 DEF FinishCheck, AtStep, GoTo, Private, Frame, runVars, extVars
<1>28. CASE CommitCheck
  BY <1>28 DEF CommitCheck, AfterCommit, GoTo, Private, Frame, runVars, extVars
<1>29. CASE CommitResults
  BY <1>29 DEF CommitResults, Deref, GoTo, FailWith, Private, Frame, runVars, extVars
<1>30. CASE Collect
  BY <1>30 DEF Collect, AfterCommit, GoTo, Private, Frame, runVars, extVars
<1>31. CASE Project
  BY <1>31 DEF Project, FailWith, Failures, GoTo, Private, Frame, runVars, extVars
<1>32. CASE CommitExchange
  BY <1>32 DEF CommitExchange, FailWith, CtxErr, Collected, RecordExchange, RecordStep,
     SetStopReason, CloseBatchHandle, Loop, Private, Frame, runVars, extVars
<1>33. CASE RunEnd
  BY <1>33 DEF RunEnd, AtStep, Publish, Private, Frame, runVars, extVars
<1>34. CASE Exhaust
  BY <1>34 DEF Exhaust, AtStep, GoTo, Private, Frame, runVars, extVars
<1>35. CASE CloseCall
  BY <1>35 DEF CloseCall, Frame, runVars, extVars
<1>36. CASE CloseLocks
  BY <1>36 DEF CloseLocks, BeginClose, CloseStream, Frame, runVars, extVars
<1>37. CASE CloseReturn
  BY <1>37 DEF CloseReturn, CloseBatchHandle, SetStopReason, Frame, runVars, extVars
<1>38. CASE ContextDone
  BY <1>38 DEF ContextDone, Frame, runVars, extVars
<1>39. CASE BatchCall
  BY <1>39 DEF BatchCall, Frame, runVars, extVars
<1>40. CASE BatchEnds
  BY <1>40 DEF BatchEnds, EndBatch, CtxErr, Failures, Frame, runVars, extVars
<1>41. CASE UNCHANGED rvars
  BY <1>41 DEF rvars, runVars, extVars, Frame
<1> QED BY <1>1, <1>2, <1>3, <1>4, <1>5, <1>6, <1>7, <1>8, <1>9, <1>10, <1>11, <1>12, <1>13,
           <1>14, <1>15, <1>16, <1>17, <1>18, <1>19, <1>20, <1>21, <1>22, <1>23, <1>24, <1>25,
           <1>26, <1>27, <1>28, <1>29, <1>30, <1>31, <1>32, <1>33, <1>34, <1>35, <1>36, <1>37,
           <1>38, <1>39, <1>40, <1>41 DEF RNext, ReaderSteps, ModelAnswers

\* The types of the records.
LEMMA RecordTypes ==
  ASSUME RTypeOK, [RNext]_rvars
  PROVE  budget' \in BudgetType /\ batch' \in BatchType
<1> USE RunLoopAssumption
<1>1. budget \in BudgetType /\ batch \in BatchType /\ contents \in Nat \cup {-1}
  BY DEF RTypeOK
<1>2. Collected \in Nat
  BY <1>1 DEF Collected
<1>3. CASE BeginModelTurn
  BY <1>1, <1>3, FrameHolds DEF BeginModelTurn, BudgetType, extVars
<1>4. CASE RecordResponse
  <2>1. ASSUME NEW used \in Usages
        PROVE  ObserveTokens(budget, used) \in BudgetType
    <3>1. CASE budget.tokens > MaxInt - used
      <4>1. [budget EXCEPT !.tokens = MaxInt, !.overflow = TRUE] \in BudgetType
        BY <1>1 DEF BudgetType
      <4> QED BY <3>1, <4>1 DEF ObserveTokens
    <3>2. CASE ~ (budget.tokens > MaxInt - used)
      <4>1. used \in Nat
        BY <2>1
      <4>2. [budget EXCEPT !.tokens = @ + used] \in BudgetType
        BY <1>1, <4>1 DEF BudgetType
      <4> QED BY <3>2, <4>2 DEF ObserveTokens
    <3> QED BY <3>1, <3>2
  <2> QED BY <1>1, <1>4, <2>1 DEF RecordResponse, extVars
<1>5. CASE CommitExchange
  <2>1. ASSUME NEW fp \in Fingerprints
        PROVE  RecordStep([budget EXCEPT !.calls = @ + Collected], fp) \in BudgetType
    <3>1. [budget EXCEPT !.calls = @ + Collected] \in BudgetType
      BY <1>1, <1>2 DEF BudgetType
    <3>2. ASSUME NEW b \in BudgetType
          PROVE  RecordStep(b, fp) \in BudgetType
      <4>1. b.same + 1 \in Nat /\ 1 \in Nat
        BY <3>2 DEF BudgetType
      <4>2. \A k \in Nat : [b EXCEPT !.same = k, !.last = fp] \in BudgetType
        BY <2>1, <3>2 DEF BudgetType
      <4> QED BY <4>1, <4>2 DEF RecordStep
    <3> QED BY <3>1, <3>2
  <2>2. ASSUME NEW b \in BudgetType
        PROVE  [b EXCEPT !.batches = @ + 1] \in BudgetType
    BY <2>2 DEF BudgetType
  <2>3. budget' \in BudgetType
    BY <1>1, <1>5, <2>1, <2>2 DEF CommitExchange, RecordExchange
  <2>4. [batch EXCEPT !.open = FALSE, !.over = TRUE] \in BatchType
    BY <1>1 DEF BatchType
  <2> QED BY <1>1, <1>5, <2>3, <2>4 DEF CommitExchange, RecordExchange, CloseBatchHandle
<1>6. CASE FailDone \/ CloseReturn
  <2>1. [batch EXCEPT !.open = FALSE, !.over = TRUE] \in BatchType
    BY <1>1 DEF BatchType
  <2> QED BY <1>1, <1>6, <2>1 DEF FailDone, CloseReturn, CloseBatchHandle
<1>7. ASSUME NEW n \in BatchSizes
      PROVE  [NoBatch EXCEPT !.n = n] \in BatchType
  BY <1>7 DEF NoBatch, BatchType, Errs
<1>8. NoBatch \in BatchType /\ NewBatch(batch.n) \in BatchType
  BY <1>1 DEF NoBatch, NewBatch, BatchType, Errs
<1>9. CASE \E n \in BatchSizes : Admit(n)
  BY <1>1, <1>7, <1>9 DEF Admit
<1>10. CASE StartTools
  BY <1>1, <1>8, <1>10 DEF StartTools, runVars
<1>11. CASE CallBatchNext
  <2>1. [batch EXCEPT !.run = TRUE] \in BatchType
    BY <1>1 DEF BatchType
  <2> QED BY <1>1, <1>11, <2>1 DEF CallBatchNext, runVars
<1>12. CASE BatchNext
  <2>1. [batch EXCEPT !.sent = @ + 1] \in BatchType /\ [batch EXCEPT !.read = @ + 1] \in BatchType
    BY <1>1 DEF BatchType
  <2> QED BY <1>1, <1>12, <2>1 DEF BatchNext, runVars
<1>13. CASE BatchCall
  <2>1. [batch EXCEPT !.fin = @ + 1] \in BatchType
    BY <1>1 DEF BatchType
  <2>2. [batch EXCEPT !.failed = TRUE] \in BatchType
    BY <1>1 DEF BatchType
  <2> QED BY <1>1, <1>13, <2>1, <2>2 DEF BatchCall, runVars
<1>14. CASE BatchEnds
  <2>1. \A e \in Errs : [batch EXCEPT !.over = TRUE, !.err = e] \in BatchType
    BY <1>1 DEF BatchType
  <2>2. \E e \in Errs : batch' = [batch EXCEPT !.over = TRUE, !.err = e]
    BY <1>14 DEF BatchEnds, EndBatch, CtxErr, Failures, Errs
  <2> QED BY <1>1, <1>14, <2>1, <2>2 DEF BatchEnds, runVars
<1> QED BY <1>1, <1>3, <1>4, <1>5, <1>6, <1>9, <1>10, <1>11, <1>12, <1>13, <1>14, FrameHolds DEF Frame

\* The types of everything else.
LEMMA RTypeStep == RTypeOK /\ [RNext]_rvars => RTypeOK'
<1> USE RunLoopAssumption
<1> SUFFICES ASSUME RTypeOK, [RNext]_rvars
             PROVE  RTypeOK'
  OBVIOUS
<1>1. phase' \in Phases
  <2>1. phase' = phase \/ phase' \in Phases
    BY DEF RNext, ReaderSteps, ModelAnswers, rvars, runVars, Phases,
           NextCall, LoopCheck, PublishEvent, Deliver, FailFirst, FailDone, FailJoined, RunStart,
           BeginModelTurn, AttachStream, TakeStream, DetachAndClose, RecordResponse, EmitModelEnd,
           Complete, Refused, Admit, StartTools, AttachBatch, DrainCheck, CallBatchNext, BatchNext,
           BatchEvent, BatchErr, Drained, FinishCheck, CommitCheck, CommitResults, Collect, Project,
           CommitExchange, RecordExchange, RunEnd, Exhaust, ModelCall, ModelNext, CloseCall,
           CloseLocks, BeginClose, CloseReturn, ContextDone, BatchCall, BatchEnds
  <2> QED BY <2>1 DEF RTypeOK
<1>2. pendingErr' \in Errs
  <2>1. batch.err \in Errs
    BY DEF RTypeOK, BatchType
  <2>2. pendingErr' = pendingErr \/ pendingErr' \in Errs
    BY <2>1 DEF RNext, ReaderSteps, ModelAnswers, rvars, Errs, Failures, CtxErr, Private, Loop,
           GoTo, Publish, FailWith, Deref, AfterCommit,
           NextCall, LoopCheck, PublishEvent, Deliver, FailFirst, FailDone, FailJoined, RunStart,
           BeginModelTurn, AttachStream, TakeStream, DetachAndClose, RecordResponse, EmitModelEnd,
           Complete, Refused, Admit, StartTools, AttachBatch, DrainCheck, CallBatchNext, BatchNext,
           BatchEvent, BatchErr, Drained, FinishCheck, CommitCheck, CommitResults, Collect, Project,
           CommitExchange, RecordExchange, RunEnd, Exhaust, ModelCall, ModelNext, CloseCall,
           CloseLocks, BeginClose, CloseReturn, ContextDone, BatchCall, BatchEnds
  <2> QED BY <2>2 DEF RTypeOK
<1>3. err' \in Errs
  BY FrameHolds DEF Frame, RTypeOK, FailFirst, CloseReturn, Errs
<1>4. closed' \in BOOLEAN
  <2>1. closed' = closed \/ closed' = TRUE
    BY FrameHolds DEF Frame, FailFirst, FailDone, CloseCall, CloseLocks, BeginClose, CloseReturn, runVars
  <2> QED BY <2>1 DEF RTypeOK
<1>5. finished' \in BOOLEAN
  <2>1. finished' = finished \/ finished' = TRUE \/ finished' = (finished \/ phase = "Done")
    BY FrameHolds DEF Frame, PublishEvent, Deliver, FailDone, Exhaust, CloseReturn
  <2> QED BY <2>1 DEF RTypeOK
<1>6. stop' \in Controlled \cup {"", "cancelled", "failed"}
  BY FrameHolds DEF Frame, RTypeOK, FailFirst, BeginModelTurn, Complete, Admit, CommitExchange,
                    RecordExchange, CloseReturn, SetStopReason, StopBeforeTools, Controlled
<1>7. turns' \in Seq(Exchange)
  <2>1. turns \in Seq(Exchange)
    BY DEF RTypeOK
  <2>2. [calls |-> 0, results |-> 0] \in Exchange
    BY DEF Exchange
  <2>3. [calls |-> batch.n, results |-> Collected] \in Exchange
    BY DEF Exchange, Collected, RTypeOK, BatchType
  <2>4. \/ UNCHANGED turns
        \/ turns' = Append(turns, [calls |-> 0, results |-> 0])
        \/ turns' = Append(turns, [calls |-> batch.n, results |-> Collected])
    BY FrameHolds DEF Frame, Complete, CommitExchange, RecordExchange
  <2>5. \A x \in Exchange : Append(turns, x) \in Seq(Exchange)
    BY <2>1
  <2> QED BY <2>1, <2>2, <2>3, <2>4, <2>5
<1>8. stream' \in [owner : {"none", "reader", "handle"}, sent : Nat, closes : Nat]
  <2>1. stream \in [owner : {"none", "reader", "handle"}, sent : Nat, closes : Nat]
    BY DEF RTypeOK
  <2> DEFINE Streams == [owner : {"none", "reader", "handle"}, sent : Nat, closes : Nat]
  <2>2. [stream EXCEPT !.owner = "none", !.closes = @ + 1] \in Streams
    <3>1. stream.closes + 1 \in Nat
      BY <2>1
    <3> QED BY <2>1, <3>1
  <2>5. [stream EXCEPT !.owner = "handle"] \in Streams
    BY <2>1
  <2>6. [stream EXCEPT !.sent = @ + 1] \in Streams
    BY <2>1
  <2>4. [NoStream EXCEPT !.owner = "reader"] \in Streams
    BY DEF NoStream
  <2>3. \/ UNCHANGED stream
        \/ stream' = [stream EXCEPT !.owner = "none", !.closes = @ + 1]
        \/ stream' = [stream EXCEPT !.owner = "handle"]
        \/ stream' = [stream EXCEPT !.sent = @ + 1]
        \/ stream' = [NoStream EXCEPT !.owner = "reader"]
    BY FrameHolds DEF Frame, FailFirst, CloseStream, ModelCall, AttachStream, ModelNext,
                      DetachAndClose, CloseLocks, BeginClose
  <2> QED BY <2>1, <2>2, <2>3, <2>4, <2>5, <2>6
<1>9. contents' \in Nat \cup {-1}
  BY FrameHolds DEF Frame, RTypeOK, AttachBatch, Collect, CommitExchange, RecordExchange, BatchType
<1>10. ctx' \in {"live", "canceled", "deadline"}
  BY FrameHolds DEF Frame, RTypeOK, CloseLocks, BeginClose, ContextDone
<1>11. delivered' \in [runEnds : Nat, late : BOOLEAN]
  <2>1. delivered \in [runEnds : Nat, late : BOOLEAN]
    BY DEF RTypeOK
  <2>2. [delivered EXCEPT !.runEnds = @ + 1] \in [runEnds : Nat, late : BOOLEAN]
    BY <2>1
  <2>4. \A b \in BOOLEAN : [delivered EXCEPT !.late = b] \in [runEnds : Nat, late : BOOLEAN]
    BY <2>1
  <2>5. (delivered.late \/ closed) \in BOOLEAN
    OBVIOUS
  <2>3. \/ UNCHANGED delivered
        \/ delivered' = [delivered EXCEPT !.runEnds = @ + 1]
        \/ delivered' = [delivered EXCEPT !.late = @ \/ closed]
    BY FrameHolds DEF Frame, PublishEvent, Deliver
  <2> QED BY <2>1, <2>2, <2>3, <2>4, <2>5
<1> QED BY <1>1, <1>2, <1>3, <1>4, <1>5, <1>6, <1>7, <1>8, <1>9, <1>10, <1>11, RecordTypes DEF RTypeOK

--------------------------------------------------------------------------------
(***************************************************************************)
(* The parts of the invariant.                                             *)
(***************************************************************************)

\* The parts that speak of the reader's place in Next.
ReaderInv == ControlInv /\ EndInv /\ StreamInv

\* Every step keeps them, the delivery of an event apart.
LEMMA ReaderStep == RInv /\ [RNext]_rvars /\ ~ PublishEvent => ReaderInv'
<1> SUFFICES ASSUME RInv, [RNext]_rvars, ~ PublishEvent
             PROVE  ReaderInv'
  OBVIOUS
<1> USE DEF RInv, ReaderInv, ControlInv, EndInv, StreamInv, CommitPcs, Ready, runVars, extVars
<1>1. CASE NextCall
  BY <1>1 DEF NextCall, GoTo, Private, CloseInv, StopInv, RTypeOK
<1>2. CASE LoopCheck
  BY <1>2 DEF LoopCheck, GoTo, FailWith, CtxErr, Private, RTypeOK
<1>3. CASE FailFirst
  BY <1>3 DEF FailFirst, GoTo, SetStopReason, CloseStream, CloseInv, StopInv, RTypeOK
<1>4. CASE FailDone
  BY <1>4 DEF FailDone, GoTo, CloseBatchHandle, RTypeOK
<1>5. CASE FailJoined
  BY <1>5 DEF FailJoined, GoTo, Private, RTypeOK
<1>6. CASE RunStart
  BY <1>6 DEF RunStart, AtStep, Publish, Private, RTypeOK
<1>7. CASE BeginModelTurn
  BY <1>7 DEF BeginModelTurn, AtStep, SetStopReason, Loop, GoTo, Private, RTypeOK
<1>8. CASE ModelCall
  BY <1>8 DEF ModelCall, FailWith, Failures, NoStream, GoTo, Private, RTypeOK
<1>9. CASE AttachStream
  BY <1>9 DEF AttachStream, FailWith, CtxErr, Publish, Private, CloseInv, StopInv, RTypeOK
<1>10. CASE TakeStream
  BY <1>10 DEF TakeStream, AtStep, GoTo, FailWith, Private, RTypeOK
<1>11. CASE ModelNext
  BY <1>11 DEF ModelNext, Publish, GoTo, Failures, Private, RTypeOK
<1>12. CASE DetachAndClose
  BY <1>12 DEF DetachAndClose, Private, RTypeOK
<1>13. CASE RecordResponse
  BY <1>13 DEF RecordResponse, FailWith, ObserveTokens, Loop, Private, RTypeOK
<1>14. CASE EmitModelEnd
  BY <1>14 DEF EmitModelEnd, AtStep, Publish, Private, RTypeOK
<1>15. CASE Complete
  BY <1>15 DEF Complete, AtStep, SetStopReason, Loop, Private, RTypeOK
<1>16. CASE Refused
  BY <1>16 DEF Refused, AtStep, FailWith, Failures, Private, RTypeOK
<1>17. ASSUME NEW n \in BatchSizes, Admit(n)
        PROVE  ReaderInv'
  BY <1>17 DEF Admit, AtStep, SetStopReason, StopBeforeTools, Loop, GoTo, NoBatch, Private,
      RTypeOK
<1>18. CASE StartTools
  BY <1>18 DEF StartTools, FailWith, CtxErr, NoBatch, NewBatch, GoTo, Private, RTypeOK
<1>19. CASE AttachBatch
  BY <1>19 DEF AttachBatch, Loop, Private, RTypeOK
<1>20. CASE DrainCheck
  BY <1>20 DEF DrainCheck, AtStep, Loop, GoTo, Private, RTypeOK
<1>21. CASE CallBatchNext
  BY <1>21 DEF CallBatchNext, Deref, GoTo, Private, RTypeOK
<1>22. CASE BatchNext
  BY <1>22 DEF BatchNext, Private, RTypeOK
<1>23. CASE BatchEvent
  BY <1>23 DEF BatchEvent, Deref, Publish, GoTo, Failures, Private, RTypeOK
<1>24. CASE BatchErr
  BY <1>24 DEF BatchErr, Deref, FailWith, GoTo, Private, RTypeOK
<1>25. CASE Drained
  BY <1>25 DEF Drained, Loop, Private, RTypeOK
<1>26. CASE FinishCheck
  BY <1>26 DEF FinishCheck, AtStep, GoTo, Private, RTypeOK
<1>27. CASE CommitCheck
  BY <1>27 DEF CommitCheck, AfterCommit, GoTo, Private, RTypeOK
<1>28. CASE CommitResults
  BY <1>28 DEF CommitResults, Deref, GoTo, FailWith, Private, RTypeOK
<1>29. CASE Collect
  BY <1>29 DEF Collect, AfterCommit, GoTo, Private, RTypeOK
<1>30. CASE Project
  BY <1>30 DEF Project, FailWith, Failures, GoTo, Private, RTypeOK
<1>31. CASE CommitExchange
  BY <1>31 DEF CommitExchange, FailWith, CtxErr, Collected, RecordExchange, RecordStep,
      SetStopReason, CloseBatchHandle, Loop, Private, RTypeOK
<1>32. CASE RunEnd
  BY <1>32 DEF RunEnd, AtStep, Publish, Private, RTypeOK
<1>33. CASE Exhaust
  BY <1>33 DEF Exhaust, AtStep, GoTo, Private, RTypeOK
<1>34. CASE CloseCall
  BY <1>34 DEF CloseCall, RTypeOK
<1>35. CASE CloseLocks
  BY <1>35 DEF CloseLocks, BeginClose, CloseStream, CloseInv, StopInv, RTypeOK
<1>36. CASE CloseReturn
  BY <1>36 DEF CloseReturn, CloseBatchHandle, SetStopReason, CloseInv, StopInv, RTypeOK
<1>37. CASE ContextDone
  BY <1>37 DEF ContextDone, RTypeOK
<1>38. CASE BatchCall
  BY <1>38 DEF BatchCall, RTypeOK
<1>39. CASE BatchEnds
  BY <1>39 DEF BatchEnds, EndBatch, CtxErr, Failures, RTypeOK
<1>40. CASE UNCHANGED rvars
  BY <1>40 DEF rvars
<1> QED BY <1>1, <1>2, <1>3, <1>4, <1>5, <1>6, <1>7, <1>8, <1>9, <1>10, <1>11, <1>12, <1>13,
           <1>14, <1>15, <1>16, <1>17, <1>18, <1>19, <1>20, <1>21, <1>22, <1>23, <1>24, <1>25,
           <1>26, <1>27, <1>28, <1>29, <1>30, <1>31, <1>32, <1>33, <1>34, <1>35, <1>36, <1>37,
           <1>38, <1>39, <1>40 DEF RNext, ReaderSteps, ModelAnswers

\* Deliver: run_end is counted once, and no other event follows Close.
LEMMA PublishStep == RInv /\ PublishEvent => ReaderInv'
<1> SUFFICES ASSUME RInv, PublishEvent
             PROVE  ReaderInv'
  OBVIOUS
<1>1. pc = "publish" /\ mu = "free" /\ UNCHANGED <<phase, err, closed, stop, stream, mu>>
  BY DEF PublishEvent, Deliver, extVars
<1>2. RTypeOK /\ ControlInv /\ CloseInv /\ StopInv /\ EndInv /\ StreamInv
  BY DEF RInv
<1>3. phase # "RunEnd" /\ (event = "run_end" <=> phase = "Done")
  BY <1>1, <1>2 DEF ControlInv
<1>4. delivered.runEnds = 0 /\ ~ delivered.late
  BY <1>1, <1>2 DEF EndInv
<1>9. delivered \in [runEnds : Nat, late : BOOLEAN]
  BY <1>2 DEF RTypeOK
<1>5. closed => err # "none" \/ phase = "Done"
  BY <1>1, <1>2, <1>3 DEF CloseInv, StopInv, Ready
<1>6. CASE closed /\ event # "run_end"
  <2>1. pc' = "exhausted" /\ UNCHANGED delivered
    BY <1>6 DEF PublishEvent, Deliver, GoTo
  <2> QED BY <1>1, <1>2, <1>3, <1>4, <1>5, <1>6, <2>1
          DEF ReaderInv, ControlInv, EndInv, StreamInv, CommitPcs, Ready
<1>7. CASE event = "run_end"
  <2>1. pc' = "idle" /\ delivered' = [delivered EXCEPT !.runEnds = @ + 1]
    BY <1>7 DEF PublishEvent, Deliver, GoTo
  <2>2. delivered'.runEnds = 1
    BY <1>4, <1>9, <2>1
  <2>3. ~ delivered'.late
    BY <1>4, <1>9, <2>1
  <2> QED BY <1>1, <1>2, <1>3, <1>7, <2>1, <2>2, <2>3
          DEF ReaderInv, ControlInv, EndInv, StreamInv, CommitPcs, Ready
<1>8. CASE event # "run_end" /\ ~ closed
  <2>1. pc' = "idle" /\ delivered' = [delivered EXCEPT !.late = @ \/ closed]
    BY <1>8 DEF PublishEvent, Deliver, GoTo
  <2>2. delivered'.runEnds = 0
    BY <1>4, <1>9, <2>1
  <2>3. ~ delivered'.late
    BY <1>4, <1>8, <1>9, <2>1
  <2> QED BY <1>1, <1>2, <1>3, <1>8, <2>1, <2>2, <2>3
          DEF ReaderInv, ControlInv, EndInv, StreamInv, CommitPcs, Ready
<1> QED BY <1>6, <1>7, <1>8

\* Only Close and the end of fail touch what CloseInv is about.
LEMMA CloseStep == RInv /\ [RNext]_rvars => CloseInv'
<1> SUFFICES ASSUME RInv, [RNext]_rvars
             PROVE  CloseInv'
  OBVIOUS
<1> USE DEF RInv, CloseInv
<1>1. CASE FailFirst
  BY <1>1 DEF FailFirst, RTypeOK
<1>2. CASE FailDone
  BY <1>2 DEF FailDone, ControlInv, RTypeOK
<1>3. CASE CloseCall
  BY <1>3 DEF CloseCall, runVars
<1>4. CASE CloseLocks
  BY <1>4 DEF CloseLocks, BeginClose
<1>5. CASE CloseReturn
  BY <1>5 DEF CloseReturn
<1>6. CASE UNCHANGED <<mu, closer, closed>>
  <2>1. finished => finished'
    BY FrameHolds DEF Frame, PublishEvent, Deliver, FailDone, Exhaust, CloseReturn
  <2> QED BY <1>6, <2>1
<1> QED BY <1>1, <1>2, <1>3, <1>4, <1>5, <1>6, FrameHolds DEF Frame

\* A policy stop is decided while the run is open, and ends it.
LEMMA StopStep == RInv /\ [RNext]_rvars => StopInv'
<1> SUFFICES ASSUME RInv, [RNext]_rvars
             PROVE  StopInv'
  OBVIOUS
<1>0. /\ stop \in Controlled \cup {"", "cancelled", "failed"} /\ pendingErr \in Errs
      /\ StopInv /\ ControlInv /\ CloseInv
  BY DEF RInv, RTypeOK
<1> USE <1>0 DEF StopInv, Ready, Controlled, Errs, ControlInv
<1>1. CASE FailFirst
  BY <1>1 DEF FailFirst, SetStopReason
<1>2. CASE BeginModelTurn
  BY <1>2 DEF BeginModelTurn, AtStep, SetStopReason
<1>3. CASE Complete
  BY <1>3 DEF Complete, AtStep, SetStopReason
<1>4. ASSUME NEW n \in BatchSizes, Admit(n)
      PROVE  StopInv'
  <2>1. StopBeforeTools(n) \in Controlled \cup {""}
    BY DEF StopBeforeTools
  <2> QED BY <1>4, <2>1 DEF Admit, AtStep, SetStopReason
<1>5. CASE CommitExchange
  BY <1>5 DEF CommitExchange, RecordExchange, SetStopReason
<1>6. CASE CloseReturn
  BY <1>6 DEF CloseReturn, SetStopReason
<1>7. CASE PublishEvent
  BY <1>7 DEF PublishEvent, Deliver
<1>8. CASE FailDone
  BY <1>8 DEF FailDone
<1>9. CASE Exhaust
  BY <1>9 DEF Exhaust, AtStep
<1>10. CASE RunStart
  BY <1>10 DEF RunStart, AtStep
<1>16. CASE EmitModelEnd
  BY <1>16 DEF EmitModelEnd, AtStep
<1>17. CASE RunEnd
  BY <1>17 DEF RunEnd, AtStep
<1>11. CASE AttachStream
  BY <1>11 DEF AttachStream
<1>12. CASE RecordResponse
  BY <1>12 DEF RecordResponse
<1>13. CASE AttachBatch
  BY <1>13 DEF AttachBatch
<1>18. CASE Drained
  BY <1>18 DEF Drained
<1>14. CASE DrainCheck
  BY <1>14 DEF DrainCheck, AtStep
<1>15. CASE UNCHANGED <<err, stop, phase, finished>>
  BY <1>15
<1> QED BY <1>1, <1>2, <1>3, <1>4, <1>5, <1>6, <1>7, <1>8, <1>9, <1>10, <1>11, <1>12, <1>13, <1>14,
           <1>15, <1>16, <1>17, <1>18, FrameHolds DEF Frame

\* stopBeforeTools and the commit that counts the calls use the same budget.
LEMMA BudgetStep == RInv /\ [RNext]_rvars => BudgetInv'
<1> SUFFICES ASSUME RInv, [RNext]_rvars
             PROVE  BudgetInv'
  OBVIOUS
<1> USE RunLoopAssumption
<1>0. /\ budget \in BudgetType /\ batch \in BatchType /\ BudgetInv /\ ControlInv
      /\ MaxToolCalls \in Nat /\ MaxInt \in Nat
  BY DEF RInv, RTypeOK
<1>1. CASE BeginModelTurn
  <2>1. UNCHANGED batch /\ budget'.calls = budget.calls /\ budget'.tokens = budget.tokens
    BY <1>0, <1>1 DEF BeginModelTurn, BudgetType, extVars
  <2>2. ~ Admitted'
    BY <1>1 DEF BeginModelTurn, AtStep, Loop, GoTo, Admitted
  <2> QED BY <1>0, <2>1, <2>2 DEF BudgetInv
<1>2. CASE RecordResponse
  <2>1. ~ Admitted'
    BY <1>0, <1>2 DEF RecordResponse, FailWith, Loop, Admitted, ControlInv
  <2>2. budget'.calls = budget.calls /\ budget'.tokens <= MaxInt
    <3>1. CASE UNCHANGED budget
      BY <1>0, <3>1 DEF BudgetInv
    <3>2. ASSUME NEW used \in Usages, budget' = ObserveTokens(budget, used)
          PROVE  budget'.calls = budget.calls /\ budget'.tokens <= MaxInt
      BY <1>0, <3>2 DEF ObserveTokens, BudgetType
    <3> QED BY <1>2, <3>1, <3>2 DEF RecordResponse
  <2> QED BY <1>0, <2>1, <2>2 DEF BudgetInv
<1>3. CASE CommitExchange
  <2>1. CASE UNCHANGED <<budget, phase, batch>> /\ pc' = "failing"
    BY <1>0, <1>3, <2>1 DEF BudgetInv, Admitted, CommitExchange, ControlInv
  <2>2. CASE RecordExchange /\ Collected = batch.n
    <3>1. Admitted
      BY <1>0, <1>3 DEF CommitExchange, ControlInv, Admitted
    <3>2. ~ Admitted'
      BY <1>0, <2>2 DEF RecordExchange, Loop, Admitted
    <3> DEFINE counted(fp) == RecordStep([budget EXCEPT !.calls = @ + Collected], fp)
    <3>3. ASSUME NEW fp
          PROVE  /\ counted(fp).calls = budget.calls + batch.n
                 /\ counted(fp).tokens = budget.tokens
                 /\ [counted(fp) EXCEPT !.batches = @ + 1].calls = counted(fp).calls
                 /\ [counted(fp) EXCEPT !.batches = @ + 1].tokens = counted(fp).tokens
      BY <1>0, <2>2 DEF RecordStep, BudgetType
    <3>6. \E fp \in Fingerprints :
            budget' = counted(fp) \/ budget' = [counted(fp) EXCEPT !.batches = @ + 1]
      BY <2>2 DEF RecordExchange
    <3> HIDE DEF counted
    <3>4. budget'.calls = budget.calls + batch.n /\ budget'.tokens = budget.tokens
      BY <3>3, <3>6
    <3>5. budget.calls + batch.n <= MaxToolCalls
      BY <1>0, <3>1 DEF BudgetInv, BudgetType, BatchType
    <3> QED BY <1>0, <3>2, <3>4, <3>5 DEF BudgetInv
  <2> QED BY <1>3, <2>1, <2>2 DEF CommitExchange, FailWith
<1>4. ASSUME NEW n \in BatchSizes, Admit(n)
      PROVE  BudgetInv'
  <2>1. UNCHANGED budget
    BY <1>4 DEF Admit
  <2>2. CASE StopBeforeTools(n) # ""
    <3>1. ~ Admitted'
      BY <1>4, <2>2 DEF Admit, Loop, Admitted
    <3> QED BY <1>0, <2>1, <3>1 DEF BudgetInv
  <2>3. CASE StopBeforeTools(n) = ""
    <3>1. batch'.n = n
      BY <1>4, <2>3 DEF Admit, NoBatch
    <3>2. ~ (n > MaxToolCalls - budget.calls)
      BY <2>3 DEF StopBeforeTools
    <3>3. n \in Nat /\ n > 0 /\ budget.calls \in Nat
      BY <1>0 DEF BudgetType
    <3> QED BY <1>0, <2>1, <3>1, <3>2, <3>3 DEF BudgetInv
  <2> QED BY <2>2, <2>3
<1>5. CASE StartTools
  <2>1. UNCHANGED <<budget, phase>> /\ pc = "startTools" /\ phase = "Decide"
    BY <1>0, <1>5 DEF StartTools, ControlInv, runVars
  <2>2. \/ pc' = "failing"
        \/ pc' = "attachBatch" /\ batch' = NewBatch(batch.n)
    BY <1>5 DEF StartTools, FailWith, GoTo
  <2>3. NewBatch(batch.n).n = batch.n
    BY <1>0 DEF NewBatch, NoBatch, BatchType
  <2> QED BY <1>0, <2>1, <2>2, <2>3 DEF BudgetInv, Admitted
\* The other steps leave the size of the batch and the budget alone.
<1>6. ASSUME UNCHANGED budget, batch'.n = batch.n, Admitted' => Admitted
      PROVE  BudgetInv'
  BY <1>0, <1>6 DEF BudgetInv
<1>7. CASE UNCHANGED batch \/ FailDone \/ CallBatchNext \/ BatchNext \/ CloseReturn \/ BatchCall
           \/ BatchEnds
  <2>1. batch'.n = batch.n
    BY <1>0, <1>7 DEF FailDone, CallBatchNext, BatchNext, CloseReturn, BatchCall, BatchEnds, EndBatch,
                      CloseBatchHandle, BatchType
  <2>2. ASSUME ~ BeginModelTurn, ~ RecordResponse, ~ CommitExchange, ~ StartTools,
               ~ \E n \in BatchSizes : Admit(n)
        PROVE  Admitted' => Admitted
    <3>1. UNCHANGED phase \/ ~ Admitted' \/ AttachBatch \/ DrainCheck \/ Drained
      BY <2>2, FrameHolds DEF Frame, RunStart, AttachStream, EmitModelEnd, Complete, RunEnd, FailWith,
                              Publish, Loop, Admitted
    <3>2. AttachBatch \/ DrainCheck \/ Drained => Admitted
      BY <1>0 DEF AttachBatch, DrainCheck, Drained, AtStep, ControlInv, Admitted
    <3>3. pc' \in {"startTools", "attachBatch"} => UNCHANGED pc
      BY <2>2 DEF RNext, ReaderSteps, ModelAnswers, rvars, Private, Loop,
           GoTo, Publish, FailWith, Deref, AfterCommit,
           NextCall, LoopCheck, PublishEvent, Deliver, FailFirst, FailDone, FailJoined, RunStart,
           BeginModelTurn, AttachStream, TakeStream, DetachAndClose, RecordResponse, EmitModelEnd,
           Complete, Refused, Admit, StartTools, AttachBatch, DrainCheck, CallBatchNext, BatchNext,
           BatchEvent, BatchErr, Drained, FinishCheck, CommitCheck, CommitResults, Collect, Project,
           CommitExchange, RecordExchange, RunEnd, Exhaust, ModelCall, ModelNext, CloseCall,
           CloseLocks, BeginClose, CloseReturn, ContextDone, BatchCall, BatchEnds
    <3> QED BY <3>1, <3>2, <3>3 DEF Admitted
  <2>3. UNCHANGED budget \/ BeginModelTurn \/ RecordResponse \/ CommitExchange
    BY FrameHolds DEF Frame
  <2> QED BY <1>1, <1>2, <1>3, <1>4, <1>5, <1>6, <2>1, <2>2, <2>3
<1> QED BY <1>3, <1>4, <1>5, <1>7, FrameHolds DEF Frame

\* commitExchange appends an exchange with all its results while the run is
\* open, applyAfterModel the final answer that ends it.
LEMMA TurnsStep == RInv /\ [RNext]_rvars => TurnsInv'
<1> SUFFICES ASSUME RInv, [RNext]_rvars
             PROVE  TurnsInv'
  OBVIOUS
<1>0. /\ RTypeOK /\ turns \in Seq(Exchange) /\ Len(turns) \in Nat
      /\ ControlInv /\ StopInv /\ TurnsInv /\ BudgetInv
  <2>1. turns \in Seq(Exchange)
    BY DEF RInv, RTypeOK
  <2> QED BY <2>1, LenProperties DEF RInv
<1>1. ASSUME NEW e \in Exchange, turns' = Append(turns, e), ~ Ready, e.calls = e.results,
             e.calls > 0 \/ Ready',
             stop' = "completed" => stop = "completed" \/ e.calls = 0
      PROVE  TurnsInv'
  <2>1. /\ Len(turns') = Len(turns) + 1
        /\ \A i \in 1 .. Len(turns) : turns'[i] = turns[i]
        /\ turns'[Len(turns) + 1] = e
    BY <1>0, <1>1
  <2>2. \A i \in 1 .. Len(turns') : i = Len(turns) + 1 \/ i \in 1 .. Len(turns)
    BY <1>0, <2>1
  <2>3. stop # "completed"
    BY <1>0, <1>1 DEF StopInv, Controlled
  <2>4. \A i \in 1 .. Len(turns') : turns'[i].calls = turns'[i].results
    BY <1>0, <1>1, <2>1, <2>2 DEF TurnsInv
  <2>5. \A i \in 1 .. Len(turns') : i < Len(turns') \/ ~ Ready' => turns'[i].calls > 0
    BY <1>0, <1>1, <2>1, <2>2 DEF TurnsInv
  <2>6. stop' = "completed" => Len(turns') > 0 /\ turns'[Len(turns')].calls = 0
    BY <1>0, <1>1, <2>1, <2>3
  <2> QED BY <2>4, <2>5, <2>6 DEF TurnsInv
<1>2. CASE Complete
  <2>1. turns' = Append(turns, [calls |-> 0, results |-> 0]) /\ ~ Ready /\ Ready'
    BY <1>2 DEF Complete, AtStep, Ready
  <2>2. [calls |-> 0, results |-> 0] \in Exchange
    BY DEF Exchange
  <2> QED BY <1>1, <2>1, <2>2
<1>3. CASE CommitExchange
  <2>1. CASE UNCHANGED <<turns, stop, phase>>
    BY <1>0, <2>1 DEF TurnsInv, Ready
  <2>2. CASE RecordExchange /\ Collected = batch.n
    <3>1. turns' = Append(turns, [calls |-> batch.n, results |-> Collected])
      BY <2>2 DEF RecordExchange
    <3>2. batch.n \in Nat /\ batch.n > 0 /\ ~ Ready
      BY <1>0, <1>3 DEF CommitExchange, ControlInv, BudgetInv, Admitted, Ready, RTypeOK, BatchType
    <3>3. stop' = stop \/ stop' = "stalled"
      BY <2>2 DEF RecordExchange, SetStopReason
    <3>4. [calls |-> batch.n, results |-> Collected] \in Exchange
      BY <2>2, <3>2 DEF Exchange
    <3> QED BY <1>1, <2>2, <3>1, <3>2, <3>3, <3>4
  <2> QED BY <1>3, <2>1, <2>2 DEF CommitExchange
<1>4. CASE UNCHANGED turns /\ ~ Complete /\ ~ CommitExchange
  <2>1. stop' = "completed" => stop = "completed"
    BY <1>4, FrameHolds DEF Frame, FailFirst, BeginModelTurn, Admit, CloseReturn, SetStopReason,
                            StopBeforeTools
  <2>2. Ready => Ready'
    BY <1>0, <1>4, FrameHolds DEF Frame, RunStart, BeginModelTurn, AttachStream, RecordResponse,
         EmitModelEnd, Admit, AttachBatch, DrainCheck, Drained, RunEnd, AtStep, Ready, ControlInv
  <2> QED BY <1>0, <1>4, <2>1, <2>2 DEF TurnsInv
<1> QED BY <1>2, <1>3, <1>4, FrameHolds DEF Frame

--------------------------------------------------------------------------------
(***************************************************************************)
(* Theorems.                                                               *)
(***************************************************************************)

\* A run that has not started satisfies the invariant.
LEMMA RInvInit == RInit => RInv
<1> SUFFICES ASSUME RInit
             PROVE  RInv
  OBVIOUS
<1> USE RunLoopAssumption
<1>1. budget \in BudgetType /\ batch \in BatchType
  BY DEF RInit, BudgetType, BatchType, NoBatch, Errs
<1>2. stream \in [owner : {"none", "reader", "handle"}, sent : Nat, closes : Nat]
  BY DEF RInit, NoStream
<1>3. delivered \in [runEnds : Nat, late : BOOLEAN]
  BY DEF RInit
<1>4. turns = << >> /\ turns \in Seq(Exchange) /\ Len(turns) = 0
  BY EmptySeq DEF RInit
<1>5. RTypeOK
  BY <1>1, <1>2, <1>3, <1>4 DEF RInit, RTypeOK, Phases, Errs
<1>6. ControlInv /\ CloseInv /\ StopInv
  BY DEF RInit, ControlInv, CloseInv, StopInv, CommitPcs, Ready, Controlled
<1>7. EndInv /\ StreamInv
  BY DEF RInit, EndInv, StreamInv, NoStream
<1>8. BudgetInv
  <2>1. budget.calls = 0 /\ budget.tokens = 0
    BY DEF RInit
  <2>2. ~ Admitted
    BY DEF RInit, Admitted
  <2> QED BY <2>1, <2>2 DEF BudgetInv
<1>9. TurnsInv
  <2>1. 1 .. Len(turns) = {}
    BY <1>4
  <2>2. stop # "completed"
    BY DEF RInit
  <2> QED BY <2>1, <2>2 DEF TurnsInv
<1> QED BY <1>5, <1>6, <1>7, <1>8, <1>9 DEF RInv

\* However the reader, Close, the context and the tool batch interleave, the
\* parts of the run's state stay consistent.
THEOREM RunInvariant == RSpec => []RInv
<1>1. RInv /\ [RNext]_rvars => RInv'
  BY RTypeStep, ReaderStep, PublishStep, CloseStep, StopStep, BudgetStep, TurnsStep DEF RInv, ReaderInv
<1> QED BY <1>1, RInvInit, PTL DEF RSpec

\* runStateMachine.Next, fail and Close: Err, run_end and the stop reason tell of
\* one of three ends, and both Err and run_end only of a run that Close cancelled
\* while the reader was deciding its end.
THEOREM OutcomeIsSound == RSpec => []OutcomeSound
<1>1. RInv => OutcomeSound
  <2> SUFFICES ASSUME RInv
               PROVE  OutcomeSound
    OBVIOUS
  <2>0. stop \in Controlled \cup {"", "cancelled", "failed"}
    BY DEF RInv, RTypeOK
  <2>1. ASSUME Exhausted, err = "none"
        PROVE  stop \in Controlled /\ delivered.runEnds = 1
    <3>1. phase = "Done" /\ pc = "exhausted"
      BY <2>1 DEF RInv, EndInv, Exhausted
    <3> QED BY <2>0, <2>1, <3>1 DEF RInv, EndInv, StopInv, Ready
  <2>2. ASSUME Exhausted, err # "none"
        PROVE  /\ stop \in {"cancelled", "failed"}
               /\ \/ delivered.runEnds = 0
                  \/ stop = "cancelled" /\ err = "canceled" /\ delivered.runEnds = 1 /\ closed
    BY <2>2 DEF RInv, EndInv, StopInv, ControlInv, Exhausted, Ready
  <2>3. NothingAfterClose
    BY DEF RInv, EndInv, NothingAfterClose
  <2> QED BY <2>1, <2>2, <2>3 DEF OutcomeSound, OutcomeReported
<1> QED BY <1>1, RunInvariant, PTL

\* applyAfterModel, commitExchange and runBudget: what the run leaves for Turn
\* to commit is complete, ends in the answer of a completed run and is within
\* the limits.
THEOREM TranscriptIsSound == RSpec => []TranscriptSound
<1>1. RInv => TranscriptSound
  <2> SUFFICES ASSUME RInv
               PROVE  TranscriptSound
    OBVIOUS
  <2>0. turns \in Seq(Exchange) /\ Len(turns) \in Nat
    <3>1. turns \in Seq(Exchange)
      BY DEF RInv, RTypeOK
    <3> QED BY <3>1, LenProperties
  <2>1. ExchangesComplete
    BY DEF RInv, TurnsInv, ExchangesComplete
  <2>2. stop = "completed" => turns # <<>> /\ turns[Len(turns)].calls = 0
    BY <2>0 DEF RInv, TurnsInv
  <2>3. \A i \in 1 .. Len(turns) - 1 : turns[i].calls > 0
    BY <2>0 DEF RInv, TurnsInv
  <2>4. BudgetsHold
    BY DEF RInv, BudgetInv, BudgetsHold
  <2> QED BY <2>1, <2>2, <2>3, <2>4 DEF TranscriptSound, CompletedHasAnswer
<1> QED BY <1>1, RunInvariant, PTL

\* beginModelTurn, fail and Close: when the reader is done no model stream is
\* left open, even if Close came while the model was being called.
THEOREM StreamsAreReleased == RSpec => []StreamsReleased
<1>1. RInv => StreamsReleased
  BY DEF RInv, RTypeOK, StreamInv, EndInv, StreamsReleased, Exhausted
<1> QED BY <1>1, RunInvariant, PTL
================================================================================
