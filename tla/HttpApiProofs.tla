----------------------------- MODULE HttpApiProofs -----------------------------
(***************************************************************************)
(* What the clients of the HTTP surface may rely on: the inductive         *)
(* invariant of HttpApi over Turn and Sessions, and the theorems it yields *)
(* about commits, frames and permits, for any number of clients, sessions, *)
(* turns and permits.  A second invariant is that of the pages: what       *)
(* ListIDsPage selects, in whatever order the store lists, and what a      *)
(* client has gathered while sessions come, grow and go.                   *)
(***************************************************************************)
EXTENDS HttpApi, FiniteSetTheorems, SequenceTheorems, TLAPS

Errs == {"none", "canceled", "failed", "conflict", "uncertain"}
Stops == {"", "canceled", "failed", "completed", "limited"}
NextStages == {"new", "idle", "inside", "event", "ended", "finish", "deciding", "append", "detached",
               "over"}
Deciding == {"deciding", "append", "detached"}
HandlerStages == {"new", "admitted", "working", "loading", "serving", "closing", "releasing",
                  "leaving", "over"}
LastFrames == RunErrors \cup {"frame_too_large", "done"}

Tx == [id : IDs \cup {0}, read : Seq(Clients), streamed : BOOLEAN]
Run == [stop : Stops, err : {"none", "canceled", "failed"}, closed : BOOLEAN,
        end : {"ahead", "shown", "past"}]
CommitState == [done : BOOLEAN, err : Errs, session : BOOLEAN]

HTypeOK ==
  /\ saved \in [IDs -> Record \cup {Absent}]
  /\ job \in [Clients -> [kind : Kinds, ids : SUBSET IDs]]
  /\ Runs \subseteq Turns
  /\ tx \in [Turns -> Tx]
  /\ ctx \in [Turns -> BOOLEAN]
  /\ inner \in [Turns -> Run]
  /\ next \in [Turns -> NextStages]
  /\ commit \in [Turns -> CommitState]
  /\ applied \in [Turns -> Seq(Clients) \cup {Nothing}]
  /\ reborn \in [Turns -> BOOLEAN]
  /\ handler \in [Clients -> HandlerStages]
  /\ pump \in [Turns -> {"none", "next", "inside", "over"}]
  /\ seen \in [Clients -> SUBSET (LastFrames \cup {"run_end"})]
  /\ permits \in [{"request", "run", "encode"} -> Int]
  /\ DOMAIN chan = Turns

\* The session a turn read is still there, and continues what the turn read.
ReadsPrefix(t) ==
  tx[t].id \in IDs /\ ~ reborn[t] =>
    /\ Exists(tx[t].id)
    /\ Len(tx[t].read) <= Len(saved[tx[t].id].msgs)
    /\ \A i \in 1 .. Len(tx[t].read) : saved[tx[t].id].msgs[i] = tx[t].read[i]

\* finish runs its decision once, after run_end and before Next returns it.
DecidesOnce(t) ==
  /\ next[t] = "new" => inner[t].end = "ahead"
  /\ next[t] \in {"idle", "event"} => inner[t].end = "ahead"
  /\ next[t] = "inside" => inner[t].end = "ahead" \/ (inner[t].end = "shown" /\ commit[t].done)
  /\ next[t] = "ended" => inner[t].end = "shown" /\ commit[t].done
  /\ next[t] = "finish" => \/ inner[t].end = "shown"
                           \/ inner[t].end = "past" /\ (commit[t].done \/ inner[t].err # "none")
  /\ next[t] \in Deciding => /\ inner[t].end = "shown" /\ inner[t].err = "none"
                             /\ commit[t].done /\ applied[t] = Nothing /\ commit[t].err = "none"
                             /\ ~ commit[t].session /\ tx[t].id \in IDs
  /\ inner[t].end # "ahead" => inner[t].stop # "" /\ tx[t].id \in IDs
  /\ next[t] \notin {"new", "over"} => tx[t].id \in IDs
  /\ inner[t].end = "past" => next[t] \in {"finish", "over"}

\* What a commit leaves behind.
CommitOK(t) ==
  /\ ~ commit[t].done => commit[t].err = "none" /\ ~ commit[t].session /\ applied[t] = Nothing
  /\ applied[t] # Nothing => /\ inner[t].err = "none" /\ inner[t].end # "ahead"
                             /\ commit[t].err \in {"none", "uncertain"}
  /\ commit[t].session => applied[t] # Nothing /\ commit[t].err = "none"
  /\ applied[t] # Nothing /\ ~ reborn[t] => applied[t] = tx[t].read

TurnInv == \A t \in Turns : ReadsPrefix(t) /\ DecidesOnce(t) /\ CommitOK(t)

\* The decision is made, and what Next last returned stands.
Decided(t) == commit[t].done /\ next[t] \notin Deciding
Finished(t) == next[t] = "over" /\ inner[t].end = "past"

EventItem(e) == [what |-> "event", event |-> e]
LastItem(t) == [what |-> "last", err |-> TurnErr(t), stop |-> inner[t].stop,
                session |-> commit[t].session]

\* A turn has a pump only once it began, and a pump does not outlive it.
PumpOK(t) ==
  /\ next[t] = "new" => pump[t] = "none" /\ chan[t] = <<>> /\ seen[t] = {}
  /\ pump[t] # "none" /\ next[t] = "over" => Finished(t)

\* What is in the channel is still so.
ChannelOK(t) ==
  \/ chan[t] = <<>>
  \/ chan[t] = <<EventItem("progress")>>
  \/ chan[t] = <<EventItem("run_end")>> /\ Decided(t)
  \/ chan[t] = <<LastItem(t)>> /\ Finished(t)

\* What has been shown is still so.
SeenOK(t) ==
  /\ "run_end" \in seen[t] => Decided(t)
  /\ "done" \in seen[t] => Finished(t) /\ TurnErr(t) = "none" /\ commit[t].session
  /\ seen[t] \cap RunErrors # {} => Finished(t) /\ TurnErr(t) # "none"
  /\ seen[t] \ {"run_end"} # {} => handler[t] # "serving"
  /\ \A f, g \in seen[t] \ {"run_end"} : f = g

FramesInv == \A t \in Turns : PumpOK(t) /\ ChannelOK(t) /\ SeenOK(t)

RunHolders == {t \in Runs : HoldsRunPermit(t)}
RequestHolders == {c \in Clients : handler[c] \notin {"new", "over"}}

\* The permits in use are those of the handlers that have them.
PermitsInv ==
  /\ IsFiniteSet(RunHolders) /\ permits["run"] = Cardinality(RunHolders)
  /\ IsFiniteSet(RequestHolders) /\ permits["request"] = Cardinality(RequestHolders)
  /\ permits["run"] <= MaxRuns
  /\ \A t \in Runs : handler[t] # "loading"
  /\ \A t \in Runs : ~ inner[t].closed => handler[t] \in {"serving", "closing"}

HInv == HTypeOK /\ TurnInv /\ FramesInv /\ PermitsInv

--------------------------------------------------------------------------------
(***************************************************************************)
(* Which steps touch which part of the state.                              *)
(***************************************************************************)

runVars == <<tx, inner, next, commit, applied>>

\* The steps of a turn: its caller's, its run's and its commit's.
TurnMove(t) ==
  \/ \E id \in IDs, streamed \in BOOLEAN : Begin(t, id, streamed)
  \/ BeginFails(t) \/ CallNext(t) \/ InnerEvent(t) \/ InnerRunEnd(t) \/ InnerExhausted(t)
  \/ Finish(t) \/ DecideCommit(t) \/ CommitSucceeds(t) \/ CommitUncertain(t) \/ CommitFails(t)
  \/ PumpSend(t) \/ CloseTurn(t)

\* A session is created, or an existing one written; no transcript gets shorter.
Grows(id) ==
  \E record \in Record :
    /\ Write(id, record)
    /\ Exists(id) => /\ Len(saved[id].msgs) <= Len(record.msgs)
                     /\ \A i \in 1 .. Len(saved[id].msgs) : record.msgs[i] = saved[id].msgs[i]

\* The steps of the two goroutines of a run that touch its channel and its frames.
FrameMove(t) ==
  StartRun(t) \/ PumpNext(t) \/ PumpSend(t) \/ PumpDone(t) \/ ServeEvent(t) \/ ServeLast(t)

\* A handler goes on without touching a permit.
Shift(c) ==
  LET Mid == {"working", "loading", "serving", "closing", "releasing"}
  IN /\ handler[c] \in Mid
     /\ \E where \in Mid : At(c, where)
     /\ c \in Runs => HoldsRunPermit(c) /\ HoldsRunPermit(c)'
     /\ UNCHANGED permits

HandlerMove(c) == Admit(c) \/ Enter(c) \/ ReleaseSecond(c) \/ Leave(c) \/ Shift(c)

\* Every step leaves the turns alone or is a step of one of them.
LEMMA TurnFrame ==
  ASSUME HTypeOK, [HNext]_hvars
  PROVE  UNCHANGED runVars \/ \E t \in Turns : TurnMove(t)
<1>1. CASE UNCHANGED hvars
  BY <1>1 DEF hvars, turnVars, runVars
<1>2. CASE \E c \in Clients : Admit(c) \/ HandlerStep(c) \/ SessionHandler(c)
  <2>1. PICK c \in Clients : Admit(c) \/ HandlerStep(c) \/ SessionHandler(c)
    BY <1>2
  <2>2. CASE Admit(c) \/ HandlerStep(c)
    BY <2>2 DEF Admit, HandlerStep, Enter, ReleaseSecond, Leave, Store, turnVars, runVars
  <2>3. CASE SessionHandler(c)
    BY <2>3 DEF SessionHandler, ListIDs, LoadSummary, EncodeList, GetPage, PageFails, CreateOrFork,
                PatchSession, RemoveSession, WriteFails, Store, turnVars, runVars
  <2> QED BY <2>1, <2>2, <2>3
<1>3. ASSUME NEW t \in Turns,
             RunHandler(t) \/ Disconnect(t) \/ ServeBroken(t) \/ Pump(t) \/ TurnStep(t) \/ SendTurn(t)
      PROVE  UNCHANGED runVars \/ TurnMove(t)
  <2>0. t \in Clients /\ job[t].ids \subseteq IDs
    BY TurnsAssumption DEF HTypeOK
  <2>1. CASE RunHandler(t)
    <3>1. CASE StartRun(t)
      BY <2>0, <3>1 DEF StartRun, TurnMove
    <3>2. CASE RefuseRun(t) \/ CloseTurn(t)
      BY <3>2 DEF RefuseRun, TurnMove
    <3>3. CASE ServeDone(t) \/ ServeEvent(t) \/ ServeLast(t)
      BY <3>3 DEF ServeDone, ServeEvent, ServeLast, Store, turnVars, runVars
    <3> QED BY <2>1, <3>1, <3>2, <3>3 DEF RunHandler
  <2>2. CASE Disconnect(t) \/ ServeBroken(t)
    BY <2>2 DEF Disconnect, ServeBroken, runVars
  <2>3. CASE Pump(t)
    BY <2>3 DEF Pump, PumpNext, PumpDone, Store, turnVars, runVars, TurnMove
  <2>4. CASE TurnStep(t)
    BY <2>4 DEF TurnStep, TurnSteps, TurnMove
  <2>5. CASE SendTurn(t)
    BY <2>0, <2>5 DEF SendTurn, TurnMove, runVars
  <2> QED BY <1>3, <2>1, <2>2, <2>3, <2>4, <2>5
<1> QED BY <1>1, <1>2, <1>3 DEF HNext

\* Every step leaves the channels and frames alone or is one of a run's goroutines.
LEMMA ChannelFrame ==
  ASSUME HTypeOK, [HNext]_hvars
  PROVE  UNCHANGED <<chan, seen, pump>> \/ \E t \in Turns : FrameMove(t)
<1>1. CASE UNCHANGED hvars
  BY <1>1 DEF hvars, httpVars
<1>2. CASE \E c \in Clients : Admit(c) \/ HandlerStep(c) \/ SessionHandler(c)
  <2>1. PICK c \in Clients : Admit(c) \/ HandlerStep(c) \/ SessionHandler(c)
    BY <1>2
  <2>2. CASE Admit(c) \/ HandlerStep(c)
    BY <2>2 DEF Admit, HandlerStep, Enter, ReleaseSecond, Leave
  <2>3. CASE SessionHandler(c)
    BY <2>3 DEF SessionHandler, ListIDs, LoadSummary, EncodeList, GetPage, PageFails, CreateOrFork,
                PatchSession, RemoveSession, WriteFails
  <2> QED BY <2>1, <2>2, <2>3
<1>3. ASSUME NEW t \in Turns,
             RunHandler(t) \/ Disconnect(t) \/ ServeBroken(t) \/ Pump(t) \/ TurnStep(t) \/ SendTurn(t)
      PROVE  UNCHANGED <<chan, seen, pump>> \/ FrameMove(t)
  <2>1. CASE RunHandler(t)
    BY <2>1 DEF RunHandler, RefuseRun, ServeDone, CloseTurn, FrameMove
  <2>2. CASE Disconnect(t) \/ ServeBroken(t)
    BY <2>2 DEF Disconnect, ServeBroken, httpVars
  <2>3. CASE Pump(t)
    BY <2>3 DEF Pump, FrameMove
  <2>4. CASE TurnStep(t) \/ SendTurn(t)
    BY <2>4 DEF TurnStep, SendTurn, httpVars
  <2> QED BY <1>3, <2>1, <2>2, <2>3, <2>4
<1> QED BY <1>1, <1>2, <1>3 DEF HNext


\* What clients do is fixed.
LEMMA JobFixed ==
  ASSUME [HNext]_hvars
  PROVE  job' = job
<1>1. ASSUME NEW c \in Clients, Admit(c) \/ HandlerStep(c) \/ SessionHandler(c)
      PROVE  job' = job
  BY <1>1 DEF Admit, HandlerStep, Enter, ReleaseSecond, Leave, SessionHandler, ListIDs, LoadSummary,
              EncodeList, GetPage, PageFails, CreateOrFork, PatchSession, RemoveSession, WriteFails, Store
<1>2. ASSUME NEW t \in Turns,
             RunHandler(t) \/ Disconnect(t) \/ ServeBroken(t) \/ Pump(t) \/ TurnStep(t) \/ SendTurn(t)
      PROVE  job' = job
  BY <1>2 DEF RunHandler, StartRun, RefuseRun, ServeDone, ServeEvent, ServeLast, CloseTurn, Disconnect,
              ServeBroken, Pump, PumpNext, PumpSend, PumpDone, TurnStep, SendTurn, Store
<1> QED BY <1>1, <1>2 DEF HNext, hvars

\* The records a write leaves behind.
LEMMA RecordsWritten ==
  /\ \A now \in Times : Fresh(now) \in Record
  /\ \A r \in Record, m \in Clients, now \in Times : Append1(r, m, now) \in Record
  /\ \A r \in Record, m \in Clients, now \in Times : Patched(r, m, now) \in Record
  /\ \A r \in Record, src \in IDs, now \in Times : Forked(r, src, now) \in Record
<1>0. \A r \in Record, now \in Times : Stamp(r, now) \in Times
  BY DEF Stamp, Record
<1>1. ASSUME NEW now \in Times
      PROVE  Fresh(now) \in Record
  BY EmptySeq DEF Fresh, Record
<1>2. ASSUME NEW r \in Record, NEW m \in Clients, NEW now \in Times
      PROVE  Append1(r, m, now) \in Record
  <2>1. Append(r.msgs, m) \in Seq(Clients)
    BY DEF Record
  <2> QED BY <1>0, <2>1 DEF Append1, Record
<1>3. ASSUME NEW r \in Record, NEW m \in Clients, NEW now \in Times
      PROVE  Patched(r, m, now) \in Record
  BY <1>0 DEF Patched, Record
<1>4. ASSUME NEW r \in Record, NEW src \in IDs, NEW now \in Times
      PROVE  Forked(r, src, now) \in Record
  BY DEF Forked, Record
<1> QED BY <1>1, <1>2, <1>3, <1>4

\* Appending and patching keep what a transcript begins with.
LEMMA AppendGrows ==
  ASSUME HTypeOK, NEW id \in IDs, NEW m \in Clients, NEW now \in Times,
         AppendMessage(id, m, now) \/ Patch(id, m, now)
  PROVE  Grows(id)
<1>0. saved[id] \in Record /\ saved[id].msgs \in Seq(Clients)
  BY DEF AppendMessage, Patch, Exists, HTypeOK, Record
<1>1. Len(saved[id].msgs) \in Nat
  BY <1>0, LenProperties
<1>2. CASE AppendMessage(id, m, now)
  <2> DEFINE r == Append1(saved[id], m, now)
  <2>1. r \in Record
    BY <1>0, RecordsWritten
  <2>2. r.msgs = Append(saved[id].msgs, m)
    BY <1>0 DEF Append1, Record
  <2>3. /\ Len(r.msgs) = Len(saved[id].msgs) + 1
        /\ \A i \in 1 .. Len(saved[id].msgs) : r.msgs[i] = saved[id].msgs[i]
    BY <1>0, <2>2, AppendProperties
  <2>4. Write(id, r)
    BY <1>2 DEF AppendMessage
  <2> HIDE DEF r
  <2> QED BY <1>1, <2>1, <2>3, <2>4 DEF Grows
<1>3. CASE Patch(id, m, now)
  <2> DEFINE r == Patched(saved[id], m, now)
  <2>1. r \in Record
    BY <1>0, RecordsWritten
  <2>2. r.msgs = saved[id].msgs
    BY <1>0 DEF Patched, Record
  <2>3. Write(id, r)
    BY <1>3 DEF Patch
  <2> HIDE DEF r
  <2> QED BY <1>1, <2>1, <2>2, <2>3 DEF Grows
<1> QED BY <1>2, <1>3

\* A new session is a write where nothing was.
LEMMA CreateGrows ==
  ASSUME HTypeOK, NEW id \in IDs, NEW now \in Times,
         Create(id, Fresh(now)) \/ \E src \in IDs : Fork(src, id, now)
  PROVE  Grows(id)
<1>1. CASE Create(id, Fresh(now))
  BY <1>1, RecordsWritten DEF Create, Grows
<1>2. ASSUME NEW src \in IDs, Fork(src, id, now)
      PROVE  Grows(id)
  <2>1. saved[src] \in Record
    BY <1>2 DEF Fork, Exists, HTypeOK
  <2>2. Forked(saved[src], src, now) \in Record
    BY <2>1, RecordsWritten
  <2> QED BY <1>2, <2>2 DEF Fork, Create, Grows
<1> QED BY <1>1, <1>2

\* Every step leaves the store alone, writes a session, or deletes one, which then is
\* not one that a paging client must see.
LEMMA WriteFrame ==
  ASSUME HTypeOK, TurnInv, [HNext]_hvars
  PROVE  \/ UNCHANGED <<saved, reborn>>
         \/ \E id \in IDs : Grows(id) /\ UNCHANGED reborn
         \/ \E id \in IDs : DeleteSession(id) /\ Gone(id) /\ UNCHANGED runVars
<1> DEFINE Goal == \/ UNCHANGED <<saved, reborn>>
                   \/ \E id \in IDs : Grows(id) /\ UNCHANGED reborn
                   \/ \E id \in IDs : DeleteSession(id) /\ Gone(id) /\ UNCHANGED runVars
<1>1. CASE UNCHANGED hvars
  BY <1>1 DEF hvars, svars, turnVars
<1>2. ASSUME NEW c \in Clients, Admit(c) \/ HandlerStep(c) \/ SessionHandler(c)
      PROVE  Goal
  <2>0. job[c].ids \subseteq IDs
    BY DEF HTypeOK
  <2>1. CASE Admit(c) \/ HandlerStep(c)
    BY <2>1 DEF Admit, HandlerStep, Enter, ReleaseSecond, Leave, Store, turnVars, svars
  <2>2. CASE ListIDs(c) \/ LoadSummary(c) \/ EncodeList(c) \/ GetPage(c) \/ PageFails(c) \/ WriteFails(c)
    BY <2>2 DEF ListIDs, LoadSummary, EncodeList, GetPage, PageFails, WriteFails, Store, turnVars, svars
  <2>3. CASE CreateOrFork(c)
    <3>1. PICK id \in job[c].ids, now \in Times :
               UNCHANGED saved \/ Create(id, Fresh(now)) \/ \E src \in job[c].ids : Fork(src, id, now)
      BY <2>3 DEF CreateOrFork
    <3>2. UNCHANGED reborn
      BY <2>3 DEF CreateOrFork, turnVars
    <3> QED BY <2>0, <3>1, <3>2, CreateGrows
  <2>4. CASE PatchSession(c)
    <3>1. PICK id \in job[c].ids, now \in Times : Patch(id, c, now)
      BY <2>4 DEF PatchSession
    <3>2. UNCHANGED reborn
      BY <2>4 DEF PatchSession, turnVars
    <3> QED BY <2>0, <3>1, <3>2, AppendGrows
  <2>5. CASE RemoveSession(c)
    BY <2>0, <2>5 DEF RemoveSession, runVars
  <2> QED BY <1>2, <2>1, <2>2, <2>3, <2>4, <2>5 DEF SessionHandler
<1>3. ASSUME NEW t \in Turns,
             RunHandler(t) \/ Disconnect(t) \/ ServeBroken(t) \/ Pump(t) \/ TurnStep(t) \/ SendTurn(t)
      PROVE  Goal
  <2>1. CASE RunHandler(t)
    BY <2>1 DEF RunHandler, StartRun, RefuseRun, ServeDone, ServeEvent, ServeLast, CloseTurn, Begin,
                BeginFails, Store, turnVars, svars
  <2>2. CASE Disconnect(t) \/ ServeBroken(t)
    BY <2>2 DEF Disconnect, ServeBroken, svars
  <2>3. CASE Pump(t)
    BY <2>3 DEF Pump, PumpNext, PumpSend, PumpDone, CallNext, Store, turnVars, svars
  <2>4. CASE SendTurn(t)
    BY <2>4 DEF SendTurn, Begin, BeginFails, CallNext, svars
  <2>5. CASE TurnStep(t)
    <3>1. CASE CommitSucceeds(t) \/ CommitUncertain(t)
      <4>1. Appending(t) /\ reborn' = reborn /\ \E now \in Times : AppendMessage(tx[t].id, t, now)
        BY <3>1 DEF CommitSucceeds, CommitUncertain, AppendApplies
      <4>2. tx[t].id \in IDs
        BY <4>1 DEF Appending, TurnInv, DecidesOnce
      <4>3. t \in Clients
        BY TurnsAssumption
      <4> QED BY <4>1, <4>2, <4>3, AppendGrows
    <3>2. CASE InnerEvent(t) \/ InnerRunEnd(t) \/ InnerExhausted(t) \/ Finish(t) \/ DecideCommit(t)
               \/ CommitFails(t)
      BY <3>2 DEF InnerEvent, InnerRunEnd, InnerExhausted, Finish, FinishAt, DecideCommit, CommitFails,
                  svars
    <3> QED BY <2>5, <3>1, <3>2 DEF TurnStep, TurnSteps
  <2> QED BY <1>3, <2>1, <2>2, <2>3, <2>4, <2>5
<1> QED BY <1>1, <1>2, <1>3 DEF HNext


--------------------------------------------------------------------------------
(***************************************************************************)
(* Types.                                                                  *)
(***************************************************************************)

\* What the run looks like when its stream is exhausted.
LEMMA Exhausted ==
  ASSUME HTypeOK, NEW t \in Turns, Exhaust(t)
  PROVE  /\ inner' \in [Turns -> Run] /\ next' \in [Turns -> NextStages]
         /\ \A u \in Turns \ {t} : inner'[u] = inner[u] /\ next'[u] = next[u]
         /\ next'[t] = "finish" /\ inner'[t].end = "past" /\ inner'[t].closed = inner[t].closed
         /\ inner[t].end = "shown" => /\ inner'[t].err = inner[t].err
                                      /\ inner'[t].stop = inner[t].stop
         /\ inner[t].end # "shown" => inner'[t].err # "none" /\ inner'[t].stop # ""
<1>0. inner \in [Turns -> Run] /\ inner[t] \in Run /\ next \in [Turns -> NextStages]
  BY DEF HTypeOK
<1>1. /\ next' \in [Turns -> NextStages] /\ next'[t] = "finish"
      /\ \A u \in Turns \ {t} : next'[u] = next[u]
  BY <1>0 DEF Exhaust, Advance, NextStages
<1>2. PICK e \in {"canceled", "failed"} :
        inner' = IF inner[t].end = "shown" THEN [inner EXCEPT ![t].end = "past"]
                 ELSE [inner EXCEPT ![t].err = IF inner[t].err = "none" THEN e ELSE inner[t].err,
                                    ![t].stop = IF inner[t].stop = "" THEN e ELSE inner[t].stop,
                                    ![t].end = "past"]
  BY DEF Exhaust
<1>3. CASE inner[t].end = "shown"
  BY <1>0, <1>1, <1>2, <1>3 DEF Run
<1>4. CASE inner[t].end # "shown"
  <2>1. inner' \in [Turns -> Run]
    BY <1>0, <1>2, <1>4 DEF Run, Stops
  <2>2. \A u \in Turns \ {t} : inner'[u] = inner[u]
    BY <1>0, <1>2, <1>4
  <2>3. inner'[t].end = "past"
    BY <1>0, <1>2, <1>4 DEF Run
  <2>4. inner'[t].closed = inner[t].closed
    BY <1>0, <1>2, <1>4 DEF Run
  <2>5. inner'[t].err # "none"
    BY <1>0, <1>2, <1>4 DEF Run
  <2>6. inner'[t].stop # ""
    BY <1>0, <1>2, <1>4 DEF Run
  <2> QED BY <1>0, <1>1, <1>4, <2>1, <2>2, <2>3, <2>4, <2>5, <2>6
<1> QED BY <1>3, <1>4

\* What Turn.Close does to the run.
LEMMA Closed ==
  ASSUME HTypeOK, NEW t \in Turns, InnerClose(t)
  PROVE  /\ inner' \in [Turns -> Run]
         /\ \A u \in Turns \ {t} : inner'[u] = inner[u]
         /\ inner'[t].end = inner[t].end /\ inner'[t].closed
         /\ inner[t].stop # "" => inner'[t].stop = inner[t].stop /\ inner'[t].err = inner[t].err
<1>0. inner \in [Turns -> Run] /\ inner[t] \in Run
  BY DEF HTypeOK
<1> DEFINE r == IF ~ inner[t].closed /\ inner[t].err = "none" /\ inner[t].stop = ""
                THEN [inner[t] EXCEPT !.stop = "canceled", !.err = "canceled", !.closed = TRUE]
                ELSE [inner[t] EXCEPT !.closed = TRUE]
<1>1. r \in Run
  BY <1>0 DEF Run, Stops
<1>2. inner' = [inner EXCEPT ![t] = r]
  BY <1>0 DEF InnerClose
<1>3. /\ r.end = inner[t].end /\ r.closed
      /\ inner[t].stop # "" => r.stop = inner[t].stop /\ r.err = inner[t].err
  BY <1>0 DEF Run
<1> HIDE DEF r
<1> QED BY <1>0, <1>1, <1>2, <1>3

\* What run_end leaves of the run.
LEMMA RunEnded ==
  ASSUME HTypeOK, NEW t \in Turns, InnerRunEnd(t)
  PROVE  /\ inner' \in [Turns -> Run]
         /\ \A u \in Turns \ {t} : inner'[u] = inner[u]
         /\ inner'[t].end = "shown" /\ inner'[t].stop # "" /\ inner'[t].err = inner[t].err
         /\ inner'[t].closed = inner[t].closed
<1>0. inner \in [Turns -> Run] /\ inner[t] \in Run
  BY DEF HTypeOK
<1>1. PICK reason \in {"completed", "limited"} :
        inner' = [inner EXCEPT ![t].stop = IF inner[t].stop = "" THEN reason ELSE inner[t].stop,
                            ![t].end = "shown"]
  BY DEF InnerRunEnd
<1>2. inner' \in [Turns -> Run]
  BY <1>0, <1>1 DEF Run, Stops
<1>3. \A u \in Turns \ {t} : inner'[u] = inner[u]
  BY <1>0, <1>1
<1>4. inner'[t].end = "shown"
  BY <1>0, <1>1 DEF Run
<1>5. inner'[t].stop # ""
  BY <1>0, <1>1 DEF Run
<1>6. inner'[t].err = inner[t].err /\ inner'[t].closed = inner[t].closed
  BY <1>0, <1>1 DEF Run
<1> QED BY <1>2, <1>3, <1>4, <1>5, <1>6

\* What CallNext does to the run and to its caller.
LEMMA NextCalled ==
  ASSUME HTypeOK, NEW t \in Turns, CallNext(t)
  PROVE  \/ Exhaust(t)
         \/ Advance(t, "inside") /\ inner' = inner
BY DEF CallNext

\* NextReturns moves the caller of Next only.
LEMMA Returned ==
  ASSUME HTypeOK, NEW t \in Turns, NextReturns(t)
  PROVE  /\ next' \in [Turns -> NextStages]
         /\ \A u \in Turns \ {t} : next'[u] = next[u]
         /\ next'[t] = IF inner[t].end = "shown" THEN "ended" ELSE "over"
BY DEF HTypeOK, NextReturns, Advance, NextStages

\* A step of a turn keeps the types and leaves the other turns alone.
LEMMA MoveTypes ==
  ASSUME HTypeOK, TurnInv, NEW t \in Turns, TurnMove(t)
  PROVE  /\ tx' \in [Turns -> Tx] /\ inner' \in [Turns -> Run] /\ next' \in [Turns -> NextStages]
         /\ commit' \in [Turns -> CommitState]
         /\ applied' \in [Turns -> Seq(Clients) \cup {Nothing}]
         /\ \A u \in Turns \ {t} : /\ tx'[u] = tx[u] /\ inner'[u] = inner[u] /\ next'[u] = next[u]
                                  /\ commit'[u] = commit[u] /\ applied'[u] = applied[u]
<1>0. /\ tx \in [Turns -> Tx] /\ inner \in [Turns -> Run] /\ next \in [Turns -> NextStages]
      /\ commit \in [Turns -> CommitState]
      /\ applied \in [Turns -> Seq(Clients) \cup {Nothing}]
  BY DEF HTypeOK
<1>1. ASSUME NEW id \in IDs, NEW streamed \in BOOLEAN, Begin(t, id, streamed)
      PROVE  /\ tx' \in [Turns -> Tx] /\ inner' \in [Turns -> Run] /\ next' \in [Turns -> NextStages]
             /\ \A u \in Turns \ {t} : tx'[u] = tx[u] /\ inner'[u] = inner[u] /\ next'[u] = next[u]
             /\ commit' = commit /\ applied' = applied
  <2>1. saved[id].msgs \in Seq(Clients)
    BY <1>1 DEF Begin, Exists, HTypeOK, Record
  <2>2. tx' \in [Turns -> Tx] /\ \A u \in Turns \ {t} : tx'[u] = tx[u]
    BY <1>0, <1>1, <2>1 DEF Begin, Tx
  <2>3. inner' \in [Turns -> Run] /\ \A u \in Turns \ {t} : inner'[u] = inner[u]
    BY <1>0, <1>1 DEF Begin, Run
  <2>4. next' \in [Turns -> NextStages] /\ \A u \in Turns \ {t} : next'[u] = next[u]
    BY <1>0, <1>1 DEF Begin, Advance, NextStages
  <2> QED BY <1>1, <2>2, <2>3, <2>4 DEF Begin
<1>2. CASE BeginFails(t) \/ InnerEvent(t) \/ DecideCommit(t)
  BY <1>0, <1>2 DEF BeginFails, InnerEvent, DecideCommit, NextReturns, Advance, NextStages
<1>3. CASE CallNext(t)
  <2>1. CASE Exhaust(t)
    BY <1>0, <1>3, <2>1, Exhausted DEF CallNext
  <2>2. CASE Advance(t, "inside") /\ inner' = inner
    BY <1>0, <1>3, <2>2 DEF CallNext, Advance, NextStages
  <2> QED BY <1>3, <2>1, <2>2, NextCalled
<1>4. CASE InnerRunEnd(t)
  <2>1. next' \in [Turns -> NextStages] /\ \A u \in Turns \ {t} : next'[u] = next[u]
    BY <1>0, <1>4 DEF InnerRunEnd, Advance, NextStages
  <2> QED BY <1>0, <1>4, <2>1, RunEnded DEF InnerRunEnd
<1>5. CASE InnerExhausted(t)
  BY <1>0, <1>5, Exhausted DEF InnerExhausted
<1>6. CASE Finish(t)
  <2>1. next' \in [Turns -> NextStages] /\ \A u \in Turns \ {t} : next'[u] = next[u]
    BY <1>0, <1>6 DEF Finish, FinishAt, NextReturns, Advance, NextStages
  <2>2. commit' \in [Turns -> CommitState] /\ \A u \in Turns \ {t} : commit'[u] = commit[u]
    BY <1>0, <1>6 DEF Finish, FinishAt, CommitState
  <2> QED BY <1>0, <1>6, <2>1, <2>2 DEF Finish, FinishAt
<1>7. ASSUME NEW result \in {"none", "uncertain"}, AppendApplies(t, result)
      PROVE  /\ tx' = tx /\ inner' = inner
             /\ next' \in [Turns -> NextStages] /\ \A u \in Turns \ {t} : next'[u] = next[u]
             /\ commit' \in [Turns -> CommitState] /\ \A u \in Turns \ {t} : commit'[u] = commit[u]
             /\ applied' \in [Turns -> Seq(Clients) \cup {Nothing}]
             /\ \A u \in Turns \ {t} : applied'[u] = applied[u]
  <2>1. NextReturns(t)
    BY <1>7 DEF AppendApplies
  <2>2. commit' \in [Turns -> CommitState] /\ \A u \in Turns \ {t} : commit'[u] = commit[u]
    BY <1>0, <1>7 DEF AppendApplies, CommitState, Errs
  <2>3. applied' \in [Turns -> Seq(Clients) \cup {Nothing}] /\ \A u \in Turns \ {t} : applied'[u] = applied[u]
    <3>1. applied' = [applied EXCEPT ![t] = saved[tx[t].id].msgs]
      BY <1>7 DEF AppendApplies
    <3>2. saved[tx[t].id].msgs \in Seq(Clients)
      <4>1. tx[t].id \in IDs
        BY <1>7 DEF AppendApplies, Appending, TurnInv, DecidesOnce
      <4> QED BY <1>7, <4>1 DEF AppendApplies, Exists, HTypeOK, Record
    <3> QED BY <1>0, <3>1, <3>2
  <2> QED BY <1>7, <2>1, <2>2, <2>3, Returned DEF AppendApplies
<1>8. CASE CommitFails(t)
  <2>1. NextReturns(t)
    BY <1>8 DEF CommitFails
  <2>2. commit' \in [Turns -> CommitState] /\ \A u \in Turns \ {t} : commit'[u] = commit[u]
    <3>1. PICK e \in CommitErrors(t) : commit' = [commit EXCEPT ![t].err = e]
      BY <1>8 DEF CommitFails
    <3>2. e \in Errs
      BY DEF CommitErrors, Errs
    <3> QED BY <1>0, <3>1, <3>2 DEF CommitState
  <2> QED BY <1>0, <1>8, <2>1, <2>2, Returned DEF CommitFails
<1>9. CASE PumpSend(t)
  BY <1>0, <1>9 DEF PumpSend, NextStages
<1>10. CASE CloseTurn(t)
  BY <1>0, <1>10, Closed DEF CloseTurn
<1> QED
  BY <1>0, <1>1, <1>2, <1>3, <1>4, <1>5, <1>6, <1>7, <1>8, <1>9, <1>10
     DEF TurnMove, CommitSucceeds, CommitUncertain


\* A context is either left alone or cancelled.
LEMMA CtxType ==
  ASSUME HTypeOK, [HNext]_hvars
  PROVE  ctx' \in [Turns -> BOOLEAN]
<1>0. ctx \in [Turns -> BOOLEAN] /\ (\A t : Cancel(t) => ctx' \in [Turns -> BOOLEAN])
  BY DEF HTypeOK, Cancel
<1>1. CASE UNCHANGED hvars
  BY <1>0, <1>1 DEF hvars, turnVars
<1>2. ASSUME NEW c \in Clients, Admit(c) \/ HandlerStep(c) \/ SessionHandler(c)
      PROVE  ctx' \in [Turns -> BOOLEAN]
  BY <1>0, <1>2 DEF Admit, HandlerStep, Enter, ReleaseSecond, Leave, SessionHandler, ListIDs,
       LoadSummary, EncodeList, GetPage, PageFails, CreateOrFork, PatchSession, RemoveSession,
       WriteFails, Store, turnVars
<1>3. ASSUME NEW t \in Turns, RunHandler(t) \/ Disconnect(t) \/ ServeBroken(t) \/ Pump(t) \/ SendTurn(t)
      PROVE  ctx' \in [Turns -> BOOLEAN]
  BY <1>0, <1>3 DEF RunHandler, StartRun, RefuseRun, ServeDone, ServeEvent, ServeLast, CloseTurn,
       Disconnect, ServeBroken, Pump, PumpNext, PumpSend, PumpDone, SendTurn, Begin, BeginFails,
       CallNext, Store, turnVars
<1>4. ASSUME NEW t \in Turns, TurnStep(t)
      PROVE  ctx' \in [Turns -> BOOLEAN]
  BY <1>0, <1>4 DEF TurnStep, TurnSteps, InnerEvent, InnerRunEnd, InnerExhausted, Finish, FinishAt,
       DecideCommit, CommitSucceeds, CommitUncertain, AppendApplies, CommitFails
<1> QED BY <1>1, <1>2, <1>3, <1>4 DEF HNext

\* The steps of a handler: the ones that take and give back permits, and the others.
LEMMA HandlerFrame ==
  ASSUME HTypeOK, PermitsInv, [HNext]_hvars
  PROVE  UNCHANGED <<handler, permits>> \/ \E c \in Clients : HandlerMove(c)
<1>1. CASE UNCHANGED hvars
  BY <1>1 DEF hvars, httpVars
<1>2. ASSUME NEW c \in Clients, Admit(c) \/ HandlerStep(c)
      PROVE  HandlerMove(c)
  BY <1>2 DEF HandlerStep, HandlerMove
<1>3. ASSUME NEW c \in Clients, SessionHandler(c)
      PROVE  UNCHANGED <<handler, permits>> \/ Shift(c)
  <2>1. UNCHANGED permits
    BY <1>3 DEF SessionHandler, ListIDs, LoadSummary, EncodeList, GetPage, PageFails, CreateOrFork,
                PatchSession, RemoveSession, WriteFails
  <2>2. CASE LoadSummary(c)
    BY <2>1, <2>2 DEF LoadSummary
  <2>3. CASE ListIDs(c) \/ GetPage(c) \/ PageFails(c) \/ PatchSession(c) \/ RemoveSession(c) \/ WriteFails(c)
    <3>1. job[c].kind # "run" /\ handler[c] \in {"working", "loading"}
      BY <2>3 DEF ListIDs, GetPage, PageFails, PatchSession, RemoveSession, WriteFails
    <3>2. At(c, "loading") \/ At(c, "releasing")
      BY <2>3 DEF ListIDs, GetPage, PageFails, PatchSession, RemoveSession, WriteFails
    <3> QED BY <2>1, <3>1, <3>2 DEF Shift, Runs
  <2>4. CASE EncodeList(c)
    <3>1. handler[c] = "loading" /\ At(c, "releasing")
      BY <2>4 DEF EncodeList
    <3>2. c \notin Runs
      BY <3>1 DEF PermitsInv
    <3> QED BY <2>1, <3>1, <3>2 DEF Shift
  <2>5. CASE CreateOrFork(c)
    <3>1. job[c].kind # "run" /\ handler[c] = "working" /\ (UNCHANGED handler \/ At(c, "releasing"))
      BY <2>5 DEF CreateOrFork
    <3> QED BY <2>1, <3>1 DEF Shift, Runs
  <2> QED BY <1>3, <2>2, <2>3, <2>4, <2>5 DEF SessionHandler
<1>4. ASSUME NEW t \in Turns,
             RunHandler(t) \/ Disconnect(t) \/ ServeBroken(t) \/ Pump(t) \/ TurnStep(t) \/ SendTurn(t)
      PROVE  UNCHANGED <<handler, permits>> \/ Shift(t)
  <2>0. handler \in [Clients -> HandlerStages] /\ t \in Clients
    BY TurnsAssumption DEF HTypeOK
  <2>1. UNCHANGED permits
    BY <1>4 DEF RunHandler, StartRun, RefuseRun, ServeDone, ServeEvent, ServeLast, CloseTurn, Disconnect,
         ServeBroken, Pump, PumpNext, PumpSend, PumpDone, TurnStep, SendTurn, httpVars
  <2>2. CASE RunHandler(t) \/ ServeBroken(t)
    <3>1. /\ handler[t] \in {"working", "serving", "closing"}
          /\ UNCHANGED handler \/ At(t, "releasing") \/ At(t, "serving") \/ At(t, "closing")
      BY <2>2 DEF RunHandler, StartRun, RefuseRun, ServeDone, ServeEvent, ServeLast, CloseTurn,
                  ServeBroken
    <3>2. ASSUME NEW where \in {"releasing", "serving", "closing"}, At(t, where)
          PROVE  Shift(t)
      <4>1. handler'[t] = where
        BY <2>0, <3>2 DEF At
      <4> QED BY <2>1, <3>1, <3>2, <4>1 DEF Shift, HoldsRunPermit
    <3> QED BY <2>1, <3>1, <3>2
  <2>3. CASE Disconnect(t) \/ Pump(t) \/ TurnStep(t) \/ SendTurn(t)
    BY <2>1, <2>3 DEF Disconnect, Pump, PumpNext, PumpSend, PumpDone, TurnStep, SendTurn, httpVars
  <2> QED BY <1>4, <2>2, <2>3
<1> QED BY <1>1, <1>2, <1>3, <1>4, TurnsAssumption DEF HNext, HandlerMove

\* The type invariant is kept.
LEMMA HTypeStep ==
  ASSUME HTypeOK, TurnInv, PermitsInv, [HNext]_hvars
  PROVE  HTypeOK'
<1>1. job' = job /\ job' \in [Clients -> [kind : Kinds, ids : SUBSET IDs]] /\ (Runs \subseteq Turns)'
  BY JobFixed DEF HTypeOK, Runs
<1>2. saved' \in [IDs -> Record \cup {Absent}] /\ reborn' \in [Turns -> BOOLEAN]
  <2>0. saved \in [IDs -> Record \cup {Absent}] /\ reborn \in [Turns -> BOOLEAN]
    BY DEF HTypeOK
  <2>1. CASE UNCHANGED <<saved, reborn>>
    BY <2>0, <2>1
  <2>2. ASSUME NEW id \in IDs, Grows(id), UNCHANGED reborn
        PROVE  saved' \in [IDs -> Record \cup {Absent}] /\ reborn' \in [Turns -> BOOLEAN]
    BY <2>0, <2>2 DEF Grows, Write
  <2>3. ASSUME NEW id \in IDs, DeleteSession(id)
        PROVE  saved' \in [IDs -> Record \cup {Absent}] /\ reborn' \in [Turns -> BOOLEAN]
    BY <2>0, <2>3 DEF DeleteSession, Delete, Write
  <2> QED BY <2>1, <2>2, <2>3, WriteFrame
<1>3. /\ tx' \in [Turns -> Tx] /\ inner' \in [Turns -> Run] /\ next' \in [Turns -> NextStages]
      /\ commit' \in [Turns -> CommitState]
      /\ applied' \in [Turns -> Seq(Clients) \cup {Nothing}]
  <2>1. CASE UNCHANGED runVars
    BY <2>1 DEF runVars, HTypeOK
  <2> QED BY <2>1, TurnFrame, MoveTypes
<1>4. ctx' \in [Turns -> BOOLEAN]
  BY CtxType
<1>5. /\ handler' \in [Clients -> HandlerStages]
      /\ permits' \in [{"request", "run", "encode"} -> Int]
  <2>0. /\ handler \in [Clients -> HandlerStages]
        /\ permits \in [{"request", "run", "encode"} -> Int]
    BY DEF HTypeOK
  <2>1. ASSUME NEW c \in Clients, HandlerMove(c)
        PROVE  /\ \E where \in HandlerStages : At(c, where)
               /\ \/ UNCHANGED permits
                  \/ \E p \in {"request", "run", "encode"} : Take(p) \/ Release(p)
    BY <2>1 DEF HandlerMove, Admit, Enter, ReleaseSecond, Leave, Shift, Needs, HandlerStages
  <2> QED BY <2>0, <2>1, HandlerFrame DEF At, Take, Release
<1>6. /\ pump' \in [Turns -> {"none", "next", "inside", "over"}]
      /\ seen' \in [Clients -> SUBSET (LastFrames \cup {"run_end"})]
      /\ DOMAIN chan' = Turns
  <2>0. /\ pump \in [Turns -> {"none", "next", "inside", "over"}]
        /\ seen \in [Clients -> SUBSET (LastFrames \cup {"run_end"})]
        /\ DOMAIN chan = Turns
    BY DEF HTypeOK
  <2>1. ASSUME NEW t \in Turns, StartRun(t) \/ PumpNext(t) \/ PumpSend(t) \/ PumpDone(t)
        PROVE  /\ pump' \in [Turns -> {"none", "next", "inside", "over"}]
               /\ seen' = seen
               /\ DOMAIN chan' = Turns
    BY <2>0, <2>1 DEF StartRun, PumpNext, PumpSend, PumpDone, PumpAt
  <2>2. ASSUME NEW t \in Turns, ServeEvent(t) \/ ServeLast(t)
        PROVE  /\ pump' = pump /\ DOMAIN chan' = Turns
               /\ seen' \in [Clients -> SUBSET (LastFrames \cup {"run_end"})]
    <3>1. \A err : ErrorFrame(err) \in LastFrames
      BY DEF ErrorFrame, RunErrors, LastFrames
    <3>2. pump' = pump /\ DOMAIN chan' = Turns
      BY <2>0, <2>2 DEF ServeEvent, ServeLast
    <3>3. \E frames \in SUBSET (LastFrames \cup {"run_end"}) :
             seen' = seen \/ seen' = [seen EXCEPT ![t] = @ \cup frames]
      <4>1. CASE ServeEvent(t)
        <5>1. /\ {Head(chan[t]).event} \cap {"run_end"} \in SUBSET (LastFrames \cup {"run_end"})
              /\ {"frame_too_large"} \in SUBSET (LastFrames \cup {"run_end"})
          BY DEF LastFrames
        <5> QED BY <4>1, <5>1 DEF ServeEvent
      <4>2. CASE ServeLast(t)
        <5>1. LastFrame(Head(chan[t])) \in SUBSET (LastFrames \cup {"run_end"})
          BY <3>1 DEF LastFrame, LastFrames
        <5>2. {} \in SUBSET (LastFrames \cup {"run_end"})
          OBVIOUS
        <5>3. \E frames \in {{}, LastFrame(Head(chan[t]))} : seen' = [seen EXCEPT ![t] = @ \cup frames]
          BY <4>2 DEF ServeLast
        <5> QED BY <5>1, <5>2, <5>3
      <4> QED BY <2>2, <4>1, <4>2
    <3> QED BY <2>0, <3>2, <3>3
  <2> QED BY <2>0, <2>1, <2>2, ChannelFrame DEF FrameMove
<1> QED BY <1>1, <1>2, <1>3, <1>4, <1>5, <1>6 DEF HTypeOK


--------------------------------------------------------------------------------
(***************************************************************************)
(* Turns: the decision is made once, on what the turn read.                *)
(***************************************************************************)

\* The types of what one turn consists of.
LEMMA TurnTypes ==
  ASSUME HTypeOK, NEW t \in Turns
  PROVE  /\ tx[t] \in Tx /\ inner[t] \in Run /\ next[t] \in NextStages
         /\ commit[t] \in CommitState /\ reborn[t] \in BOOLEAN
         /\ commit[t].done \in BOOLEAN /\ commit[t].session \in BOOLEAN
         /\ inner[t].closed \in BOOLEAN
         /\ inner[t].end \in {"ahead", "shown", "past"}
BY DEF HTypeOK, Tx, Run, CommitState

\* The length AppendAt compares decides: a turn appends to what it read.
LEMMA AppendsToWhatWasRead ==
  ASSUME HTypeOK, TurnInv, NEW t \in Turns, Appending(t), Exists(tx[t].id), LengthMatches(t)
  PROVE  /\ saved[tx[t].id].msgs \in Seq(Clients)
         /\ ~ reborn[t] => saved[tx[t].id].msgs = tx[t].read
<1> DEFINE id == tx[t].id
           read == tx[t].read
           msgs == saved[id].msgs
<1>1. id \in IDs
  BY DEF TurnInv, DecidesOnce, Appending
<1>2. msgs \in Seq(Clients) /\ read \in Seq(Clients)
  BY <1>1 DEF HTypeOK, Exists, Record, Tx
<1>3. ASSUME ~ reborn[t]
      PROVE  msgs = read
  <2>1. /\ Len(msgs) = Len(read)
        /\ \A i \in 1 .. Len(read) : msgs[i] = read[i]
    BY <1>1, <1>3 DEF TurnInv, ReadsPrefix, LengthMatches, Pre
  <2> HIDE DEF msgs, read
  <2> QED BY <1>2, <2>1, SeqEqual
<1> QED BY <1>2, <1>3

\* What finish does to the commit.
LEMMA Finishes ==
  ASSUME HTypeOK, NEW t \in Turns, Finish(t)
  PROVE  /\ commit'[t].done = (commit[t].done \/ inner[t].end \in {"shown", "past"})
         /\ commit'[t].err = commit[t].err /\ commit'[t].session = commit[t].session
<1>1. commit' = [commit EXCEPT ![t].done = commit[t].done \/ inner[t].end \in {"shown", "past"}]
  BY DEF Finish, FinishAt
<1> QED BY <1>1 DEF HTypeOK, CommitState

\* What the store's answer does to the commit.
LEMMA Answered ==
  ASSUME HTypeOK, NEW t \in Turns
  PROVE  /\ \A result \in {"none", "uncertain"} : AppendApplies(t, result) =>
              /\ commit'[t].done = commit[t].done
              /\ commit'[t].err = result /\ commit'[t].session = (result = "none")
         /\ CommitFails(t) => /\ commit'[t].done = commit[t].done
                              /\ commit'[t].session = commit[t].session
<1>1. commit \in [Turns -> CommitState]
  BY DEF HTypeOK
<1>2. ASSUME NEW result \in {"none", "uncertain"}, AppendApplies(t, result)
      PROVE  /\ commit'[t].done = commit[t].done
             /\ commit'[t].err = result /\ commit'[t].session = (result = "none")
  BY <1>1, <1>2 DEF AppendApplies, CommitState
<1>3. ASSUME CommitFails(t)
      PROVE  commit'[t].done = commit[t].done /\ commit'[t].session = commit[t].session
  <2>1. PICK e \in CommitErrors(t) : commit' = [commit EXCEPT ![t].err = e]
    BY <1>3 DEF CommitFails
  <2> QED BY <1>1, <2>1 DEF CommitState
<1> QED BY <1>2, <1>3

\* A step of a turn keeps the order of its decision and what the commit left.
LEMMA MoveKeepsDecision ==
  ASSUME HTypeOK, TurnInv, NEW t \in Turns, TurnMove(t)
  PROVE  DecidesOnce(t)' /\ CommitOK(t)'
<1>0. DecidesOnce(t) /\ CommitOK(t)
  BY DEF TurnInv
<1>1. /\ tx[t] \in Tx /\ inner[t] \in Run /\ next[t] \in NextStages
      /\ commit[t] \in CommitState /\ reborn[t] \in BOOLEAN
      /\ commit[t].done \in BOOLEAN /\ commit[t].session \in BOOLEAN
      /\ inner[t].end \in {"ahead", "shown", "past"}
      /\ tx \in [Turns -> Tx] /\ inner \in [Turns -> Run] /\ next \in [Turns -> NextStages]
  BY TurnTypes DEF HTypeOK
<1>2. ASSUME NEW id \in IDs, NEW streamed \in BOOLEAN, Begin(t, id, streamed)
      PROVE  DecidesOnce(t)' /\ CommitOK(t)'
  <2>1. next'[t] = "idle" /\ next[t] = "new"
    BY <1>1, <1>2 DEF Begin, Advance
  <2>2. /\ inner'[t].end = inner[t].end /\ inner'[t].stop = inner[t].stop
        /\ inner'[t].err = inner[t].err
    BY <1>1, <1>2 DEF Begin, Run
  <2>3. tx'[t].id \in IDs
    BY <1>1, <1>2 DEF Begin
  <2>4. commit' = commit /\ applied' = applied /\ reborn' = reborn
    BY <1>2 DEF Begin
  <2>5. applied[t] = Nothing
    BY <1>0, <2>1 DEF DecidesOnce, CommitOK
  <2> QED BY <1>0, <2>1, <2>2, <2>3, <2>4, <2>5 DEF DecidesOnce, CommitOK, Deciding
<1>3. CASE BeginFails(t) \/ InnerEvent(t)
  BY <1>0, <1>1, <1>3 DEF BeginFails, InnerEvent, Advance, DecidesOnce, CommitOK, Deciding
<1>4. CASE CallNext(t) \/ InnerExhausted(t)
  <2>0. tx' = tx /\ commit' = commit /\ applied' = applied /\ reborn' = reborn
    BY <1>4 DEF CallNext, InnerExhausted
  <2>1. CASE Exhaust(t)
    <3>1. next[t] \in {"idle", "ended", "inside"}
      BY <1>4 DEF CallNext, InnerExhausted
    <3> QED BY <1>0, <1>1, <2>0, <2>1, <3>1, Exhausted DEF DecidesOnce, CommitOK, Deciding
  <2>2. CASE CallNext(t) /\ Advance(t, "inside") /\ inner' = inner
    BY <1>0, <1>1, <2>0, <2>2 DEF CallNext, Advance, DecidesOnce, CommitOK, Deciding
  <2> QED BY <1>4, <2>1, <2>2, NextCalled DEF InnerExhausted
<1>5. CASE InnerRunEnd(t)
  <2>1. /\ next[t] = "inside" /\ next'[t] = "finish" /\ inner[t].end = "ahead"
        /\ tx' = tx /\ commit' = commit /\ applied' = applied /\ reborn' = reborn
    BY <1>1, <1>5 DEF InnerRunEnd, Advance
  <2> QED BY <1>0, <1>1, <1>5, <2>1, RunEnded DEF DecidesOnce, CommitOK, Deciding
<1>6. CASE Finish(t)
  <2>1. /\ next[t] = "finish" /\ tx' = tx /\ inner' = inner /\ applied' = applied /\ reborn' = reborn
        /\ next'[t] = IF inner[t].end \in {"shown", "past"} /\ ~ commit[t].done /\ inner[t].err = "none"
                      THEN "deciding" ELSE IF inner[t].end = "shown" THEN "ended" ELSE "over"
    BY <1>1, <1>6 DEF Finish, FinishAt, NextReturns, Advance
  <2> QED BY <1>0, <1>1, <1>6, <2>1, Finishes DEF DecidesOnce, CommitOK, Deciding
<1>7. CASE DecideCommit(t)
  <2>1. /\ next[t] = "deciding" /\ tx' = tx /\ inner' = inner /\ commit' = commit
        /\ applied' = applied /\ reborn' = reborn
    BY <1>7 DEF DecideCommit
  <2>2. next'[t] \in {"append", "detached"} \/ next'[t] = IF inner[t].end = "shown" THEN "ended" ELSE "over"
    BY <1>1, <1>7 DEF DecideCommit, NextReturns, Advance
  <2> QED BY <1>0, <1>1, <2>1, <2>2 DEF DecidesOnce, CommitOK, Deciding
<1>8. ASSUME NEW result \in {"none", "uncertain"}, AppendApplies(t, result)
      PROVE  DecidesOnce(t)' /\ CommitOK(t)'
  <2>1. /\ next[t] \in {"append", "detached"} /\ tx' = tx /\ inner' = inner /\ reborn' = reborn
        /\ NextReturns(t)
    BY <1>8 DEF AppendApplies, Appending
  <2>2. /\ saved[tx[t].id].msgs \in Seq(Clients)
        /\ ~ reborn[t] => saved[tx[t].id].msgs = tx[t].read
    BY <1>8, AppendsToWhatWasRead DEF AppendApplies
  <2>3. applied'[t] = saved[tx[t].id].msgs
    BY <1>8 DEF AppendApplies, HTypeOK
  <2>4. applied'[t] # Nothing
    BY <2>2, <2>3, TurnsAssumption
  <2> HIDE DEF Nothing
  <2> QED BY <1>0, <1>1, <1>8, <2>1, <2>2, <2>3, <2>4, Answered, Returned DEF DecidesOnce, CommitOK, Deciding
<1>9. CASE CommitFails(t)
  <2>1. /\ next[t] \in {"append", "detached"} /\ tx' = tx /\ inner' = inner /\ reborn' = reborn
        /\ applied' = applied /\ NextReturns(t)
    BY <1>9 DEF CommitFails, Appending
  <2> QED BY <1>0, <1>1, <1>9, <2>1, Answered, Returned DEF DecidesOnce, CommitOK, Deciding
<1>10. CASE PumpSend(t)
  <2>1. /\ tx' = tx /\ inner' = inner /\ commit' = commit /\ applied' = applied /\ reborn' = reborn
        /\ next'[t] = IF next[t] = "event" THEN "idle" ELSE next[t]
    BY <1>1, <1>10 DEF PumpSend
  <2> QED BY <1>0, <1>1, <2>1 DEF DecidesOnce, CommitOK, Deciding
<1>11. CASE CloseTurn(t)
  <2>1. /\ tx' = tx /\ next' = next /\ commit' = commit /\ applied' = applied /\ reborn' = reborn
        /\ InnerClose(t)
    BY <1>11 DEF CloseTurn
  <2> QED BY <1>0, <1>1, <2>1, Closed DEF DecidesOnce, CommitOK, Deciding
<1> QED
  BY <1>2, <1>3, <1>4, <1>5, <1>6, <1>7, <1>8, <1>9, <1>10, <1>11
     DEF TurnMove, CommitSucceeds, CommitUncertain


\* A step of a turn leaves it unaware of deletions, and deletions are never undone.
LEMMA RebornGrows ==
  ASSUME HTypeOK, TurnInv, [HNext]_hvars, NEW t \in Turns, ~ reborn'[t]
  PROVE  ~ reborn[t]
<1>1. ASSUME NEW id \in IDs, DeleteSession(id)
      PROVE  ~ reborn[t]
  BY <1>1 DEF DeleteSession
<1> QED BY <1>1, WriteFrame

\* Writes, also those of other turns, only add to what a turn read.
LEMMA WritesKeepWhatWasRead ==
  ASSUME HTypeOK, TurnInv, [HNext]_hvars, NEW t \in Turns, tx'[t] = tx[t], ReadsPrefix(t)
  PROVE  ReadsPrefix(t)'
<1> DEFINE id == tx[t].id
           read == tx[t].read
<1>1. SUFFICES ASSUME id \in IDs, ~ reborn'[t]
               PROVE  /\ Exists(id)'
                      /\ Len(read) <= Len(saved'[id].msgs)
                      /\ \A i \in 1 .. Len(read) : saved'[id].msgs[i] = read[i]
  BY DEF ReadsPrefix
<1>2. /\ Exists(id)
      /\ Len(read) <= Len(saved[id].msgs)
      /\ \A i \in 1 .. Len(read) : saved[id].msgs[i] = read[i]
  BY <1>1, RebornGrows DEF ReadsPrefix
<1>3. Len(read) \in Nat
  BY LenProperties DEF HTypeOK, Tx
<1>4. CASE saved' = saved
  BY <1>2, <1>4 DEF Exists
<1>5. ASSUME NEW w \in IDs, Grows(w)
      PROVE  /\ Exists(id)'
             /\ Len(read) <= Len(saved'[id].msgs)
             /\ \A i \in 1 .. Len(read) : saved'[id].msgs[i] = read[i]
  <2>1. PICK record \in Record :
          /\ Write(w, record)
          /\ Exists(w) => /\ Len(saved[w].msgs) <= Len(record.msgs)
                          /\ \A i \in 1 .. Len(saved[w].msgs) : record.msgs[i] = saved[w].msgs[i]
    BY <1>5 DEF Grows
  <2>2. saved' = [saved EXCEPT ![w] = record] /\ DOMAIN saved = IDs
    BY <2>1 DEF Write, HTypeOK
  <2>3. CASE w # id
    BY <1>1, <1>2, <2>2, <2>3 DEF Exists
  <2>4. CASE w = id
    <3>1. saved'[id] = record /\ record # Absent
      BY <1>1, <2>2, <2>4, AbsentAssumption
    <3>2. Len(saved[id].msgs) \in Nat /\ Len(record.msgs) \in Nat
      <4>1. saved[id].msgs \in Seq(Clients) /\ record.msgs \in Seq(Clients)
        BY <1>1, <1>2 DEF HTypeOK, Exists, Record
      <4> QED BY <4>1, LenProperties
    <3>3. /\ Len(saved[id].msgs) <= Len(record.msgs)
          /\ \A i \in 1 .. Len(saved[id].msgs) : record.msgs[i] = saved[id].msgs[i]
      BY <1>2, <2>1, <2>4
    <3>4. Len(read) <= Len(record.msgs)
      BY <1>2, <1>3, <3>2, <3>3
    <3>5. ASSUME NEW i \in 1 .. Len(read)
          PROVE  record.msgs[i] = read[i]
      <4>1. i \in 1 .. Len(saved[id].msgs)
        BY <1>2, <1>3, <3>2
      <4> QED BY <1>2, <3>3, <4>1
    <3> QED BY <3>1, <3>4, <3>5 DEF Exists
  <2> QED BY <2>3, <2>4
<1>6. ASSUME NEW w \in IDs, DeleteSession(w)
      PROVE  /\ Exists(id)'
             /\ Len(read) <= Len(saved'[id].msgs)
             /\ \A i \in 1 .. Len(read) : saved'[id].msgs[i] = read[i]
  <2>1. w # id
    BY <1>1, <1>6 DEF DeleteSession
  <2>2. saved'[id] = saved[id]
    BY <1>1, <1>6, <2>1 DEF DeleteSession, Delete, Write, HTypeOK
  <2> QED BY <1>2, <2>2 DEF Exists
<1> QED BY <1>4, <1>5, <1>6, WriteFrame

\* A turn that begins has read what is stored.
LEMMA BeginReads ==
  ASSUME HTypeOK, NEW t \in Turns, NEW id \in IDs, NEW streamed \in BOOLEAN, Begin(t, id, streamed)
  PROVE  ReadsPrefix(t)'
<1>1. tx'[t].id = id /\ tx'[t].read = saved[id].msgs /\ saved' = saved /\ saved[id] # Absent
  BY DEF Begin, HTypeOK, svars, Exists
<1>2. saved[id].msgs \in Seq(Clients)
  BY <1>1 DEF HTypeOK, Record
<1>3. Len(saved[id].msgs) \in Nat
  BY <1>2, LenProperties
<1> QED BY <1>1, <1>3 DEF ReadsPrefix, Exists

\* Every step keeps what is true of the turns.
LEMMA TurnInvStep ==
  ASSUME HTypeOK, TurnInv, [HNext]_hvars
  PROVE  TurnInv'
<1>1. ASSUME NEW t \in Turns
      PROVE  ReadsPrefix(t)'
  <2>0. ReadsPrefix(t)
    BY DEF TurnInv
  <2>1. CASE tx'[t] = tx[t]
    BY <2>0, <2>1, WritesKeepWhatWasRead
  <2>2. CASE tx'[t] # tx[t]
    <3>1. PICK u \in Turns : TurnMove(u)
      BY <2>2, TurnFrame DEF runVars
    <3>2. u = t
      BY <2>2, <3>1, MoveTypes
    <3>3. \E id \in IDs, streamed \in BOOLEAN : Begin(t, id, streamed)
      BY <2>2, <3>1, <3>2 DEF TurnMove, BeginFails, CallNext, InnerEvent, InnerRunEnd, InnerExhausted,
           Finish, FinishAt, DecideCommit, CommitSucceeds, CommitUncertain, AppendApplies, CommitFails,
           PumpSend, CloseTurn
    <3> QED BY <3>3, BeginReads
  <2> QED BY <2>1, <2>2
<1>2. ASSUME NEW t \in Turns
      PROVE  DecidesOnce(t)' /\ CommitOK(t)'
  <2>0. DecidesOnce(t) /\ CommitOK(t)
    BY DEF TurnInv
  <2>1. CASE TurnMove(t)
    BY <2>1, MoveKeepsDecision
  <2>2. CASE ~ TurnMove(t)
    <3>1. /\ tx'[t] = tx[t] /\ inner'[t] = inner[t] /\ next'[t] = next[t]
          /\ commit'[t] = commit[t] /\ applied'[t] = applied[t]
      BY <2>2, TurnFrame, MoveTypes DEF runVars
    <3>2. ~ reborn'[t] => ~ reborn[t]
      BY RebornGrows
    <3> HIDE DEF Nothing
    <3> QED BY <2>0, <3>1, <3>2 DEF DecidesOnce, CommitOK
  <2> QED BY <2>1, <2>2
<1> QED BY <1>1, <1>2 DEF TurnInv


--------------------------------------------------------------------------------
(***************************************************************************)
(* Frames: what has been said stays so.                                    *)
(***************************************************************************)

\* A decision stands, a finished turn stays as it is, and no turn begins twice.
LEMMA FinalStands ==
  ASSUME HTypeOK, TurnInv, [HNext]_hvars, NEW t \in Turns
  PROVE  /\ Decided(t) => Decided(t)'
         /\ Finished(t) => Finished(t)' /\ TurnErr(t)' = TurnErr(t) /\ LastItem(t)' = LastItem(t)
                           /\ commit'[t].session = commit[t].session
         /\ next[t] # "new" => next'[t] # "new"
         /\ next'[t] = "over" => next[t] \in {"new", "over"} \/ Finished(t)'
<1> DEFINE Goal == /\ Decided(t) => Decided(t)'
                   /\ Finished(t) => /\ Finished(t)' /\ commit'[t] = commit[t]
                                     /\ inner'[t].err = inner[t].err
                                     /\ inner'[t].stop = inner[t].stop
                   /\ next[t] # "new" => next'[t] # "new"
                   /\ next'[t] = "over" => next[t] \in {"new", "over"} \/ Finished(t)'
<1> SUFFICES Goal
  BY DEF TurnErr, LastItem
<1>0. /\ tx[t] \in Tx /\ inner[t] \in Run /\ next[t] \in NextStages
      /\ commit[t] \in CommitState
      /\ commit[t].done \in BOOLEAN
      /\ inner[t].end \in {"ahead", "shown", "past"}
      /\ inner \in [Turns -> Run] /\ next \in [Turns -> NextStages]
      /\ DecidesOnce(t) /\ CommitOK(t)
  BY TurnTypes DEF HTypeOK, TurnInv
<1>1. ASSUME NEW id \in IDs, NEW streamed \in BOOLEAN, Begin(t, id, streamed)
      PROVE  Goal
  BY <1>0, <1>1 DEF Begin, Advance, Decided, Finished, Deciding
<1>2. CASE BeginFails(t) \/ InnerEvent(t)
  BY <1>0, <1>2 DEF BeginFails, InnerEvent, Advance, Decided, Finished, Deciding
<1>3. CASE CallNext(t) \/ InnerExhausted(t)
  <2>1. /\ next[t] \in {"idle", "ended", "inside"} /\ commit' = commit
        /\ next'[t] \in {"finish", "inside"}
    BY <1>0, <1>3, NextCalled, Exhausted DEF CallNext, InnerExhausted, Advance
  <2> QED BY <2>1 DEF Decided, Finished, Deciding
<1>4. CASE InnerRunEnd(t)
  BY <1>0, <1>4 DEF InnerRunEnd, Advance, Decided, Finished, Deciding
<1>5. CASE Finish(t)
  <2>1. /\ next[t] = "finish" /\ inner' = inner
        /\ next'[t] = IF inner[t].end \in {"shown", "past"} /\ ~ commit[t].done /\ inner[t].err = "none"
                      THEN "deciding" ELSE IF inner[t].end = "shown" THEN "ended" ELSE "over"
    BY <1>0, <1>5 DEF Finish, FinishAt, NextReturns, Advance
  <2> QED BY <1>0, <1>5, <2>1, Finishes DEF Decided, Finished, Deciding, DecidesOnce
<1>6. CASE DecideCommit(t) \/ CommitSucceeds(t) \/ CommitUncertain(t) \/ CommitFails(t)
  <2>1. next[t] \in Deciding /\ inner' = inner
    BY <1>6 DEF DecideCommit, CommitSucceeds, CommitUncertain, AppendApplies, CommitFails, Appending,
                Deciding
  <2>2. next'[t] \in {"append", "detached", "ended", "over"}
    BY <1>0, <1>6 DEF DecideCommit, CommitSucceeds, CommitUncertain, AppendApplies, CommitFails,
                      NextReturns, Advance
  <2>3. next'[t] # "over"
    BY <1>0, <1>6, <2>1 DEF DecideCommit, CommitSucceeds, CommitUncertain, AppendApplies, CommitFails,
                            NextReturns, Advance, DecidesOnce
  <2> QED BY <2>1, <2>2, <2>3 DEF Decided, Finished, Deciding
<1>7. CASE PumpSend(t)
  <2>1. /\ inner' = inner /\ commit' = commit
        /\ next'[t] = IF next[t] = "event" THEN "idle" ELSE next[t]
    BY <1>0, <1>7 DEF PumpSend
  <2> QED BY <2>1 DEF Decided, Finished, Deciding
<1>8. CASE CloseTurn(t)
  <2>1. next' = next /\ commit' = commit /\ InnerClose(t)
    BY <1>8 DEF CloseTurn
  <2> QED BY <1>0, <2>1, Closed DEF Decided, Finished, DecidesOnce
<1>9. CASE ~ TurnMove(t)
  <2>1. inner'[t] = inner[t] /\ next'[t] = next[t] /\ commit'[t] = commit[t]
    BY <1>9, TurnFrame, MoveTypes DEF runVars
  <2> QED BY <2>1 DEF Decided, Finished
<1> QED
  BY <1>1, <1>2, <1>3, <1>4, <1>5, <1>6, <1>7, <1>8, <1>9 DEF TurnMove


\* A handler starts to serve a turn only when the turn starts.
LEMMA ServesOnce ==
  ASSUME HTypeOK, PermitsInv, [HNext]_hvars, NEW t \in Turns, handler'[t] = "serving"
  PROVE  handler[t] = "serving" \/ StartRun(t)
<1>0. handler \in [Clients -> HandlerStages] /\ t \in Clients
  BY TurnsAssumption DEF HTypeOK
<1>1. CASE UNCHANGED handler
  BY <1>1
<1>2. ASSUME NEW c \in Clients, Admit(c) \/ HandlerStep(c) \/ SessionHandler(c)
      PROVE  handler[t] = "serving"
  <2>1. UNCHANGED handler \/ \E where \in HandlerStages \ {"serving"} : At(c, where)
    BY <1>2 DEF Admit, HandlerStep, Enter, ReleaseSecond, Leave, SessionHandler, ListIDs, LoadSummary,
                EncodeList, GetPage, PageFails, CreateOrFork, PatchSession, RemoveSession, WriteFails,
                HandlerStages
  <2> QED BY <1>0, <2>1 DEF At
<1>3. ASSUME NEW u \in Turns,
             RunHandler(u) \/ Disconnect(u) \/ ServeBroken(u) \/ Pump(u) \/ TurnStep(u) \/ SendTurn(u)
      PROVE  handler[t] = "serving" \/ StartRun(t)
  <2>1. \/ UNCHANGED handler \/ At(u, "releasing") \/ At(u, "closing")
        \/ StartRun(u) /\ At(u, "serving")
    BY <1>3 DEF RunHandler, StartRun, RefuseRun, ServeDone, ServeEvent, ServeLast, CloseTurn, Disconnect,
         ServeBroken, Pump, PumpNext, PumpSend, PumpDone, TurnStep, SendTurn, httpVars
  <2> QED BY <1>0, <2>1 DEF At
<1> QED BY <1>1, <1>2, <1>3 DEF HNext, hvars, httpVars

\* What the pump sends is so.
LEMMA SentIsTrue ==
  ASSUME HTypeOK, TurnInv, FramesInv, PermitsInv, [HNext]_hvars, NEW t \in Turns, PumpSend(t)
  PROVE  PumpOK(t)' /\ ChannelOK(t)' /\ SeenOK(t)'
<1>0. /\ PumpOK(t) /\ SeenOK(t) /\ DecidesOnce(t)
      /\ next \in [Turns -> NextStages] /\ pump[t] = "inside"
      /\ next[t] \in {"event", "ended", "over"}
  BY DEF FramesInv, TurnInv, HTypeOK, PumpSend
<1>1. /\ chan'[t] = <<Item(t)>> /\ seen' = seen /\ inner' = inner /\ commit' = commit
      /\ next'[t] = IF next[t] = "event" THEN "idle" ELSE next[t]
  BY DEF PumpSend, HTypeOK
<1>2. PumpOK(t)' /\ SeenOK(t)'
  <2>1. PumpOK(t)'
    BY <1>0, <1>1, FinalStands DEF PumpOK
  <2>2. next[t] # "new" /\ ~ StartRun(t)
    BY <1>0 DEF StartRun, Begin
  <2>3. SeenOK(t)'
    BY <1>0, <1>1, <2>2, FinalStands, ServesOnce DEF SeenOK
  <2> QED BY <2>1, <2>3
<1>3. ASSUME next[t] = "event"
      PROVE  ChannelOK(t)'
  <2>1. Item(t) = EventItem("progress")
    BY <1>3 DEF Item, EventItem
  <2> QED BY <1>1, <2>1 DEF ChannelOK, EventItem
<1>4. ASSUME next[t] = "ended"
      PROVE  ChannelOK(t)'
  <2>1. Item(t) = EventItem("run_end")
    BY <1>4 DEF Item, EventItem
  <2>2. Decided(t)
    BY <1>0, <1>4 DEF DecidesOnce, Decided, Deciding
  <2>3. Decided(t)'
    BY <2>2, FinalStands
  <2> QED BY <1>1, <2>1, <2>3 DEF ChannelOK, EventItem
<1>5. ASSUME next[t] = "over"
      PROVE  ChannelOK(t)'
  <2>1. Finished(t)
    BY <1>0, <1>5 DEF PumpOK
  <2>2. Item(t) = LastItem(t)
    BY <1>5 DEF Item, LastItem
  <2>3. Finished(t)' /\ LastItem(t)' = LastItem(t)
    BY <2>1, FinalStands
  <2> QED BY <1>1, <2>2, <2>3 DEF ChannelOK
<1> QED BY <1>0, <1>2, <1>3, <1>4, <1>5

\* What the handler tells its client is so.
LEMMA ShownIsTrue ==
  ASSUME HTypeOK, TurnInv, FramesInv, PermitsInv, [HNext]_hvars, NEW t \in Turns, ServeEvent(t) \/ ServeLast(t)
  PROVE  PumpOK(t)' /\ ChannelOK(t)' /\ SeenOK(t)'
<1>0. PumpOK(t) /\ ChannelOK(t) /\ SeenOK(t) /\ chan[t] # <<>>
  BY DEF FramesInv, ServeEvent, ServeLast
<1>1. t \in DOMAIN seen /\ pump' = pump /\ next[t] # "new"
  BY <1>0, TurnsAssumption DEF HTypeOK, ServeEvent, ServeLast, PumpOK
<1>2. PumpOK(t)'
  BY <1>0, <1>1, FinalStands DEF PumpOK
<1>3. ChannelOK(t)'
  <2>1. chan'[t] = Tail(chan[t])
    BY DEF ServeEvent, ServeLast, HTypeOK
  <2>2. \E x : chan[t] = <<x>>
    BY <1>0 DEF ChannelOK
  <2> QED BY <2>1, <2>2 DEF ChannelOK
<1>a. /\ seen[t] \subseteq {"run_end"}
      /\ handler'[t] = "serving" => handler[t] = "serving"
  <2>1. handler[t] = "serving" /\ ~ StartRun(t)
    BY <1>1 DEF ServeEvent, ServeLast, StartRun, Begin
  <2> QED BY <1>0, <2>1, ServesOnce DEF SeenOK
<1>4. CASE seen'[t] = seen[t]
  BY <1>0, <1>2, <1>3, <1>4, <1>a, FinalStands DEF SeenOK
<1>5. CASE ServeEvent(t) /\ seen'[t] # seen[t]
  <2>1. CASE seen'[t] = seen[t] \cup ({Head(chan[t]).event} \cap {"run_end"})
    <3>1. /\ seen'[t] = seen[t] \cup {"run_end"} /\ Head(chan[t]).event = "run_end"
          /\ Head(chan[t]).what = "event"
      BY <1>5, <2>1 DEF ServeEvent
    <3>2. Decided(t)
      BY <1>0, <3>1 DEF ChannelOK, EventItem, LastItem
    <3>3. Decided(t)'
      BY <3>2, FinalStands
    <3>4. SeenOK(t)'
      BY <1>a, <3>1, <3>3 DEF SeenOK, RunErrors
    <3> QED BY <1>2, <1>3, <3>4
  <2>2. CASE seen'[t] = seen[t] \cup {"frame_too_large"} /\ At(t, "closing")
    <3>1. handler'[t] = "closing"
      BY <2>2, TurnsAssumption DEF At, HTypeOK
    <3>2. "run_end" \in seen[t] => Decided(t)'
      BY <1>0, FinalStands DEF SeenOK
    <3>3. SeenOK(t)'
      BY <1>a, <2>2, <3>1, <3>2 DEF SeenOK, RunErrors
    <3> QED BY <1>2, <1>3, <3>3
  <2> QED BY <1>1, <1>5, <2>1, <2>2 DEF ServeEvent
<1>6. CASE ServeLast(t) /\ seen'[t] # seen[t]
  <2>1. Head(chan[t]).what = "last" /\ seen'[t] = seen[t] \cup LastFrame(Head(chan[t]))
    BY <1>1, <1>6 DEF ServeLast
  <2>2. Head(chan[t]) = LastItem(t) /\ Finished(t)
    BY <1>0, <2>1 DEF ChannelOK, EventItem, LastItem
  <2>3. LastItem(t).err = TurnErr(t) /\ LastItem(t).session = commit[t].session
    BY DEF LastItem
  <2>6. handler'[t] = "closing"
    BY <1>6, TurnsAssumption DEF ServeLast, At, HTypeOK
  <2>4. CASE TurnErr(t) # "none"
    <3>1. seen'[t] = seen[t] \cup {ErrorFrame(TurnErr(t))}
      BY <2>1, <2>2, <2>3, <2>4 DEF LastFrame
    <3>2. ErrorFrame(TurnErr(t)) \in RunErrors
      BY DEF ErrorFrame, RunErrors
    <3>3. SeenOK(t)'
      BY <1>0, <1>a, <2>2, <2>4, <2>6, <3>1, <3>2, FinalStands DEF SeenOK, RunErrors
    <3> QED BY <1>2, <1>3, <3>3
  <2>5. CASE TurnErr(t) = "none"
    <3>1. seen'[t] = seen[t] \cup {"done"} /\ commit[t].session
      BY <1>6, <2>1, <2>2, <2>3, <2>5 DEF LastFrame
    <3>2. SeenOK(t)'
      BY <1>0, <1>a, <2>2, <2>5, <2>6, <3>1, FinalStands DEF SeenOK, RunErrors
    <3> QED BY <1>2, <1>3, <3>2
  <2> QED BY <2>4, <2>5
<1> QED BY <1>4, <1>5, <1>6

\* Every step keeps what is true of the channels and the frames.
LEMMA FramesInvStep ==
  ASSUME HTypeOK, TurnInv, FramesInv, PermitsInv, [HNext]_hvars
  PROVE  FramesInv'
<1> SUFFICES ASSUME NEW t \in Turns
             PROVE  PumpOK(t)' /\ ChannelOK(t)' /\ SeenOK(t)'
  BY DEF FramesInv
<1>0. PumpOK(t) /\ ChannelOK(t) /\ SeenOK(t)
  BY DEF FramesInv
<1>a. StartRun(t) \/ (handler'[t] = "serving" => handler[t] = "serving")
  BY ServesOnce
<1>1. CASE ~ StartRun(t) /\ chan'[t] = chan[t] /\ seen'[t] = seen[t] /\ pump'[t] = pump[t]
  <2>1. PumpOK(t)'
    BY <1>0, <1>1, FinalStands DEF PumpOK
  <2>2. ChannelOK(t)'
    BY <1>0, <1>1, FinalStands DEF ChannelOK
  <2>3. SeenOK(t)'
    BY <1>0, <1>1, <1>a, FinalStands DEF SeenOK
  <2> QED BY <2>1, <2>2, <2>3
<1>2. CASE StartRun(t)
  <2>1. next[t] = "new" /\ next'[t] = "idle" /\ chan' = chan /\ seen' = seen
    BY <1>2 DEF StartRun, Begin, Advance, HTypeOK
  <2> QED BY <1>0, <2>1 DEF PumpOK, ChannelOK, SeenOK
<1>3. CASE PumpNext(t) \/ PumpDone(t)
  <2>1. pump[t] # "none" /\ chan' = chan /\ seen' = seen
    BY <1>3 DEF PumpNext, PumpDone
  <2>2. next[t] # "new"
    BY <1>0, <2>1 DEF PumpOK
  <2>3. PumpOK(t)'
    BY <1>0, <2>1, <2>2, FinalStands DEF PumpOK
  <2>4. ~ StartRun(t)
    BY <2>2 DEF StartRun, Begin
  <2>5. ChannelOK(t)'
    BY <1>0, <2>1, FinalStands DEF ChannelOK
  <2>6. SeenOK(t)'
    BY <1>0, <1>a, <2>1, <2>4, FinalStands DEF SeenOK
  <2> QED BY <2>3, <2>5, <2>6
<1>4. CASE PumpSend(t)
  BY <1>4, SentIsTrue
<1>5. CASE ServeEvent(t) \/ ServeLast(t)
  BY <1>5, ShownIsTrue
<1>6. CASE ~ FrameMove(t)
  <2>0. ~ StartRun(t)
    BY <1>6 DEF FrameMove
  <2>1. CASE UNCHANGED <<chan, seen, pump>>
    BY <1>1, <2>0, <2>1
  <2>2. ASSUME NEW u \in Turns, FrameMove(u)
        PROVE  chan'[t] = chan[t] /\ seen'[t] = seen[t] /\ pump'[t] = pump[t]
    <3>0. u # t /\ t \in Clients
      BY <1>6, <2>2, TurnsAssumption
    <3>1. pump'[t] = pump[t]
      BY <2>2, <3>0 DEF FrameMove, StartRun, PumpNext, PumpSend, PumpDone, ServeEvent, ServeLast,
                        PumpAt, HTypeOK
    <3>2. chan'[t] = chan[t]
      BY <2>2, <3>0 DEF FrameMove, StartRun, PumpNext, PumpSend, PumpDone, ServeEvent, ServeLast, HTypeOK
    <3>3. seen'[t] = seen[t]
      BY <2>2, <3>0 DEF FrameMove, StartRun, PumpNext, PumpSend, PumpDone, ServeEvent, ServeLast, HTypeOK
    <3> QED BY <3>1, <3>2, <3>3
  <2> QED BY <1>1, <2>0, <2>1, <2>2, ChannelFrame
<1> QED BY <1>2, <1>3, <1>4, <1>5, <1>6 DEF FrameMove


--------------------------------------------------------------------------------
(***************************************************************************)
(* Permits.                                                                *)
(***************************************************************************)

\* The size of a finite set that gains or loses an element.
LEMMA OneMoreOrLess ==
  ASSUME NEW S, IsFiniteSet(S), NEW c
  PROVE  /\ Cardinality(S) \in Nat
         /\ c \notin S => IsFiniteSet(S \cup {c}) /\ Cardinality(S \cup {c}) = Cardinality(S) + 1
         /\ c \in S => IsFiniteSet(S \ {c}) /\ Cardinality(S \ {c}) = Cardinality(S) - 1
<1>1. Cardinality(S) \in Nat
  BY FS_CardinalityType
<1>2. ASSUME c \notin S
      PROVE  IsFiniteSet(S \cup {c}) /\ Cardinality(S \cup {c}) = Cardinality(S) + 1
  BY <1>2, FS_AddElement
<1>3. ASSUME c \in S
      PROVE  IsFiniteSet(S \ {c}) /\ Cardinality(S \ {c}) = Cardinality(S) - 1
  BY <1>3, FS_RemoveElement
<1> QED BY <1>1, <1>2, <1>3

\* A handler that takes or gives back a permit joins or leaves its holders.
LEMMA PermitsCount ==
  ASSUME HTypeOK, PermitsInv, [HNext]_hvars
  PROVE  /\ (IsFiniteSet(RunHolders) /\ permits["run"] = Cardinality(RunHolders))'
         /\ (IsFiniteSet(RequestHolders) /\ permits["request"] = Cardinality(RequestHolders))'
         /\ permits'["run"] <= MaxRuns
         /\ \A t \in Runs : handler'[t] # "loading"
<1> DEFINE Goal == /\ (IsFiniteSet(RunHolders) /\ permits["run"] = Cardinality(RunHolders))'
                   /\ (IsFiniteSet(RequestHolders) /\ permits["request"] = Cardinality(RequestHolders))'
                   /\ permits'["run"] <= MaxRuns
                   /\ \A t \in Runs : handler'[t] # "loading"
<1>0. /\ handler \in [Clients -> HandlerStages] /\ permits \in [{"request", "run", "encode"} -> Int]
      /\ Runs' = Runs /\ Runs \subseteq Clients /\ MaxRuns \in Nat
      /\ IsFiniteSet(RunHolders) /\ permits["run"] = Cardinality(RunHolders)
      /\ IsFiniteSet(RequestHolders) /\ permits["request"] = Cardinality(RequestHolders)
      /\ permits["run"] <= MaxRuns
      /\ \A t \in Runs : handler[t] # "loading"
  BY JobFixed, HttpAssumption DEF HTypeOK, PermitsInv, Runs
<1>1. ASSUME NEW c \in Clients, NEW where, At(c, where)
      PROVE  /\ handler'[c] = where
             /\ \A d \in Clients \ {c} : handler'[d] = handler[d]
             /\ \A d \in Clients : d \in RequestHolders' <=> IF d = c THEN where \notin {"new", "over"}
                                                             ELSE d \in RequestHolders
             /\ \A d \in Clients : d \in RunHolders' <=>
                  d \in Runs /\ IF d = c THEN where \in {"working", "serving", "closing", "releasing"}
                                ELSE d \in RunHolders
  BY <1>0, <1>1 DEF At, RequestHolders, RunHolders, HoldsRunPermit
<1>2. RunHolders \subseteq Clients /\ RunHolders' \subseteq Clients
      /\ RequestHolders \subseteq Clients /\ RequestHolders' \subseteq Clients
  BY <1>0 DEF RunHolders, RequestHolders
<1>3. \A c \in Clients :
        /\ c \notin RunHolders => /\ IsFiniteSet(RunHolders \cup {c})
                                  /\ Cardinality(RunHolders \cup {c}) = permits["run"] + 1
        /\ c \in RunHolders => /\ IsFiniteSet(RunHolders \ {c})
                               /\ Cardinality(RunHolders \ {c}) = permits["run"] - 1
        /\ c \notin RequestHolders => /\ IsFiniteSet(RequestHolders \cup {c})
                                      /\ Cardinality(RequestHolders \cup {c}) = permits["request"] + 1
        /\ c \in RequestHolders => /\ IsFiniteSet(RequestHolders \ {c})
                                   /\ Cardinality(RequestHolders \ {c}) = permits["request"] - 1
  BY <1>0, OneMoreOrLess
<1>4. CASE UNCHANGED <<handler, permits>>
  BY <1>0, <1>4 DEF RunHolders, RequestHolders, HoldsRunPermit
<1>5. ASSUME NEW c \in Clients, Admit(c)
      PROVE  Goal
  <2>1. handler[c] = "new" /\ c \notin RequestHolders /\ c \notin RunHolders
    BY <1>5 DEF Admit, RequestHolders, RunHolders, HoldsRunPermit
  <2>2. CASE At(c, "over") /\ UNCHANGED permits
    <3>1. RunHolders' = RunHolders /\ RequestHolders' = RequestHolders
      BY <1>1, <1>2, <2>1, <2>2 DEF RunHolders
    <3> QED BY <1>0, <1>1, <2>2, <3>1
  <2>3. CASE At(c, "admitted") /\ Take("request")
    <3>1. RunHolders' = RunHolders /\ RequestHolders' = RequestHolders \cup {c}
      BY <1>1, <1>2, <2>1, <2>3 DEF RunHolders
    <3>2. permits'["run"] = permits["run"] /\ permits'["request"] = permits["request"] + 1
      BY <1>0, <2>3 DEF Take
    <3>3. IsFiniteSet(RequestHolders') /\ permits'["request"] = Cardinality(RequestHolders')
      BY <1>3, <2>1, <3>1, <3>2
    <3>4. \A t \in Runs : handler'[t] # "loading"
      BY <1>0, <1>1, <2>3
    <3> QED BY <1>0, <3>1, <3>2, <3>3, <3>4
  <2> QED BY <1>5, <2>2, <2>3 DEF Admit
<1>6. ASSUME NEW c \in Clients, Enter(c)
      PROVE  Goal
  <2>1. handler[c] = "admitted" /\ c \in RequestHolders /\ c \notin RunHolders
    BY <1>6 DEF Enter, RequestHolders, RunHolders, HoldsRunPermit
  <2>2. CASE At(c, "leaving") /\ UNCHANGED permits
    <3>1. RunHolders' = RunHolders /\ RequestHolders' = RequestHolders
      BY <1>1, <1>2, <2>1, <2>2 DEF RunHolders
    <3> QED BY <1>0, <1>1, <2>2, <3>1
  <2>3. CASE At(c, "working") /\ job[c].kind # "run" /\ (UNCHANGED permits \/ Take("encode"))
    <3>0. c \notin Runs
      BY <2>3 DEF Runs
    <3>1. RunHolders' = RunHolders /\ RequestHolders' = RequestHolders
      BY <1>1, <1>2, <2>1, <2>3, <3>0 DEF RunHolders
    <3>2. permits'["run"] = permits["run"] /\ permits'["request"] = permits["request"]
      BY <1>0, <2>3 DEF Take
    <3> QED BY <1>0, <1>1, <2>3, <3>1, <3>2
  <2>4. CASE At(c, "working") /\ job[c].kind = "run" /\ ~ Full("run") /\ Take("run")
    <3>0. c \in Runs
      BY <2>4 DEF Runs
    <3>1. RunHolders' = RunHolders \cup {c} /\ RequestHolders' = RequestHolders
      BY <1>1, <1>2, <2>1, <2>4, <3>0 DEF RunHolders
    <3>2. permits'["run"] = permits["run"] + 1 /\ permits'["request"] = permits["request"]
      BY <1>0, <2>4 DEF Take
    <3>3. permits["run"] < MaxRuns
      BY <1>0, <2>4 DEF Full
    <3>4. IsFiniteSet(RunHolders') /\ permits'["run"] = Cardinality(RunHolders')
      BY <1>3, <2>1, <3>1, <3>2
    <3>5. permits'["run"] <= MaxRuns
      BY <1>0, <3>2, <3>3
    <3>6. \A t \in Runs : handler'[t] # "loading"
      BY <1>0, <1>1, <2>4
    <3> QED BY <1>0, <3>1, <3>2, <3>4, <3>5, <3>6
  <2> QED BY <1>6, <2>2, <2>3, <2>4 DEF Enter, Needs
<1>7. ASSUME NEW c \in Clients, ReleaseSecond(c)
      PROVE  Goal
  <2>1. /\ handler[c] = "releasing" /\ At(c, "leaving")
        /\ c \in RequestHolders /\ (c \in RunHolders <=> c \in Runs)
    BY <1>7 DEF ReleaseSecond, RequestHolders, RunHolders, HoldsRunPermit
  <2>2. RequestHolders' = RequestHolders
    BY <1>1, <1>2, <2>1
  <2>3. CASE c \in Runs
    <3>1. RunHolders' = RunHolders \ {c}
      BY <1>1, <1>2, <2>1, <2>3 DEF RunHolders
    <3>2. permits'["run"] = permits["run"] - 1 /\ permits'["request"] = permits["request"]
      BY <1>0, <1>7, <2>3 DEF ReleaseSecond, Release, Needs, Runs
    <3>3. IsFiniteSet(RunHolders') /\ permits'["run"] = Cardinality(RunHolders')
      BY <1>3, <2>1, <2>3, <3>1, <3>2
    <3>4. permits'["run"] <= MaxRuns
      BY <1>0, <3>2
    <3>5. \A t \in Runs : handler'[t] # "loading"
      BY <1>0, <1>1, <2>1
    <3> QED BY <1>0, <2>2, <3>2, <3>3, <3>4, <3>5
  <2>4. CASE c \notin Runs
    <3>1. RunHolders' = RunHolders
      BY <1>1, <1>2, <2>1, <2>4 DEF RunHolders
    <3>2. permits'["run"] = permits["run"] /\ permits'["request"] = permits["request"]
      BY <1>0, <1>7, <2>4 DEF ReleaseSecond, Release, Needs, Runs
    <3> QED BY <1>0, <1>1, <2>1, <2>2, <3>1, <3>2
  <2> QED BY <2>3, <2>4
<1>8. ASSUME NEW c \in Clients, Leave(c)
      PROVE  Goal
  <2>1. /\ handler[c] = "leaving" /\ c \in RequestHolders /\ c \notin RunHolders
        /\ At(c, "new") \/ At(c, "over")
    BY <1>8 DEF Leave, RequestHolders, RunHolders, HoldsRunPermit
  <2>2. RequestHolders' = RequestHolders \ {c} /\ RunHolders' = RunHolders
    BY <1>1, <1>2, <2>1 DEF RunHolders
  <2>3. permits'["run"] = permits["run"] /\ permits'["request"] = permits["request"] - 1
    BY <1>0, <1>8 DEF Leave, Release
  <2> QED BY <1>0, <1>1, <1>3, <2>1, <2>2, <2>3
<1>9. ASSUME NEW c \in Clients, Shift(c)
      PROVE  Goal
  <2>1. PICK where \in {"working", "loading", "serving", "closing", "releasing"} : At(c, where)
    BY <1>9 DEF Shift
  <2>2. /\ c \in RequestHolders /\ UNCHANGED permits
        /\ c \in Runs => HoldsRunPermit(c) /\ HoldsRunPermit(c)'
    BY <1>9 DEF Shift, RequestHolders
  <2>3. RequestHolders' = RequestHolders
    BY <1>1, <1>2, <2>1, <2>2
  <2>4. RunHolders' = RunHolders
    BY <1>0, <1>1, <1>2, <2>1, <2>2 DEF RunHolders, HoldsRunPermit
  <2>5. c \in Runs => where # "loading"
    BY <1>1, <2>1, <2>2 DEF HoldsRunPermit
  <2> QED BY <1>0, <1>1, <2>1, <2>2, <2>3, <2>4, <2>5
<1> QED BY <1>4, <1>5, <1>6, <1>7, <1>8, <1>9, HandlerFrame DEF HandlerMove

\* A run is open only while its handler serves it or is about to close it.
LEMMA OpenRunsAreServed ==
  ASSUME HTypeOK, TurnInv, PermitsInv, [HNext]_hvars, NEW t \in Runs, ~ inner'[t].closed
  PROVE  handler'[t] \in {"serving", "closing"}
<1>0. t \in Turns /\ t \in Clients /\ job[t].kind = "run" /\ handler \in [Clients -> HandlerStages]
  BY TurnsAssumption DEF HTypeOK, Runs
<1>1. CASE inner[t].closed
  <2>1. PICK u \in Turns : TurnMove(u)
    BY <1>1, TurnFrame DEF runVars
  <2>2. u = t
    BY <1>0, <1>1, <2>1, MoveTypes
  <2>3. \E id \in IDs, streamed \in BOOLEAN : Begin(t, id, streamed)
    <3>1. CASE Exhaust(t) \/ InnerRunEnd(t) \/ InnerClose(t)
      BY <1>0, <1>1, <3>1, Exhausted, RunEnded, Closed
    <3>2. CASE inner' = inner
      BY <1>1, <3>2
    <3> QED BY <1>0, <2>1, <2>2, <3>1, <3>2, NextCalled
            DEF TurnMove, BeginFails, InnerEvent, InnerExhausted, Finish, FinishAt, DecideCommit,
                CommitSucceeds, CommitUncertain, AppendApplies, CommitFails, PumpSend, CloseTurn
  <2>4. next[t] = "new" /\ next'[t] = "idle"
    BY <1>0, <2>3 DEF Begin, Advance, HTypeOK
  <2>5. StartRun(t)
    <3>1. ASSUME NEW c \in Clients, Admit(c) \/ HandlerStep(c) \/ SessionHandler(c)
          PROVE  next' = next
      BY <3>1 DEF Admit, HandlerStep, Enter, ReleaseSecond, Leave, SessionHandler, ListIDs, LoadSummary,
           EncodeList, GetPage, PageFails, CreateOrFork, PatchSession, RemoveSession, WriteFails, Store,
           turnVars
    <3>2. ASSUME NEW v \in Turns, RunHandler(v) \/ Disconnect(v) \/ ServeBroken(v) \/ Pump(v),
                 ~ StartRun(v)
          PROVE  next'[t] # "idle"
      BY <1>0, <2>4, <3>2 DEF RunHandler, RefuseRun, ServeDone, ServeEvent, ServeLast, CloseTurn,
           Disconnect, ServeBroken, Pump, PumpNext, PumpSend, PumpDone, BeginFails, CallNext, Exhaust,
           Advance, Store, turnVars, HTypeOK
    <3>3. ASSUME NEW v \in Turns, TurnStep(v)
          PROVE  next'[t] # "idle"
      BY <1>0, <2>4, <3>3 DEF TurnStep, TurnSteps, InnerEvent, InnerRunEnd, InnerExhausted, Exhaust,
           Finish, FinishAt, DecideCommit, CommitSucceeds, CommitUncertain, AppendApplies, CommitFails,
           Appending, NextReturns, Advance, HTypeOK
    <3>4. ASSUME NEW v \in Turns, SendTurn(v)
          PROVE  next'[t] # "idle"
      <4>1. v # t
        BY <1>0, <3>4 DEF SendTurn
      <4> QED BY <1>0, <2>4, <3>4, <4>1 DEF SendTurn, Begin, BeginFails, CallNext, Exhaust, Advance, HTypeOK
    <3>5. ASSUME NEW v \in Turns, StartRun(v)
          PROVE  v = t
      BY <1>0, <2>4, <3>5 DEF StartRun, Begin, Advance, HTypeOK
    <3> QED BY <2>4, <3>1, <3>2, <3>3, <3>4, <3>5 DEF HNext, hvars, turnVars
  <2> QED BY <1>0, <2>5 DEF StartRun, At
<1>2. CASE ~ inner[t].closed
  <2>0. handler[t] \in {"serving", "closing"}
    BY <1>2 DEF PermitsInv
  <2>1. ~ CloseTurn(t)
    BY <1>0, Closed DEF CloseTurn
  <2>2. ASSUME NEW c \in Clients, Admit(c) \/ HandlerStep(c) \/ SessionHandler(c)
        PROVE  handler'[t] = handler[t]
    <3>1. CASE UNCHANGED handler
      BY <3>1
    <3>2. CASE handler[c] \in {"new", "admitted", "releasing", "leaving", "working", "loading"}
               /\ \E where : At(c, where)
      BY <1>0, <2>0, <3>2 DEF At
    <3> QED BY <2>2, <3>1, <3>2 DEF Admit, HandlerStep, Enter, ReleaseSecond, Leave, SessionHandler,
               ListIDs, LoadSummary, EncodeList, GetPage, PageFails, CreateOrFork, PatchSession,
               RemoveSession, WriteFails, Store
  <2>3. ASSUME NEW v \in Turns, RunHandler(v) \/ ServeBroken(v)
        PROVE  handler'[t] \in {"serving", "closing"}
    <3>1. \/ UNCHANGED handler \/ At(v, "closing") \/ At(v, "serving")
          \/ v # t /\ \E where : At(v, where)
      BY <2>0, <2>1, <2>3 DEF RunHandler, StartRun, RefuseRun, ServeDone, ServeEvent, ServeLast, CloseTurn,
                         ServeBroken
    <3> QED BY <1>0, <2>0, <3>1 DEF At
  <2>4. ASSUME NEW v \in Turns, Disconnect(v) \/ Pump(v) \/ TurnStep(v) \/ SendTurn(v)
        PROVE  handler' = handler
    BY <2>4 DEF Disconnect, Pump, PumpNext, PumpSend, PumpDone, TurnStep, SendTurn, httpVars
  <2> QED BY <2>0, <2>2, <2>3, <2>4 DEF HNext, hvars, httpVars
<1> QED BY <1>1, <1>2

\* Every step keeps the count of the permits.
LEMMA PermitsInvStep ==
  ASSUME HTypeOK, TurnInv, PermitsInv, [HNext]_hvars
  PROVE  PermitsInv'
<1>1. Runs' = Runs
  BY JobFixed DEF Runs
<1> QED BY <1>1, PermitsCount, OpenRunsAreServed DEF PermitsInv

--------------------------------------------------------------------------------
(***************************************************************************)
(* The theorems.                                                           *)
(***************************************************************************)

\* Every scenario starts in the invariant.
LEMMA HInvInit ==
  ASSUME HInit
  PROVE  HInv
<1>0. PICK s \in Scenarios : job = s.job /\ saved = s.saved
  BY DEF HInit
<1>1. /\ saved \in [IDs -> Record \cup {Absent}] /\ job \in [Clients -> [kind : Kinds, ids : SUBSET IDs]]
      /\ Runs \subseteq Turns /\ MaxRuns \in Nat
  BY <1>0, HttpAssumption DEF Runs
<1>2. /\ NoTx \in Tx /\ NoRun \in Run /\ NoCommit \in CommitState
  BY EmptySeq DEF NoTx, Tx, NoRun, Run, Stops, NoCommit, CommitState, Errs
<1>3. HTypeOK
  BY <1>1, <1>2 DEF HInit, TurnInit, HTypeOK, NextStages, HandlerStages
<1>4. ASSUME NEW t \in Turns
      PROVE  /\ ReadsPrefix(t) /\ DecidesOnce(t) /\ CommitOK(t)
             /\ PumpOK(t) /\ ChannelOK(t) /\ SeenOK(t)
  <2>1. /\ tx[t] = NoTx /\ inner[t] = NoRun /\ next[t] = "new" /\ commit[t] = NoCommit
        /\ applied[t] = Nothing /\ pump[t] = "none" /\ chan[t] = <<>> /\ seen[t] = {}
    BY TurnsAssumption DEF HInit, TurnInit
  <2>2. tx[t].id \notin IDs
    BY <2>1, SessionsAssumption DEF NoTx
  <2> HIDE DEF Nothing
  <2>3. ReadsPrefix(t)
    BY <2>2 DEF ReadsPrefix
  <2>4. CommitOK(t)
    BY <2>1 DEF NoCommit, CommitOK
  <2>5. DecidesOnce(t)
    <3>1. inner[t].end = "ahead"
      <4>1. NoRun.end = "ahead"
        BY DEF NoRun
      <4>2. inner[t] = NoRun
        BY <2>1
      <4> QED BY <4>1, <4>2
    <3> QED BY <2>1, <3>1 DEF Deciding, DecidesOnce
  <2>6. PumpOK(t) /\ ChannelOK(t) /\ SeenOK(t)
    BY <2>1 DEF PumpOK, ChannelOK, SeenOK
  <2> QED BY <2>3, <2>4, <2>5, <2>6
<1>5. PermitsInv
  <2>1. RunHolders = {} /\ RequestHolders = {}
    BY <1>1, TurnsAssumption DEF RunHolders, RequestHolders, HInit, HoldsRunPermit, Runs
  <2>2. permits["run"] = 0 /\ permits["request"] = 0
    BY DEF HInit
  <2>3. \A t \in Runs : inner[t].closed /\ handler[t] # "loading"
    BY <1>1, TurnsAssumption DEF HInit, TurnInit, NoRun, Runs
  <2> QED BY <1>1, <2>1, <2>2, <2>3, FS_EmptySet DEF PermitsInv
<1> QED BY <1>3, <1>4, <1>5 DEF HInv, TurnInv, FramesInv

\* Whatever clients, runs, pumps and handlers do, and in whatever order, the
\* invariant holds.
THEOREM HttpInvariant == HSpec => []HInv
<1>1. HInv /\ [HNext]_hvars => HInv'
  BY HTypeStep, TurnInvStep, FramesInvStep, PermitsInvStep DEF HInv
<1> QED BY <1>1, HInvInit, PTL DEF HSpec

\* finish and AppendAt: what a turn commits continues the transcript its run
\* was given, however the commits of other turns, patches and forks interleave.
THEOREM CommitsExtendWhatWasRead == HSpec => []CommitExtendsWhatWasRead
<1>1. HInv => CommitExtendsWhatWasRead
  BY DEF HInv, TurnInv, CommitOK, CommitExtendsWhatWasRead
<1> QED BY <1>1, HttpInvariant, PTL

\* handleRun and pumpTurn: a client is told one outcome at most, and run_end, done
\* and the errors of the run tell it the truth about its suffix; of a commit that
\* is uncertain, and of a frame that was too large, it learns no more than that.
THEOREM FramesAreTruthful == HSpec => []FramesTruthful
<1>1. ASSUME HInv
      PROVE  FramesTruthful
  <2>1. ASSUME NEW t \in Runs
        PROVE  /\ "run_end" \in seen[t] => commit[t].done /\ next[t] \notin Deciding
               /\ "done" \in seen[t] => applied[t] # Nothing /\ TurnErr(t) = "none"
               /\ seen[t] \cap RunErrors # {} /\ applied[t] # Nothing => commit[t].err = "uncertain"
               /\ \A f, g \in seen[t] \ {"run_end"} : f = g
    <3>1. t \in Turns
      BY <1>1 DEF HInv, HTypeOK
    <3>2. CommitOK(t) /\ SeenOK(t)
      BY <1>1, <3>1 DEF HInv, TurnInv, FramesInv
    <3> HIDE DEF Nothing
    <3> QED BY <3>2 DEF CommitOK, SeenOK, Decided, TurnErr
  <2> QED BY <2>1 DEF FramesTruthful, Deciding
<1> QED BY <1>1, HttpInvariant, PTL

\* The admission of runs: no more runs are open than there are permits, and no
\* permit is lost or given back twice.
THEOREM RunsAreBounded == HSpec => []RunsBounded
<1>1. HInv => RunsBounded
  BY DEF HInv, PermitsInv, RunsBounded, RunHolders, RequestHolders, HoldsRunPermit
<1> QED BY <1>1, HttpInvariant, PTL
--------------------------------------------------------------------------------
(***************************************************************************)
(* The invariant of the pages.                                             *)
(***************************************************************************)

Increasing(s) == \A i, j \in DOMAIN s : i < j => s[i] < s[j]

PageRecord ==
  [more : BOOLEAN, after : Nat, next : Nat, todo : Seq(IDs), out : Seq(IDs),
   got : Seq(IDs \cup Clients), id : IDs \cup {0}, snap : Nat \cup {-1}, tries : Nat, ok : BOOLEAN]

PageTypeOK ==
  /\ page \in [Clients -> PageRecord]
  /\ alive \in [Clients -> SUBSET IDs]
  /\ first \in [Clients -> Seq(Clients)]

\* Finitely many sessions are stored, and among them those a paging client must see.
Present == {id \in IDs : Exists(id)}
Legible == {id \in IDs : Readable(id)}
AliveExist == IsFiniteSet(Present) /\ \A c \in Clients : alive[c] \subseteq Present

\* While a page is loaded: what is loaded and what is still to be loaded are the
\* IDs behind the cursor, in order, up to the next cursor; a session that was there
\* all the time is among them.
LoadingOK(p, live) ==
  /\ Increasing(p.out) /\ Increasing(p.todo)
  /\ \A i \in DOMAIN p.out, j \in DOMAIN p.todo : p.out[i] < p.todo[j]
  /\ \A id \in ToSet(p.out) \cup ToSet(p.todo) :
       p.after < id /\ (p.next # 0 => id <= p.next)
  /\ p.next # 0 => p.after < p.next
  /\ \A id \in live : p.after < id /\ (p.next = 0 \/ id <= p.next)
                        => id \in ToSet(p.out) \cup ToSet(p.todo)

\* What a listing has shown goes up to its cursor and leaves nothing out.
ListOK(p, live, where) ==
  /\ live \cap Unreadable = {}
  /\ p.got \in Seq(IDs) /\ Increasing(p.got) /\ (p.snap = -1 => p.after = 0)
  /\ p.ok => ~ p.more /\ where \in {"releasing", "leaving", "over"} /\ live \subseteq ToSet(p.got)
  /\ ~ p.ok => /\ \A id \in ToSet(p.got) : id <= p.after
               /\ \A id \in live : id <= p.after => id \in ToSet(p.got)
  /\ where = "loading" => ~ p.ok /\ LoadingOK(p, live)

\* What the pages of a transcript are: its end from the cursor on, as it was at
\* the first page; the transcript still begins with it.
DetailOK(p, live, transcript) ==
  /\ IF p.snap = -1 THEN p.got = <<>> ELSE p.id \in IDs
  /\ p.id \in live =>
       /\ p.snap = Len(transcript) /\ p.after <= p.snap
       /\ p.got = SubSeq(transcript, p.after + 1, p.snap)
       /\ p.snap <= Len(saved[p.id].msgs)
       /\ \A i \in 1 .. p.snap : saved[p.id].msgs[i] = transcript[i]

PageInv ==
  /\ PageTypeOK /\ AliveExist
  /\ \A c \in Clients : handler[c] = "loading" => job[c].kind = "list"
  /\ \A c \in Clients : job[c].kind = "list" => ListOK(page[c], alive[c], handler[c])
  /\ \A c \in Clients : job[c].kind = "detail" => DetailOK(page[c], alive[c], first[c])

--------------------------------------------------------------------------------
(***************************************************************************)
(* The candidates of a page: finite sets, the fold over them, their order. *)
(***************************************************************************)

\* Inclusion among the subsets of a set, as a relation.
OrdersSubsets(R, S) ==
  /\ IsWellFoundedOn(R, SUBSET S)
  /\ \A U, T \in SUBSET S : U \subseteq T /\ U # T => <<U, T>> \in R

\* For a finite set it is well-founded.
LEMMA SubsetsWellFounded ==
  ASSUME NEW S, IsFiniteSet(S)
  PROVE  \E R : OrdersSubsets(R, S)
<1>1. IsWellFoundedOn(StrictSubsetOrdering(S), FiniteSubsetsOf(S))
  BY FS_StrictSubsetOrderingWellFounded
<1>2. FiniteSubsetsOf(S) = SUBSET S
  BY FS_FiniteSubsetsOfFinite
<1>3. IsWellFoundedOn(StrictSubsetOrdering(S), SUBSET S)
  BY <1>1, <1>2
<1>4. \A U, T \in SUBSET S : U \subseteq T /\ U # T => <<U, T>> \in StrictSubsetOrdering(S)
  BY DEF StrictSubsetOrdering
<1> QED BY <1>3, <1>4 DEF OrdersSubsets

\* A set with such a relation has a minimal element.
LEMMA MinimalElement ==
  ASSUME NEW S, NEW R, IsWellFoundedOn(R, S), NEW Q, Q \subseteq S, Q # {}
  PROVE  \E x \in Q : \A y \in Q : ~ (<<y, x>> \in R)
BY WFMin

\* Of some subsets of a finite set, one includes no other.
LEMMA MinimalSubset ==
  ASSUME NEW S, IsFiniteSet(S), NEW Q, Q \subseteq SUBSET S, Q # {}
  PROVE  \E T \in Q : \A U \in Q : ~ (U \subseteq T /\ U # T)
<1>1. PICK R : OrdersSubsets(R, S)
  BY SubsetsWellFounded
<1>2. PICK T \in Q : \A U \in Q : ~ (<<U, T>> \in R)
  <2> DEFINE P == SUBSET S
  <2>1. IsWellFoundedOn(R, P) /\ Q \subseteq P
    BY <1>1 DEF OrdersSubsets
  <2> HIDE DEF P
  <2> QED BY <2>1, MinimalElement
<1> QED BY <1>1, <1>2 DEF OrdersSubsets

\* Induction over the subsets of a finite set, for a property given as a set.
LEMMA SubsetInduction ==
  ASSUME NEW S, IsFiniteSet(S), NEW G,
         \A T \in SUBSET S : (\A U \in SUBSET T : U # T => U \in G) => T \in G
  PROVE  \A T \in SUBSET S : T \in G
<1> SUFFICES ASSUME (SUBSET S) \ G # {}
             PROVE  FALSE
  OBVIOUS
<1>1. PICK T \in (SUBSET S) \ G : \A U \in (SUBSET S) \ G : ~ (U \subseteq T /\ U # T)
  <2> DEFINE Q == (SUBSET S) \ G
  <2>1. Q \subseteq SUBSET S /\ Q # {}
    OBVIOUS
  <2> HIDE DEF Q
  <2>2. \E T \in Q : \A U \in Q : ~ (U \subseteq T /\ U # T)
    BY <2>1, MinimalSubset
  <2> QED BY <2>2 DEF Q
<1>2. ASSUME NEW U \in SUBSET T, U # T
      PROVE  U \in G
  BY <1>1, <1>2
<1> QED BY <1>1, <1>2

\* A finite set of numbers that is not empty has a largest one.
LEMMA MaxIsLargest ==
  ASSUME NEW S, IsFiniteSet(S), S \subseteq Nat, S # {}
  PROVE  Max(S) \in S /\ \A y \in S : y <= Max(S)
<1> DEFINE G == {T \in SUBSET S : T = {} \/ \E x \in T : \A y \in T : y <= x}
<1>1. ASSUME NEW T \in SUBSET S, \A U \in SUBSET T : U # T => U \in G
      PROVE  T \in G
  <2>1. CASE T = {}
    BY <2>1
  <2>2. CASE T # {}
    <3>1. PICK z \in T : TRUE
      BY <2>2
    <3>2. T \ {z} \in G
      BY <1>1, <3>1
    <3>3. CASE T \ {z} = {}
      <4>1. \A y \in T : y <= z
        BY <3>1, <3>3
      <4> QED BY <3>1, <4>1
    <3>4. ASSUME NEW x \in T \ {z}, \A y \in T \ {z} : y <= x
          PROVE  T \in G
      <4>1. x \in Nat /\ z \in Nat /\ T \subseteq Nat
        BY <3>1
      <4>2. CASE z <= x
        <5>1. \A y \in T : y <= x
          BY <3>4, <4>2
        <5> QED BY <5>1
      <4>3. CASE ~ (z <= x)
        <5>1. \A y \in T : y <= z
          <6> SUFFICES ASSUME NEW y \in T
                       PROVE  y <= z
            OBVIOUS
          <6>1. y = z \/ y <= x
            BY <3>4
          <6>2. y \in Nat
            BY <4>1
          <6> QED BY <4>1, <4>3, <6>1, <6>2
        <5> QED BY <3>1, <5>1
      <4> QED BY <4>2, <4>3
    <3> QED BY <3>2, <3>3, <3>4
  <2> QED BY <2>1, <2>2
<1> HIDE DEF G
<1>2. S \in G
  BY <1>1, SubsetInduction
<1>3. PICK x \in S : \A y \in S : y <= x
  BY <1>2 DEF G
<1>4. \A y \in S : x >= y
  <2> SUFFICES ASSUME NEW y \in S
               PROVE  x >= y
    OBVIOUS
  <2>1. x \in Nat /\ y \in Nat /\ y <= x
    BY <1>3
  <2> QED BY <2>1
<1>5. Max(S) \in S /\ \A y \in S : Max(S) >= y
  BY <1>3, <1>4 DEF Max
<1>6. ASSUME NEW y \in S
      PROVE  y <= Max(S)
  <2>1. Max(S) \in Nat /\ y \in Nat /\ Max(S) >= y
    BY <1>5
  <2> QED BY <2>1
<1> QED BY <1>5, <1>6

\* The element a fold takes next.
Taken(s) == CHOOSE x \in s : TRUE

\* What FoldSet's local function is when ListIDsPage folds over some IDs.
Selects(f, ids, after) ==
  f = [s \in SUBSET ids |->
         IF s = {} THEN {}
         ELSE SelectPageID(f[s \ {Taken(s)}], Taken(s), after, PageLimit + 1)]

Selection(ids, after) == (CHOOSE f : Selects(f, ids, after))[ids]

\* ListIDsPage selects by that function.
LEMMA FoldIsSelection ==
  ASSUME NEW ids, NEW after
  PROVE  FoldSet(LAMBDA id, acc : SelectPageID(acc, id, after, PageLimit + 1), {}, ids)
           = Selection(ids, after)
BY DEF FoldSet, MapThenFoldSet, Selects, Selection, Taken

\* Two such functions agree where both are defined.
LEMMA SelectionsAgree ==
  ASSUME NEW S, IsFiniteSet(S), NEW after, NEW T \in SUBSET S, NEW U \in SUBSET S, NEW f, NEW g,
         Selects(f, T, after), Selects(g, U, after)
  PROVE  \A s \in SUBSET S : s \subseteq T /\ s \subseteq U => f[s] = g[s]
<1> DEFINE G == {s \in SUBSET S : s \subseteq T /\ s \subseteq U => f[s] = g[s]}
<1>1. /\ \A s \in SUBSET T : f[s] = IF s = {} THEN {}
                  ELSE SelectPageID(f[s \ {Taken(s)}], Taken(s), after, PageLimit + 1)
      /\ \A s \in SUBSET U : g[s] = IF s = {} THEN {}
                  ELSE SelectPageID(g[s \ {Taken(s)}], Taken(s), after, PageLimit + 1)
  BY DEF Selects
<1>2. ASSUME NEW s \in SUBSET S, \A r \in SUBSET s : r # s => r \in G
      PROVE  s \in G
  <2> SUFFICES ASSUME s \subseteq T, s \subseteq U
               PROVE  f[s] = g[s]
    OBVIOUS
  <2>1. CASE s = {}
    BY <1>1, <2>1
  <2>2. CASE s # {}
    <3>1. Taken(s) \in s
      BY <2>2 DEF Taken
    <3>2. s \ {Taken(s)} \in G
      BY <1>2, <3>1
    <3>3. f[s \ {Taken(s)}] = g[s \ {Taken(s)}]
      BY <3>2
    <3> QED BY <1>1, <2>2, <3>3
  <2> QED BY <2>1, <2>2
<1> HIDE DEF G
<1>3. \A s \in SUBSET S : s \in G
  BY <1>2, SubsetInduction
<1> QED BY <1>3 DEF G

\* The fold exists, and unfolds one element at a time.
LEMMA SelectionUnfolds ==
  ASSUME NEW S, IsFiniteSet(S), NEW after
  PROVE  \A T \in SUBSET S :
           Selection(T, after) = IF T = {} THEN {}
             ELSE SelectPageID(Selection(T \ {Taken(T)}, after), Taken(T), after, PageLimit + 1)
<1> DEFINE G == {T \in SUBSET S : \E f : Selects(f, T, after)}
<1>1. ASSUME NEW T \in SUBSET S, T \in G
      PROVE  \E f : Selects(f, T, after) /\ Selection(T, after) = f[T]
  BY <1>1 DEF Selection
<1>2. ASSUME NEW U \in SUBSET S, NEW f, Selects(f, U, after), NEW s \in SUBSET U, s \in G
      PROVE  f[s] = Selection(s, after)
  <2>1. PICK g : Selects(g, s, after) /\ Selection(s, after) = g[s]
    BY <1>1, <1>2
  <2>2. s \in SUBSET S
    BY <1>2
  <2> QED BY <1>2, <2>1, <2>2, SelectionsAgree
<1>3. ASSUME NEW T \in SUBSET S, \A U \in SUBSET T : U # T => U \in G
      PROVE  T \in G
  <2> DEFINE v(s) == IF s = {} THEN {}
                     ELSE SelectPageID(Selection(s \ {Taken(s)}, after), Taken(s), after, PageLimit + 1)
             h == [s \in SUBSET T |-> v(s)]
  <2>1. ASSUME NEW U \in SUBSET T, U # T
        PROVE  Selection(U, after) = v(U)
    <3>1. U \in G /\ U \in SUBSET S
      BY <1>3, <2>1
    <3>2. PICK f : Selects(f, U, after) /\ Selection(U, after) = f[U]
      BY <1>1, <3>1
    <3>3. f[U] = IF U = {} THEN {}
                 ELSE SelectPageID(f[U \ {Taken(U)}], Taken(U), after, PageLimit + 1)
      BY <3>2 DEF Selects
    <3>4. CASE U = {}
      BY <3>2, <3>3, <3>4
    <3>5. CASE U # {}
      <4>1. U \ {Taken(U)} \in SUBSET U /\ U \ {Taken(U)} \in G
        BY <1>3, <2>1, <3>5 DEF Taken
      <4>2. f[U \ {Taken(U)}] = Selection(U \ {Taken(U)}, after)
        BY <1>2, <3>1, <3>2, <4>1
      <4> QED BY <3>2, <3>3, <3>5, <4>2
    <3> QED BY <3>4, <3>5
  <2>2. ASSUME NEW s \in SUBSET T
        PROVE  h[s] = IF s = {} THEN {}
                      ELSE SelectPageID(h[s \ {Taken(s)}], Taken(s), after, PageLimit + 1)
    <3>1. CASE s = {}
      BY <3>1
    <3>2. CASE s # {}
      <4>1. s \ {Taken(s)} \in SUBSET T /\ s \ {Taken(s)} # T
        BY <3>2 DEF Taken
      <4>2. h[s \ {Taken(s)}] = v(s \ {Taken(s)})
        BY <4>1
      <4>3. h[s \ {Taken(s)}] = Selection(s \ {Taken(s)}, after)
        BY <2>1, <4>1, <4>2
      <4>4. h[s] = SelectPageID(Selection(s \ {Taken(s)}, after), Taken(s), after, PageLimit + 1)
        BY <3>2
      <4> HIDE DEF h
      <4> QED BY <3>2, <4>3, <4>4
    <3> QED BY <3>1, <3>2
  <2>3. h = [s \in SUBSET T |-> h[s]]
    OBVIOUS
  <2> HIDE DEF h
  <2>4. Selects(h, T, after)
    BY <2>2, <2>3 DEF Selects
  <2> QED BY <2>4
<1> HIDE DEF G
<1>4. \A T \in SUBSET S : T \in G
  BY <1>3, SubsetInduction
<1>5. ASSUME NEW T \in SUBSET S
      PROVE  Selection(T, after) = IF T = {} THEN {}
               ELSE SelectPageID(Selection(T \ {Taken(T)}, after), Taken(T), after, PageLimit + 1)
  <2>1. PICK f : Selects(f, T, after) /\ Selection(T, after) = f[T]
    BY <1>1, <1>4
  <2>2. f[T] = IF T = {} THEN {}
               ELSE SelectPageID(f[T \ {Taken(T)}], Taken(T), after, PageLimit + 1)
    BY <2>1 DEF Selects
  <2>3. f[T \ {Taken(T)}] = Selection(T \ {Taken(T)}, after)
    <3>1. T \ {Taken(T)} \in SUBSET T /\ T \ {Taken(T)} \in SUBSET S
      OBVIOUS
    <3> QED BY <1>2, <1>4, <2>1, <3>1
  <2> QED BY <2>1, <2>2, <2>3
<1> QED BY <1>5

\* What a page's heap holds of the IDs it was shown: the smallest ones behind the
\* cursor, as many as it has room for.
Smallest(selected, ids, after) ==
  /\ selected \subseteq {id \in ids : after < id}
  /\ IsFiniteSet(selected) /\ Cardinality(selected) <= PageLimit + 1
  /\ \A id \in ids \ selected :
       after < id => Cardinality(selected) = PageLimit + 1 /\ \A x \in selected : x < id

\* Pages are not empty.
LEMMA PageLimitPositive == PageLimit \in Nat \ {0}
<1>1. {MaxRequests, MaxRuns, MaxEncodes, PageLimit, Attempts} \subseteq Nat \ {0}
  BY HttpAssumption
<1> QED BY <1>1

\* selectPageID keeps it that way.
LEMMA SelectKeepsSmallest ==
  ASSUME NEW ids \in SUBSET IDs, NEW id \in IDs, id \notin ids, NEW after \in Nat, NEW selected,
         Smallest(selected, ids, after)
  PROVE  Smallest(SelectPageID(selected, id, after, PageLimit + 1), ids \cup {id}, after)
<1> DEFINE room == PageLimit + 1
           m == Max(selected)
           now == SelectPageID(selected, id, after, room)
<1>0. /\ IDs \subseteq Nat /\ PageLimit \in Nat \ {0}
      /\ selected \subseteq IDs /\ IsFiniteSet(selected) /\ Cardinality(selected) \in Nat
  <2>1. IDs \subseteq Nat /\ PageLimit \in Nat \ {0}
    BY SessionsAssumption, PageLimitPositive
  <2>2. selected \subseteq IDs /\ IsFiniteSet(selected)
    BY DEF Smallest
  <2> QED BY <2>1, <2>2, FS_CardinalityType
<1>1. CASE id <= after
  <2>1. ~ (after < id)
    BY <1>0, <1>1
  <2> QED BY <1>1, <2>1 DEF Smallest, SelectPageID
<1>2. CASE ~ (id <= after) /\ Cardinality(selected) < room
  <2>1. SelectPageID(selected, id, after, PageLimit + 1) = selected \cup {id}
    BY <1>2 DEF SelectPageID
  <2>2. id \notin selected
    BY DEF Smallest
  <2>3. IsFiniteSet(selected \cup {id}) /\ Cardinality(selected \cup {id}) = Cardinality(selected) + 1
    BY <1>0, <2>2, FS_AddElement
  <2>4. Cardinality(selected) # room /\ Cardinality(selected) + 1 <= PageLimit + 1 /\ after < id
    BY <1>0, <1>2
  <2>5. selected \cup {id} \subseteq {x \in ids \cup {id} : after < x}
    BY <2>4 DEF Smallest
  <2>6. \A x \in (ids \cup {id}) \ (selected \cup {id}) : ~ (after < x)
    BY <2>4 DEF Smallest
  <2> QED BY <2>1, <2>3, <2>4, <2>5, <2>6 DEF Smallest
<1>3. CASE ~ (id <= after) /\ ~ (Cardinality(selected) < room)
  <2>1. Cardinality(selected) = PageLimit + 1 /\ after < id
    BY <1>0, <1>3 DEF Smallest
  <2>2. selected # {}
    BY <1>0, <2>1, FS_EmptySet
  <2>3. Max(selected) \in selected /\ \A y \in selected : y <= Max(selected)
    BY <1>0, <2>2, MaxIsLargest
  <2>4. id \notin selected
    BY DEF Smallest
  <2>5. Max(selected) \in Nat /\ id \in Nat /\ selected \subseteq Nat
    BY <1>0, <2>3
  <2>6. CASE id >= Max(selected)
    <3>1. SelectPageID(selected, id, after, PageLimit + 1) = selected
      BY <1>3, <2>6 DEF SelectPageID
    <3>2. \A x \in selected : x < id
      <4> SUFFICES ASSUME NEW x \in selected
                   PROVE  x < id
        OBVIOUS
      <4>1. x <= Max(selected) /\ x # id /\ x \in Nat
        BY <2>3, <2>4, <2>5
      <4> QED BY <2>5, <2>6, <4>1
    <3> QED BY <2>1, <3>1, <3>2 DEF Smallest
  <2>7. CASE ~ (id >= Max(selected))
    <3> DEFINE new == (selected \ {Max(selected)}) \cup {id}
    <3>1. SelectPageID(selected, id, after, PageLimit + 1) = new
      BY <1>3, <2>7 DEF SelectPageID
    <3>2. IsFiniteSet(new) /\ Cardinality(new) = PageLimit + 1
      <4>1. /\ IsFiniteSet(selected \ {Max(selected)})
            /\ Cardinality(selected \ {Max(selected)}) = Cardinality(selected) - 1
        BY <1>0, <2>3, FS_RemoveElement
      <4>2. id \notin selected \ {Max(selected)}
        BY <2>4
      <4>3. IsFiniteSet(new) /\ Cardinality(new) = Cardinality(selected) - 1 + 1
        BY <4>1, <4>2, FS_AddElement
      <4> QED BY <1>0, <2>1, <4>3
    <3>3. new \subseteq {x \in ids \cup {id} : after < x}
      BY <2>1 DEF Smallest
    <3>4. ASSUME NEW y \in (ids \cup {id}) \ new, after < y, NEW x \in new
          PROVE  x < y
      <4>1. y \in ids /\ y \in Nat /\ id < Max(selected)
        BY <1>0, <2>5, <2>7, <3>4
      <4>2. CASE y = Max(selected)
        <5>1. CASE x = id
          BY <4>1, <4>2, <5>1
        <5>2. CASE x # id
          <6>1. x \in selected /\ x # Max(selected)
            BY <3>4, <5>2
          <6>2. x <= Max(selected) /\ x \in Nat
            BY <2>3, <2>5, <6>1
          <6> QED BY <2>5, <4>2, <6>1, <6>2
        <5> QED BY <5>1, <5>2
      <4>3. CASE y # Max(selected)
        <5>1. y \notin selected
          BY <3>4, <4>3
        <5>2. \A z \in selected : z < y
          BY <3>4, <4>1, <5>1 DEF Smallest
        <5>3. Max(selected) < y
          BY <2>3, <5>2
        <5>4. x = id \/ x \in selected
          BY <3>4
        <5>5. id < y
          BY <2>5, <4>1, <5>3
        <5> QED BY <5>2, <5>4, <5>5
      <4> QED BY <4>2, <4>3
    <3>5. Cardinality(new) <= PageLimit + 1
      BY <1>0, <3>2
    <3> HIDE DEF new
    <3> QED BY <3>1, <3>2, <3>3, <3>4, <3>5 DEF Smallest
  <2> QED BY <2>6, <2>7
<1> QED BY <1>1, <1>2, <1>3

\* So in whatever order the IDs come, the smallest are left.
LEMMA SelectionIsSmallest ==
  ASSUME NEW S \in SUBSET IDs, IsFiniteSet(S), NEW after \in Nat
  PROVE  Smallest(Selection(S, after), S, after)
<1> DEFINE G == {T \in SUBSET S : Smallest(Selection(T, after), T, after)}
<1>1. ASSUME NEW T \in SUBSET S, \A U \in SUBSET T : U # T => U \in G
      PROVE  T \in G
  <2>1. CASE T = {}
    <3>1. Selection(T, after) = {}
      BY <2>1, SelectionUnfolds
    <3>2. PageLimit \in Nat
      BY PageLimitPositive
    <3>3. Smallest({}, {}, after)
      BY <3>2, FS_EmptySet DEF Smallest
    <3> QED BY <2>1, <3>1, <3>3
  <2>2. CASE T # {}
    <3> DEFINE x == Taken(T)
               U == T \ {x}
    <3>1. x \in T
      BY <2>2 DEF Taken
    <3> HIDE DEF x
    <3>2. U \in G /\ U \cup {x} = T
      BY <1>1, <3>1
    <3>3. Smallest(Selection(U, after), U, after) /\ U \in SUBSET IDs /\ x \in IDs /\ x \notin U
      BY <3>1, <3>2
    <3>4. Smallest(SelectPageID(Selection(U, after), x, after, PageLimit + 1), U \cup {x}, after)
      <4> HIDE DEF U
      <4> QED BY <3>3, SelectKeepsSmallest
    <3>5. Selection(T, after) = SelectPageID(Selection(U, after), x, after, PageLimit + 1)
      BY <2>2, SelectionUnfolds DEF x
    <3> QED BY <3>2, <3>4, <3>5
  <2> QED BY <2>1, <2>2
<1> HIDE DEF G
<1>2. S \in G
  BY <1>1, SubsetInduction
<1> QED BY <1>2 DEF G

\* A finite set of numbers can be sorted.
LEMMA SortingExists ==
  ASSUME NEW S, IsFiniteSet(S), S \subseteq Nat
  PROVE  \E s \in [1 .. Cardinality(S) -> S] :
           Increasing(s) /\ \A x \in S : \E i \in DOMAIN s : s[i] = x
<1> DEFINE Sorts(s, T) == /\ s \in [1 .. Cardinality(T) -> T]
                          /\ Increasing(s) /\ \A x \in T : \E i \in DOMAIN s : s[i] = x
           G == {T \in SUBSET S : \E s : Sorts(s, T)}
<1>1. ASSUME NEW T \in SUBSET S, \A U \in SUBSET T : U # T => U \in G
      PROVE  T \in G
  <2>0. IsFiniteSet(T) /\ Cardinality(T) \in Nat /\ T \subseteq Nat
    BY FS_Subset, FS_CardinalityType
  <2>1. CASE T = {}
    <3>1. Cardinality(T) = 0
      BY <2>1, FS_EmptySet
    <3>2. Sorts([i \in 1 .. Cardinality(T) |-> 0], T)
      BY <2>1, <3>1 DEF Increasing
    <3> QED BY <3>2
  <2>2. CASE T # {}
    <3> DEFINE m == Max(T)
               n == Cardinality(T)
               U == T \ {m}
    <3>1. m \in T /\ \A y \in T : y <= m
      BY <2>0, <2>2, MaxIsLargest
    <3> HIDE DEF m
    <3>2. Cardinality(U) = n - 1 /\ n \in Nat \ {0}
      <4>1. Cardinality(U) = n - 1 /\ n # 0
        BY <2>0, <2>2, <3>1, FS_RemoveElement, FS_EmptySet
      <4> QED BY <2>0, <4>1
    <3>3. U \in SUBSET T /\ U # T
      BY <3>1
    <3>4. PICK r : Sorts(r, U)
      BY <1>1, <3>3
    <3> HIDE DEF n
    <3> DEFINE s == [i \in 1 .. n |-> IF i = n THEN m ELSE r[i]]
    <3>5. ASSUME NEW i \in 1 .. n, i # n
          PROVE  i \in 1 .. n - 1 /\ s[i] = r[i] /\ r[i] \in U
      <4>1. i \in 1 .. n - 1
        BY <3>2, <3>5
      <4>2. r \in [1 .. n - 1 -> U]
        BY <3>2, <3>4
      <4> QED BY <3>5, <4>1, <4>2
    <3>6. s[n] = m /\ n \in 1 .. n
      BY <3>2
    <3>7. s \in [1 .. n -> T]
      BY <3>1, <3>5
    <3>8. \A i, j \in DOMAIN s : i < j => s[i] < s[j]
      <4> SUFFICES ASSUME NEW i \in 1 .. n, NEW j \in 1 .. n, i < j
                   PROVE  s[i] < s[j]
        OBVIOUS
      <4>1. i # n
        BY <3>2
      <4>2. CASE j = n
        <5>1. s[i] = r[i] /\ r[i] \in U
          BY <3>5, <4>1
        <5>2. r[i] <= m /\ r[i] # m /\ r[i] \in Nat /\ m \in Nat
          BY <2>0, <3>1, <5>1
        <5> QED BY <3>6, <4>2, <5>1, <5>2
      <4>3. CASE j # n
        <5>1. i \in 1 .. n - 1 /\ j \in 1 .. n - 1 /\ s[i] = r[i] /\ s[j] = r[j]
          BY <3>5, <4>1, <4>3
        <5>2. DOMAIN r = 1 .. n - 1 /\ Increasing(r)
          BY <3>2, <3>4
        <5> QED BY <5>1, <5>2 DEF Increasing
      <4> QED BY <4>2, <4>3
    <3>9. ASSUME NEW x \in T
          PROVE  \E i \in 1 .. n : s[i] = x
      <4>1. CASE x = m
        BY <3>6, <4>1
      <4>2. CASE x # m
        <5>1. PICK i \in DOMAIN r : r[i] = x
          BY <3>4, <4>2
        <5>2. i \in 1 .. n - 1
          BY <3>2, <3>4, <5>1
        <5>3. i \in 1 .. n /\ i # n
          BY <3>2, <5>2
        <5> QED BY <5>1, <5>3
      <4> QED BY <4>1, <4>2
    <3>10. DOMAIN s = 1 .. n
      OBVIOUS
    <3> HIDE DEF s
    <3>11. Sorts(s, T)
      BY <3>7, <3>8, <3>9, <3>10 DEF Increasing, n
    <3> QED BY <3>11
  <2> QED BY <2>1, <2>2
<1> HIDE DEF G
<1>2. S \in G
  BY <1>1, SubsetInduction
<1> QED BY <1>2 DEF G

\* slices.Sort.
LEMMA InOrderSorts ==
  ASSUME NEW S, IsFiniteSet(S), S \subseteq Nat
  PROVE  /\ InOrder(S) \in Seq(S) /\ Len(InOrder(S)) = Cardinality(S)
         /\ Increasing(InOrder(S)) /\ ToSet(InOrder(S)) = S
<1> DEFINE F == [1 .. Cardinality(S) -> S]
<1>0. Cardinality(S) \in Nat /\ ExistsBijection(1 .. Cardinality(S), S)
  BY FS_CardinalityType
<1>1. PICK r \in F : Increasing(r)
  BY SortingExists
<1>2. InOrder(S) \in F /\ Increasing(InOrder(S))
  BY <1>1 DEF InOrder, Increasing
<1> DEFINE s == InOrder(S)
<1> HIDE DEF s
<1>3. s \in F /\ Increasing(s)
  BY <1>2 DEF s
<1>4. DOMAIN s = 1 .. Cardinality(S) /\ s \in Seq(S) /\ Len(s) = Cardinality(S)
  <2>1. s \in [1 .. Cardinality(S) -> S]
    BY <1>3
  <2> HIDE DEF F
  <2> QED BY <1>0, <2>1
<1>5. s \in Injection(1 .. Cardinality(S), S)
  <2>1. ASSUME NEW i \in 1 .. Cardinality(S), NEW j \in 1 .. Cardinality(S), i # j
        PROVE  s[i] # s[j]
    <3>1. i \in Nat /\ j \in Nat
      BY <1>0
    <3>2. s[i] \in S /\ s[j] \in S
      BY <1>3
    <3>3. s[i] \in Nat /\ s[j] \in Nat
      BY <3>2
    <3>4. i < j \/ j < i
      BY <2>1, <3>1
    <3>5. s[i] < s[j] \/ s[j] < s[i]
      BY <1>3, <1>4, <3>4 DEF Increasing
    <3> QED BY <3>3, <3>5
  <2> QED BY <1>3, <2>1 DEF Injection, IsInjective
<1>6. s \in Surjection(1 .. Cardinality(S), S)
  <2>1. IsFiniteSet(1 .. Cardinality(S)) /\ Cardinality(1 .. Cardinality(S)) = Cardinality(S)
    BY <1>0, FS_Interval
  <2> QED BY <1>5, <2>1, FS_Injection
<1>7. ToSet(s) = S
  BY <1>3, <1>4, <1>6 DEF Surjection, ToSet
<1> QED BY <1>3, <1>4, <1>7 DEF s

\* What ListIDsPage answers: IDs behind the cursor, in order, and none left out up
\* to the next cursor.
PageSound(answer, after) ==
  /\ answer.ids \in Seq(IDs) /\ Increasing(answer.ids) /\ answer.next \in Nat
  /\ answer.next # 0 => after < answer.next
  /\ \A id \in ToSet(answer.ids) : after < id /\ (answer.next # 0 => id <= answer.next)
  /\ \A id \in Present :
       after < id /\ (answer.next = 0 \/ id <= answer.next) => id \in ToSet(answer.ids)

\* How it is computed.
LEMMA PageComputed ==
  ASSUME NEW after, NEW sorted, sorted = InOrder(Selection(Present, after))
  PROVE  ListIDsPage(after) =
           [ids |-> IF Len(sorted) > PageLimit THEN SubSeq(sorted, 1, PageLimit) ELSE sorted,
            next |-> IF Len(sorted) > PageLimit THEN Last(SubSeq(sorted, 1, PageLimit)) ELSE 0]
<1>1. FoldSet(LAMBDA id, acc : SelectPageID(acc, id, after, PageLimit + 1), {},
              {id \in IDs : Exists(id)}) = Selection(Present, after)
  BY FoldIsSelection, Zenon DEF Present
<1>2. ListIDsPage(after) =
        LET s == InOrder(Selection(Present, after))
            ids == IF Len(s) > PageLimit THEN SubSeq(s, 1, PageLimit) ELSE s
        IN  [ids |-> ids, next |-> IF Len(s) > PageLimit THEN Last(ids) ELSE 0]
  BY <1>1, Zenon DEF ListIDsPage
<1>3. CASE Len(sorted) > PageLimit
  BY <1>2, <1>3
<1>4. CASE ~ (Len(sorted) > PageLimit)
  BY <1>2, <1>4
<1> QED BY <1>3, <1>4

\* ListIDsPage keeps its promise whatever the order in which the store lists.
LEMMA PagesAreSound ==
  ASSUME IsFiniteSet(Present), NEW after \in Nat
  PROVE  PageSound(ListIDsPage(after), after)
<1> DEFINE selected == Selection(Present, after)
           sorted == InOrder(selected)
<1>0. PageLimit \in Nat \ {0} /\ IDs \subseteq Nat \ {0} /\ Present \subseteq IDs
  BY PageLimitPositive, SessionsAssumption DEF Present
<1>1. Smallest(selected, Present, after)
  BY <1>0, SelectionIsSmallest
<1>2. selected \subseteq IDs /\ IsFiniteSet(selected) /\ Cardinality(selected) <= PageLimit + 1
  BY <1>0, <1>1 DEF Smallest
<1>3. /\ sorted \in Seq(selected) /\ Len(sorted) = Cardinality(selected)
      /\ Increasing(sorted) /\ ToSet(sorted) = selected
  BY <1>0, <1>2, InOrderSorts
<1>4. ListIDsPage(after) =
        [ids |-> IF Len(sorted) > PageLimit THEN SubSeq(sorted, 1, PageLimit) ELSE sorted,
         next |-> IF Len(sorted) > PageLimit THEN Last(SubSeq(sorted, 1, PageLimit)) ELSE 0]
  BY PageComputed
<1> HIDE DEF sorted, selected
<1>5. sorted \in Seq(IDs) /\ Len(sorted) \in Nat /\ DOMAIN sorted = 1 .. Len(sorted)
  BY <1>2, <1>3
<1>6. \A i \in DOMAIN sorted : sorted[i] \in selected /\ sorted[i] \in Nat \ {0} /\ after < sorted[i]
  <2>1. \A i \in DOMAIN sorted : sorted[i] \in selected
    BY <1>3
  <2>2. \A x \in selected : x \in Nat \ {0} /\ after < x
    BY <1>0, <1>1, <1>2 DEF Smallest
  <2> QED BY <2>1, <2>2
<1>7. CASE ~ (Len(sorted) > PageLimit)
  <2>1. ListIDsPage(after) = [ids |-> sorted, next |-> 0]
    BY <1>4, <1>7
  <2>2. \A id \in Present : after < id => id \in selected
    <3>1. Cardinality(selected) # PageLimit + 1
      BY <1>0, <1>3, <1>5, <1>7
    <3> QED BY <1>1, <3>1 DEF Smallest
  <2>3. \A id \in selected : after < id
    BY <1>1 DEF Smallest
  <2> QED BY <1>3, <1>5, <2>1, <2>2, <2>3 DEF PageSound
<1>8. CASE Len(sorted) > PageLimit
  <2> DEFINE ids == SubSeq(sorted, 1, PageLimit)
             last == sorted[PageLimit]
  <2>1. /\ ids \in Seq(IDs) /\ Len(ids) = PageLimit /\ DOMAIN ids = 1 .. PageLimit
        /\ \A i \in 1 .. PageLimit : ids[i] = sorted[i]
    BY <1>0, <1>5, <1>8
  <2>2. PageLimit \in DOMAIN sorted /\ 1 .. PageLimit \subseteq DOMAIN sorted /\ PageLimit \in 1 .. PageLimit
    BY <1>0, <1>5, <1>8
  <2>3. Last(ids) = last
    BY <2>1, <2>2 DEF Last
  <2>4. ListIDsPage(after) = [ids |-> ids, next |-> last]
    BY <1>4, <1>8, <2>3
  <2>5. last \in Nat \ {0} /\ after < last /\ last \in selected
    BY <1>6, <2>2
  <2> HIDE DEF ids, last
  <2>6. \A i \in 1 .. PageLimit : ids[i] <= last
    <3> SUFFICES ASSUME NEW i \in 1 .. PageLimit
                 PROVE  sorted[i] <= last
      BY <2>1
    <3>1. i = PageLimit \/ i < PageLimit
      BY <1>0
    <3>2. i \in DOMAIN sorted /\ sorted[i] \in Nat
      BY <1>6, <2>2
    <3>3. CASE i = PageLimit
      BY <3>2, <3>3 DEF last
    <3>4. CASE i < PageLimit
      <4>1. sorted[i] < sorted[PageLimit]
        BY <1>3, <2>2, <3>2, <3>4 DEF Increasing
      <4> QED BY <2>5, <3>2, <4>1 DEF last
    <3> QED BY <3>1, <3>3, <3>4
  <2>7. Increasing(ids)
    <3> SUFFICES ASSUME NEW i \in 1 .. PageLimit, NEW j \in 1 .. PageLimit, i < j
                 PROVE  ids[i] < ids[j]
      BY <2>1 DEF Increasing
    <3>1. i \in DOMAIN sorted /\ j \in DOMAIN sorted
      BY <2>2
    <3>2. sorted[i] < sorted[j]
      BY <1>3, <3>1 DEF Increasing
    <3> QED BY <2>1, <3>2
  <2>8. ASSUME NEW id \in ToSet(ids)
        PROVE  after < id /\ id <= last
    <3>1. PICK i \in 1 .. PageLimit : ids[i] = id
      BY <2>1, <2>8 DEF ToSet
    <3>2. i \in DOMAIN sorted /\ sorted[i] = id
      BY <2>1, <2>2, <3>1
    <3> QED BY <1>6, <2>6, <3>1, <3>2
  <2>9. ASSUME NEW id \in Present, after < id, id <= last
        PROVE  id \in ToSet(ids)
    <3>1. id \in Nat /\ last \in Nat
      BY <1>0, <2>5
    <3>2. id \in selected
      <4>1. CASE id \notin selected
        <5>1. \A x \in selected : x < id
          BY <1>1, <2>9, <4>1 DEF Smallest
        <5>2. last < id
          BY <2>5, <5>1
        <5> QED BY <2>9, <3>1, <5>2
      <4> QED BY <4>1
    <3>3. PICK i \in DOMAIN sorted : sorted[i] = id
      BY <1>3, <3>2 DEF ToSet
    <3>4. i \in Nat /\ i >= 1
      BY <1>5
    <3>5. CASE PageLimit < i
      <4>1. last < id
        BY <1>3, <2>2, <3>3, <3>5 DEF Increasing, last
      <4> QED BY <2>9, <3>1, <4>1
    <3>6. CASE ~ (PageLimit < i)
      <4>1. i \in 1 .. PageLimit
        BY <1>0, <3>4, <3>6
      <4>2. ids[i] = id /\ i \in DOMAIN ids
        BY <2>1, <3>3, <4>1
      <4> QED BY <4>2 DEF ToSet
    <3> QED BY <3>5, <3>6
  <2> QED BY <2>1, <2>4, <2>5, <2>7, <2>8, <2>9 DEF PageSound
<1> QED BY <1>7, <1>8

--------------------------------------------------------------------------------
(***************************************************************************)
(* Which steps touch a client's page.                                      *)
(***************************************************************************)

Ending == {"releasing", "leaving", "over"}

\* The client's handler does not start to load, and what has ended stays so.
Onward(c) ==
  \/ handler'[c] = handler[c]
  \/ handler'[c] # "loading" /\ (handler[c] \in Ending /\ ~ page[c].more => handler'[c] \in Ending)

\* The pages are left alone, but sessions may be deleted.
Elsewhere(c) ==
  page'[c] = page[c] /\ alive'[c] \subseteq alive[c] /\ first'[c] = first[c] /\ Onward(c)

PageMove(c) ==
  ListIDs(c) \/ LoadSummary(c) \/ EncodeList(c) \/ GetPage(c) \/ PageFails(c) \/ CreateOrFork(c)

\* A handler that goes anywhere but to loading, and not out of its end.
LEMMA OnwardAt ==
  ASSUME handler \in [Clients -> HandlerStages], NEW c \in Clients, NEW d \in Clients, NEW where,
         At(c, where), where # "loading",
         handler[c] \notin Ending \/ page[c].more \/ where \in Ending
  PROVE  Onward(d)
BY DEF At, Onward

\* What the steps of paging make of a page.
Listed(p, answer) == [p EXCEPT !.todo = answer.ids, !.next = answer.next, !.out = <<>>]
Loaded(p, there) ==
  [p EXCEPT !.todo = Tail(@), !.out = IF there THEN Append(@, Head(p.todo)) ELSE @]
PagedTo(p, after, shown) ==
  [p EXCEPT !.more = after # 0, !.after = after, !.snap = 0, !.got = @ \o shown, !.ok = after = 0]
GotPage(p, id, snap, start, shown) ==
  [p EXCEPT !.id = id, !.snap = snap, !.after = start, !.more = start > 0, !.ok = start = 0,
            !.got = shown \o @]

\* A response to a listing, as a step on one page.
LEMMA PageToOne ==
  ASSUME page \in [Clients -> PageRecord], NEW c \in Clients, NEW after, NEW shown,
         PageTo(c, after, shown)
  PROVE  page'[c] = PagedTo(page[c], after, shown) /\ page' = [page EXCEPT ![c] = page'[c]]
<1> DEFINE r1 == [page EXCEPT ![c].more = after # 0]
           r2 == [r1 EXCEPT ![c].after = after]
           r3 == [r2 EXCEPT ![c].snap = 0]
           r4 == [r3 EXCEPT ![c].got = @ \o shown]
           r5 == [r4 EXCEPT ![c].ok = after = 0]
<1>1. page' = r5
  BY DEF PageTo
<1>2. r1 = [page EXCEPT ![c] = r1[c]] /\ r1[c] = [page[c] EXCEPT !.more = after # 0]
  OBVIOUS
<1> HIDE DEF r1
<1>3. r2 = [page EXCEPT ![c] = r2[c]] /\ r2[c] = [r1[c] EXCEPT !.after = after]
  BY <1>2
<1> HIDE DEF r2
<1>4. r3 = [page EXCEPT ![c] = r3[c]] /\ r3[c] = [r2[c] EXCEPT !.snap = 0]
  BY <1>3
<1> HIDE DEF r3
<1>5. r4 = [page EXCEPT ![c] = r4[c]] /\ r4[c] = [r3[c] EXCEPT !.got = @ \o shown]
  BY <1>4
<1> HIDE DEF r4
<1>6. r5 = [page EXCEPT ![c] = r5[c]] /\ r5[c] = [r4[c] EXCEPT !.ok = after = 0]
  BY <1>5
<1> HIDE DEF r5
<1> QED BY <1>1, <1>2, <1>3, <1>4, <1>5, <1>6 DEF PagedTo

\* A page of a transcript: the session, what the page covers, and the snapshot.
GetsPage(c, id, start, snap, before) ==
  /\ page[c].snap # -1 => id = page[c].id
  /\ page[c].snap = -1 => id \in job[c].ids
  /\ Exists(id)
  /\ snap = IF page[c].snap = -1 THEN Len(saved[id].msgs) ELSE page[c].snap
  /\ before = IF page[c].snap = -1 THEN Len(saved[id].msgs) ELSE page[c].after
  /\ page[c].snap # -1 => DecodeDetail(c, Len(saved[id].msgs))
  /\ start \in IF before = 0 THEN {0} ELSE 0 .. before - 1
  /\ page' = [page EXCEPT ![c].id = id, ![c].snap = snap, ![c].after = start,
                          ![c].more = start > 0, ![c].ok = start = 0,
                          ![c].got = SubSeq(saved[id].msgs, start + 1, before) \o @]
  /\ alive' = [alive EXCEPT ![c] = IF page[c].snap = -1 THEN {id} ELSE @]
  /\ first' = [first EXCEPT ![c] = IF page[c].snap = -1 THEN saved[id].msgs ELSE @]
  /\ At(c, "releasing") /\ handler[c] = "working" /\ saved' = saved

\* handleGetSession answers such a page.
LEMMA PageGot ==
  ASSUME NEW c \in Clients, GetPage(c)
  PROVE  \E id, start, snap, before : GetsPage(c, id, start, snap, before)
<1>1. PICK id \in IF page[c].snap = -1 THEN job[c].ids ELSE {page[c].id} :
        /\ Exists(id)
        /\ LET msgs == saved[id].msgs
               snap == IF page[c].snap = -1 THEN Len(msgs) ELSE page[c].snap
               before == IF page[c].snap = -1 THEN Len(msgs) ELSE page[c].after
           IN /\ page[c].snap # -1 => DecodeDetail(c, Len(msgs))
              /\ \E start \in (IF before = 0 THEN {0} ELSE 0 .. before - 1) :
                   /\ before - start <= PageLimit
                   /\ page' = [page EXCEPT ![c].id = id, ![c].snap = snap, ![c].after = start,
                                ![c].more = start > 0, ![c].ok = start = 0,
                                ![c].got = SubSeq(msgs, start + 1, before) \o @]
              /\ alive' = [alive EXCEPT ![c] = IF page[c].snap = -1 THEN {id} ELSE @]
              /\ first' = [first EXCEPT ![c] = IF page[c].snap = -1 THEN msgs ELSE @]
  BY DEF GetPage
<1> DEFINE snap == IF page[c].snap = -1 THEN Len(saved[id].msgs) ELSE page[c].snap
           before == IF page[c].snap = -1 THEN Len(saved[id].msgs) ELSE page[c].after
<1>2. PICK start \in (IF before = 0 THEN {0} ELSE 0 .. before - 1) :
        page' = [page EXCEPT ![c].id = id, ![c].snap = snap, ![c].after = start,
                             ![c].more = start > 0, ![c].ok = start = 0,
                             ![c].got = SubSeq(saved[id].msgs, start + 1, before) \o @]
  BY <1>1, Zenon
<1>3. /\ page[c].snap # -1 => DecodeDetail(c, Len(saved[id].msgs))
      /\ alive' = [alive EXCEPT ![c] = IF page[c].snap = -1 THEN {id} ELSE @]
      /\ first' = [first EXCEPT ![c] = IF page[c].snap = -1 THEN saved[id].msgs ELSE @]
  BY <1>1
<1>4. At(c, "releasing") /\ handler[c] = "working" /\ saved' = saved
  BY DEF GetPage, svars
<1>5. GetsPage(c, id, start, snap, before)
  <2>1. /\ page[c].snap # -1 => id = page[c].id
        /\ page[c].snap = -1 => id \in job[c].ids
        /\ Exists(id)
    BY <1>1
  <2> QED BY <1>2, <1>3, <1>4, <2>1, Zenon DEF GetsPage
<1> HIDE DEF snap, before
<1> QED BY <1>5

\* Such a page, as a step on one page.
LEMMA GetsOne ==
  ASSUME page \in [Clients -> PageRecord], NEW c \in Clients, NEW id, NEW start, NEW snap, NEW before,
         GetsPage(c, id, start, snap, before)
  PROVE  /\ page'[c] = GotPage(page[c], id, snap, start, SubSeq(saved[id].msgs, start + 1, before))
         /\ page' = [page EXCEPT ![c] = page'[c]]
<1> DEFINE shown == SubSeq(saved[id].msgs, start + 1, before)
           r1 == [page EXCEPT ![c].id = id]
           r2 == [r1 EXCEPT ![c].snap = snap]
           r3 == [r2 EXCEPT ![c].after = start]
           r4 == [r3 EXCEPT ![c].more = start > 0]
           r5 == [r4 EXCEPT ![c].ok = start = 0]
           r6 == [r5 EXCEPT ![c].got = shown \o @]
<1>1. page' = r6
  BY DEF GetsPage
<1>2. r1 = [page EXCEPT ![c] = r1[c]] /\ r1[c] = [page[c] EXCEPT !.id = id]
  OBVIOUS
<1> HIDE DEF r1
<1>3. r2 = [page EXCEPT ![c] = r2[c]] /\ r2[c] = [r1[c] EXCEPT !.snap = snap]
  BY <1>2
<1> HIDE DEF r2
<1>4. r3 = [page EXCEPT ![c] = r3[c]] /\ r3[c] = [r2[c] EXCEPT !.after = start]
  BY <1>3
<1> HIDE DEF r3
<1>5. r4 = [page EXCEPT ![c] = r4[c]] /\ r4[c] = [r3[c] EXCEPT !.more = start > 0]
  BY <1>4
<1> HIDE DEF r4
<1>6. r5 = [page EXCEPT ![c] = r5[c]] /\ r5[c] = [r4[c] EXCEPT !.ok = start = 0]
  BY <1>5
<1> HIDE DEF r5
<1>7. r6 = [page EXCEPT ![c] = r6[c]] /\ r6[c] = [r5[c] EXCEPT !.got = shown \o @]
  BY <1>6
<1> HIDE DEF r6
<1> QED BY <1>1, <1>2, <1>3, <1>4, <1>5, <1>6, <1>7 DEF GotPage

\* Every step is a page's own or goes on elsewhere.
LEMMA PageFrame ==
  ASSUME HTypeOK, PageTypeOK, [HNext]_hvars, NEW d \in Clients
  PROVE  Elsewhere(d) \/ PageMove(d)
<1>0. /\ handler \in [Clients -> HandlerStages]
      /\ page \in [Clients -> PageRecord]
      /\ alive \in [Clients -> SUBSET IDs]
      /\ first \in [Clients -> Seq(Clients)]
  BY DEF HTypeOK, PageTypeOK
<1>1. CASE UNCHANGED hvars
  BY <1>1 DEF hvars, httpVars, Elsewhere, Onward
<1>2. ASSUME NEW c \in Clients, Admit(c) \/ HandlerStep(c) \/ SessionHandler(c)
      PROVE  Elsewhere(d) \/ PageMove(d)
  <2>1. CASE Admit(c) \/ Enter(c) \/ ReleaseSecond(c) \/ Leave(c)
    <3>1. UNCHANGED <<page, alive, first>>
      BY <2>1 DEF Admit, Enter, ReleaseSecond, Leave, Store
    <3>2. \E where \in HandlerStages :
             /\ At(c, where) /\ where # "loading"
             /\ handler[c] \notin Ending \/ page[c].more \/ where \in Ending
      BY <2>1 DEF Admit, Enter, ReleaseSecond, Leave, Ending, HandlerStages
    <3> QED BY <1>0, <3>1, <3>2, OnwardAt DEF Elsewhere
  <2>2. CASE PatchSession(c) \/ RemoveSession(c) \/ WriteFails(c)
    <3>1. page' = page /\ first' = first
      BY <2>2 DEF PatchSession, RemoveSession, WriteFails, Store
    <3>2. alive'[d] \subseteq alive[d]
      BY <1>0, <2>2 DEF PatchSession, RemoveSession, WriteFails, Store, Gone
    <3>3. At(c, "releasing") /\ "releasing" # "loading" /\ "releasing" \in Ending
      BY <2>2 DEF PatchSession, RemoveSession, WriteFails, Ending
    <3> QED BY <1>0, <3>1, <3>2, <3>3, OnwardAt DEF Elsewhere
  <2>3. CASE PageMove(c) /\ c # d
    <3>1. page'[d] = page[d]
      <4>1. CASE LoadSummary(c) \/ PageFails(c) \/ CreateOrFork(c)
        BY <1>0, <2>3, <4>1 DEF LoadSummary, PageFails, CreateOrFork
      <4>4. CASE EncodeList(c)
        <5>1. PICK after, shown : PageTo(c, after, shown)
          BY <4>4 DEF EncodeList
        <5> QED BY <1>0, <2>3, <5>1, PageToOne
      <4>2. CASE ListIDs(c)
        BY <1>0, <2>3, <4>2 DEF ListIDs
      <4>3. CASE GetPage(c)
        <5>1. PICK id, start, snap, before : GetsPage(c, id, start, snap, before)
          BY <4>3, PageGot
        <5> QED BY <1>0, <2>3, <5>1, GetsOne
      <4> QED BY <2>3, <4>1, <4>2, <4>3, <4>4 DEF PageMove
    <3>2. alive'[d] = alive[d] /\ first'[d] = first[d]
      BY <1>0, <2>3 DEF PageMove, ListIDs, LoadSummary, EncodeList, GetPage, PageFails, CreateOrFork,
                        Store
    <3>3. handler'[d] = handler[d]
      BY <1>0, <2>3 DEF PageMove, ListIDs, LoadSummary, EncodeList, GetPage, PageFails, CreateOrFork, At
    <3> QED BY <3>1, <3>2, <3>3 DEF Elsewhere, Onward
  <2> QED BY <1>2, <2>1, <2>2, <2>3 DEF HandlerStep, SessionHandler, PageMove
<1>3. ASSUME NEW t \in Turns,
             RunHandler(t) \/ Disconnect(t) \/ ServeBroken(t) \/ Pump(t) \/ TurnStep(t) \/ SendTurn(t)
      PROVE  Elsewhere(d)
  <2>0. t \in Clients
    BY TurnsAssumption
  <2>1. UNCHANGED <<page, alive, first>>
    BY <1>3 DEF RunHandler, StartRun, RefuseRun, ServeDone, ServeEvent, ServeLast, CloseTurn, Disconnect,
         ServeBroken, Pump, PumpNext, PumpSend, PumpDone, TurnStep, SendTurn, Store, httpVars
  <2>2. Onward(d)
    <3>1. CASE RunHandler(t) \/ ServeBroken(t)
      <4>1. /\ handler[t] \in {"working", "serving", "closing"}
            /\ UNCHANGED handler \/ At(t, "releasing") \/ At(t, "serving") \/ At(t, "closing")
        BY <3>1 DEF RunHandler, StartRun, RefuseRun, ServeDone, ServeEvent, ServeLast, CloseTurn,
                    ServeBroken
      <4>2. handler[t] \notin Ending
        BY <4>1 DEF Ending
      <4>3. CASE UNCHANGED handler
        BY <4>3 DEF Onward
      <4>4. \A where \in {"releasing", "serving", "closing"} : At(t, where) => Onward(d)
        BY <1>0, <2>0, <4>2, OnwardAt
      <4> QED BY <4>1, <4>3, <4>4
    <3>2. CASE Disconnect(t) \/ Pump(t) \/ TurnStep(t) \/ SendTurn(t)
      BY <3>2 DEF Disconnect, Pump, PumpNext, PumpSend, PumpDone, TurnStep, SendTurn, httpVars, Onward
    <3> QED BY <1>3, <3>1, <3>2
  <2> QED BY <2>1, <2>2 DEF Elsewhere
<1> QED BY <1>1, <1>2, <1>3 DEF HNext

\* What a client must see is what it had to see, or is there.
LEMMA AliveFrame ==
  ASSUME HTypeOK, PageTypeOK, [HNext]_hvars, NEW d \in Clients
  PROVE  alive'[d] \subseteq alive[d] \cup Present
<1>0. alive \in [Clients -> SUBSET IDs]
  BY DEF PageTypeOK
<1>1. CASE Elsewhere(d)
  BY <1>1 DEF Elsewhere
<1>2. CASE LoadSummary(d) \/ EncodeList(d) \/ PageFails(d) \/ CreateOrFork(d)
  BY <1>2 DEF LoadSummary, EncodeList, PageFails, CreateOrFork, Store
<1>3. CASE ListIDs(d)
  <2>1. alive' = [alive EXCEPT ![d] = IF page[d].snap = -1 THEN Legible ELSE @]
    BY <1>3 DEF ListIDs, Legible
  <2>2. Legible \subseteq Present
    BY DEF Legible, Present, Readable
  <2> QED BY <1>0, <2>1, <2>2
<1>4. CASE GetPage(d)
  <2>1. PICK id \in IF page[d].snap = -1 THEN job[d].ids ELSE {page[d].id} :
             /\ Exists(id)
             /\ alive' = [alive EXCEPT ![d] = IF page[d].snap = -1 THEN {id} ELSE @]
    BY <1>4 DEF GetPage
  <2>2. page[d].snap = -1 => id \in Present
    BY <2>1 DEF HTypeOK, Present
  <2> QED BY <1>0, <2>1, <2>2
<1> QED BY <1>1, <1>2, <1>3, <1>4, PageFrame DEF PageMove

\* What a client must see is there: a session that is deleted is struck off.
LEMMA AliveExistStep ==
  ASSUME HTypeOK, TurnInv, PageTypeOK, AliveExist, [HNext]_hvars
  PROVE  AliveExist'
<1>0. /\ saved \in [IDs -> Record \cup {Absent}] /\ Absent \notin Record
      /\ alive \in [Clients -> SUBSET IDs]
  BY AbsentAssumption DEF HTypeOK, PageTypeOK
<1>1. ASSUME Present \subseteq Present', IsFiniteSet(Present')
      PROVE  AliveExist'
  BY <1>1, AliveFrame DEF AliveExist
<1>2. CASE UNCHANGED saved
  <2>1. Present' = Present
    BY <1>2 DEF Present, Exists
  <2> QED BY <1>1, <2>1 DEF AliveExist
<1>3. ASSUME NEW id \in IDs, Grows(id)
      PROVE  AliveExist'
  <2>1. PICK record \in Record : saved' = [saved EXCEPT ![id] = record]
    BY <1>3 DEF Grows, Write
  <2>2. Present' = Present \cup {id}
    BY <1>0, <2>1 DEF Present, Exists
  <2> QED BY <1>1, <2>2, FS_AddElement DEF AliveExist
<1>4. ASSUME NEW id \in IDs, DeleteSession(id), Gone(id)
      PROVE  AliveExist'
  <2>1. saved' = [saved EXCEPT ![id] = Absent]
    BY <1>4 DEF DeleteSession, Delete, Write
  <2>2. Present' = Present \ {id}
    BY <1>0, <2>1 DEF Present, Exists
  <2>3. IsFiniteSet(Present')
    BY <2>2, FS_RemoveElement DEF AliveExist
  <2>4. \A c \in Clients : alive'[c] = alive[c] \ {id}
    BY <1>4 DEF Gone
  <2> QED BY <2>2, <2>3, <2>4 DEF AliveExist
<1> QED BY <1>2, <1>3, <1>4, WriteFrame

\* The steps of a listing, each as a step on one page.
LEMMA ListsOne ==
  ASSUME page \in [Clients -> PageRecord], NEW c \in Clients, ListIDs(c)
  PROVE  /\ page'[c] = Listed(page[c], ListIDsPage(page[c].after))
         /\ page' = [page EXCEPT ![c] = page'[c]]
<1> DEFINE answer == ListIDsPage(page[c].after)
<1>1. page' = [page EXCEPT ![c].todo = answer.ids, ![c].next = answer.next, ![c].out = <<>>]
  BY Zenon DEF ListIDs
<1> HIDE DEF answer
<1>2. page'[c] = Listed(page[c], answer) /\ page' = [page EXCEPT ![c] = page'[c]]
  <2> DEFINE r1 == [page EXCEPT ![c].todo = answer.ids]
             r2 == [r1 EXCEPT ![c].next = answer.next]
             r3 == [r2 EXCEPT ![c].out = <<>>]
  <2>1. page' = r3
    BY <1>1
  <2>2. r1 = [page EXCEPT ![c] = r1[c]] /\ r1[c] = [page[c] EXCEPT !.todo = answer.ids]
    OBVIOUS
  <2> HIDE DEF r1
  <2>3. r2 = [page EXCEPT ![c] = r2[c]] /\ r2[c] = [r1[c] EXCEPT !.next = answer.next]
    BY <2>2
  <2> HIDE DEF r2
  <2>4. r3 = [page EXCEPT ![c] = r3[c]] /\ r3[c] = [r2[c] EXCEPT !.out = <<>>]
    BY <2>3
  <2> HIDE DEF r3
  <2> QED BY <2>1, <2>2, <2>3, <2>4 DEF Listed
<1> QED BY <1>2 DEF answer

\* ... a session that is loaded, or is gone or not readable.
LEMMA LoadsOne ==
  ASSUME page \in [Clients -> PageRecord], NEW c \in Clients, LoadSummary(c)
  PROVE  /\ page'[c] = Loaded(page[c], Readable(Head(page[c].todo)))
         /\ page' = [page EXCEPT ![c] = page'[c]]
<1> DEFINE id == Head(page[c].todo)
<1>1. page' = [page EXCEPT ![c].todo = Tail(@), ![c].out = IF Readable(id) THEN Append(@, id) ELSE @]
  BY Zenon DEF LoadSummary
<1>2. page'[c] = Loaded(page[c], Readable(id)) /\ page' = [page EXCEPT ![c] = page'[c]]
  <2> DEFINE r1 == [page EXCEPT ![c].todo = Tail(@)]
             r2 == [r1 EXCEPT ![c].out = IF Readable(id) THEN Append(@, id) ELSE @]
  <2>1. page' = r2
    BY <1>1
  <2>2. r1 = [page EXCEPT ![c] = r1[c]] /\ r1[c] = [page[c] EXCEPT !.todo = Tail(@)]
    OBVIOUS
  <2> HIDE DEF r1
  <2>3. /\ r2 = [page EXCEPT ![c] = r2[c]]
        /\ r2[c] = [r1[c] EXCEPT !.out = IF Readable(id) THEN Append(@, id) ELSE @]
    BY <2>2
  <2> HIDE DEF r2
  <2> QED BY <2>1, <2>2, <2>3 DEF Loaded
<1> QED BY <1>2

\* EncodeList answers all that was loaded, or some of it.
LEMMA EncodesOne ==
  ASSUME NEW c \in Clients, EncodeList(c)
  PROVE  \/ PageTo(c, page[c].next, page[c].out)
         \/ \E k \in 1 .. Len(page[c].out) - 1 : PageTo(c, page[c].out[k], SubSeq(page[c].out, 1, k))
BY DEF EncodeList

\* The pages of all clients: what touches them at all.
LEMMA PagesFrame ==
  ASSUME HTypeOK, [HNext]_hvars
  PROVE  \/ UNCHANGED <<page, first>> /\ (UNCHANGED alive \/ \E id : Gone(id))
         \/ \E c \in Clients : PageMove(c)
<1>1. CASE UNCHANGED hvars
  BY <1>1 DEF hvars, httpVars
<1>2. ASSUME NEW c \in Clients, Admit(c) \/ HandlerStep(c) \/ SessionHandler(c)
      PROVE  \/ UNCHANGED <<page, first>> /\ (UNCHANGED alive \/ \E id : Gone(id))
             \/ PageMove(c)
  <2>1. CASE Admit(c) \/ HandlerStep(c)
    BY <2>1 DEF Admit, HandlerStep, Enter, ReleaseSecond, Leave, Store
  <2>2. CASE PatchSession(c) \/ RemoveSession(c) \/ WriteFails(c)
    BY <2>2 DEF PatchSession, RemoveSession, WriteFails, Store
  <2> QED BY <1>2, <2>1, <2>2 DEF SessionHandler, PageMove
<1>3. ASSUME NEW t \in Turns,
             RunHandler(t) \/ Disconnect(t) \/ ServeBroken(t) \/ Pump(t) \/ TurnStep(t) \/ SendTurn(t)
      PROVE  UNCHANGED <<page, first, alive>>
  BY <1>3 DEF RunHandler, StartRun, RefuseRun, ServeDone, ServeEvent, ServeLast, CloseTurn, Disconnect,
       ServeBroken, Pump, PumpNext, PumpSend, PumpDone, TurnStep, SendTurn, Store, httpVars
<1> QED BY <1>1, <1>2, <1>3 DEF HNext

\* A page of a transcript covers what is there.
LEMMA GotTypes ==
  ASSUME HTypeOK, PageTypeOK, NEW c \in Clients, NEW id, NEW start, NEW snap, NEW before,
         GetsPage(c, id, start, snap, before), page[c].snap = -1 \/ page[c].id \in IDs
  PROVE  /\ id \in IDs /\ saved[id] \in Record /\ saved[id].msgs \in Seq(Clients)
         /\ snap \in Nat /\ before \in Nat /\ start \in Nat /\ start <= before
         /\ before <= Len(saved[id].msgs) /\ before <= snap
<1>1. id \in IDs
  BY DEF HTypeOK, GetsPage
<1>2. saved[id] \in Record /\ saved[id].msgs \in Seq(Clients) /\ Len(saved[id].msgs) \in Nat
  BY <1>1 DEF HTypeOK, GetsPage, Exists, Record
<1>3. page[c].snap \in Nat \cup {-1} /\ page[c].after \in Nat
  BY DEF PageTypeOK, PageRecord
<1>4. snap \in Nat /\ before \in Nat /\ before <= Len(saved[id].msgs) /\ before <= snap
  BY <1>2, <1>3 DEF GetsPage, DecodeDetail
<1>5. start \in Nat /\ start <= before
  BY <1>4 DEF GetsPage
<1> QED BY <1>1, <1>2, <1>4, <1>5

\* They keep a page's type.
LEMMA PageTypes ==
  ASSUME NEW p \in PageRecord
  PROVE  /\ \A answer : answer.ids \in Seq(IDs) /\ answer.next \in Nat => Listed(p, answer) \in PageRecord
         /\ \A there \in BOOLEAN : p.todo # <<>> => Loaded(p, there) \in PageRecord
         /\ \A after \in Nat, shown \in Seq(IDs) : PagedTo(p, after, shown) \in PageRecord
         /\ \A id \in IDs, snap \in Nat, start \in Nat, shown \in Seq(Clients) :
              GotPage(p, id, snap, start, shown) \in PageRecord
<1>0. /\ p.todo \in Seq(IDs) /\ p.out \in Seq(IDs) /\ p.got \in Seq(IDs \cup Clients)
      /\ <<>> \in Seq(IDs)
  BY EmptySeq DEF PageRecord
<1>1. ASSUME NEW answer, answer.ids \in Seq(IDs), answer.next \in Nat
      PROVE  Listed(p, answer) \in PageRecord
  BY <1>0, <1>1 DEF Listed, PageRecord
<1>2. ASSUME NEW there \in BOOLEAN, p.todo # <<>>
      PROVE  Loaded(p, there) \in PageRecord
  <2> DEFINE rest == Tail(p.todo)
             kept == IF there THEN Append(p.out, Head(p.todo)) ELSE p.out
  <2>1. rest \in Seq(IDs) /\ Head(p.todo) \in IDs
    BY <1>0, <1>2, HeadTailProperties
  <2>2. kept \in Seq(IDs)
    BY <1>0, <2>1, AppendProperties
  <2>3. Loaded(p, there) = [p EXCEPT !.todo = rest, !.out = kept]
    BY DEF Loaded, PageRecord
  <2> HIDE DEF rest, kept
  <2> QED BY <2>1, <2>2, <2>3 DEF PageRecord
<1>3. ASSUME NEW after \in Nat, NEW shown \in Seq(IDs)
      PROVE  PagedTo(p, after, shown) \in PageRecord
  <2> DEFINE got == p.got \o shown
             more == after # 0
             ok == after = 0
             zero == 0
  <2>1. got \in Seq(IDs \cup Clients) /\ more \in BOOLEAN /\ ok \in BOOLEAN /\ zero \in Nat
    <3>1. shown \in Seq(IDs \cup Clients)
      OBVIOUS
    <3> QED BY <1>0, <3>1, ConcatProperties
  <2>2. PagedTo(p, after, shown) =
          [p EXCEPT !.more = more, !.after = after, !.snap = zero, !.got = got, !.ok = ok]
    BY Zenon DEF PagedTo
  <2> HIDE DEF got, more, ok, zero
  <2> QED BY <2>1, <2>2 DEF PageRecord
<1>4. ASSUME NEW id \in IDs, NEW snap \in Nat, NEW start \in Nat, NEW shown \in Seq(Clients)
      PROVE  GotPage(p, id, snap, start, shown) \in PageRecord
  <2> DEFINE got == shown \o p.got
             more == start > 0
             ok == start = 0
  <2>1. got \in Seq(IDs \cup Clients) /\ more \in BOOLEAN /\ ok \in BOOLEAN
    <3>1. shown \in Seq(IDs \cup Clients)
      OBVIOUS
    <3> QED BY <1>0, <3>1, ConcatProperties
  <2>2. GotPage(p, id, snap, start, shown) =
          [p EXCEPT !.id = id, !.snap = snap, !.after = start, !.more = more, !.ok = ok, !.got = got]
    BY Zenon DEF GotPage
  <2> HIDE DEF got, more, ok
  <2> QED BY <2>1, <2>2 DEF PageRecord
<1> QED BY <1>1, <1>2, <1>3, <1>4

\* The types of pages and of the history that goes with them.
LEMMA PageTypeStep ==
  ASSUME HTypeOK, PageInv, [HNext]_hvars
  PROVE  PageTypeOK'
<1>0. /\ page \in [Clients -> PageRecord]
      /\ alive \in [Clients -> SUBSET IDs] /\ first \in [Clients -> Seq(Clients)]
      /\ IDs \subseteq Nat /\ PageTypeOK
  BY SessionsAssumption DEF PageInv, PageTypeOK
<1>1. CASE UNCHANGED <<page, first>> /\ (UNCHANGED alive \/ \E id : Gone(id))
  BY <1>0, <1>1 DEF PageTypeOK, Gone
<1>2. ASSUME NEW c \in Clients, PageMove(c)
      PROVE  PageTypeOK'
  <2>0. page[c] \in PageRecord
    BY <1>0
  <2>1. CASE LoadSummary(c) \/ EncodeList(c) \/ PageFails(c) \/ CreateOrFork(c)
    <3>1. alive' = alive /\ first' = first
      BY <2>1 DEF LoadSummary, EncodeList, PageFails, CreateOrFork, Store
    <3>2. page' \in [Clients -> PageRecord]
      <4>1. CASE LoadSummary(c)
        <5>1. page[c].todo # <<>>
          BY <4>1 DEF LoadSummary
        <5>2. Readable(Head(page[c].todo)) \in BOOLEAN
          BY DEF Readable, Exists
        <5>3. Loaded(page[c], Readable(Head(page[c].todo))) \in PageRecord
          BY <2>0, <5>1, <5>2, PageTypes
        <5>4. page'[c] \in PageRecord /\ page' = [page EXCEPT ![c] = page'[c]]
          BY <1>0, <4>1, <5>3, LoadsOne
        <5> QED BY <1>0, <5>4
      <4>2. ASSUME NEW after \in Nat, NEW shown \in Seq(IDs), PageTo(c, after, shown)
            PROVE  page' \in [Clients -> PageRecord]
        <5>1. PagedTo(page[c], after, shown) \in PageRecord
          BY <2>0, PageTypes
        <5>2. page'[c] \in PageRecord /\ page' = [page EXCEPT ![c] = page'[c]]
          BY <1>0, <4>2, <5>1, PageToOne
        <5> QED BY <1>0, <5>2
      <4>3. CASE EncodeList(c)
        <5>1. page[c].out \in Seq(IDs) /\ page[c].next \in Nat
          BY <2>0 DEF PageRecord
        <5>2. ASSUME NEW k \in 1 .. Len(page[c].out) - 1
              PROVE  page[c].out[k] \in Nat /\ SubSeq(page[c].out, 1, k) \in Seq(IDs)
          <6>1. k \in 1 .. Len(page[c].out)
            BY <5>1
          <6>2. page[c].out[k] \in IDs
            BY <5>1, <6>1
          <6>3. SubSeq(page[c].out, 1, k) \in Seq(IDs)
            BY <5>1, <6>1
          <6> QED BY <1>0, <6>2, <6>3
        <5> QED BY <4>2, <4>3, <5>1, <5>2, EncodesOne
      <4>4. CASE PageFails(c)
        BY <1>0, <2>0, <4>4 DEF PageFails, PageRecord
      <4>5. CASE CreateOrFork(c)
        <5>1. page' = page \/ page' = [page EXCEPT ![c].tries = @ + 1]
          BY <4>5 DEF CreateOrFork
        <5> DEFINE tries == page[c].tries + 1
        <5>2. tries \in Nat
          BY <2>0 DEF PageRecord
        <5>3. page' = page \/ page' = [page EXCEPT ![c].tries = tries]
          BY <5>1
        <5> HIDE DEF tries
        <5>4. [page[c] EXCEPT !.tries = tries] \in PageRecord
          BY <2>0, <5>2 DEF PageRecord
        <5> QED BY <1>0, <5>3, <5>4
      <4> QED BY <2>1, <4>1, <4>3, <4>4, <4>5
    <3> QED BY <1>0, <3>1, <3>2 DEF PageTypeOK
  <2>2. CASE ListIDs(c)
    <3>1. page[c].after \in Nat
      BY <2>0 DEF PageRecord
    <3>2. PageSound(ListIDsPage(page[c].after), page[c].after)
      BY <3>1, PagesAreSound DEF PageInv, AliveExist
    <3>3. /\ ListIDsPage(page[c].after).ids \in Seq(IDs)
          /\ ListIDsPage(page[c].after).next \in Nat /\ <<>> \in Seq(IDs)
      BY <3>2, EmptySeq DEF PageSound
    <3>4. page'[c] \in PageRecord
      <4>1. Listed(page[c], ListIDsPage(page[c].after)) \in PageRecord
        BY <2>0, <3>3, PageTypes
      <4> QED BY <1>0, <2>2, <4>1, ListsOne
    <3>5. page' \in [Clients -> PageRecord]
      BY <1>0, <2>2, <3>4, ListsOne
    <3>6. alive' = [alive EXCEPT ![c] = IF page[c].snap = -1 THEN Legible ELSE @] /\ first' = first
      BY <2>2 DEF ListIDs, Legible
    <3>7. alive' \in [Clients -> SUBSET IDs]
      BY <1>0, <3>6 DEF Legible
    <3> QED BY <1>0, <3>5, <3>6, <3>7 DEF PageTypeOK
  <2>3. CASE GetPage(c)
    <3>1. PICK id, start, snap, before : GetsPage(c, id, start, snap, before)
      BY <2>3, PageGot
    <3>2. page[c].snap = -1 \/ page[c].id \in IDs
      BY <2>3 DEF PageInv, DetailOK, GetPage
    <3>3. /\ id \in IDs /\ saved[id].msgs \in Seq(Clients) /\ snap \in Nat /\ before \in Nat
          /\ start \in Nat /\ start <= before /\ before <= Len(saved[id].msgs)
      BY <1>0, <3>1, <3>2, GotTypes
    <3> DEFINE msgs == saved[id].msgs
    <3>4. SubSeq(msgs, start + 1, before) \in Seq(Clients)
      BY <3>3
    <3>5. page'[c] \in PageRecord /\ page' = [page EXCEPT ![c] = page'[c]]
      <4>1. GotPage(page[c], id, snap, start, SubSeq(msgs, start + 1, before)) \in PageRecord
        BY <2>0, <3>3, <3>4, PageTypes
      <4> QED BY <1>0, <3>1, <4>1, GetsOne
    <3>6. page' \in [Clients -> PageRecord]
      BY <1>0, <3>5
    <3>7. alive' \in [Clients -> SUBSET IDs] /\ first' \in [Clients -> Seq(Clients)]
      BY <1>0, <3>1, <3>3 DEF GetsPage
    <3> QED BY <3>6, <3>7 DEF PageTypeOK
  <2> QED BY <1>2, <2>1, <2>2, <2>3 DEF PageMove
<1> QED BY <1>1, <1>2, PagesFrame

--------------------------------------------------------------------------------
(***************************************************************************)
(* Listings.                                                               *)
(***************************************************************************)

\* What one sequence behind another shows.
LEMMA ConcatSet ==
  ASSUME NEW s \in Seq(IDs), NEW t \in Seq(IDs)
  PROVE  ToSet(s \o t) = ToSet(s) \cup ToSet(t)
<1>1. /\ s \o t \in Seq(IDs) /\ Len(s) \in Nat /\ Len(t) \in Nat
      /\ DOMAIN (s \o t) = 1 .. Len(s) + Len(t) /\ DOMAIN s = 1 .. Len(s) /\ DOMAIN t = 1 .. Len(t)
      /\ \A i \in 1 .. Len(s) + Len(t) : (s \o t)[i] = IF i <= Len(s) THEN s[i] ELSE t[i - Len(s)]
  BY ConcatProperties
<1> DEFINE u == s \o t
<1> HIDE DEF u
<1>2. ASSUME NEW x \in ToSet(u)
      PROVE  x \in ToSet(s) \cup ToSet(t)
  <2>1. PICK i \in 1 .. Len(s) + Len(t) : u[i] = x
    BY <1>1, <1>2 DEF ToSet, u
  <2>2. CASE i <= Len(s)
    <3>1. i \in DOMAIN s /\ s[i] = x
      BY <1>1, <2>1, <2>2 DEF u
    <3> QED BY <3>1 DEF ToSet
  <2>3. CASE ~ (i <= Len(s))
    <3>1. i - Len(s) \in DOMAIN t /\ t[i - Len(s)] = x
      BY <1>1, <2>1, <2>3 DEF u
    <3> QED BY <3>1 DEF ToSet
  <2> QED BY <2>2, <2>3
<1>3. ASSUME NEW x \in ToSet(s)
      PROVE  x \in ToSet(u)
  <2>1. PICK i \in DOMAIN s : s[i] = x
    BY <1>3 DEF ToSet
  <2>2. i \in DOMAIN u /\ u[i] = x
    BY <1>1, <2>1 DEF u
  <2> QED BY <2>2 DEF ToSet
<1>4. ASSUME NEW x \in ToSet(t)
      PROVE  x \in ToSet(u)
  <2>1. PICK i \in DOMAIN t : t[i] = x
    BY <1>4 DEF ToSet
  <2>2. Len(s) + i \in DOMAIN u /\ u[Len(s) + i] = x
    BY <1>1, <2>1 DEF u
  <2> QED BY <2>2 DEF ToSet
<1> QED BY <1>2, <1>3, <1>4 DEF u

\* ... is in order when each is and all of the second lies behind the first.
LEMMA ConcatIncreases ==
  ASSUME NEW s \in Seq(IDs), NEW t \in Seq(IDs), Increasing(s), Increasing(t),
         \A x \in ToSet(s), y \in ToSet(t) : x < y
  PROVE  Increasing(s \o t)
<1>1. /\ s \o t \in Seq(IDs) /\ Len(s) \in Nat /\ Len(t) \in Nat
      /\ DOMAIN (s \o t) = 1 .. Len(s) + Len(t) /\ DOMAIN s = 1 .. Len(s) /\ DOMAIN t = 1 .. Len(t)
      /\ \A i \in 1 .. Len(s) + Len(t) : (s \o t)[i] = IF i <= Len(s) THEN s[i] ELSE t[i - Len(s)]
  BY ConcatProperties
<1> DEFINE u == s \o t
<1> HIDE DEF u
<1> SUFFICES ASSUME NEW i \in 1 .. Len(s) + Len(t), NEW j \in 1 .. Len(s) + Len(t), i < j
             PROVE  u[i] < u[j]
  BY <1>1 DEF Increasing, u
<1>2. CASE j <= Len(s)
  <2>1. i \in DOMAIN s /\ j \in DOMAIN s /\ u[i] = s[i] /\ u[j] = s[j]
    BY <1>1, <1>2 DEF u
  <2> QED BY <2>1 DEF Increasing
<1>3. CASE ~ (i <= Len(s))
  <2>1. /\ i - Len(s) \in DOMAIN t /\ j - Len(s) \in DOMAIN t /\ i - Len(s) < j - Len(s)
        /\ u[i] = t[i - Len(s)] /\ u[j] = t[j - Len(s)]
    BY <1>1, <1>3 DEF u
  <2> QED BY <2>1 DEF Increasing
<1>4. CASE i <= Len(s) /\ ~ (j <= Len(s))
  <2>1. i \in DOMAIN s /\ j - Len(s) \in DOMAIN t /\ u[i] = s[i] /\ u[j] = t[j - Len(s)]
    BY <1>1, <1>4 DEF u
  <2>2. s[i] \in ToSet(s) /\ t[j - Len(s)] \in ToSet(t)
    BY <2>1 DEF ToSet
  <2> QED BY <2>1, <2>2
<1> QED BY <1>1, <1>2, <1>3, <1>4

\* Less to be seen and a handler that goes on leave a listing as it is.
LEMMA ListShrinks ==
  ASSUME NEW p, NEW live, NEW less, NEW where, NEW on, ListOK(p, live, where), less \subseteq live,
         on = where \/ (on # "loading" /\ (where \in Ending /\ ~ p.more => on \in Ending))
  PROVE  ListOK(p, less, on)
<1>1. p.ok => ~ p.more /\ on \in Ending /\ less \subseteq ToSet(p.got)
  BY DEF ListOK, Ending
<1>2. on = "loading" => where = "loading"
  OBVIOUS
<1>3. on = "loading" => LoadingOK(p, less)
  BY <1>2 DEF ListOK, LoadingOK
<1> QED BY <1>1, <1>2, <1>3 DEF ListOK, Ending

\* ListSummariesPage asks for IDs; the first time, what is there and can be read is
\* what must be seen.
LEMMA ListStarts ==
  ASSUME NEW p \in PageRecord, NEW live \in SUBSET IDs, NEW due \in SUBSET Present, NEW answer,
         ListOK(p, live, "working"), PageSound(answer, p.after), p.snap = -1 \/ due = live,
         due \cap Unreadable = {}
  PROVE  ListOK(Listed(p, answer), due, "loading")
<1> DEFINE q == Listed(p, answer)
<1>1. /\ q.got = p.got /\ q.after = p.after /\ q.ok = p.ok /\ q.more = p.more /\ q.snap = p.snap
      /\ q.todo = answer.ids /\ q.next = answer.next /\ q.out = <<>>
  BY DEF Listed, PageRecord
<1> HIDE DEF q
<1>2. ~ p.ok
  BY DEF ListOK
<1>3. \A id \in due : id <= p.after => id \in ToSet(p.got)
  <2>1. CASE due = live
    BY <1>2, <2>1 DEF ListOK
  <2>2. CASE p.snap = -1
    <3>1. p.after = 0
      BY <2>2 DEF ListOK
    <3>2. \A id \in due : id \in Nat \ {0}
      BY SessionsAssumption DEF Present
    <3>3. \A id \in due : ~ (id <= p.after)
      BY <3>1, <3>2
    <3> QED BY <3>3
  <2> QED BY <2>1, <2>2
<1>4. LoadingOK(q, due)
  <2>1. ToSet(q.out) = {} /\ DOMAIN q.out = {}
    BY <1>1 DEF ToSet
  <2>2. Increasing(q.out)
    BY <2>1 DEF Increasing
  <2> QED BY <1>1, <2>1, <2>2 DEF LoadingOK, PageSound
<1>5. /\ q.got \in Seq(IDs) /\ Increasing(q.got) /\ (q.snap = -1 => q.after = 0)
      /\ \A id \in ToSet(q.got) : id <= q.after
  BY <1>1, <1>2 DEF ListOK
<1>6. ~ q.ok
  BY <1>1, <1>2
<1>7. \A id \in due : id <= q.after => id \in ToSet(q.got)
  BY <1>1, <1>3
<1> QED BY <1>4, <1>5, <1>6, <1>7 DEF ListOK, q

\* One session is loaded, or is gone or not readable.
LEMMA ListLoads ==
  ASSUME NEW p \in PageRecord, NEW live \in SUBSET IDs, NEW there \in BOOLEAN, p.todo # <<>>,
         ListOK(p, live, "loading"), Head(p.todo) \in live => there
  PROVE  ListOK(Loaded(p, there), live, "loading")
<1> DEFINE q == Loaded(p, there)
           h == Head(p.todo)
<1>0. /\ p.todo \in Seq(IDs) /\ p.out \in Seq(IDs) /\ IDs \subseteq Nat
      /\ LoadingOK(p, live) /\ ~ p.ok
  BY SessionsAssumption DEF PageRecord, ListOK
<1>1. /\ q.got = p.got /\ q.after = p.after /\ q.ok = p.ok /\ q.more = p.more /\ q.snap = p.snap
      /\ q.next = p.next /\ q.todo = Tail(p.todo)
      /\ q.out = IF there THEN Append(p.out, h) ELSE p.out
  BY DEF Loaded, PageRecord
<1>2. /\ Len(p.todo) \in Nat \ {0} /\ h = p.todo[1] /\ h \in IDs /\ 1 \in DOMAIN p.todo
      /\ DOMAIN p.todo = 1 .. Len(p.todo)
      /\ Tail(p.todo) \in Seq(IDs) /\ DOMAIN Tail(p.todo) = 1 .. Len(p.todo) - 1
      /\ \A i \in 1 .. Len(p.todo) - 1 : Tail(p.todo)[i] = p.todo[i + 1]
  BY <1>0, HeadTailProperties
<1>3. /\ Len(p.out) \in Nat /\ DOMAIN p.out = 1 .. Len(p.out)
      /\ Append(p.out, h) \in Seq(IDs) /\ DOMAIN Append(p.out, h) = 1 .. Len(p.out) + 1
      /\ \A i \in 1 .. Len(p.out) : Append(p.out, h)[i] = p.out[i]
      /\ Append(p.out, h)[Len(p.out) + 1] = h
  BY <1>0, <1>2, AppendProperties
<1> DEFINE rest == Tail(p.todo)
           longer == Append(p.out, h)
<1> HIDE DEF q, h, rest, longer
<1>4. \A j \in DOMAIN rest : j + 1 \in DOMAIN p.todo /\ 1 < j + 1 /\ rest[j] = p.todo[j + 1]
  BY <1>2 DEF rest
<1>5. Increasing(rest)
  <2> SUFFICES ASSUME NEW i \in DOMAIN rest, NEW j \in DOMAIN rest, i < j
               PROVE  rest[i] < rest[j]
    BY DEF Increasing
  <2>1. i + 1 < j + 1
    BY <1>2 DEF rest
  <2> QED BY <1>0, <1>4, <2>1 DEF LoadingOK, Increasing
<1>6. \A j \in DOMAIN rest : h < rest[j]
  BY <1>0, <1>2, <1>4 DEF LoadingOK, Increasing
<1>7. \A i \in DOMAIN longer : (i \in DOMAIN p.out /\ longer[i] = p.out[i]) \/ longer[i] = h
  BY <1>3 DEF longer
<1>8. Increasing(longer)
  <2> SUFFICES ASSUME NEW i \in DOMAIN longer, NEW j \in DOMAIN longer, i < j
               PROVE  longer[i] < longer[j]
    BY DEF Increasing
  <2>1. i \in DOMAIN p.out /\ longer[i] = p.out[i]
    BY <1>3 DEF longer
  <2>2. CASE j \in DOMAIN p.out
    <3>1. longer[j] = p.out[j]
      BY <1>3, <2>2 DEF longer
    <3> QED BY <1>0, <2>1, <2>2, <3>1 DEF LoadingOK, Increasing
  <2>3. CASE j \notin DOMAIN p.out
    <3>1. longer[j] = h
      BY <1>7, <2>3
    <3>2. p.out[i] < p.todo[1]
      BY <1>0, <1>2, <2>1 DEF LoadingOK
    <3> QED BY <1>2, <2>1, <3>1, <3>2
  <2> QED BY <2>2, <2>3
<1>9. \A i \in DOMAIN p.out, j \in DOMAIN rest : p.out[i] < rest[j]
  BY <1>0, <1>4 DEF LoadingOK
<1>10. \A i \in DOMAIN longer, j \in DOMAIN rest : longer[i] < rest[j]
  BY <1>6, <1>7, <1>9
<1>11. ToSet(longer) = ToSet(p.out) \cup {h}
  <2>1. \A x \in ToSet(longer) : x \in ToSet(p.out) \cup {h}
    BY <1>7 DEF ToSet
  <2>2. \A x \in ToSet(p.out) : x \in ToSet(longer)
    <3>1. \A i \in DOMAIN p.out : i \in DOMAIN longer /\ longer[i] = p.out[i]
      BY <1>3 DEF longer
    <3> QED BY <3>1 DEF ToSet
  <2>3. h \in ToSet(longer)
    <3>1. Len(p.out) + 1 \in DOMAIN longer /\ longer[Len(p.out) + 1] = h
      BY <1>3 DEF longer
    <3> QED BY <3>1 DEF ToSet
  <2> QED BY <2>1, <2>2, <2>3
<1>12. ToSet(p.todo) = ToSet(rest) \cup {h}
  <2>1. \A x \in ToSet(rest) : x \in ToSet(p.todo)
    BY <1>4 DEF ToSet
  <2>2. h \in ToSet(p.todo)
    BY <1>2 DEF ToSet
  <2>3. ASSUME NEW x \in ToSet(p.todo), x # h
        PROVE  x \in ToSet(rest)
    <3>1. PICK i \in DOMAIN p.todo : p.todo[i] = x
      BY <2>3 DEF ToSet
    <3>2. i # 1
      BY <1>2, <2>3, <3>1
    <3>3. i - 1 \in DOMAIN rest /\ rest[i - 1] = p.todo[i - 1 + 1] /\ i - 1 + 1 = i
      BY <1>2, <3>1, <3>2 DEF rest
    <3>4. rest[i - 1] = x
      BY <3>1, <3>3
    <3> QED BY <3>3, <3>4 DEF ToSet
  <2> QED BY <2>1, <2>2, <2>3
<1>13. CASE there
  <2>1. q.out = longer /\ q.todo = rest
    BY <1>1, <1>13 DEF longer, rest
  <2>2. ToSet(q.out) \cup ToSet(q.todo) = ToSet(p.out) \cup ToSet(p.todo)
    BY <1>11, <1>12, <2>1
  <2>3. LoadingOK(q, live)
    BY <1>0, <1>1, <1>5, <1>8, <1>10, <2>1, <2>2 DEF LoadingOK
  <2>4. ListOK(q, live, "loading")
    BY <1>0, <1>1, <2>3 DEF ListOK
  <2> QED BY <2>4 DEF q
<1>14. CASE ~ there
  <2>1. q.out = p.out /\ q.todo = rest
    BY <1>1, <1>14 DEF rest
  <2>2. /\ ToSet(q.out) \cup ToSet(q.todo) \subseteq ToSet(p.out) \cup ToSet(p.todo)
        /\ \A id \in live : id \in ToSet(p.out) \cup ToSet(p.todo) => id \in ToSet(q.out) \cup ToSet(q.todo)
    BY <1>12, <1>14, <2>1 DEF h
  <2>3. LoadingOK(q, live)
    <3>1. Increasing(q.out)
      BY <1>0, <2>1 DEF LoadingOK
    <3> QED BY <1>0, <1>1, <1>5, <1>9, <2>1, <2>2, <3>1 DEF LoadingOK
  <2>4. ListOK(q, live, "loading")
    BY <1>0, <1>1, <2>3 DEF ListOK
  <2> QED BY <2>4 DEF q
<1> QED BY <1>13, <1>14

\* A response adds to what was shown, and its cursor says how far that goes.
LEMMA ListShows ==
  ASSUME NEW p \in PageRecord, NEW live \in SUBSET IDs, NEW cursor \in Nat, NEW shown \in Seq(IDs),
         ListOK(p, live, "loading"), Increasing(shown), cursor # 0 => p.after < cursor,
         \A id \in ToSet(shown) : p.after < id /\ (cursor # 0 => id <= cursor),
         \A id \in live : p.after < id /\ (cursor = 0 \/ id <= cursor) => id \in ToSet(shown)
  PROVE  ListOK(PagedTo(p, cursor, shown), live, "releasing")
<1> DEFINE q == PagedTo(p, cursor, shown)
           got == p.got \o shown
<1>0. /\ p.got \in Seq(IDs) /\ Increasing(p.got) /\ ~ p.ok /\ p.after \in Nat
      /\ IDs \subseteq Nat
      /\ \A id \in ToSet(p.got) : id <= p.after
      /\ \A id \in live : id <= p.after => id \in ToSet(p.got)
  BY SessionsAssumption DEF PageRecord, ListOK
<1>1. /\ q.got = got /\ q.after = cursor /\ q.snap = 0
      /\ (q.ok <=> cursor = 0) /\ (q.more <=> cursor # 0)
  BY DEF PagedTo, PageRecord
<1> HIDE DEF q
<1>2. ToSet(got) = ToSet(p.got) \cup ToSet(shown)
  BY <1>0, ConcatSet
<1>3. ToSet(p.got) \subseteq IDs /\ ToSet(shown) \subseteq IDs
  BY <1>0 DEF ToSet
<1>4. got \in Seq(IDs)
  BY <1>0, ConcatProperties
<1>5. Increasing(got)
  <2>1. ASSUME NEW x \in ToSet(p.got), NEW y \in ToSet(shown)
        PROVE  x < y
    <3>1. x \in Nat /\ y \in Nat /\ x <= p.after /\ p.after < y
      BY <1>0, <1>3, <2>1
    <3> QED BY <1>0, <3>1
  <2> QED BY <1>0, <2>1, ConcatIncreases
<1> HIDE DEF got
<1>6. CASE cursor = 0
  <2>1. ASSUME NEW id \in live
        PROVE  id \in ToSet(got)
    <3>1. id \in Nat /\ (id <= p.after \/ p.after < id)
      BY <1>0
    <3> QED BY <1>0, <1>2, <1>6, <3>1
  <2> QED BY <1>1, <1>4, <1>5, <1>6, <2>1 DEF ListOK, q
<1>7. CASE cursor # 0
  <2>1. ASSUME NEW id \in ToSet(got)
        PROVE  id <= cursor
    <3>1. id \in Nat
      BY <1>0, <1>2, <1>3
    <3>2. CASE id \in ToSet(p.got)
      BY <1>0, <1>7, <3>1, <3>2
    <3> QED BY <1>2, <1>7, <3>2
  <2>2. ASSUME NEW id \in live, id <= cursor
        PROVE  id \in ToSet(got)
    <3>1. id \in Nat /\ (id <= p.after \/ p.after < id)
      BY <1>0
    <3> QED BY <1>0, <1>2, <2>2, <3>1
  <2>3. /\ q.got \in Seq(IDs) /\ Increasing(q.got) /\ (q.snap # -1) /\ ~ q.ok
        /\ (\A id \in ToSet(q.got) : id <= q.after)
        /\ \A id \in live : id <= q.after => id \in ToSet(q.got)
    BY <1>1, <1>4, <1>5, <1>7, <2>1, <2>2
  <2> QED BY <2>3 DEF ListOK, q
<1> QED BY <1>6, <1>7

\* All that was loaded, up to the cursor of the store's page.
LEMMA ListEncodesAll ==
  ASSUME NEW p \in PageRecord, NEW live \in SUBSET IDs, p.todo = <<>>, ListOK(p, live, "loading")
  PROVE  ListOK(PagedTo(p, p.next, p.out), live, "releasing")
<1>1. LoadingOK(p, live) /\ ToSet(p.todo) = {}
  BY DEF ListOK, ToSet
<1>2. p.out \in Seq(IDs) /\ p.next \in Nat
  BY DEF PageRecord
<1>3. /\ Increasing(p.out) /\ (p.next # 0 => p.after < p.next)
      /\ (\A id \in ToSet(p.out) : p.after < id /\ (p.next # 0 => id <= p.next))
      /\ (\A id \in live : p.after < id /\ (p.next = 0 \/ id <= p.next) => id \in ToSet(p.out))
  BY <1>1 DEF LoadingOK
<1> QED BY <1>2, <1>3, ListShows

\* As many as fit, up to the last of them.
LEMMA ListEncodesSome ==
  ASSUME NEW p \in PageRecord, NEW live \in SUBSET IDs, p.todo = <<>>, ListOK(p, live, "loading"),
         NEW k \in 1 .. Len(p.out) - 1
  PROVE  ListOK(PagedTo(p, p.out[k], SubSeq(p.out, 1, k)), live, "releasing")
<1> DEFINE shown == SubSeq(p.out, 1, k)
           cursor == p.out[k]
<1>1. LoadingOK(p, live) /\ ToSet(p.todo) = {} /\ p.after \in Nat /\ p.next \in Nat
  BY DEF ListOK, ToSet, PageRecord
<1>2. p.out \in Seq(IDs) /\ Len(p.out) \in Nat /\ DOMAIN p.out = 1 .. Len(p.out) /\ k \in DOMAIN p.out
  BY DEF PageRecord
<1>3. /\ shown \in Seq(IDs) /\ DOMAIN shown = 1 .. k /\ k \in Nat
      /\ \A i \in 1 .. k : shown[i] = p.out[i] /\ i \in DOMAIN p.out
  BY <1>2
<1>4. \A i \in DOMAIN p.out : p.out[i] \in Nat \ {0} /\ p.out[i] \in ToSet(p.out)
  BY <1>2, SessionsAssumption DEF ToSet
<1>5. cursor \in Nat /\ cursor # 0 /\ p.after < cursor
  BY <1>1, <1>2, <1>4 DEF LoadingOK
<1> HIDE DEF shown, cursor
<1>6. Increasing(shown)
  BY <1>1, <1>3 DEF LoadingOK, Increasing
<1>7. ASSUME NEW id \in ToSet(shown)
      PROVE  p.after < id /\ id <= cursor
  <2>1. PICK i \in 1 .. k : shown[i] = id
    BY <1>3, <1>7 DEF ToSet
  <2>2. id = p.out[i] /\ i \in DOMAIN p.out /\ id \in Nat
    BY <1>3, <1>4, <2>1
  <2>3. i = k \/ i < k
    BY <1>3
  <2>4. CASE i = k
    BY <1>5, <2>2, <2>4 DEF cursor
  <2>5. CASE i < k
    <3>1. p.out[i] < p.out[k]
      BY <1>1, <1>2, <2>2, <2>5 DEF LoadingOK, Increasing
    <3>2. p.after < id
      BY <1>1, <1>4, <2>2 DEF LoadingOK
    <3> QED BY <1>5, <2>2, <3>1, <3>2 DEF cursor
  <2> QED BY <2>3, <2>4, <2>5
<1>8. ASSUME NEW id \in live, p.after < id, id <= cursor
      PROVE  id \in ToSet(shown)
  <2>0. id \in Nat
    BY SessionsAssumption
  <2>1. p.next # 0 => id <= p.next
    <3>1. p.next # 0 => cursor <= p.next
      BY <1>1, <1>2, <1>4 DEF LoadingOK, cursor
    <3> QED BY <1>1, <1>5, <1>8, <2>0, <3>1
  <2>2. id \in ToSet(p.out)
    BY <1>1, <1>8, <2>1 DEF LoadingOK
  <2>3. PICK i \in DOMAIN p.out : p.out[i] = id
    BY <2>2 DEF ToSet
  <2>4. CASE k < i
    <3>1. cursor < id
      BY <1>1, <1>2, <2>3, <2>4 DEF LoadingOK, Increasing, cursor
    <3> QED BY <1>5, <1>8, <2>0, <3>1
  <2>5. CASE ~ (k < i)
    <3>1. i \in 1 .. k
      BY <1>2, <1>3, <2>3, <2>5
    <3>2. i \in DOMAIN shown /\ shown[i] = id
      BY <1>3, <2>3, <3>1
    <3> QED BY <3>2 DEF ToSet
  <2> QED BY <2>4, <2>5
<1>9. ListOK(PagedTo(p, cursor, shown), live, "releasing")
  BY <1>3, <1>5, <1>6, <1>7, <1>8, ListShows
<1> QED BY <1>9 DEF cursor, shown

\* An error ends a listing that is not complete.
LEMMA ListFails ==
  ASSUME NEW p \in PageRecord, NEW live, NEW where \in {"working", "loading"}, ListOK(p, live, where)
  PROVE  ListOK([p EXCEPT !.more = FALSE], live, "releasing")
<1> DEFINE q == [p EXCEPT !.more = FALSE]
<1>1. q.got = p.got /\ q.after = p.after /\ q.ok = p.ok /\ q.snap = p.snap
  BY DEF PageRecord
<1>2. ~ p.ok
  BY DEF ListOK
<1> HIDE DEF q
<1>3. ListOK(q, live, "releasing")
  BY <1>1, <1>2 DEF ListOK
<1> QED BY <1>3 DEF q

\* Whatever happens, listings stay sound.
LEMMA ListStep ==
  ASSUME HTypeOK, PageInv, [HNext]_hvars, NEW d \in Clients, job[d].kind = "list"
  PROVE  ListOK(page'[d], alive'[d], handler'[d])
<1>0. /\ page \in [Clients -> PageRecord] /\ page[d] \in PageRecord
      /\ alive \in [Clients -> SUBSET IDs] /\ alive[d] \in SUBSET IDs
      /\ handler \in [Clients -> HandlerStages]
      /\ ListOK(page[d], alive[d], handler[d])
      /\ AliveExist
  BY DEF PageInv, PageTypeOK, HTypeOK
<1>1. CASE Elsewhere(d)
  BY <1>0, <1>1, ListShrinks DEF Elsewhere, Onward
<1>2. CASE ListIDs(d)
  <2>1. /\ handler[d] = "working" /\ handler'[d] = "loading"
        /\ alive' = [alive EXCEPT ![d] = IF page[d].snap = -1 THEN Legible ELSE @]
    BY <1>0, <1>2 DEF ListIDs, At, Legible
  <2>2. alive'[d] = IF page[d].snap = -1 THEN Legible ELSE alive[d]
    BY <1>0, <2>1
  <2>3. alive'[d] \in SUBSET Present /\ (page[d].snap = -1 \/ alive'[d] = alive[d])
    BY <1>0, <2>2 DEF AliveExist, Legible, Present, Readable
  <2>9. alive'[d] \cap Unreadable = {}
    BY <1>0, <2>2 DEF ListOK, Legible, Readable
  <2>4. page[d].after \in Nat
    BY <1>0 DEF PageRecord
  <2>5. PageSound(ListIDsPage(page[d].after), page[d].after)
    BY <1>0, <2>4, PagesAreSound DEF AliveExist
  <2>6. page'[d] = Listed(page[d], ListIDsPage(page[d].after))
    BY <1>0, <1>2, ListsOne
  <2>7. ListOK(page[d], alive[d], "working")
    BY <1>0, <2>1
  <2>8. ListOK(Listed(page[d], ListIDsPage(page[d].after)), alive'[d], "loading")
    BY <1>0, <2>3, <2>5, <2>7, <2>9, ListStarts
  <2> QED BY <2>1, <2>6, <2>8
<1>3. CASE LoadSummary(d)
  <2>1. /\ handler[d] = "loading" /\ handler'[d] = handler[d] /\ alive' = alive
        /\ page[d].todo # <<>>
    BY <1>3 DEF LoadSummary, Store
  <2>2. page'[d] = Loaded(page[d], Readable(Head(page[d].todo)))
    BY <1>0, <1>3, LoadsOne
  <2>3. Head(page[d].todo) \in alive[d] => Readable(Head(page[d].todo))
    BY <1>0 DEF AliveExist, Present, ListOK, Readable
  <2>4. Readable(Head(page[d].todo)) \in BOOLEAN
    BY DEF Readable, Exists
  <2>5. ListOK(page[d], alive[d], "loading")
    BY <1>0, <2>1
  <2>6. ListOK(Loaded(page[d], Readable(Head(page[d].todo))), alive[d], "loading")
    BY <1>0, <2>1, <2>3, <2>4, <2>5, ListLoads
  <2> QED BY <2>1, <2>2, <2>6
<1>4. CASE EncodeList(d)
  <2>1. /\ handler[d] = "loading" /\ handler'[d] = "releasing" /\ alive' = alive
        /\ page[d].todo = <<>>
    BY <1>0, <1>4 DEF EncodeList, Store, At
  <2>2. ListOK(page[d], alive[d], "loading")
    BY <1>0, <2>1
  <2>3. CASE PageTo(d, page[d].next, page[d].out)
    <3>1. page'[d] = PagedTo(page[d], page[d].next, page[d].out)
      BY <1>0, <2>3, PageToOne
    <3> QED BY <1>0, <2>1, <2>2, <3>1, ListEncodesAll
  <2>4. ASSUME NEW k \in 1 .. Len(page[d].out) - 1,
               PageTo(d, page[d].out[k], SubSeq(page[d].out, 1, k))
        PROVE  ListOK(page'[d], alive'[d], handler'[d])
    <3>1. page'[d] = PagedTo(page[d], page[d].out[k], SubSeq(page[d].out, 1, k))
      BY <1>0, <2>4, PageToOne
    <3> QED BY <1>0, <2>1, <2>2, <3>1, ListEncodesSome
  <2> QED BY <1>4, <2>3, <2>4, EncodesOne
<1>5. CASE PageFails(d)
  <2>1. /\ handler[d] \in {"working", "loading"} /\ handler'[d] = "releasing" /\ alive' = alive
        /\ page'[d] = [page[d] EXCEPT !.more = FALSE]
    BY <1>0, <1>5 DEF PageFails, Store, At
  <2> QED BY <1>0, <2>1, ListFails
<1>6. CASE GetPage(d) \/ CreateOrFork(d)
  BY <1>6 DEF GetPage, CreateOrFork
<1>7. Elsewhere(d) \/ PageMove(d)
  BY PageFrame DEF PageInv
<1> QED BY <1>1, <1>2, <1>3, <1>4, <1>5, <1>6, <1>7 DEF PageMove

--------------------------------------------------------------------------------
(***************************************************************************)
(* Pages of a transcript.                                                  *)
(***************************************************************************)

\* A piece of a transcript in front of the next piece of it.
LEMMA PiecesJoin ==
  ASSUME NEW s \in Seq(Clients), NEW t \in Seq(Clients), NEW a \in Nat, NEW b \in Nat, NEW n \in Nat,
         a <= b, b <= n, n <= Len(s), n <= Len(t), \A i \in 1 .. n : s[i] = t[i]
  PROVE  SubSeq(s, a + 1, b) \o SubSeq(t, b + 1, n) = SubSeq(t, a + 1, n)
<1> DEFINE front == SubSeq(s, a + 1, b)
           back == SubSeq(t, b + 1, n)
           all == SubSeq(t, a + 1, n)
<1>1. /\ front \in Seq(Clients) /\ Len(front) = b - a
      /\ \A i \in 1 .. b - a : front[i] = s[a + i]
  OBVIOUS
<1>2. /\ back \in Seq(Clients) /\ Len(back) = n - b
      /\ \A i \in 1 .. n - b : back[i] = t[b + i]
  OBVIOUS
<1>3. /\ all \in Seq(Clients) /\ Len(all) = n - a
      /\ \A i \in 1 .. n - a : all[i] = t[a + i]
  OBVIOUS
<1> HIDE DEF front, back, all
<1>4. /\ front \o back \in Seq(Clients) /\ Len(front \o back) = n - a
      /\ \A i \in 1 .. n - a : (front \o back)[i] = IF i <= b - a THEN front[i] ELSE back[i - (b - a)]
  <2>1. /\ front \o back \in Seq(Clients) /\ Len(front \o back) = Len(front) + Len(back)
        /\ \A i \in 1 .. Len(front) + Len(back) :
             (front \o back)[i] = IF i <= Len(front) THEN front[i] ELSE back[i - Len(front)]
    <3>1. front \in Seq(Clients) /\ back \in Seq(Clients)
      BY <1>1, <1>2
    <3> QED BY <3>1, ConcatProperties
  <2>2. Len(front) + Len(back) = n - a
    BY <1>1, <1>2
  <2> QED BY <1>1, <2>1, <2>2
<1>5. ASSUME NEW i \in 1 .. n - a
      PROVE  (front \o back)[i] = all[i]
  <2>1. CASE i <= b - a
    <3>1. i \in 1 .. b - a /\ a + i \in 1 .. n
      BY <2>1
    <3> QED BY <1>1, <1>3, <1>4, <2>1, <3>1
  <2>2. CASE ~ (i <= b - a)
    <3>1. i - (b - a) \in 1 .. n - b /\ b + (i - (b - a)) = a + i
      BY <2>2
    <3>2. back[i - (b - a)] = t[a + i]
      BY <1>2, <3>1
    <3> QED BY <1>3, <1>4, <2>2, <3>2
  <2> QED BY <2>1, <2>2
<1>6. front \o back = all
  BY <1>3, <1>4, <1>5, SeqEqual
<1> QED BY <1>6 DEF front, back, all

\* The transcript a paging client reads keeps its beginning while the session is there.
LEMMA TranscriptStays ==
  ASSUME HTypeOK, TurnInv, PageTypeOK, AliveExist, [HNext]_hvars, NEW d \in Clients, NEW id \in alive[d],
         id \in alive'[d], NEW n \in Nat, n <= Len(saved[id].msgs)
  PROVE  n <= Len(saved'[id].msgs) /\ \A i \in 1 .. n : saved'[id].msgs[i] = saved[id].msgs[i]
<1>0. /\ saved \in [IDs -> Record \cup {Absent}] /\ id \in IDs /\ Exists(id)
      /\ alive \in [Clients -> SUBSET IDs]
  BY DEF HTypeOK, PageTypeOK, AliveExist, Present
<1>1. saved[id] \in Record /\ Len(saved[id].msgs) \in Nat
  BY <1>0 DEF Exists, Record
<1>2. CASE UNCHANGED saved
  BY <1>2
<1>3. ASSUME NEW other \in IDs, Grows(other)
      PROVE  n <= Len(saved'[id].msgs) /\ \A i \in 1 .. n : saved'[id].msgs[i] = saved[id].msgs[i]
  <2>1. PICK record \in Record :
             /\ saved' = [saved EXCEPT ![other] = record]
             /\ Exists(other) => /\ Len(saved[other].msgs) <= Len(record.msgs)
                                 /\ \A i \in 1 .. Len(saved[other].msgs) :
                                      record.msgs[i] = saved[other].msgs[i]
    BY <1>3 DEF Grows, Write
  <2>2. CASE other # id
    BY <1>0, <2>1, <2>2
  <2>3. CASE other = id
    <3>1. saved'[id] = record /\ Len(record.msgs) \in Nat
      BY <1>0, <2>1, <2>3 DEF Record
    <3>2. /\ Len(saved[id].msgs) <= Len(record.msgs)
          /\ \A i \in 1 .. Len(saved[id].msgs) : record.msgs[i] = saved[id].msgs[i]
      BY <1>0, <2>1, <2>3
    <3>3. n <= Len(record.msgs) /\ \A i \in 1 .. n : i \in 1 .. Len(saved[id].msgs)
      BY <1>1, <3>1, <3>2
    <3> QED BY <3>1, <3>2, <3>3
  <2> QED BY <2>2, <2>3
<1>4. ASSUME NEW other \in IDs, DeleteSession(other), Gone(other)
      PROVE  n <= Len(saved'[id].msgs) /\ \A i \in 1 .. n : saved'[id].msgs[i] = saved[id].msgs[i]
  <2>1. saved' = [saved EXCEPT ![other] = Absent]
    BY <1>4 DEF DeleteSession, Delete, Write
  <2>2. alive'[d] = alive[d] \ {other}
    BY <1>4 DEF Gone
  <2>3. other # id
    BY <2>2
  <2> QED BY <1>0, <2>1, <2>3
<1> QED BY <1>2, <1>3, <1>4, WriteFrame

\* Whatever happens, the pages of a transcript stay sound.
LEMMA DetailStep ==
  ASSUME HTypeOK, TurnInv, PageInv, [HNext]_hvars, NEW d \in Clients, job[d].kind = "detail"
  PROVE  DetailOK(page[d], alive[d], first[d])'
<1> DEFINE p == page[d]
<1>0. /\ page \in [Clients -> PageRecord] /\ page[d] \in PageRecord
      /\ alive \in [Clients -> SUBSET IDs] /\ alive[d] \in SUBSET IDs
      /\ first \in [Clients -> Seq(Clients)] /\ first[d] \in Seq(Clients)
      /\ handler \in [Clients -> HandlerStages]
      /\ DetailOK(page[d], alive[d], first[d])
      /\ AliveExist /\ PageTypeOK
  BY DEF PageInv, PageTypeOK, HTypeOK
<1>1. CASE Elsewhere(d)
  <2>1. page'[d] = page[d] /\ alive'[d] \subseteq alive[d] /\ first'[d] = first[d]
    BY <1>1 DEF Elsewhere
  <2>2. ASSUME page[d].id \in alive'[d]
        PROVE  /\ page[d].snap <= Len(saved'[page[d].id].msgs)
               /\ \A i \in 1 .. page[d].snap : saved'[page[d].id].msgs[i] = first[d][i]
    <3>1. page[d].id \in alive[d]
      BY <2>1, <2>2
    <3>2. /\ page[d].snap = Len(first[d]) /\ page[d].snap <= Len(saved[page[d].id].msgs)
          /\ \A i \in 1 .. page[d].snap : saved[page[d].id].msgs[i] = first[d][i]
      BY <1>0, <3>1 DEF DetailOK
    <3>3. page[d].snap \in Nat
      BY <1>0, <3>2
    <3>4. /\ page[d].snap <= Len(saved'[page[d].id].msgs)
          /\ \A i \in 1 .. page[d].snap : saved'[page[d].id].msgs[i] = saved[page[d].id].msgs[i]
      BY <1>0, <2>2, <3>1, <3>2, <3>3, TranscriptStays
    <3> QED BY <3>2, <3>4
  <2> QED BY <1>0, <2>1, <2>2 DEF DetailOK
<1>2. CASE PageFails(d)
  <2>1. /\ alive' = alive /\ first' = first /\ saved' = saved
        /\ page'[d] = [page[d] EXCEPT !.more = FALSE]
    BY <1>0, <1>2 DEF PageFails, Store, svars
  <2>2. /\ page'[d].got = page[d].got /\ page'[d].after = page[d].after /\ page'[d].snap = page[d].snap
        /\ page'[d].id = page[d].id
    BY <1>0, <2>1 DEF PageRecord
  <2> QED BY <1>0, <2>1, <2>2 DEF DetailOK
<1>3. CASE GetPage(d)
  <2>1. PICK id, start, snap, before : GetsPage(d, id, start, snap, before)
    BY <1>3, PageGot
  <2>2. page[d].snap = -1 \/ page[d].id \in IDs
    BY <1>0 DEF DetailOK
  <2>3. /\ id \in IDs /\ saved[id].msgs \in Seq(Clients) /\ snap \in Nat /\ before \in Nat
        /\ start \in Nat /\ start <= before /\ before <= Len(saved[id].msgs) /\ before <= snap
    BY <1>0, <2>1, <2>2, GotTypes
  <2> DEFINE msgs == saved[id].msgs
             shown == SubSeq(msgs, start + 1, before)
  <2>4. page'[d] = GotPage(page[d], id, snap, start, shown)
    BY <1>0, <2>1, GetsOne
  <2>5. /\ page'[d].id = id /\ page'[d].snap = snap /\ page'[d].after = start
        /\ page'[d].got = shown \o page[d].got
    BY <1>0, <2>4 DEF GotPage, PageRecord
  <2>6. saved' = saved
    BY <2>1 DEF GetsPage
  <2> HIDE DEF shown
  <2>7. CASE page[d].snap = -1
    <3>1. snap = Len(msgs) /\ before = Len(msgs) /\ page[d].got = <<>>
      BY <1>0, <2>1, <2>7 DEF GetsPage, DetailOK
    <3>2. alive'[d] = {id} /\ first'[d] = msgs
      BY <1>0, <2>1, <2>7 DEF GetsPage
    <3>3. shown \in Seq(Clients)
      BY <2>3 DEF shown
    <3>4. shown \o <<>> = shown
      BY <3>3
    <3>5. page'[d].got = SubSeq(msgs, start + 1, snap)
      BY <2>5, <3>1, <3>4 DEF shown
    <3> QED BY <2>3, <2>5, <2>6, <3>1, <3>2, <3>5 DEF DetailOK
  <2>8. CASE page[d].snap # -1
    <3>1. id = page[d].id /\ snap = page[d].snap /\ before = page[d].after
      BY <2>1, <2>8 DEF GetsPage
    <3>2. alive'[d] = alive[d] /\ first'[d] = first[d]
      BY <1>0, <2>1, <2>8 DEF GetsPage
    <3>3. ASSUME id \in alive[d]
          PROVE  /\ snap = Len(first[d]) /\ snap <= Len(msgs) /\ \A i \in 1 .. snap : msgs[i] = first[d][i]
                 /\ page[d].got = SubSeq(first[d], before + 1, snap)
      BY <1>0, <3>1, <3>3 DEF DetailOK
    <3>4. ASSUME id \in alive[d]
          PROVE  shown \o page[d].got = SubSeq(first[d], start + 1, snap)
      <4>1. /\ snap <= Len(first[d]) /\ snap <= Len(msgs) /\ before <= snap /\ start <= before
            /\ \A i \in 1 .. snap : msgs[i] = first[d][i]
        BY <1>0, <2>3, <3>3, <3>4
      <4> DEFINE whole == first[d]
      <4>2. msgs \in Seq(Clients) /\ whole \in Seq(Clients)
        BY <1>0, <2>3
      <4>3. /\ snap <= Len(whole) /\ snap <= Len(msgs) /\ before <= snap /\ start <= before
            /\ \A i \in 1 .. snap : msgs[i] = whole[i]
        BY <4>1
      <4> HIDE DEF msgs, whole
      <4>4. start \in Nat /\ before \in Nat /\ snap \in Nat
        BY <2>3
      <4>5. SubSeq(msgs, start + 1, before) \o SubSeq(whole, before + 1, snap)
              = SubSeq(whole, start + 1, snap)
        BY <4>2, <4>3, <4>4, PiecesJoin
      <4>6. page[d].got = SubSeq(whole, before + 1, snap)
        BY <3>3, <3>4 DEF whole
      <4> QED BY <4>5, <4>6 DEF shown, whole
    <3>5. start <= snap
      BY <2>3
    <3> QED BY <2>3, <2>5, <2>6, <2>8, <3>1, <3>2, <3>3, <3>4, <3>5 DEF DetailOK
  <2> QED BY <2>7, <2>8
<1>4. CASE ListIDs(d) \/ LoadSummary(d) \/ EncodeList(d) \/ CreateOrFork(d)
  <2>1. CASE ListIDs(d) \/ CreateOrFork(d)
    BY <2>1 DEF ListIDs, CreateOrFork
  <2>2. CASE LoadSummary(d) \/ EncodeList(d)
    BY <2>2 DEF LoadSummary, EncodeList, PageInv
  <2> QED BY <1>4, <2>1, <2>2
<1>5. Elsewhere(d) \/ PageMove(d)
  BY <1>0, PageFrame
<1> QED BY <1>1, <1>2, <1>3, <1>4, <1>5 DEF PageMove

\* Only a listing loads.
LEMMA LoadersList ==
  ASSUME HTypeOK, PageInv, [HNext]_hvars, NEW d \in Clients, handler'[d] = "loading"
  PROVE  job[d].kind = "list"
<1>0. handler \in [Clients -> HandlerStages] /\ PageTypeOK
  BY DEF HTypeOK, PageInv
<1>1. CASE Elsewhere(d)
  BY <1>1 DEF Elsewhere, Onward, PageInv
<1>2. CASE ListIDs(d)
  BY <1>2 DEF ListIDs
<1>3. CASE LoadSummary(d)
  BY <1>3 DEF LoadSummary, PageInv
<1>4. CASE EncodeList(d) \/ GetPage(d) \/ PageFails(d)
  <2>1. handler'[d] = "releasing"
    BY <1>0, <1>4 DEF EncodeList, GetPage, PageFails, At
  <2> QED BY <2>1
<1>5. CASE CreateOrFork(d)
  <2>1. handler'[d] = "releasing" \/ handler'[d] = "working"
    BY <1>0, <1>5 DEF CreateOrFork, At
  <2> QED BY <2>1
<1> QED BY <1>0, <1>1, <1>2, <1>3, <1>4, <1>5, PageFrame DEF PageMove

\* Nobody has read a page yet, and what a server finds is finite.
LEMMA PageInvInit ==
  ASSUME HInit
  PROVE  PageInv
<1>0. PICK s \in Scenarios : job = s.job /\ saved = s.saved
  BY DEF HInit
<1>1. IsFiniteSet({id \in IDs : s.saved[id] # Absent})
  BY StoredAssumption, Zenon
<1>2. Present = {id \in IDs : s.saved[id] # Absent}
  BY <1>0 DEF Present, Exists
<1>3. IsFiniteSet(Present)
  BY <1>1, <1>2
<1>4. /\ page = [c \in Clients |-> NoPage] /\ alive = [c \in Clients |-> {}]
      /\ first = [c \in Clients |-> <<>>] /\ handler = [c \in Clients |-> "new"]
  BY DEF HInit
<1>5. NoPage \in PageRecord /\ <<>> \in Seq(Clients)
  BY EmptySeq DEF NoPage, PageRecord
<1>6. PageTypeOK /\ AliveExist
  BY <1>3, <1>4, <1>5 DEF PageTypeOK, AliveExist
<1>7. ListOK(NoPage, {}, "new")
  <2>1. /\ NoPage.got = <<>> /\ NoPage.after = 0 /\ NoPage.snap = -1 /\ NoPage.ok = FALSE
    BY DEF NoPage
  <2>2. <<>> \in Seq(IDs) /\ Increasing(<<>>) /\ ToSet(<<>>) = {}
    BY EmptySeq DEF Increasing, ToSet
  <2> QED BY <2>1, <2>2 DEF ListOK
<1>8. DetailOK(NoPage, {}, <<>>)
  BY DEF DetailOK, NoPage
<1>9. ASSUME NEW c \in Clients
      PROVE  ListOK(page[c], alive[c], handler[c]) /\ DetailOK(page[c], alive[c], first[c])
             /\ handler[c] # "loading"
  <2>1. page[c] = NoPage /\ alive[c] = {} /\ first[c] = <<>> /\ handler[c] = "new"
    BY <1>4
  <2> QED BY <1>7, <1>8, <2>1
<1> QED BY <1>6, <1>9 DEF PageInv

\* Whatever clients page through, and whatever is created, written and deleted
\* meanwhile, the invariant of the pages holds.
THEOREM PageInvariant == HSpec => []PageInv
<1>1. HInv /\ PageInv /\ [HNext]_hvars => PageInv'
  <2> SUFFICES ASSUME HInv, PageInv, [HNext]_hvars
               PROVE  PageInv'
    OBVIOUS
  <2>1. HTypeOK /\ TurnInv /\ PageTypeOK /\ AliveExist
    BY DEF HInv, PageInv
  <2>2. PageTypeOK' /\ AliveExist' /\ job' = job
    BY <2>1, PageTypeStep, AliveExistStep, JobFixed
  <2>3. ASSUME NEW c \in Clients, job'[c].kind = "list"
        PROVE  ListOK(page[c], alive[c], handler[c])'
    <3>1. ListOK(page'[c], alive'[c], handler'[c])
      BY <2>1, <2>2, <2>3, ListStep
    <3> QED BY <3>1 DEF ListOK, LoadingOK
  <2>4. ASSUME NEW c \in Clients, job'[c].kind = "detail"
        PROVE  DetailOK(page[c], alive[c], first[c])'
    BY <2>1, <2>2, <2>4, DetailStep
  <2>5. ASSUME NEW c \in Clients, handler'[c] = "loading"
        PROVE  job'[c].kind = "list"
    BY <2>1, <2>2, <2>5, LoadersList
  <2> QED BY <2>2, <2>3, <2>4, <2>5 DEF PageInv
<1> QED BY <1>1, PageInvInit, HttpInvariant, PTL DEF HSpec

\* ListIDsPage, EncodeList and buildDetail: a listing that is read to its end shows every
\* readable session that was there all the time, in order and once; the pages of a transcript
\* are the end of the transcript as it was at the first page.
THEOREM PagesAreComplete == HSpec => []PagesComplete
<1>1. PageInv => PagesComplete
  <2> SUFFICES ASSUME PageInv, NEW c \in Clients
               PROVE  /\ job[c].kind = "list" =>
                           /\ \A i, j \in DOMAIN page[c].got : i < j => (page[c].got[i] < page[c].got[j])
                           /\ page[c].ok => (alive[c] \subseteq ToSet(page[c].got))
                      /\ job[c].kind = "detail" /\ page[c].id \in alive[c]
                           => page[c].got = SubSeq(first[c], page[c].after + 1, page[c].snap)
    BY DEF PagesComplete
  <2>1. ASSUME job[c].kind = "list"
        PROVE  Increasing(page[c].got) /\ (page[c].ok => (alive[c] \subseteq ToSet(page[c].got)))
    BY <2>1 DEF PageInv, ListOK
  <2>2. ASSUME job[c].kind = "detail", page[c].id \in alive[c]
        PROVE  page[c].got = SubSeq(first[c], page[c].after + 1, page[c].snap)
    BY <2>2 DEF PageInv, DetailOK
  <2> QED BY <2>1, <2>2 DEF Increasing
<1> QED BY <1>1, PageInvariant, PTL
================================================================================
