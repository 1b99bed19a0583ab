--------------------------------- MODULE HttpApi --------------------------------
(***************************************************************************)
(* The HTTP surface (internal/httpapi): admission, streamed runs over      *)
(* module Turn, and the session endpoints over module Sessions.            *)
(*                                                                         *)
(* A run has two goroutines: the handler, which writes frames, and the     *)
(* pump, which reads the Turn and hands items over a channel of one.  The  *)
(* client may go away at any time.  Other clients list sessions and page   *)
(* through transcripts, one request per page, while sessions come, grow    *)
(* and go.  Cursors are opaque to clients: here, what they decode to.      *)
(***************************************************************************)
EXTENDS Turn, SequencesExt

CONSTANTS
  Scenarios,     \* what clients do, and the store the server finds
  MaxRequests,   \* capacity of requestPermits
  MaxRuns,       \* capacity of runPermits
  MaxEncodes,    \* capacity of encodePermits
  PageLimit,     \* the limit of a page
  Unreadable,    \* IDs whose record, if there is one, is corrupt or too large
  Attempts       \* IDs that are tried for a new session (4 in the code)

Kinds == {"none", "run", "send", "list", "detail", "create", "fork", "patch", "delete"}

ASSUME HttpAssumption ==
  /\ \A s \in Scenarios : /\ s.job \in [Clients -> [kind : Kinds, ids : SUBSET IDs]]
                           /\ s.saved \in [IDs -> Record \cup {Absent}]
  /\ \A s \in Scenarios, c \in Clients : s.job[c].kind \in {"run", "send"} => c \in Turns
  /\ {MaxRequests, MaxRuns, MaxEncodes, PageLimit, Attempts} \subseteq Nat \ {0}
  /\ Unreadable \subseteq IDs

\* Only a listing meets a record that cannot be read: no other client names one.
ASSUME UnreadableAssumption ==
  \A s \in Scenarios, c \in Clients :
    s.job[c].kind # "list" => s.job[c].ids \cap Unreadable = {}

\* A directory has finitely many files, a map finitely many entries.
ASSUME StoredAssumption ==
  \A s \in Scenarios : IsFiniteSet({id \in IDs : s.saved[id] # Absent})

VARIABLES
  job,       \* what each client does, and the IDs it may name
  handler,   \* where the handler of each client's request stands
  pump,      \* where the pump of each run stands
  chan,      \* the item channel of each run
  permits,   \* permits in use: request, run and encode
  seen,      \* the frames of a run its client got
  page,      \* a paging client's progress; a writing client's attempts
  alive,     \* history: the sessions that exist since paging began
  first      \* history: the transcript a paging client's snapshot is of

httpVars == <<handler, pump, chan, permits, seen, page, alive, first>>
hvars == <<svars, turnVars, job, httpVars>>

Runs == {c \in Clients : job[c].kind = "run"}

At(c, where) == handler' = [handler EXCEPT ![c] = where]
PumpAt(t, where) == pump' = [pump EXCEPT ![t] = where]

Store == UNCHANGED <<turnVars, svars, job, alive, first>>

--------------------------------------------------------------------------------
(***************************************************************************)
(* Admission.                                                              *)
(***************************************************************************)

Full(p) == permits[p] >= CASE p = "request" -> MaxRequests [] p = "run" -> MaxRuns
                           [] p = "encode" -> MaxEncodes

Take(p) == permits' = [permits EXCEPT ![p] = @ + 1]
Release(p) == permits' = [permits EXCEPT ![p] = @ - 1]

\* A request arrives; requestAdmissionMW refuses it when the server is busy.
Admit(c) ==
  /\ handler[c] = "new"
  /\ job[c].kind \notin {"none", "send"}
  /\ IF Full("request") THEN At(c, "over") /\ UNCHANGED permits
     ELSE At(c, "admitted") /\ Take("request")
  /\ Store /\ UNCHANGED <<pump, chan, seen, page>>

\* The permit an endpoint needs besides; a deletion needs none.
Needs(c) == IF job[c].kind = "run" THEN "run" ELSE "encode"

\* The endpoint: a request it refuses (query, headers, body, fields, ID), and
\* the second permit.  A run takes its permit before it reads the body.
Enter(c) ==
  /\ handler[c] = "admitted"
  /\ \/ /\ job[c].kind = "delete"
        /\ At(c, "working")
        /\ UNCHANGED permits
     \/ /\ job[c].kind # "delete"
        /\ ~ Full(Needs(c))
        /\ At(c, "working")
        /\ Take(Needs(c))
     \/ At(c, "leaving") /\ UNCHANGED permits
  /\ Store /\ UNCHANGED <<pump, chan, seen, page>>

\* The deferred cancel of a run and release of the second permit, then the release
\* of the request's.
ReleaseSecond(c) ==
  /\ handler[c] = "releasing"
  /\ IF job[c].kind = "run" THEN Cancel(c) ELSE UNCHANGED ctx
  /\ IF job[c].kind = "delete" THEN UNCHANGED permits ELSE Release(Needs(c))
  /\ At(c, "leaving")
  /\ UNCHANGED <<svars, tx, inner, next, commit, applied, reborn>>
  /\ UNCHANGED <<job, pump, chan, seen, page, alive, first>>

Leave(c) ==
  /\ handler[c] = "leaving"
  /\ Release("request")
  /\ At(c, IF page[c].more THEN "new" ELSE "over")
  /\ Store /\ UNCHANGED <<pump, chan, seen, page>>

--------------------------------------------------------------------------------
(***************************************************************************)
(* handleRun and pumpTurn.                                                 *)
(***************************************************************************)

\* Body, session ID and prompt are checked, then the turn starts.
RefuseRun(t) ==
  /\ handler[t] = "working"
  /\ job[t].kind = "run"
  /\ At(t, "releasing")
  /\ BeginFails(t)
  /\ UNCHANGED <<job, pump, chan, permits, seen, page, alive, first>>

StartRun(t) ==
  /\ handler[t] = "working"
  /\ job[t].kind = "run"
  /\ \E id \in job[t].ids : Begin(t, id, TRUE)
  /\ At(t, "serving")
  /\ PumpAt(t, "next")
  /\ UNCHANGED <<job, chan, permits, seen, page, alive, first>>

\* The client goes away: the request's context ends, and with it runCtx.
Disconnect(t) ==
  /\ job[t].kind = "run"
  /\ handler[t] \in {"working", "serving"}
  /\ ~ ctx[t]
  /\ Cancel(t)
  /\ UNCHANGED <<svars, tx, inner, next, commit, applied, reborn, job, httpVars>>

\* select: the context is done.
ServeDone(t) ==
  /\ handler[t] = "serving"
  /\ ctx[t]
  /\ At(t, "closing")
  /\ Store /\ UNCHANGED <<pump, chan, permits, seen, page>>

\* A heartbeat cannot be written.
ServeBroken(t) ==
  /\ handler[t] = "serving"
  /\ Cancel(t)
  /\ At(t, "closing")
  /\ UNCHANGED <<svars, tx, inner, next, commit, applied, reborn>>
  /\ UNCHANGED <<job, pump, chan, permits, seen, page, alive, first>>

\* An event: mapEvent drops it, its frame is written, or the write fails and
\* the run is cancelled, also when the frame is too large, which the client is
\* told (if that can be written).  The frame of run_end is never too large.
ServeEvent(t) ==
  /\ handler[t] = "serving"
  /\ chan[t] # <<>>
  /\ Head(chan[t]).what = "event"
  /\ chan' = [chan EXCEPT ![t] = Tail(@)]
  /\ \/ seen' = [seen EXCEPT ![t] = @ \cup ({Head(chan[t]).event} \cap {"run_end"})]
        /\ UNCHANGED <<handler, ctx>>
     \/ /\ At(t, "closing") /\ Cancel(t)
        /\ \/ UNCHANGED seen
           \/ /\ Head(chan[t]).event # "run_end"
              /\ seen' = [seen EXCEPT ![t] = @ \cup {"frame_too_large"}]
  /\ UNCHANGED <<svars, tx, inner, next, commit, applied, reborn>>
  /\ UNCHANGED <<job, pump, permits, page, alive, first>>

\* safeRunError, and the frames it makes.
RunErrors == {"session_conflict", "cancelled", "run_failed"}

ErrorFrame(err) == CASE err = "canceled" -> "cancelled" [] err = "conflict" -> "session_conflict"
                     [] OTHER -> "run_failed"

\* The frame for the pump's last item, which may fail to be written.
LastFrame(item) ==
  IF item.err # "none" THEN {ErrorFrame(item.err)} ELSE IF item.session THEN {"done"} ELSE {}

ServeLast(t) ==
  /\ handler[t] = "serving"
  /\ chan[t] # <<>>
  /\ Head(chan[t]).what = "last"
  /\ chan' = [chan EXCEPT ![t] = Tail(@)]
  /\ \E frames \in {{}, LastFrame(Head(chan[t]))} : seen' = [seen EXCEPT ![t] = @ \cup frames]
  /\ At(t, "closing")
  /\ Store /\ UNCHANGED <<pump, permits, page>>

\* Mutant: the run permit is given back before the turn is closed.
CloseTurnLate(t) ==
  /\ handler[t] = "closing"
  /\ At(t, "releasing")
  /\ Store /\ UNCHANGED <<pump, chan, permits, seen, page>>

\* The deferred turn.Close().
CloseTurn(t) ==
  /\ handler[t] = "closing"
  /\ InnerClose(t)
  /\ At(t, "releasing")
  /\ UNCHANGED <<svars, tx, ctx, next, commit, applied, reborn>>
  /\ UNCHANGED <<job, pump, chan, permits, seen, page, alive, first>>

\* The pump calls Turn.Next.
PumpNext(t) ==
  /\ pump[t] = "next"
  /\ CallNext(t)
  /\ PumpAt(t, "inside")
  /\ UNCHANGED <<job, handler, chan, permits, seen, page, alive, first>>

\* Next has returned: the item that is sent next.
Item(t) ==
  CASE next[t] = "event" -> [what |-> "event", event |-> "progress"]
    [] next[t] = "ended" -> [what |-> "event", event |-> "run_end"]
    [] OTHER -> [what |-> "last", err |-> TurnErr(t), stop |-> inner[t].stop,
                 session |-> commit[t].session]

PumpSend(t) ==
  /\ pump[t] = "inside"
  /\ next[t] \in {"event", "ended", "over"}
  /\ chan[t] = <<>>
  /\ chan' = [chan EXCEPT ![t] = <<Item(t)>>]
  /\ PumpAt(t, IF next[t] = "over" THEN "over" ELSE "next")
  /\ next' = [next EXCEPT ![t] = IF @ = "event" THEN "idle" ELSE @]
  /\ UNCHANGED <<svars, tx, ctx, inner, commit, applied, reborn>>
  /\ UNCHANGED <<job, handler, permits, seen, page, alive, first>>

\* Mutant: the pump waits for the channel alone.
PumpStuck(t) == FALSE /\ UNCHANGED hvars

\* Nobody will read the channel any more.
PumpDone(t) ==
  /\ pump[t] = "inside"
  /\ next[t] \in {"event", "ended", "over"}
  /\ ctx[t]
  /\ PumpAt(t, "over")
  /\ Store /\ UNCHANGED <<handler, chan, permits, seen, page>>

TurnStep(t) == TurnSteps(t) /\ UNCHANGED <<job, httpVars>>

--------------------------------------------------------------------------------
(***************************************************************************)
(* Listing and paging.                                                     *)
(***************************************************************************)

NoPage == [more |-> FALSE, after |-> 0, next |-> 0, todo |-> <<>>, out |-> <<>>,
           got |-> <<>>, id |-> 0, snap |-> -1, tries |-> 0, ok |-> FALSE]

\* selectPageID on the max-heap of the smallest candidates so far.
SelectPageID(selected, id, after, capacity) ==
  IF id <= after THEN selected
  ELSE IF Cardinality(selected) < capacity THEN selected \cup {id}
  ELSE IF id >= Max(selected) THEN selected
  ELSE (selected \ {Max(selected)}) \cup {id}

\* sort.Strings on the candidates.
InOrder(ids) ==
  CHOOSE s \in [1 .. Cardinality(ids) -> ids] : \A i, j \in DOMAIN s : i < j => s[i] < s[j]

\* ListIDsPage of the stores: limit + 1 candidates, of which completeIDPage
\* returns limit; the next cursor is the last of them if there was one more.
ListIDsPage(after) ==
  LET selected == FoldSet(LAMBDA id, acc : SelectPageID(acc, id, after, PageLimit + 1),
                          {}, {id \in IDs : Exists(id)})
      sorted == InOrder(selected)
      more == Len(sorted) > PageLimit
      ids == IF more THEN SubSeq(sorted, 1, PageLimit) ELSE sorted
  IN [ids |-> ids, next |-> IF more THEN Last(ids) ELSE 0]

Readable(id) == Exists(id) /\ id \notin Unreadable

\* ListSummariesPage asks the store for a page of IDs.
ListIDs(c) ==
  /\ handler[c] = "working"
  /\ job[c].kind = "list"
  /\ open
  /\ LET answer == ListIDsPage(page[c].after)
     IN page' = [page EXCEPT ![c].todo = answer.ids, ![c].next = answer.next, ![c].out = <<>>]
  /\ alive' = [alive EXCEPT ![c] = IF page[c].snap = -1 THEN {id \in IDs : Readable(id)} ELSE @]
  /\ At(c, "loading")
  /\ UNCHANGED <<turnVars, svars, job, pump, chan, permits, seen, first>>

\* ... and loads one after the other; one that is gone, corrupt or too large is
\* skipped, and nothing takes its place.
LoadSummary(c) ==
  /\ handler[c] = "loading"
  /\ page[c].todo # <<>>
  /\ LET id == Head(page[c].todo)
     IN page' = [page EXCEPT ![c].todo = Tail(@),
                             ![c].out = IF Readable(id) THEN Append(@, id) ELSE @]
  /\ Store /\ UNCHANGED <<handler, pump, chan, permits, seen>>

PageTo(c, after, shown) ==
  page' = [page EXCEPT ![c].more = after # 0, ![c].after = after, ![c].snap = 0,
                       ![c].got = @ \o shown, ![c].ok = after = 0]

\* Mutant: a page cut short goes on after the last ID that was loaded.
EncodeListSkips(c) ==
  /\ handler[c] = "loading"
  /\ page[c].todo = <<>>
  /\ \E k \in 0 .. Len(page[c].out) : PageTo(c, page[c].next, SubSeq(page[c].out, 1, k))
  /\ At(c, "releasing")
  /\ Store /\ UNCHANGED <<pump, chan, permits, seen>>

\* The response: as many summaries as fit (at least one does); when some are left
\* out the cursor is the last one that is in.
EncodeList(c) ==
  /\ handler[c] = "loading"
  /\ page[c].todo = <<>>
  /\ LET out == page[c].out IN
     \/ PageTo(c, page[c].next, out)
     \/ \E k \in 1 .. Len(out) - 1 : PageTo(c, out[k], SubSeq(out, 1, k))
  /\ At(c, "releasing")
  /\ Store /\ UNCHANGED <<pump, chan, permits, seen>>

\* decodeDetail: a cursor for more messages than there are is refused.
DecodeDetail(c, length) == page[c].after <= page[c].snap /\ page[c].snap <= length

\* handleGetSession and buildDetail: the messages before the cursor, newest
\* first, as many as the limit and the response size allow.
GetPage(c) ==
  /\ handler[c] = "working"
  /\ job[c].kind = "detail"
  /\ open
  /\ \E id \in IF page[c].snap = -1 THEN job[c].ids ELSE {page[c].id} :
       /\ Exists(id)
       /\ LET msgs == saved[id].msgs
              snap == IF page[c].snap = -1 THEN Len(msgs) ELSE page[c].snap
              before == IF page[c].snap = -1 THEN Len(msgs) ELSE page[c].after
          IN /\ page[c].snap # -1 => DecodeDetail(c, Len(msgs))
             /\ \E start \in (IF before = 0 THEN {0} ELSE 0 .. before - 1) :
                  /\ before - start <= PageLimit
                  /\ page' = [page EXCEPT ![c].id = id, ![c].snap = snap, ![c].after = start,
                               ![c].more = start > 0, ![c].ok = start = 0,
                               ![c].got = SubSeq(msgs, start + 1, before) \o @]
             /\ alive' = [alive EXCEPT ![c] = IF page[c].snap = -1 THEN {id} ELSE @]
             /\ first' = [first EXCEPT ![c] = IF page[c].snap = -1 THEN msgs ELSE @]
  /\ At(c, "releasing")
  /\ UNCHANGED <<turnVars, svars, job, pump, chan, permits, seen>>

\* Any error of the manager or of the encoder ends the paging.
PageFails(c) ==
  /\ handler[c] \in {"working", "loading"}
  /\ job[c].kind \in {"list", "detail"}
  /\ page' = [page EXCEPT ![c].more = FALSE]
  /\ At(c, "releasing")
  /\ Store /\ UNCHANGED <<pump, chan, permits, seen>>

--------------------------------------------------------------------------------
(***************************************************************************)
(* The endpoints that write.                                               *)
(***************************************************************************)

Gone(id) == alive' = [c \in Clients |-> alive[c] \ {id}]

\* handleCreateSession, handleForkSession: a generated ID that is taken is
\* replaced by another one, a few times.
CreateOrFork(c) ==
  /\ handler[c] = "working"
  /\ job[c].kind \in {"create", "fork"}
  /\ open
  /\ \E id \in job[c].ids, now \in Times :
       \/ /\ Exists(id)
          /\ IF page[c].tries + 1 < Attempts
             THEN page' = [page EXCEPT ![c].tries = @ + 1] /\ UNCHANGED handler
             ELSE At(c, "releasing") /\ UNCHANGED page
          /\ UNCHANGED saved
       \/ /\ IF job[c].kind = "create" THEN Create(id, Fresh(now))
             ELSE \E src \in job[c].ids : Fork(src, id, now)
          /\ At(c, "releasing")
          /\ UNCHANGED page
  /\ UNCHANGED <<turnVars, open, job, pump, chan, permits, seen, alive, first>>

\* handlePatchSession, handleDeleteSession.
PatchSession(c) ==
  /\ handler[c] = "working"
  /\ job[c].kind = "patch"
  /\ open
  /\ \E id \in job[c].ids, now \in Times : Patch(id, c, now)
  /\ At(c, "releasing")
  /\ UNCHANGED <<turnVars, open, job, pump, chan, permits, seen, page, alive, first>>

RemoveSession(c) ==
  /\ handler[c] = "working"
  /\ job[c].kind = "delete"
  /\ \E id \in job[c].ids : DeleteSession(id) /\ Gone(id)
  /\ At(c, "releasing")
  /\ UNCHANGED <<tx, ctx, inner, next, commit, applied, open, job, pump, chan, permits, seen, page, first>>

\* No such session, a store error, an uncertain commit without effect.
WriteFails(c) ==
  /\ handler[c] = "working"
  /\ job[c].kind \in {"create", "fork", "patch", "delete"}
  /\ At(c, "releasing")
  /\ Store /\ UNCHANGED <<pump, chan, permits, seen, page>>

\* A turn in the same process that is not streamed over HTTP (Send).
SendTurn(t) ==
  /\ job[t].kind = "send"
  /\ \/ \E id \in job[t].ids : Begin(t, id, FALSE)
     \/ BeginFails(t)
     \/ next[t] = "idle" /\ CallNext(t)
     \/ /\ next[t] \in {"idle", "inside", "append"} /\ ~ ctx[t] /\ Cancel(t)
        /\ UNCHANGED <<svars, tx, inner, next, commit, applied, reborn>>
  /\ UNCHANGED <<job, httpVars>>

--------------------------------------------------------------------------------
HInit ==
  /\ \E s \in Scenarios : job = s.job /\ saved = s.saved
  /\ open = TRUE
  /\ TurnInit
  /\ handler = [c \in Clients |-> "new"]
  /\ pump = [t \in Turns |-> "none"]
  /\ chan = [t \in Turns |-> <<>>]
  /\ permits = [p \in {"request", "run", "encode"} |-> 0]
  /\ seen = [c \in Clients |-> {}]
  /\ page = [c \in Clients |-> NoPage]
  /\ alive = [c \in Clients |-> {}]
  /\ first = [c \in Clients |-> <<>>]

HandlerStep(c) == Enter(c) \/ ReleaseSecond(c) \/ Leave(c)

RunHandler(t) ==
  StartRun(t) \/ RefuseRun(t) \/ ServeDone(t) \/ ServeEvent(t) \/ ServeLast(t)
    \/ CloseTurn(t)

Pump(t) == PumpNext(t) \/ PumpSend(t) \/ PumpDone(t)

SessionHandler(c) ==
  \/ ListIDs(c) \/ LoadSummary(c) \/ EncodeList(c) \/ GetPage(c) \/ PageFails(c)
  \/ CreateOrFork(c) \/ PatchSession(c) \/ RemoveSession(c) \/ WriteFails(c)

HNext ==
  \/ \E c \in Clients : Admit(c) \/ HandlerStep(c) \/ SessionHandler(c)
  \/ \E t \in Turns : \/ RunHandler(t) \/ Disconnect(t) \/ ServeBroken(t)
                      \/ Pump(t) \/ TurnStep(t) \/ SendTurn(t)

HSpec == HInit /\ [][HNext]_hvars

\* Handlers and pumps run.  A run need not end by itself, but it does once its
\* context is done or it is closed (RunLoop's CancelledRunEnds); the client need
\* not go away.
HFairSpec ==
  /\ HSpec
  /\ \A c \in Clients : WF_hvars(HandlerStep(c)) /\ WF_hvars(SessionHandler(c))
  /\ \A t \in Turns :
       /\ WF_hvars(RunHandler(t))
       /\ WF_hvars(Pump(t))
       /\ WF_hvars((ctx[t] \/ inner[t].closed \/ next[t] # "inside") /\ TurnStep(t))

--------------------------------------------------------------------------------
(***************************************************************************)
(* Properties.                                                             *)
(***************************************************************************)

\* A suffix that is committed continues the very transcript the run was given,
\* whatever other turns committed meanwhile.  AppendAt compares lengths, so a
\* session that was deleted and created again is out of this promise.
CommitExtendsWhatWasRead ==
  \A t \in Turns : applied[t] # Nothing /\ ~ reborn[t] => applied[t] = tx[t].read

\* What a client of a run is told is so, and it is told one outcome at most:
\* run_end comes after the decision; done means that the suffix is stored; an
\* error of the run means that it is not, unless the commit is uncertain
\* (ErrMeansNotCommitted).  frame_too_large tells nothing of the commit: the run
\* it cancels may have ended already, and then commits all the same.
FramesTruthful ==
  \A t \in Runs :
    /\ "run_end" \in seen[t] => commit[t].done /\ next[t] \notin {"deciding", "append", "detached"}
    /\ "done" \in seen[t] => applied[t] # Nothing /\ TurnErr(t) = "none"
    /\ seen[t] \cap RunErrors # {} /\ applied[t] # Nothing => commit[t].err = "uncertain"
    /\ \A f, g \in seen[t] \ {"run_end"} : f = g

\* What compose/turn.go:213-214 says of Turn.Err: once run_end is observed or Next
\* returned false, an error means that nothing was committed.  An uncertain
\* commit (the record is published, its durability unknown) has both.
ErrMeansNotCommitted ==
  \A t \in Turns : next[t] \in {"ended", "over"} /\ TurnErr(t) # "none" => applied[t] = Nothing

HoldsRunPermit(t) == handler[t] \in {"working", "serving", "closing", "releasing"}

\* Never more than MaxRuns runs are open: a run is closed before its permit is
\* given back, and permits are neither lost nor given back twice on any path out
\* of a handler.
RunsBounded ==
  /\ permits["run"] <= MaxRuns
  /\ \A t \in Runs : ~ inner[t].closed => HoldsRunPermit(t)
  /\ permits["run"] = Cardinality({t \in Runs : HoldsRunPermit(t)})
  /\ permits["request"] = Cardinality({c \in Clients : handler[c] \notin {"new", "over"}})

\* A listing that is read to its end shows every readable session that was there
\* all the time, in order and once; the pages of a transcript are, without gap or
\* overlap, the end of the transcript as it was at the first page.
PagesComplete ==
  \A c \in Clients :
    /\ job[c].kind = "list" =>
         /\ \A i, j \in DOMAIN page[c].got : i < j => (page[c].got[i] < page[c].got[j])
         /\ page[c].ok => (alive[c] \subseteq ToSet(page[c].got))
    /\ job[c].kind = "detail" /\ page[c].id \in alive[c]
         => page[c].got = SubSeq(first[c], page[c].after + 1, page[c].snap)

\* A client that is gone leaves neither a handler nor a pump behind, even when
\* the pump is blocked on the channel or inside Turn.Next.
DisconnectedRunEnds ==
  \A t \in Turns : ctx[t] /\ job[t].kind = "run" ~> handler[t] = "over" /\ pump[t] \in {"none", "over"}
================================================================================
