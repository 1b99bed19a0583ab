---------------------------- MODULE ModelStream ----------------------------
(***************************************************************************)
(* models.eventStream (core/models/stream.go) over a provider's decoder and *)
(* its SSE body: one reader calls Next until it returns false, any caller   *)
(* may Close at any time, the context may end.  Next holds no lock while it *)
(* is inside source.Next, which may block on the network until Close closes *)
(* the body.                                                               *)
(*                                                                         *)
(* The protocol "any" stands for an arbitrary models.EventSource, which may *)
(* return any event whatever came before.                                   *)
(***************************************************************************)
EXTENDS Decoders

CONSTANTS
    Closers,          \* callers of Close; the reader is one of them
    Configured,       \* the StreamLimits a caller may configure
    Protocols,        \* of the streams checked
    Wires(_),         \* the wire events of a protocol
    Answers,          \* contents of unary responses
    MaxWires(_),      \* bound: wire events of one stream of a protocol
    Interrupted       \* bound: the protocols whose streams are also closed by
                      \* others, cancelled, or cut by the network

KnownProtocols == {"chat", "anthropic", "responses", "google", "unary", "any"}

ASSUME StreamAssumption ==
    /\ "reader" \in Closers /\ Protocols \subseteq KnownProtocols
    /\ \A p \in Protocols : MaxWires(p) \in Nat
    /\ Configured \subseteq [LimitFields -> Int]
    /\ \A w \in Wires("google") : w.candidate \in Int /\ Len(w.parts) \in Nat

VARIABLES
    limits,           \* the stream's limits, normalized
    source,           \* the EventSource: see Decoders
    body,             \* the SSE body: "open", "ended", "closed"
    cancelled,        \* ctx.Err() # nil
    stream,           \* the fields of eventStream
    reader,           \* [at, item]: where the reader is, what source.Next gave it
    closing,          \* per closer: "no", "marked", "done"
    wires,            \* history: the wire events read
    delivered         \* history: the events Next returned true for

streamVars == <<limits, source, body, cancelled, stream, reader, closing,
                wires, delivered>>

\* What source.Next returns: an event, io.EOF or an error.
Nothing == [is |-> "none", event |-> PartEnd(0, 0), why |-> ""]
Item(event) == [is |-> "event", event |-> event, why |-> ""]
EndOfSource == [is |-> "eof", event |-> PartEnd(0, 0), why |-> ""]
SourceError(why) == [is |-> "error", event |-> PartEnd(0, 0), why |-> why]

NewStream(configured) ==
    [err |-> IF ValidLimits(configured) THEN "" ELSE "limit",
     terminalSeen |-> FALSE, finished |-> FALSE, closed |-> FALSE,
     hasResponse |-> FALSE, reducer |-> NewReducer, limiter |-> NewStreamLimiter]

StreamInit ==
    /\ \E configured \in Configured :
          /\ limits = NormalizeStreamLimits(configured)
          /\ stream = NewStream(configured)
    /\ source \in {NewSource(p) : p \in Protocols \ {"unary"}} \cup
                  (IF "unary" \in Protocols THEN {UnarySource(a) : a \in Answers} ELSE {})
    /\ body = "open" /\ cancelled = FALSE
    /\ reader = [at |-> "idle", item |-> Nothing]
    /\ closing = [c \in Closers |-> "no"]
    /\ wires = <<>> /\ delivered = <<>>

-----------------------------------------------------------------------------
(* The source: what Next of a decoder does until it has an event or an error. *)

InSource == reader.at = "source"

Return(item) == reader' = [at |-> "back", item |-> item]

QueueShift ==
    /\ InSource /\ source.queue # <<>>
    /\ source' = [source EXCEPT !.queue = Tail(@)]
    /\ Return(Item(Head(source.queue)))
    /\ UNCHANGED <<limits, body, cancelled, stream, closing, wires, delivered>>

MustRead == InSource /\ source.queue = <<>> /\ ~source.finished

SourceFinished ==
    /\ InSource /\ source.queue = <<>> /\ source.finished
    /\ Return(EndOfSource)
    /\ UNCHANGED <<limits, source, body, cancelled, stream, closing, wires, delivered>>

\* One dispatched SSE event; buffered ones are still dispatched after Close.
ReadWire(w) ==
    /\ MustRead /\ body # "ended" /\ Len(wires) < MaxWires(source.protocol)
    /\ wires' = Append(wires, w)
    /\ source.protocol # "any" => source' = Consume(source, w, limits.tools)
    /\ source.protocol = "any" => UNCHANGED source
    /\ IF source.protocol = "any" THEN Return(Item(w))
       ELSE IF source'.err # "" THEN Return(SourceError(source'.err))
       ELSE UNCHANGED reader
    /\ UNCHANGED <<limits, body, cancelled, stream, closing, delivered>>

\* A clean end of the body; Gemini takes it for the end of the response.
ReadEOF ==
    /\ MustRead /\ body = "open"
    /\ body' = "ended"
    /\ IF source.protocol = "google" /\ HasTerminalEvidence(source)
         THEN /\ source' = GoogleComplete(source)
              /\ IF source'.err # "" THEN Return(SourceError(source'.err))
                                      ELSE UNCHANGED reader
         ELSE Return(EndOfSource) /\ UNCHANGED source
    /\ UNCHANGED <<limits, cancelled, stream, closing, wires, delivered>>

ReadFails ==
    /\ MustRead /\ source.protocol \in Interrupted
    /\ Return(SourceError("read"))
    /\ UNCHANGED <<limits, source, body, cancelled, stream, closing, wires, delivered>>

-----------------------------------------------------------------------------
(* Next.                                                                     *)

NextEnter ==
    /\ reader.at = "idle" /\ closing["reader"] = "no"
    /\ reader' = [reader EXCEPT !.at =
          IF stream.finished \/ stream.err # "" \/ stream.closed
            THEN "ended" ELSE "source"]
    /\ UNCHANGED <<limits, source, body, cancelled, stream, closing, wires, delivered>>

Reject(why) ==
    /\ stream' = [stream EXCEPT !.err = why]
    /\ reader' = [at |-> "ended", item |-> Nothing]
    /\ UNCHANGED delivered

AcceptEvent(e) ==
    IF ~LimiterAccepts(stream.limiter, e, limits) THEN Reject("limit")
    ELSE IF ~ReducerAccepts(stream.reducer, e) THEN Reject("protocol")
    ELSE /\ stream' = [stream EXCEPT !.limiter = LimiterCounts(@, e),
                                     !.reducer = ReducerApplies(@, e),
                                     !.terminalSeen = @ \/ e.kind = "end"]
         /\ reader' = [at |-> "idle", item |-> Nothing]
         /\ delivered' = Append(delivered, e)

Exhausted ==
    IF ~stream.terminalSeen THEN Reject("eof")
    ELSE /\ stream' = [stream EXCEPT !.finished = TRUE, !.hasResponse = TRUE]
         /\ reader' = [at |-> "ended", item |-> Nothing]
         /\ UNCHANGED delivered

\* Mutation: only an error makes the fetched item void.
SupersededByError(s) == s.err # ""

\* Between source.Next and the lock somebody may have closed the stream.
Superseded(s) == s.closed \/ s.err # ""

NextResume ==
    /\ reader.at = "back"
    /\ CASE Superseded(stream) ->
              reader' = [at |-> "ended", item |-> Nothing] /\ UNCHANGED <<stream, delivered>>
         [] OTHER ->
              CASE reader.item.is = "eof"   -> Exhausted
                [] reader.item.is = "error" ->
                      Reject(IF cancelled THEN "cancelled" ELSE reader.item.why)
                [] OTHER -> AcceptEvent(reader.item.event)
    /\ UNCHANGED <<limits, source, body, cancelled, closing, wires>>

-----------------------------------------------------------------------------
(* Close, by the reader when it is done or stops early, or by anybody.       *)

MarkClosed(s) ==
    IF s.closed THEN s
    ELSE IF ~s.terminalSeen /\ s.err = ""
      THEN [s EXCEPT !.closed = TRUE, !.err = "cancelled"]
    ELSE IF s.terminalSeen
      THEN [s EXCEPT !.closed = TRUE, !.finished = TRUE, !.hasResponse = TRUE]
    ELSE [s EXCEPT !.closed = TRUE]

CloseMark(c) ==
    /\ closing[c] = "no"
    /\ IF c = "reader" THEN reader.at \in {"idle", "ended"}
                       ELSE source.protocol \in Interrupted
    /\ closing' = [closing EXCEPT ![c] = "marked"]
    /\ stream' = MarkClosed(stream)
    /\ UNCHANGED <<limits, source, body, cancelled, reader, wires, delivered>>

\* Mutation: Close marks the stream and leaves the body to the reader.
CloseSourceLater(c) ==
    /\ closing[c] = "marked"
    /\ closing' = [closing EXCEPT ![c] = "done"]
    /\ UNCHANGED <<limits, source, body, cancelled, stream, reader, wires, delivered>>

\* closeOnce: the first closes the body, the others wait for it.
CloseSource(c) ==
    /\ closing[c] = "marked"
    /\ closing' = [closing EXCEPT ![c] = "done"]
    /\ body' = IF body = "ended" THEN body ELSE "closed"
    /\ UNCHANGED <<limits, source, cancelled, stream, reader, wires, delivered>>

Cancel ==
    /\ source.protocol \in Interrupted
    /\ ~cancelled /\ cancelled' = TRUE
    /\ UNCHANGED <<limits, source, body, stream, reader, closing, wires, delivered>>

StreamDone == reader.at # "source" /\ reader.at # "back" /\ closing["reader"] = "done"

Rest == StreamDone /\ (\A c \in Closers : closing[c] # "marked") /\ UNCHANGED streamVars

StreamNext ==
    \/ QueueShift \/ SourceFinished \/ ReadEOF \/ ReadFails
    \/ \E w \in Wires(source.protocol) : ReadWire(w)
    \/ NextEnter \/ NextResume
    \/ \E c \in Closers : CloseMark(c) \/ CloseSource(c)
    \/ Cancel \/ Rest

\* The reader's own code runs; a read of a closed or cancelled body returns.
ReadReturns == (body = "closed" \/ cancelled) /\ ReadFails

StreamFairness ==
    /\ WF_streamVars(QueueShift \/ SourceFinished \/ NextResume)
    /\ WF_streamVars(ReadReturns)
    /\ \A c \in Closers : WF_streamVars(CloseSource(c))

StreamSpec == StreamInit /\ [][StreamNext]_streamVars /\ StreamFairness

-----------------------------------------------------------------------------
\* Response(): nothing before exhaustion or Close, nothing after an error.
HasResponse == stream.err = "" /\ (stream.finished \/ stream.closed) /\ stream.terminalSeen

Response == ReducerResult(stream.reducer)

Contract == INSTANCE StreamContract
    WITH ceiling   <- limits,
         delivered <- delivered,
         outcome   <- IF stream.err # "" THEN [is |-> "error", response |-> <<>>]
                      ELSE IF HasResponse THEN [is |-> "response", response |-> Response]
                      ELSE [is |-> "open", response |-> <<>>]

\* The stream keeps the contract: the events handed out are grammatical and
\* bounded, the outcome is decided once and never changes, and a response is
\* what the delivered events assemble to, whatever Close and the source do.
StreamImplemented == Contract!ContractSpec

\* Next gets out of the source once somebody closed the stream, even when the
\* network never answers (the body's Close unblocks the read).
CloseReleasesReader == stream.closed ~> reader.at \notin {"source", "back"}

-----------------------------------------------------------------------------
(* What the wire carried, read off the whole history.                        *)

Sent(P(_)) ==
    FlattenSeq([i \in DOMAIN wires |-> IF P(wires[i]) THEN wires[i].text ELSE <<>>])
Has(P(_)) == \E i \in DOMAIN wires : P(wires[i])

\* A part per slot, in the order they open: with the first text, or the first
\* fragment that names the tool.
ChatSent(c) ==
    LET chunk(w)   == w.type = "chunk" /\ w.choice = c
        chunks     == {i \in DOMAIN wires : chunk(wires[i])}
        simple(k)  == k \in {"text", "refusal"}
        opens(k)   == {i \in chunks : /\ wires[i].slot = k
                                      /\ IF simple(k) THEN wires[i].text # <<>>
                                                      ELSE wires[i].name}
        slots      == {k \in {wires[i].slot : i \in chunks} : opens(k) # {}}
        order      == SetToSortSeq(slots, LAMBDA a, b : Min(opens(a)) < Min(opens(b)))
    IN  [n \in DOMAIN order |->
           Filled([kind |-> IF simple(order[n]) THEN order[n] ELSE "tool",
                   text |-> Sent(LAMBDA w : chunk(w) /\ w.slot = order[n])])]

AnthropicSent ==
    LET starts == {i \in DOMAIN wires : wires[i].type = "block"
                                        /\ wires[i].kind \in {"text", "tool", "reasoning"}}
        order  == SetToSortSeq(starts, LAMBDA a, b : wires[a].index < wires[b].index)
        more(n) == Sent(LAMBDA w : w.type = "delta" /\ w.index = wires[n].index)
    IN  [i \in DOMAIN order |->
           LET first == wires[order[i]]
           IN  Filled([kind |-> first.kind,
                       text |-> IF first.kind = "tool" /\ more(order[i]) # <<>>
                                  THEN more(order[i]) ELSE first.text \o more(order[i])])]

\* Of the pieces that carry content, one begins a part unless it is the first of
\* its chunk and of the kind, not a tool call, of the piece before it.
GoogleSent(c) ==
    LET chunk(i)  == [j \in DOMAIN wires[i].parts |->
                        [piece |-> wires[i].parts[j], first |-> j = 1]]
        all       == FlattenSeq([i \in DOMAIN wires |->
                        IF wires[i].candidate = c THEN chunk(i) ELSE <<>>])
        carried   == SelectSeq(all, LAMBDA p : p.piece.kind # "signature")
        kind(i)   == carried[i].piece.kind
        joins(i)  == i > 1 /\ carried[i].first /\ kind(i) # "tool" /\ kind(i) = kind(i - 1)
        begins    == SetToSortSeq({i \in DOMAIN carried : ~joins(i)}, <)
        until(n)  == IF n = Len(begins) THEN Len(carried) ELSE begins[n + 1] - 1
    IN  [n \in DOMAIN begins |->
           [kind |-> kind(begins[n]),
            text |-> FlattenSeq([i \in 1..(until(n) - begins[n] + 1) |->
                                   carried[begins[n] + i - 1].piece.text])]]

\* The candidates of a Gemini body; a blocked prompt stands for one.
GoogleCandidates ==
    LET named == {wires[i].candidate : i \in DOMAIN wires} \ {-1}
    IN  IF named = {} /\ Has(LAMBDA w : w.type = "blocked") THEN {0} ELSE named

ContentOf(c) == Response[c].content

Holds(content) == DOMAIN Response = {0} /\ ContentOf(0) = content

\* A response holds the candidates the provider named and, for each, the same
\* sequence of parts, every one with exactly the text or the arguments sent for
\* it: nothing dropped, doubled, moved to another part or made up, except the
\* "{}" of a call without arguments.
ContentKept ==
    HasResponse =>
        CASE source.protocol = "chat" ->
               /\ DOMAIN Response = {wires[i].choice :
                       i \in {n \in DOMAIN wires : wires[n].type = "chunk"}}
               /\ \A c \in DOMAIN Response : ContentOf(c) = ChatSent(c)
          [] source.protocol = "anthropic" -> Holds(AnthropicSent)
          [] source.protocol = "responses" ->
               IF Last(wires).output = <<>> THEN DOMAIN Response = {}
                                            ELSE Holds(Last(wires).output)
          [] source.protocol = "google" ->
               /\ DOMAIN Response = GoogleCandidates
               /\ \A c \in DOMAIN Response : ContentOf(c) = GoogleSent(c)
          [] source.protocol = "unary" -> Holds(source.parts)
          [] OTHER -> TRUE

\* A body that ends, fails or is cut before the provider's protocol says it is done
\* never becomes a response.  What says so is the terminal event of chat, Anthropic
\* and Responses.  Gemini has none: its body must have ended cleanly after a chunk,
\* with a finish reason for every candidate a chunk named.  A body that ends having
\* named no candidate is taken for a complete empty response
\* (google/stream.go:263-268): this property lets it pass, NeverEmptyOnEOF does not.
NoSilentTruncation ==
    HasResponse =>
        /\ source.protocol \in {"chat", "anthropic"} => Has(LAMBDA w : w.type = "done")
        /\ source.protocol = "responses" => Has(LAMBDA w : w.type = "completed")
        /\ source.protocol = "google" =>
              /\ body = "ended" /\ wires # <<>>
              /\ \A i \in DOMAIN wires : wires[i].candidate >= 0 =>
                    Has(LAMBDA w : w.candidate = wires[i].candidate /\ w.finish # "")

\* core/models/doc.go:18-19: a clean EOF before the protocol's terminal is never a
\* successful empty response.  Gemini's decoder makes one of a body whose chunks
\* name no candidate and block no prompt.
NeverEmptyOnEOF ==
    HasResponse /\ source.protocol = "google" => DOMAIN Response # {}

\* encodeMessage of the next turn: the state a response carries must decode to
\* the content it is stored with, or the conversation cannot go on.
ProjectedState(state) ==
    CASE source.protocol = "anthropic" -> AnthropicDecode(state)
      [] source.protocol = "google"    -> GoogleDecode(state)
      [] OTHER                         -> ResponsesDecode(state)

Finishes == {f \in Range(stream.reducer.finishes) : f.state # <<>>}

NonEmpty(content) == SelectSeq(content, LAMBDA b : b.text # <<>>)

\* The state matches the content but for parts that are empty.
StateReplays ==
    HasResponse => \A f \in Finishes :
        NonEmpty(ProjectedState(f.state)) = NonEmpty(ContentOf(f.candidate))

\* The state matches the content.
StateAccepted ==
    HasResponse => \A f \in Finishes : ProjectedState(f.state) = ContentOf(f.candidate)
=============================================================================
