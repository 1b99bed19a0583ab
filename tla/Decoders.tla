------------------------------ MODULE Decoders ------------------------------
(***************************************************************************)
(* The four provider protocols' stream decoders (core/providers/internal/   *)
(* protocol): what one wire event makes of the decoder's state, the events  *)
(* it queues for models.Stream, and the errors it reports.  The unary       *)
(* decoders are here too: the Responses decoder compares its terminal       *)
(* payload with what it streamed, and the next turn compares the provider   *)
(* state a response carries with its content.                              *)
(*                                                                         *)
(* A source is a record: its protocol, the fields of the decoder, the queue *)
(* of events and the error that ended it ("" for none).  A wire event       *)
(* carries one choice, and one delta of it, at a time: a chunk with several *)
(* is the same sequence, since nothing is read from the queue in between.   *)
(***************************************************************************)
EXTENDS Reducer, Functions

CONSTANTS
    MaxArgumentsBytes,        \* of one tool call
    MaxBatchArgumentBytes,    \* of all tool calls of a response
    MaxProviderStateBytes,    \* of the state a response carries
    IgnoreUnknown             \* the lenient option of the protocols that have one

ASSUME ArgumentBytesAssumption ==
    /\ MaxArgumentsBytes \in Nat \ {0} /\ MaxBatchArgumentBytes \in Nat \ {0}
    /\ MaxProviderStateBytes \in Nat /\ IgnoreUnknown \in BOOLEAN

NewSource(protocol) ==
    [protocol |-> protocol, queue |-> <<>>, err |-> "", started |-> FALSE,
     finished |-> FALSE, guard |-> <<>>, parts |-> <<>>, finish |-> <<>>,
     state |-> FALSE, blocked |-> FALSE, active |-> <<>>, last |-> <<>>]

FinishOf(s, c) == IF c \in DOMAIN s.finish THEN s.finish[c] ELSE "unknown"

Push(s, events) == [s EXCEPT !.queue = @ \o events]
Fails(s, why) == [s EXCEPT !.err = why]

Start(s) ==
    IF s.started THEN s ELSE [Push(s, <<ResponseStart>>) EXCEPT !.started = TRUE]

(* ToolCallGuard: a byte account per call, a bound on each, on their sum    *)
(* and on their number.                                                    *)
CanStart(s, key, calls) ==
    key \notin DOMAIN s.guard /\ Cardinality(DOMAIN s.guard) < calls

GuardStart(s, key) == [s EXCEPT !.guard = Put(@, key, 0)]

CanAddArguments(s, keys, size) ==
    /\ \A k \in keys : k \in DOMAIN s.guard /\ size <= MaxArgumentsBytes - s.guard[k]
    /\ size * Cardinality(keys) <= MaxBatchArgumentBytes
                                   - FoldFunction(LAMBDA a, b : a + b, 0, s.guard)

\* The same size for each of some calls, one after the other.
AddToEach(s, keys, size) ==
    IF CanAddArguments(s, keys, size)
      THEN [s EXCEPT !.guard = [k \in DOMAIN @ |-> IF k \in keys THEN @[k] + size ELSE @[k]]]
      ELSE Fails(s, "limit")

AddArguments(s, key, size) == AddToEach(s, {key}, size)

Braces == <<"{", "}">>

(* Unary decoding of a sequence of blocks [kind, text].  Which blocks become *)
(* content differs between the protocols, and so does what stands for the    *)
(* arguments of a call that has none.                                        *)
Bare(blocks) == [i \in DOMAIN blocks |-> [kind |-> blocks[i].kind,
                                          text |-> blocks[i].text]]
Filled(b) == IF b.kind = "tool" /\ b.text = <<>> THEN [b EXCEPT !.text = Braces] ELSE b
Decodable(blocks) == \A b \in Range(blocks) : b.kind = "tool" => IsJSONObject(b.text)

\* The encoded state: every block weighs itself and its text.
StateTooLarge(blocks) ==
    MapThenSumSet(LAMBDA i : 1 + Len(blocks[i].text), DOMAIN blocks) > MaxProviderStateBytes

ChatDecode(blocks) ==
    SelectSeq([i \in DOMAIN blocks |-> Filled(Bare(blocks)[i])],
              LAMBDA b : b.text # <<>>)

AnthropicDecode(blocks) ==
    SelectSeq([i \in DOMAIN blocks |-> Filled(Bare(blocks)[i])],
              LAMBDA b : \/ b.kind \in {"text", "tool"}
                         \/ b.kind = "reasoning" /\ b.text # <<>>)

ResponsesDecode(blocks) == Bare(blocks)

GoogleDecode(blocks) ==
    SelectSeq(Bare(blocks), LAMBDA b : b.kind = "tool" \/
                                       (b.kind # "signature" /\ b.text # <<>>))

-----------------------------------------------------------------------------
(* Chat Completions: parts <<choice, slot>>, where a slot is "text",        *)
(* "refusal" or one of the tool indexes, with the part index once one is    *)
(* allocated.  A chunk is [choice, slot, name, text, finish].               *)

NextPart(s, choice) ==
    Cardinality({k \in DOMAIN s.parts : k[1] = choice /\ s.parts[k].part >= 0})

NoChatPart == [part |-> -1, kind |-> "tool", pending |-> <<>>, had |-> FALSE,
               open |-> FALSE]

\* Mutation: the fragment that opens a part is lost.
ConsumeSimpleLate(s, w) ==
    LET key == <<w.choice, w.slot>>
        p   == NextPart(s, w.choice)
    IN  IF key \notin DOMAIN s.parts
          THEN Push([s EXCEPT !.parts = Put(@, key,
                        [NoChatPart EXCEPT !.part = p, !.kind = w.slot, !.open = TRUE])],
                    <<PartStart(w.choice, p, w.slot)>>)
          ELSE Push(s, <<PartDelta(w.choice, s.parts[key].part, w.slot, w.text)>>)

ConsumeSimple(s, w) ==
    LET key == <<w.choice, w.slot>>
        new == key \notin DOMAIN s.parts
        p   == IF new THEN NextPart(s, w.choice) ELSE s.parts[key].part
    IN  IF new
          THEN Push([s EXCEPT !.parts = Put(@, key,
                        [NoChatPart EXCEPT !.part = p, !.kind = w.slot,
                                           !.open = TRUE])],
                    <<PartStart(w.choice, p, w.slot),
                      PartDelta(w.choice, p, w.slot, w.text)>>)
          ELSE Push(s, <<PartDelta(w.choice, p, w.slot, w.text)>>)

ConsumeToolDelta(s, w, calls) ==
    LET key     == <<w.choice, w.slot>>
        known   == key \in DOMAIN s.parts
        tool    == IF known THEN s.parts[key] ELSE NoChatPart
        started == IF known THEN s ELSE GuardStart(s, key)
        counted == IF w.text = <<>> THEN started
                                    ELSE AddArguments(started, key, Len(w.text))
        opens   == tool.part < 0 /\ w.name
        p       == IF opens THEN NextPart(s, w.choice) ELSE tool.part
        pending == tool.pending \o w.text
    IN  IF ~known /\ ~CanStart(s, key, calls) THEN Fails(s, "limit")
        ELSE IF counted.err # "" THEN counted
        ELSE Push([counted EXCEPT !.parts = Put(@, key,
                      [tool EXCEPT !.part = p, !.open = @ \/ opens,
                                   !.had = @ \/ w.text # <<>>,
                                   !.pending = IF p < 0 THEN pending ELSE <<>>])],
                  (IF opens THEN <<PartStart(w.choice, p, "tool")>> ELSE <<>>) \o
                  (IF p >= 0 /\ pending # <<>>
                     THEN <<PartDelta(w.choice, p, "tool", pending)>> ELSE <<>>))

\* A tool call that never had arguments gets "{}", then every open part ends.
\* The code fills the calls in a map's order: they are of different parts, so
\* the order of the parts stands for any.
Unfilled(part) == part.kind = "tool" /\ part.part >= 0 /\ ~part.had

Closing(s, c) ==
    LET bare == InOrder({s.parts[k].part : k \in {x \in DOMAIN s.parts :
                                                    x[1] = c /\ Unfilled(s.parts[x])}})
        open == InOrder({s.parts[k].part : k \in {x \in DOMAIN s.parts :
                                                    x[1] = c /\ s.parts[x].open}})
    IN  [i \in DOMAIN bare |-> PartDelta(c, bare[i], "tool", Braces)] \o
        [i \in DOMAIN open |-> PartEnd(c, open[i])]

CloseChoices(s, choices) ==
    LET keys   == {k \in DOMAIN s.parts : k[1] \in Range(choices)}
        filled == AddToEach(s, {k \in keys : Unfilled(s.parts[k])}, Len(Braces))
        closed == [k \in DOMAIN s.parts |->
                      IF k \notin keys THEN s.parts[k]
                      ELSE [s.parts[k] EXCEPT !.open = FALSE, !.had = @ \/ Unfilled(s.parts[k])]]
    IN  IF filled.err # "" THEN filled
        ELSE Push([filled EXCEPT !.parts = closed],
                  FlattenSeq([i \in DOMAIN choices |-> Closing(s, choices[i])]))

ChatFinishes(s, choices) ==
    [i \in DOMAIN choices |-> [candidate |-> choices[i], reason |-> s.finish[choices[i]],
                               state |-> <<>>]]

\* Of a call without a name and a limit passed, the model reports the first.
ChatComplete(s) ==
    LET choices == InOrder(DOMAIN s.finish)
        closed  == CloseChoices(s, choices)
    IN  IF \E k \in DOMAIN s.parts : s.parts[k].part < 0 THEN Fails(s, "protocol")
        ELSE IF closed.err # "" THEN closed
        ELSE [Push(closed, <<ResponseEnd(ChatFinishes(s, choices), 0)>>)
                EXCEPT !.finished = TRUE]

ConsumeChunk(s, w, calls) ==
    LET seen  == [Start(s) EXCEPT !.finish =
                     IF w.choice \in DOMAIN @ THEN @ ELSE Put(@, w.choice, "unknown")]
        delta == CASE w.slot \in {"text", "refusal"} ->
                        IF w.text = <<>> THEN seen ELSE ConsumeSimple(seen, w)
                   [] w.slot = "none" -> seen
                   [] OTHER -> ConsumeToolDelta(seen, w, calls)
    IN  IF delta.err # "" \/ w.finish = "" THEN delta
        ELSE CloseChoices([delta EXCEPT !.finish[w.choice] = w.finish], <<w.choice>>)

ChatConsume(s, w, calls) ==
    CASE w.type = "done"  -> IF s.started THEN ChatComplete(s)
                                          ELSE Fails(s, "protocol")
      [] w.type = "error" -> Fails(s, "provider")
      [] w.type = "usage" -> Start(s)
      [] OTHER            -> ConsumeChunk(s, w, calls)

-----------------------------------------------------------------------------
(* Anthropic: a block per wire index, opened, extended and stopped by the    *)
(* provider.  Thinking and redacted blocks make the response carry state: the *)
(* blocks to send back in the next turn.                                     *)

AnthropicStartBlock(s, w, calls) ==
    LET ignored == w.kind \in {"redacted", "unknown"}
        isTool  == w.kind = "tool"
        block   == [kind |-> w.kind, open |-> TRUE, ignored |-> ignored,
                    had |-> FALSE, init |-> w.text,
                    text |-> IF isTool THEN <<>> ELSE w.text]
        opened  == [IF isTool THEN GuardStart(s, w.index) ELSE s
                      EXCEPT !.parts = Put(@, w.index, block),
                             !.state = @ \/ w.kind \in {"reasoning", "redacted"}]
    IN  IF \/ ~s.started \/ w.index \in DOMAIN s.parts
           \/ isTool /\ w.text # <<>> /\ ~IsJSONObject(w.text)
          THEN Fails(s, "protocol")
        ELSE IF isTool /\ ~CanStart(s, w.index, calls) THEN Fails(s, "limit")
        ELSE IF w.kind = "unknown" /\ ~IgnoreUnknown THEN Fails(s, "protocol")
        ELSE IF ignored THEN opened
        ELSE Push(opened, <<PartStart(0, w.index, w.kind)>> \o
                          (IF isTool \/ w.text = <<>> THEN <<>>
                             ELSE <<PartDelta(0, w.index, w.kind, w.text)>>))

AnthropicDelta(s, w) ==
    LET block    == s.parts[w.index]
        counted  == IF w.kind = "tool" THEN AddArguments(s, w.index, Len(w.text)) ELSE s
        extended == [counted EXCEPT
                        !.parts[w.index].text = IF w.kind = block.kind THEN @ \o w.text ELSE @,
                        !.parts[w.index].had  = @ \/ w.kind = "tool"]
    IN  IF w.index \notin DOMAIN s.parts \/ ~block.open THEN Fails(s, "protocol")
        ELSE IF block.ignored \/ w.kind = "signature" THEN s
        ELSE IF w.kind = "tool" /\ w.text = <<>> THEN s
        ELSE IF counted.err # "" THEN counted
        ELSE Push(extended, <<PartDelta(0, w.index, w.kind, w.text)>>)

AnthropicStopBlock(s, w) ==
    LET block == s.parts[w.index]
        bare  == block.kind = "tool" /\ ~block.had
        args  == Filled([kind |-> "tool", text |-> block.init]).text
        filled == IF bare THEN AddArguments(s, w.index, Len(args)) ELSE s
    IN  IF w.index \notin DOMAIN s.parts \/ ~block.open THEN Fails(s, "protocol")
        ELSE IF filled.err # "" THEN filled
        ELSE Push([filled EXCEPT !.parts[w.index].open = FALSE,
                                 !.parts[w.index].text = IF bare THEN block.init ELSE @],
                  IF block.ignored THEN <<>>
                  ELSE (IF bare THEN <<PartDelta(0, w.index, "tool", args)>> ELSE <<>>)
                       \o <<PartEnd(0, w.index)>>)

\* The blocks the next turn sends back: redacted ones and every stopped one.
AnthropicState(s) ==
    LET kept == SetToSortSeq({i \in DOMAIN s.parts : s.parts[i].kind # "unknown"}, <)
    IN  IF s.state THEN [n \in DOMAIN kept |-> s.parts[kept[n]]] ELSE <<>>

AnthropicStop(s) ==
    IF ~s.started \/ \E i \in DOMAIN s.parts : s.parts[i].open
      THEN Fails(s, "protocol")
    ELSE IF StateTooLarge(AnthropicState(s)) THEN Fails(s, "limit")
    ELSE [Push(s, <<ResponseEnd(<<[candidate |-> 0, reason |-> FinishOf(s, 0),
                                     state |-> Bare(AnthropicState(s))]>>, 0)>>)
            EXCEPT !.finished = TRUE]

AnthropicConsume(s, w, calls) ==
    CASE w.type = "start" -> IF s.started THEN Fails(s, "protocol") ELSE Start(s)
      [] w.type = "block"  -> AnthropicStartBlock(s, w, calls)
      [] w.type = "delta"  -> AnthropicDelta(s, w)
      [] w.type = "stop"   -> AnthropicStopBlock(s, w)
      [] w.type = "finish" -> [s EXCEPT !.finish = Put(@, 0, w.finish)]
      [] w.type = "done"   -> AnthropicStop(s)
      [] w.type = "error"  -> Fails(s, "provider")
      [] w.type = "ping"   -> s
      [] OTHER -> IF IgnoreUnknown THEN s ELSE Fails(s, "protocol")

-----------------------------------------------------------------------------
(* Responses: parts <<kind, output index>> in the order they start.  A part   *)
(* is closed by the first event that says it is done; deltas after that are   *)
(* dropped, and the terminal payload decides whether that lost anything.      *)

ResponsesStartPart(s, key) ==
    IF key \in DOMAIN s.parts THEN s
    ELSE LET p == Cardinality(DOMAIN s.parts)
         IN  Push([s EXCEPT !.parts = Put(@, key,
                      [part |-> p, kind |-> key[1], open |-> TRUE, had |-> FALSE,
                       value |-> <<>>])],
                  <<PartStart(0, p, key[1])>>)

ResponsesDelta(s, key, text) ==
    IF s.err # "" \/ key \notin DOMAIN s.parts \/ ~s.parts[key].open THEN s
    ELSE Push([s EXCEPT !.parts[key].had = TRUE, !.parts[key].value = @ \o text],
              <<PartDelta(0, s.parts[key].part, key[1], text)>>)

ResponsesToolDelta(s, key, text) ==
    ResponsesDelta(AddArguments(s, key[2], Len(text)), key, text)

ResponsesAdd(s, key, text) ==
    IF key[1] = "tool" THEN ResponsesToolDelta(s, key, text)
                       ELSE ResponsesDelta(s, key, text)

ResponsesEndPart(s, key) ==
    IF s.err # "" \/ key \notin DOMAIN s.parts \/ ~s.parts[key].open THEN s
    ELSE LET filled == IF key[1] = "tool" /\ ~s.parts[key].had
                         THEN ResponsesToolDelta(s, key, Braces) ELSE s
         IN  IF filled.err # "" THEN filled
             ELSE Push([filled EXCEPT !.parts[key].open = FALSE],
                       <<PartEnd(0, filled.parts[key].part)>>)

FinishValuePart(s, key, full) ==
    LET begun   == ResponsesStartPart(s, key)
        current == begun.parts[key].value
        missing == SubSeq(full, Len(current) + 1, Len(full))
    IN  IF ~begun.parts[key].open THEN begun
        ELSE IF ~IsPrefix(current, full) THEN Fails(begun, "protocol")
        ELSE ResponsesEndPart(IF missing = <<>> THEN begun
                                ELSE ResponsesAdd(begun, key, missing), key)

AccumulatedContent(s) ==
    LET keys == SetToSortSeq(DOMAIN s.parts,
                             LAMBDA a, b : s.parts[a].part < s.parts[b].part)
    IN  [i \in DOMAIN keys |-> Filled([kind |-> keys[i][1],
                                       text |-> s.parts[keys[i]].value])]

\* endPart of every open part, in the order they started.
ResponsesClosing(s) ==
    LET open == SetToSortSeq({k \in DOMAIN s.parts : s.parts[k].open},
                             LAMBDA a, b : s.parts[a].part < s.parts[b].part)
    IN  FlattenSeq([i \in DOMAIN open |->
            (IF Unfilled(s.parts[open[i]])
               THEN <<PartDelta(0, s.parts[open[i]].part, "tool", Braces)>> ELSE <<>>)
            \o <<PartEnd(0, s.parts[open[i]].part)>>])

ResponsesEndParts(s) ==
    LET open   == {k \in DOMAIN s.parts : s.parts[k].open}
        bare   == {k \in open : Unfilled(s.parts[k])}
        filled == AddToEach(s, {k[2] : k \in bare}, Len(Braces))
        closed == [k \in DOMAIN s.parts |->
                      IF k \notin open THEN s.parts[k]
                      ELSE [s.parts[k] EXCEPT !.open = FALSE, !.had = @ \/ k \in bare,
                                              !.value = IF k \in bare THEN Braces ELSE @]]
    IN  IF filled.err # "" THEN filled
        ELSE Push([filled EXCEPT !.parts = closed], ResponsesClosing(s))

ResponsesState(w) ==
    IF \E b \in Range(w.output) : b.kind = "reasoning" THEN w.output ELSE <<>>

ResponsesFinishes(w, tools) ==
    IF w.output = <<>> THEN <<>>
    ELSE <<[candidate |-> 0, reason |-> IF tools > 0 THEN "tool_call" ELSE "stop",
            state |-> ResponsesState(w)]>>

ResponsesComplete(s, w, calls) ==
    LET closed == ResponsesEndParts(s)
        tools  == Cardinality({i \in DOMAIN w.output : w.output[i].kind = "tool"})
    IN  IF closed.err # "" THEN closed
        ELSE IF \/ ~Decodable(w.output) \/ tools > calls \/ StateTooLarge(ResponsesState(w))
                \/ AccumulatedContent(closed) # ResponsesDecode(w.output)
               THEN Fails(closed, "protocol")
        ELSE [Push(closed, <<ResponseEnd(ResponsesFinishes(w, tools), 0)>>)
                EXCEPT !.finished = TRUE]

ResponsesConsume(s, w, calls) ==
    LET key == <<w.kind, w.index>>
    IN  CASE w.type = "start" -> IF s.started THEN Fails(s, "protocol") ELSE Start(s)
          [] w.type = "item"  ->
                IF ~s.started THEN Fails(s, "protocol")
                ELSE IF ~CanStart(s, w.index, calls) THEN Fails(s, "limit")
                ELSE ResponsesStartPart(GuardStart(s, w.index), key)
          [] w.type \in {"added", "delta"} /\ w.kind # "tool" ->
                LET begun == ResponsesStartPart(s, key)
                IN  IF w.type = "added" /\ w.text = <<>> THEN begun
                    ELSE ResponsesDelta(begun, key, w.text)
          [] w.type = "delta" /\ w.kind = "tool" ->
                IF key \notin DOMAIN s.parts THEN Fails(s, "protocol")
                ELSE ResponsesToolDelta(s, key, w.text)
          [] w.type = "done"  ->
                IF w.kind = "tool" /\ key \notin DOMAIN s.parts THEN Fails(s, "protocol")
                ELSE FinishValuePart(s, key, w.text)
          [] w.type = "itemDone" ->
                IF key \in DOMAIN s.parts /\ ~s.parts[key].had
                  THEN ResponsesEndPart(ResponsesToolDelta(s, key,
                          Filled([kind |-> "tool", text |-> w.text]).text), key)
                  ELSE ResponsesEndPart(s, key)
          [] w.type = "completed" ->
                IF s.started THEN ResponsesComplete(s, w, calls) ELSE Fails(s, "protocol")
          [] w.type = "failed" -> Fails(s, "provider")
          [] w.type = "queued" -> s
          [] OTHER -> IF IgnoreUnknown THEN s ELSE Fails(s, "protocol")

-----------------------------------------------------------------------------
(* Gemini: parts <<candidate, index>>, opened in order.  The first part of a  *)
(* chunk continues the active part when it has its kind; a tool call is one   *)
(* whole part; a signature belongs to the active or the last part.  There is  *)
(* no terminal event: the end of the body completes a response whose          *)
(* candidates all have a finish reason.                                       *)

At(f, c) == IF c \in DOMAIN f THEN f[c] ELSE -1

GoogleNext(s, c) == Cardinality({k \in DOMAIN s.parts : k[1] = c})

CloseActivePart(s, c) ==
    LET key == <<c, At(s.active, c)>>
        off == [s EXCEPT !.active = Put(@, c, -1)]
    IN  IF At(s.active, c) < 0 THEN s
        ELSE IF s.parts[key].open
          THEN Push([off EXCEPT !.parts[key].open = FALSE], <<PartEnd(c, key[2])>>)
          ELSE off

GooglePart(kind, open, b) ==
    [kind |-> kind, open |-> open, text |-> b.text, signed |-> b.signed]

\* Mutation: the state keeps only the fragment that opened the part.
ExtendedFirst(part, b) == [part EXCEPT !.signed = @ \/ b.signed]

Extended(part, b) == [part EXCEPT !.text = @ \o b.text, !.signed = @ \/ b.signed]

GoogleText(s, c, b, mayContinue) ==
    LET key       == <<c, At(s.active, c)>>
        continues == /\ mayContinue /\ key \in DOMAIN s.parts
                     /\ s.parts[key].open /\ s.parts[key].kind = b.kind
        closed    == CloseActivePart(s, c)
        p         == GoogleNext(s, c)
        delta(n)  == IF b.text = <<>> THEN <<>> ELSE <<PartDelta(c, n, b.kind, b.text)>>
    IN  IF continues
          THEN Push([s EXCEPT !.parts[key] = Extended(@, b)], delta(key[2]))
          ELSE Push([closed EXCEPT !.parts  = Put(@, <<c, p>>, GooglePart(b.kind, TRUE, b)),
                                   !.active = Put(@, c, p), !.last = Put(@, c, p)],
                    <<PartStart(c, p, b.kind)>> \o delta(p))

GoogleTool(s, c, b, calls) ==
    LET p      == GoogleNext(s, c)
        key    == <<c, p>>
        closed == CloseActivePart(AddArguments(GuardStart(s, key), key, Len(b.text)), c)
    IN  IF ~IsJSONObject(b.text) THEN Fails(s, "protocol")
        ELSE IF ~CanStart(s, key, calls) \/ closed.err # "" THEN Fails(s, "limit")
        ELSE Push([closed EXCEPT !.parts = Put(@, key, GooglePart("tool", FALSE, b)),
                                 !.last  = Put(@, c, p)],
                  <<PartStart(c, p, "tool"), PartDelta(c, p, "tool", b.text), PartEnd(c, p)>>)

GoogleSignature(s, c, b) ==
    LET p   == IF At(s.active, c) >= 0 THEN At(s.active, c) ELSE At(s.last, c)
        new == GoogleNext(s, c)
    IN  IF p >= 0 THEN [s EXCEPT !.parts[<<c, p>>].signed = TRUE]
        ELSE [s EXCEPT !.parts = Put(@, <<c, new>>, GooglePart("signature", FALSE, b)),
                       !.last  = Put(@, c, new)]

ConsumePart(s, c, b, first, calls) ==
    IF s.err # "" THEN s
    ELSE CASE b.kind = "tool"      -> GoogleTool(s, c, b, calls)
           [] b.kind = "signature" -> GoogleSignature(s, c, b)
           [] OTHER                -> GoogleText(s, c, b, first)

\* The parts of a chunk, in order, until one is refused.
ConsumeParts(s, w, calls) ==
    LET read[i \in 0..Len(w.parts)] ==
            IF i = 0 THEN s
            ELSE ConsumePart(read[i - 1], w.candidate, w.parts[i], i = 1, calls)
    IN  read[Len(w.parts)]

GoogleConsume(s, w, calls) ==
    LET c    == w.candidate
        seen == IF c < 0 \/ c \in DOMAIN s.finish THEN Start(s)
                ELSE [Start(s) EXCEPT !.finish = Put(@, c, "")]
        read == ConsumeParts(seen, w, calls)
        tool == \E k \in DOMAIN read.parts : k[1] = c /\ read.parts[k].kind = "tool"
    IN  IF w.type = "error" THEN Fails(s, "provider")
        ELSE IF read.err # "" THEN read
        ELSE [read EXCEPT !.finish = IF w.finish = "" THEN @
                             ELSE Put(@, c, IF w.finish = "stop" /\ tool THEN "tool_call"
                                                                         ELSE w.finish),
                          !.blocked = @ \/ w.type = "blocked"]

\* Mutation: any candidate's finish reason ends the response.
HasSomeEvidence(s) ==
    s.started /\ (DOMAIN s.finish = {} \/ \E c \in DOMAIN s.finish : s.finish[c] # "")

HasTerminalEvidence(s) == s.started /\ \A c \in DOMAIN s.finish : s.finish[c] # ""

\* The parts of a candidate, sent back in the next turn when one is signed.
GoogleState(s, c) ==
    LET parts == [i \in 1..GoogleNext(s, c) |-> s.parts[<<c, i - 1>>]]
    IN  IF \E i \in DOMAIN parts : parts[i].signed THEN Bare(parts) ELSE <<>>

GoogleFinishes(s) ==
    LET cands == SetToSortSeq(DOMAIN s.finish, <)
    IN  IF cands = <<>> /\ s.blocked
          THEN <<[candidate |-> 0, reason |-> "content_filter", state |-> <<>>]>>
          ELSE [i \in DOMAIN cands |->
                   [candidate |-> cands[i], reason |-> s.finish[cands[i]],
                    state |-> GoogleState(s, cands[i])]]

GoogleClosing(s) ==
    LET open == SetToSortSeq({k \in DOMAIN s.parts : s.parts[k].open},
                             LAMBDA a, b : a[1] < b[1] \/ (a[1] = b[1] /\ a[2] < b[2]))
    IN  [i \in DOMAIN open |-> PartEnd(open[i][1], open[i][2])]

\* Of a candidate whose state is too large the part ends queued before it are
\* never read: an error is not followed by another call of source.Next.
GoogleComplete(s) ==
    IF \E c \in DOMAIN s.finish : StateTooLarge(GoogleState(s, c)) THEN Fails(s, "limit")
    ELSE [Push(s, GoogleClosing(s) \o
                  <<ResponseEnd(GoogleFinishes(s), IF DOMAIN s.finish = {} /\ s.blocked
                                                     THEN 1 ELSE 0)>>)
            EXCEPT !.finished = TRUE,
                   !.parts = [k \in DOMAIN @ |-> [@[k] EXCEPT !.open = FALSE]]]

-----------------------------------------------------------------------------
(* A unary response passes the same stream: responseEventSource turns it      *)
(* into the events that would have built it.  Its "parts" are the response.   *)

ResponseEvents(response) ==
    <<ResponseStart>> \o
    FlattenSeq([i \in DOMAIN response |->
        <<[PartStart(0, i - 1, response[i].kind) EXCEPT !.init = response[i].text],
          PartEnd(0, i - 1)>>]) \o
    <<ResponseEnd(<<[candidate |-> 0, reason |-> "stop", state |-> <<>>]>>, 0)>>

UnarySource(response) ==
    [NewSource("unary") EXCEPT !.queue = ResponseEvents(response), !.finished = TRUE,
                                !.parts = response]

Consume(s, w, calls) ==
    CASE s.protocol = "chat"      -> ChatConsume(s, w, calls)
      [] s.protocol = "anthropic" -> AnthropicConsume(s, w, calls)
      [] s.protocol = "responses" -> ResponsesConsume(s, w, calls)
      [] s.protocol = "google"    -> GoogleConsume(s, w, calls)
=============================================================================
