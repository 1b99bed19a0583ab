------------------------------ MODULE Reducer ------------------------------
(***************************************************************************)
(* The normalized model events, the limiter and the reducer every stream of *)
(* a model turn passes (core/models: event_shape.go, stream_limits.go,      *)
(* reducer.go), as operators on their state: what each accepts and what it  *)
(* becomes.  Texts are sequences of tokens; a tool's arguments are texts    *)
(* over "{" and "}", of which one is a JSON object; the token Garbled stands *)
(* for bytes that are no valid UTF-8.                                      *)
(***************************************************************************)
EXTENDS Integers, Sequences, FiniteSets, FiniteSetsExt, SequencesExt

CONSTANT Hard   \* the package ceilings, a record of the fields below

LimitFields == {"eventBytes", "turnBytes", "events", "candidates", "parts",
                "metadata", "tools"}

ASSUME HardAssumption ==
    Hard \in [LimitFields -> Nat \ {0}] /\ Hard.eventBytes <= Hard.turnBytes

Put(f, k, v) == [x \in DOMAIN f \cup {k} |-> IF x = k THEN v ELSE f[x]]

IsJSONObject(text) == text = <<"{", "}">>

Garbled == "garbled"

-----------------------------------------------------------------------------
(* Events.  "image" is inline data and takes media deltas, "link" an image  *)
(* by URI, which takes none; "result" is a kind that cannot be streamed.    *)

Streamable == {"text", "reasoning", "refusal", "tool", "image", "link"}

Event(kind, key, part, text) ==
    [kind |-> kind, key |-> key, part |-> part, text |-> text, init |-> <<>>,
     finishes |-> <<>>, metadata |-> 0, provider |-> ""]

NoKey == <<0, 0>>

ResponseStart == [Event("start", NoKey, "", <<>>) EXCEPT !.provider = "own"]
PartStart(c, p, kind) == Event("part", <<c, p>>, kind, <<>>)
PartDelta(c, p, kind, text) == Event("delta", <<c, p>>, kind, text)
PartEnd(c, p) == Event("stop", <<c, p>>, "", <<>>)
ResponseEnd(finishes, metadata) ==
    [Event("end", NoKey, "", <<>>)
        EXCEPT !.finishes = finishes, !.metadata = metadata, !.provider = "own"]

\* validateEventShape and validatePartStart.
ValidateEventShape(e) ==
    /\ e.kind \in {"start", "part", "delta", "stop", "end"}
    /\ e.kind \in {"start", "end"} => e.key = NoKey /\ e.part = ""
    /\ e.kind \notin {"start", "end"} => e.key \in Nat \X Nat
    /\ e.kind # "end" => e.finishes = <<>>
    /\ e.kind \in {"start", "stop", "end"} => e.text = <<>>
    /\ e.kind = "part" =>
          /\ e.part \in Streamable /\ e.text = <<>>
          /\ e.part = "tool" => e.init = <<>> \/ IsJSONObject(e.init)
    /\ e.kind = "delta" => e.part \in Streamable \ {"link"} /\ e.init = <<>>
    /\ \A f \in Range(e.finishes) : f.candidate >= 0

\* eventFrameCounter.string: every text of a frame is valid; image data is bytes.
ValidUTF8(e) ==
    /\ e.text \in Seq(STRING)
    /\ e.part # "image" => Garbled \notin Range(e.text) \cup Range(e.init)

\* measureEventFrame: a frame weighs its nodes and its bytes.
MeasureEventFrame(e) == 1 + Len(e.text) + Len(e.init) + Len(e.finishes)

-----------------------------------------------------------------------------
(* Limits.  0 selects the ceiling, a positive value may only tighten it.    *)

NormalizeStreamLimits(limits) ==
    [f \in LimitFields |-> IF limits[f] = 0 THEN Hard[f] ELSE limits[f]]

ValidLimits(limits) ==
    LET Minimum(f) == CASE f = "events" -> 2 [] OTHER -> 1
        chosen     == NormalizeStreamLimits(limits)
    IN  /\ \A f \in LimitFields :
              limits[f] = 0 \/ (limits[f] >= Minimum(f) /\ limits[f] <= Hard[f])
        /\ chosen.turnBytes >= chosen.eventBytes

NewStreamLimiter ==
    [events |-> 0, turnBytes |-> 0, metadata |-> 0, tools |-> 0,
     candidates |-> {}, parts |-> {}]

ValidateIndexes(e, limits) ==
    /\ e.kind \in {"part", "delta", "stop"} =>
          e.key[1] \in 0..(limits.candidates - 1) /\ e.key[2] \in 0..(limits.parts - 1)
    /\ \A f \in Range(e.finishes) : f.candidate \in 0..(limits.candidates - 1)
    /\ \A i, j \in DOMAIN e.finishes :
          e.finishes[i].candidate = e.finishes[j].candidate => i = j

\* The candidates and parts an event names for the first time or again.
Named(l, e) ==
    [l EXCEPT !.candidates = @ \cup (IF e.kind = "part" THEN {e.key[1]} ELSE {})
                               \cup {f.candidate : f \in Range(e.finishes)},
              !.parts      = @ \cup (IF e.kind = "part" THEN {e.key} ELSE {}),
              !.tools      = IF e.kind = "part" /\ e.part = "tool"
                               THEN @ + 1 ELSE @,
              !.metadata   = @ + e.metadata]

AcceptStructure(l, e, limits) ==
    LET after == Named(l, e)
    IN  /\ after.metadata <= limits.metadata
        /\ after.tools <= limits.tools
        /\ Cardinality(after.parts) <= limits.parts
        /\ Cardinality(after.candidates) <= limits.candidates

LimiterAccepts(l, e, limits) ==
    /\ l.events < limits.events
    /\ ValidateIndexes(e, limits)
    /\ ValidateEventShape(e)
    /\ ValidUTF8(e)
    /\ MeasureEventFrame(e) <= limits.eventBytes
    /\ MeasureEventFrame(e) <= limits.turnBytes - l.turnBytes
    /\ AcceptStructure(l, e, limits)

LimiterCounts(l, e) ==
    [Named(l, e) EXCEPT !.events = @ + 1,
                        !.turnBytes = @ + MeasureEventFrame(e)]

-----------------------------------------------------------------------------
(* The reducer: one accumulator per part, keyed by candidate and index.     *)

NewReducer ==
    [started |-> FALSE, ended |-> FALSE, provider |-> "", parts |-> <<>>,
     finishes |-> <<>>]

\* Content.Validate on the completed part.
Completes(part) ==
    /\ part.kind = "tool"  => \/ IsJSONObject(part.text) /\ part.init = <<>>
                              \/ IsJSONObject(part.init) /\ part.text = <<>>
    /\ part.kind = "image" => part.init \o part.text # <<>>

OpenPart(r, key) == key \in DOMAIN r.parts /\ ~r.parts[key].ended

ReducerAccepts(r, e) ==
    /\ ~r.ended
    /\ r.started <=> e.kind # "start"
    /\ e.kind = "part"  => e.key \notin DOMAIN r.parts
    /\ e.kind = "delta" => OpenPart(r, e.key) /\ r.parts[e.key].kind = e.part
    /\ e.kind = "stop"  => OpenPart(r, e.key) /\ Completes(r.parts[e.key])
    /\ e.kind = "end"   => /\ \A k \in DOMAIN r.parts : r.parts[k].ended
                           /\ e.provider \in {"", r.provider}

WithPart(r, key, part) == [r EXCEPT !.parts = Put(r.parts, key, part)]

ReducerApplies(r, e) ==
    CASE e.kind = "start" -> [r EXCEPT !.started = TRUE, !.provider = e.provider]
      [] e.kind = "part"  -> WithPart(r, e.key, [kind |-> e.part, init |-> e.init,
                                                 text |-> <<>>, ended |-> FALSE])
      [] e.kind = "delta" -> WithPart(r, e.key, [r.parts[e.key] EXCEPT !.text = @ \o e.text])
      [] e.kind = "stop"  -> WithPart(r, e.key, [r.parts[e.key] EXCEPT !.ended = TRUE])
      [] e.kind = "end"   -> [r EXCEPT !.ended = TRUE, !.finishes = e.finishes]

\* A finite set of indexes in increasing order.
InOrder(S) ==
    CHOOSE q \in [1..Cardinality(S) -> S] : \A i, j \in DOMAIN q : i < j => q[i] < q[j]

\* result: the candidates in index order, the parts of each in index order.
ReducerResult(r) ==
    LET ends(c)  == {f \in Range(r.finishes) : f.candidate = c}
        index(c) == InOrder({k[2] : k \in {x \in DOMAIN r.parts : x[1] = c}})
    IN  [c \in {k[1] : k \in DOMAIN r.parts} \cup
               {f.candidate : f \in Range(r.finishes)} |->
           [content |-> [n \in DOMAIN index(c) |->
                           LET part == r.parts[<<c, index(c)[n]>>]
                           IN  [kind |-> part.kind, text |-> part.init \o part.text]],
            finish  |-> IF ends(c) = {} THEN "unknown"
                                        ELSE (CHOOSE f \in ends(c) : TRUE).reason]]
=============================================================================
