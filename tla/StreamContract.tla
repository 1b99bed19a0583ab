--------------------------- MODULE StreamContract ---------------------------
(***************************************************************************)
(* What models.Stream promises its reader (core/models/doc.go), stated on   *)
(* the whole sequence of events handed out so far and without any of the    *)
(* bookkeeping the code uses to keep it: no accumulator, no counter, no     *)
(* lock.  ModelStream is shown to implement this specification.             *)
(*                                                                         *)
(* An event is [kind, key, part, text, init, finishes]: key is <<candidate, *)
(* part index>>, part the content kind a "part" event opens or a "delta"    *)
(* event carries, init the content a "part" event starts with.              *)
(***************************************************************************)
EXTENDS Integers, Sequences, FiniteSets, FiniteSetsExt, SequencesExt

VARIABLES
    ceiling,       \* the stream's limits: [events, candidates, parts, tools, ...]
    delivered,     \* every event Next has returned true for, in order
    outcome        \* [is |-> "open", "error" or "response", response]

contractVars == <<ceiling, delivered, outcome>>

\* Tool arguments are texts over two tokens, and one of them is a JSON object.
IsObject(text) == text = <<"{", "}">>

Of(s, kind) == {i \in DOMAIN s : s[i].kind = kind}

\* The text the deltas of part k add up to, and the content of that part.
DeltaText(s, k) ==
    FlattenSeq([i \in DOMAIN s |->
                   IF s[i].kind = "delta" /\ s[i].key = k THEN s[i].text
                                                          ELSE <<>>])

Opening(s, k) == s[CHOOSE i \in Of(s, "part") : s[i].key = k]

PartContent(s, k) ==
    [kind |-> Opening(s, k).part, text |-> Opening(s, k).init \o DeltaText(s, k)]

\* One response start, first; one opening per part; deltas and the end of a
\* part between its opening and the first end, and of its kind; a response end
\* only when every opened part ended, and nothing after it.
Grammatical(s) ==
    /\ \A i \in DOMAIN s : s[i].kind = "start" <=> i = 1
    /\ \A i, j \in Of(s, "part") : s[i].key = s[j].key => i = j
    /\ \A i \in Of(s, "delta") \cup Of(s, "stop") :
          /\ \E j \in Of(s, "part") :
                /\ j < i /\ s[j].key = s[i].key
                /\ s[i].kind = "delta" => s[j].part = s[i].part
          /\ ~\E j \in Of(s, "stop") : j < i /\ s[j].key = s[i].key
    /\ \A i \in Of(s, "stop") :
          LET content == PartContent(s, s[i].key)
          IN  content.kind = "tool" => IsObject(content.text)
    /\ \A i \in Of(s, "end") :
          /\ i = Len(s)
          /\ \A j \in Of(s, "part") :
                \E n \in Of(s, "stop") : s[n].key = s[j].key

Bounded(s) ==
    LET keys == {s[i].key : i \in Of(s, "part")}
        ends == UNION {{f.candidate : f \in Range(s[i].finishes)} :
                          i \in Of(s, "end")}
    IN  /\ Len(s) <= ceiling.events
        /\ Cardinality(keys) <= ceiling.parts
        /\ Cardinality({k[1] : k \in keys} \cup ends) <= ceiling.candidates
        /\ Cardinality({i \in Of(s, "part") : s[i].part = "tool"})
              <= ceiling.tools

\* A finite set of indexes in increasing order.
InOrder(S) ==
    CHOOSE q \in [1..Cardinality(S) -> S] : \A i, j \in DOMAIN q : i < j => q[i] < q[j]

\* The response: every candidate that has a part or a finish, its parts in the
\* order of their indexes whatever order they were streamed in.
Assembled(s) ==
    LET keys   == {s[i].key : i \in Of(s, "part")}
        ends   == Last(s).finishes
        Parts(c)  == InOrder({k[2] : k \in {x \in keys : x[1] = c}})
    IN  [c \in {k[1] : k \in keys} \cup {f.candidate : f \in Range(ends)} |->
           [content |-> [n \in DOMAIN Parts(c) |->
                            PartContent(s, <<c, Parts(c)[n]>>)],
            finish  |-> IF \E f \in Range(ends) : f.candidate = c
                          THEN (CHOOSE f \in Range(ends) : f.candidate = c).reason
                          ELSE "unknown"]]

-----------------------------------------------------------------------------

Undecided == [is |-> "open", response |-> <<>>]
Broken    == [is |-> "error", response |-> <<>>]

ContractInit == delivered = <<>> /\ outcome \in {Undecided, Broken}

Deliver ==
    /\ outcome = Undecided
    /\ Len(delivered') = Len(delivered) + 1
    /\ IsPrefix(delivered, delivered')
    /\ Grammatical(delivered') /\ Bounded(delivered')
    /\ UNCHANGED <<ceiling, outcome>>

Complete ==
    /\ outcome = Undecided
    /\ delivered # <<>> /\ Last(delivered).kind = "end"
    /\ outcome' = [is |-> "response", response |-> Assembled(delivered)]
    /\ UNCHANGED <<ceiling, delivered>>

Break ==
    /\ outcome = Undecided /\ outcome' = Broken
    /\ UNCHANGED <<ceiling, delivered>>

ContractNext == Deliver \/ Complete \/ Break

ContractSpec == ContractInit /\ [][ContractNext]_contractVars
=============================================================================
