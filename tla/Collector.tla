----------------------------- MODULE Collector -----------------------------
(***************************************************************************)
(* The bounded text collectors of core/tools/collector.go: TextCollector    *)
(* in its Prefix and HeadTail modes, and TextCollectorGroup, which feeds a  *)
(* HeadTail collector whole records of several sources.                     *)
(*                                                                          *)
(* Text is abstracted to what the limits see.  A raw byte is "a" (ASCII),   *)
(* "l" (the lead byte of a two-byte rune) or "c" (a continuation byte).  A  *)
(* logical stream is the sequence of the byte widths of its units (runes,   *)
(* or records in a group), and a retained window is the sequence of the     *)
(* POSITIONS in the stream that it keeps, so that a gap, a repetition or a  *)
(* reordering shows.                                                        *)
(***************************************************************************)
EXTENDS Integers, SequencesExt, FiniteSetsExt

CONSTANTS
  FrameChunk,    \* payload bytes per framed chunk; also the largest record
  ChunkCost,     \* framing bytes per chunk
  HeaderFrame,   \* framing bytes of an output: domain, version, block count
  BlockFrame,    \* framing bytes of a block besides its payload and chunks
  MarkerBytes,   \* length of formatMarker(..): fixed-width fields only
  TrailerBytes,  \* metadataBegin and metadataEndFmt
  MaxMetaBytes,  \* maxCollectorMetaBytes
  RecordHeader   \* "@serpe-source:v1 name=.. bytes=..\n"

ASSUME CollectorConstants ==
  /\ {FrameChunk, MarkerBytes} \subseteq Nat \ {0}
  /\ {ChunkCost, HeaderFrame, BlockFrame, TrailerBytes, MaxMetaBytes,
      RecordHeader} \subseteq Nat

RawBytes == {"a", "l", "c"}
EscapeBytes == 4                          \* "\xNN"

SumOf(s) == LET sum[i \in 0..Len(s)] == IF i = 0 THEN 0 ELSE sum[i - 1] + s[i]
            IN sum[Len(s)]
Positions(from, to) == [i \in 1..(to - from + 1) |-> from + i - 1]

(***************************************************************************)
(* Frame sizes.                                                             *)
(***************************************************************************)
Chunks(payload) == (payload + FrameChunk - 1) \div FrameChunk
FramedBlockSize(payload) == BlockFrame + ChunkCost * Chunks(payload) + payload
SingleTextFrameSize(textBytes) == HeaderFrame + FramedBlockSize(textBytes)

OverLimit(textBytes, limits) ==
  \/ textBytes > limits.text
  \/ SingleTextFrameSize(textBytes) > limits.framed

(***************************************************************************)
(* The body budget: what is left once the largest trailer and a marker are  *)
(* reserved, and the frame still fits.                                      *)
(***************************************************************************)
Reservation == TrailerBytes + MaxMetaBytes

\* Mutant: the truncation marker is not reserved.
MaxCollectorBodyBare(limits) ==
  LET hi == limits.text - Reservation
      fits == {n \in 0..hi : SingleTextFrameSize(n + Reservation) <= limits.framed}
  IN Max(fits \cup {0})

MaxCollectorBody(limits) ==
  LET hi == limits.text - Reservation - MarkerBytes
      fits == {n \in 0..hi : SingleTextFrameSize(n + Reservation + MarkerBytes)
                               <= limits.framed}
  IN Max(fits \cup {0})

NewTextCollector(limits, mode) ==
  [mode |-> mode, state |-> "writing", pending |-> <<>>,
   budget |-> MaxCollectorBody(limits), stream |-> <<>>, window |-> <<>>,
   head |-> 0, omitted |-> FALSE]

(***************************************************************************)
(* escapeValidPrefix: the widths of the logical units of a buffer, and the  *)
(* incomplete rune left for the next write.  An illegal byte becomes an     *)
(* escape, here the sequence esc of widths (four ASCII runes in a plain     *)
(* collector, one unit in a record).                                        *)
(***************************************************************************)
EscapeValidPrefix(in, final, esc) ==
  LET n == Len(in)
      from[i \in 1..(n + 1)] ==
        IF i > n THEN [units |-> <<>>, rest |-> <<>>]
        ELSE IF in[i] = "l" /\ i = n /\ ~final
             THEN [units |-> <<>>, rest |-> <<in[i]>>]
        ELSE LET whole == in[i] = "l" /\ i < n /\ in[i + 1] = "c"
                 next == from[IF whole THEN i + 2 ELSE i + 1]
                 unit == IF in[i] = "a" THEN <<1>>
                         ELSE IF whole THEN <<2>> ELSE esc
             IN [next EXCEPT !.units = unit \o @]
  IN from[1]

PlainEscape == [i \in 1..EscapeBytes |-> 1]
RecordEscape == <<EscapeBytes>>

(***************************************************************************)
(* utf8PrefixView, utf8SuffixView: the longest prefix or suffix of whole    *)
(* runes that fits in n bytes.                                              *)
(***************************************************************************)
Bytes(c, window) == SumOf([i \in DOMAIN window |-> c.stream[window[i]]])

PrefixView(c, s, n) ==
  SubSeq(s, 1, Max({k \in 0..Len(s) : k = 0 \/ Bytes(c, SubSeq(s, 1, k)) <= n}))

SuffixView(c, s, n) ==
  SubSeq(s, 1 + Min({k \in 0..Len(s) : k = Len(s) \/ Bytes(c, SubSeq(s, k + 1, Len(s))) <= n}),
         Len(s))

(***************************************************************************)
(* acceptLogical, Prefix mode.  Every write that finds room left is         *)
(* appended, up to the budget.                                              *)
(***************************************************************************)
AppendPrefix(c, new) ==
  LET need == c.budget - Bytes(c, c.window)
  IN IF need <= 0 THEN [c EXCEPT !.omitted = TRUE]
     ELSE [c EXCEPT !.window = @ \o PrefixView(c, new, need),
                    !.omitted = @ \/ Bytes(c, new) > need]

(***************************************************************************)
(* appendHeadTail.  The first write past the budget splits the window into  *)
(* a head and a tail; later ones only move the tail.                        *)
(***************************************************************************)
HeadBudget(c) == c.budget \div 2
TailBudget(c) == c.budget - HeadBudget(c)

CombinedSuffix(c, first, second, n) ==
  IF Bytes(c, second) >= n THEN SuffixView(c, second, n)
  ELSE SuffixView(c, first, n - Bytes(c, second)) \o second

SplitWindow(c, new) ==
  LET old == c.window
      head == IF Bytes(c, old) >= HeadBudget(c)
              THEN PrefixView(c, old, HeadBudget(c))
              ELSE old \o PrefixView(c, new, HeadBudget(c) - Bytes(c, old))
  IN [c EXCEPT !.head = Len(head), !.omitted = TRUE,
               !.window = head \o CombinedSuffix(c, old, new, TailBudget(c))]

\* Mutant: a short write after the split is appended to a tail trimmed by
\* nothing but its own budget, without making room for the new bytes.
MoveTailLoose(c, new) ==
  LET oldTail == SubSeq(c.window, c.head + 1, Len(c.window))
  IN [c EXCEPT !.window = SubSeq(c.window, 1, c.head)
                            \o SuffixView(c, oldTail, TailBudget(c)) \o new]

MoveTail(c, new) ==
  LET oldTail == SubSeq(c.window, c.head + 1, Len(c.window))
  IN [c EXCEPT !.window = SubSeq(c.window, 1, c.head)
                            \o CombinedSuffix(c, oldTail, new, TailBudget(c))]

AppendHeadTail(c, new) ==
  IF c.budget <= 0 THEN [c EXCEPT !.omitted = TRUE]
  ELSE IF ~c.omitted /\ Bytes(c, c.window \o new) <= c.budget
       THEN [c EXCEPT !.window = @ \o new, !.head = Len(c.window \o new)]
  ELSE IF ~c.omitted THEN SplitWindow(c, new) ELSE MoveTail(c, new)

AcceptLogical(c, units) ==
  LET grown == [c EXCEPT !.stream = @ \o units]
      new == Positions(Len(c.stream) + 1, Len(grown.stream))
  IN IF units = <<>> THEN c
     ELSE IF c.mode = "prefix" THEN AppendPrefix(grown, new)
     ELSE AppendHeadTail(grown, new)

(***************************************************************************)
(* Write, and the flush of the pending bytes when the text ends.            *)
(***************************************************************************)
ConsumeRaw(c, p) ==
  LET decoded == EscapeValidPrefix(c.pending \o p, FALSE, PlainEscape)
  IN AcceptLogical([c EXCEPT !.pending = decoded.rest], decoded.units)

FlushPending(c) ==
  AcceptLogical([c EXCEPT !.pending = <<>>],
                EscapeValidPrefix(c.pending, TRUE, PlainEscape).units)

PreparePrefix(c) == [FlushPending(c) EXCEPT !.state = "prepared"]

KeptLogicalBytes(c) == Bytes(c, c.window)
Truncated(c) == c.omitted \/ SumOf(c.stream) # KeptLogicalBytes(c)

(***************************************************************************)
(* acceptRecord: the HeadTail collector of a group.  Records are kept       *)
(* whole; partitionRecords runs once, when the budget is first passed, and  *)
(* skips over a record too large for what is left of the tail.              *)
(***************************************************************************)
RecordTail(c, rest) ==
  FoldRight(LAMBDA r, tail : IF Bytes(c, <<r>> \o tail) > TailBudget(c)
                             THEN tail ELSE <<r>> \o tail,
            rest, <<>>)

PartitionRecords(c) ==
  LET head == PrefixView(c, c.window, HeadBudget(c))
      rest == SubSeq(c.window, Len(head) + 1, Len(c.window))
  IN [c EXCEPT !.window = head \o RecordTail(c, rest), !.head = Len(head),
               !.omitted = TRUE]

TrimRecordTail(c) ==
  LET tail == SubSeq(c.window, c.head + 1, Len(c.window))
  IN [c EXCEPT !.window = SubSeq(@, 1, c.head) \o SuffixView(c, tail, TailBudget(c))]

AcceptRecord(c, size) ==
  LET grown == [c EXCEPT !.stream = Append(@, size),
                         !.window = Append(@, Len(c.stream) + 1)]
  IN IF c.omitted THEN TrimRecordTail(grown)
     ELSE IF SumOf(grown.stream) <= c.budget
          THEN [grown EXCEPT !.head = Len(grown.window)]
     ELSE PartitionRecords(grown)

(***************************************************************************)
(* consumeSourceChunk: a source's units gather into a record of at most     *)
(* FrameChunk bytes, flushed before it would overflow and when it is full.  *)
(* A group is [col, src], src giving each source its pending bytes and the  *)
(* payload bytes of its open record.                                        *)
(***************************************************************************)
FlushRecord(g, name) ==
  [g EXCEPT !.col = AcceptRecord(@, RecordHeader + g.src[name].record),
            !.src[name].record = 0]

AddUnit(g, name, width) ==
  LET room == IF g.src[name].record + width > FrameChunk
              THEN FlushRecord(g, name) ELSE g
      added == [room EXCEPT !.src[name].record = @ + width]
  IN IF added.src[name].record = FrameChunk THEN FlushRecord(added, name) ELSE added

ConsumeSource(g, name, p, final) ==
  LET decoded == EscapeValidPrefix(g.src[name].pending \o p, final, RecordEscape)
  IN FoldLeft(LAMBDA h, width : AddUnit(h, name, width),
              [g EXCEPT !.src[name].pending = decoded.rest], decoded.units)

FinishSource(g, name) ==
  LET consumed == ConsumeSource(g, name, <<>>, TRUE)
  IN IF consumed.src[name].record > 0 THEN FlushRecord(consumed, name) ELSE consumed

NewTextCollectorGroup(limits, names) ==
  [col |-> NewTextCollector(limits, "headTail"),
   src |-> [n \in names |-> [pending |-> <<>>, record |-> 0]]]

(***************************************************************************)
(* TextCollector.Output: the body, a marker at the seam when something was  *)
(* left out, and the metadata trailer; or the fixed budget error.           *)
(***************************************************************************)
RenderedBytes(c, meta) ==
  KeptLogicalBytes(c) + (IF Truncated(c) THEN MarkerBytes ELSE 0) + TrailerBytes + meta

RenderOutput(c, meta, limits) ==
  IF meta > MaxMetaBytes \/ OverLimit(RenderedBytes(c, meta), limits)
  THEN [kind |-> "budget"]
  ELSE [kind |-> "collected", text |-> RenderedBytes(c, meta), limits |-> limits,
        original |-> SingleTextFrameSize(SumOf(c.stream) + TrailerBytes + meta),
        kept |-> SingleTextFrameSize(RenderedBytes(c, meta)),
        truncated |-> Truncated(c), edited |-> FALSE]
=============================================================================
