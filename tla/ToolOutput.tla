----------------------------- MODULE ToolOutput -----------------------------
(***************************************************************************)
(* The output of one tool call, from what the tool produces to what the run *)
(* loop hands to the model (core/tools/output.go, the end of runCall in     *)
(* core/tools/batch.go, adaptToolOutput in runtime/loops/tool.go).          *)
(*                                                                          *)
(* The tool writes through a collector ("prefix", "headTail"), through a    *)
(* group whose sources are written by concurrent goroutines ("group"), or   *)
(* returns content blocks of its own ("blocks").  The executor finalizes    *)
(* the output under the call's limits and seals it; the run loop may then   *)
(* replace images the provider does not take and finalize again.  The mark  *)
(* of a truncated output speaks of the content last finalized: an output    *)
(* truncated first and adapted then is sealed again, unmarked if what       *)
(* replaces it fits.                                                        *)
(*                                                                          *)
(* A content block is a text, the sequence of the widths of its runes, or   *)
(* an image of some bytes.                                                  *)
(***************************************************************************)
EXTENDS Collector

CONSTANTS
  Sources,        \* the sources of a group
  Limits,         \* the calls' output limits: [text, framed, blocks, image]
  MaxRaw,         \* bound on the raw bytes written in a call
  WriteSizes,     \* sizes of a write
  Metas,          \* canonical sizes of the metadata a tool passes
  BlockLists,     \* the content a tool may return by itself
  MinTextBytes, MinFramedBytes,
  BudgetText,     \* length of budgetErrorText
  DowngradeText, ManifestText

\* normalizeOutput and allocateCallQuotas keep every call above the floors,
\* and the floors hold the text that replaces an output over its limits.
Block == [image : BOOLEAN, runes : Seq(Nat), size : Nat]
IsBlock(b) == IF b.image THEN b.runes = <<>> ELSE b.size = SumOf(b.runes)

ASSUME OutputConstants ==
  /\ IsFiniteSet(Sources)
  /\ Limits \subseteq [text : Nat, framed : Nat, blocks : Nat, image : Nat]
  /\ WriteSizes \subseteq Nat /\ Metas \subseteq Nat
  /\ {MinTextBytes, MinFramedBytes, BudgetText, DowngradeText, ManifestText} \subseteq Nat
  /\ BlockLists \subseteq Seq(Block)
  /\ \A list \in BlockLists : \A i \in DOMAIN list : IsBlock(list[i])

ASSUME LimitFloors ==
  /\ \A l \in Limits : /\ l.text >= MinTextBytes /\ l.framed >= MinFramedBytes
                       /\ l.blocks >= 1 /\ l.image >= 1
  /\ BudgetText <= MinTextBytes
  /\ SingleTextFrameSize(BudgetText) <= MinFramedBytes

VARIABLES
  limits,   \* pc.limits
  kind,     \* how the tool produces its output
  written,  \* raw bytes written so far (bounds the model)
  col,      \* the collector, or the group's
  src,      \* the group's sources
  blocks,   \* the content the tool returns by itself
  out,      \* what the tool handed to the executor
  result    \* what the batch recorded for the call

outputVars == <<limits, kind, written, col, src, blocks, out, result>>

None == [kind |-> "none"]
Text(runes) == [image |-> FALSE, runes |-> runes, size |-> SumOf(runes)]
Image(size) == [image |-> TRUE, runes |-> <<>>, size |-> size]

(***************************************************************************)
(* What the writes of a collector may be.                                   *)
(***************************************************************************)
Writable == out = None /\ col.state = "writing"

Write ==
  /\ kind \in {"prefix", "headTail"} /\ Writable
  /\ \E n \in WriteSizes : \E p \in [1..n -> RawBytes] :
       /\ written + n <= MaxRaw
       /\ written' = written + n
       /\ col' = ConsumeRaw(col, p)
  /\ UNCHANGED <<limits, kind, src, blocks, out, result>>

\* WriteSource: the sources' goroutines write in any order.
WriteSource ==
  /\ kind = "group" /\ Writable
  /\ \E name \in Sources, n \in WriteSizes : \E p \in [1..n -> RawBytes] :
       LET g == ConsumeSource([col |-> col, src |-> src], name, p, FALSE)
       IN /\ written + n <= MaxRaw
          /\ written' = written + n
          /\ col' = g.col /\ src' = g.src
  /\ UNCHANGED <<limits, kind, blocks, out, result>>

Prepare ==
  /\ kind = "prefix" /\ Writable
  /\ col' = PreparePrefix(col)
  /\ UNCHANGED <<limits, kind, written, src, blocks, out, result>>

Hand(o) == /\ out' = o
           /\ UNCHANGED <<limits, kind, written, blocks, result>>

\* Output of a Prefix collector needs PreparePrefix first; HeadTail flushes here.
Output ==
  /\ out = None
  /\ \/ kind = "prefix" /\ col.state = "prepared"
     \/ kind = "headTail" /\ col.state = "writing"
  /\ \E meta \in Metas :
       LET done == IF kind = "headTail" THEN FlushPending(col) ELSE col
       IN /\ col' = [done EXCEPT !.state = "finished"]
          /\ Hand(RenderOutput(done, meta, limits))
  /\ UNCHANGED src

\* TextCollectorGroup.Output finishes the sources in declaration order.
GroupOutput ==
  /\ kind = "group" /\ Writable
  /\ \E meta \in Metas :
       LET g == FoldLeft(FinishSource, [col |-> col, src |-> src], SetToSeq(Sources))
       IN /\ src' = g.src
          /\ col' = [g.col EXCEPT !.state = "finished"]
          /\ Hand(RenderOutput(g.col, meta, limits))

\* The tool returns its own content, or (against the contract) reuses a sealed
\* output, or edits what a collector gave it.
ReturnBlocks ==
  /\ kind = "blocks" /\ out = None
  /\ \E b \in BlockLists, reused \in BOOLEAN :
       /\ blocks' = b
       /\ out' = [kind |-> IF reused THEN "sealed" ELSE "blocks"]
  /\ UNCHANGED <<limits, kind, written, col, src, result>>

EditCollected ==
  /\ out.kind = "collected" /\ result = None
  /\ out' = [out EXCEPT !.edited = TRUE]
  /\ UNCHANGED <<limits, kind, written, col, src, blocks, result>>

(***************************************************************************)
(* truncateBlocks.  The texts of the blocks are one stream of runes; a head *)
(* and a tail of it are kept, in the blocks they came from, with the marker *)
(* at the end of the head.                                                  *)
(***************************************************************************)
Stream(b) == FlattenSeq([i \in DOMAIN b |-> b[i].runes])
TextTotal(b) == SumOf([i \in DOMAIN b |-> SumOf(b[i].runes)])
HasText(b) == \E i \in DOMAIN b : ~b[i].image
Ends(b, i) == TextTotal(SubSeq(b, 1, i))         \* where block i's text ends

Boundaries(b) == LET s == Stream(b) IN {SumOf(SubSeq(s, 1, k)) : k \in 0..Len(s)}
TextBoundaryBefore(b, target) == Max({o \in Boundaries(b) : o <= target})
TextBoundaryAfter(b, target) == Min({o \in Boundaries(b) : o >= target})

FirstTextAtOrAfter(b, target) ==
  LET texts == {i \in DOMAIN b : ~b[i].image}
      after == {i \in texts : target <= Ends(b, i)}
  IN IF after # {} THEN Min(after) ELSE Max(texts)

HeadCut(b, keep) == TextBoundaryBefore(b, keep \div 2)
TailStart(b, keep) ==
  TextBoundaryAfter(b, TextTotal(b) - (keep - keep \div 2))

\* How many runes of block i's text start before "at" bytes of the stream.
RunesBefore(b, i, at) ==
  LET starts(k) == Ends(b, i - 1) + SumOf(SubSeq(b[i].runes, 1, k - 1))
  IN Cardinality({k \in DOMAIN b[i].runes : starts(k) < at})

\* applyKeep: what is kept of each text, and the marker at the end of the head.
Marker == [i \in 1..MarkerBytes |-> 1]

ApplyKeep(b, keep) ==
  LET cut == HeadCut(b, keep)
      rest == TailStart(b, keep)
      head(i) == SubSeq(b[i].runes, 1, RunesBefore(b, i, cut))
      tail(i) == SubSeq(b[i].runes, RunesBefore(b, i, rest) + 1, Len(b[i].runes))
      mark(i) == IF i = FirstTextAtOrAfter(b, cut) THEN Marker ELSE <<>>
  IN [i \in DOMAIN b |-> IF b[i].image THEN b[i] ELSE Text(head(i) \o mark(i) \o tail(i))]

BlocksFrameSize(b) ==
  HeaderFrame + SumOf([i \in DOMAIN b |-> FramedBlockSize(b[i].size)])
TextSize(b) == SumOf([i \in DOMAIN b |-> IF b[i].image THEN 0 ELSE b[i].size])

\* Mutant: the marker's bytes are forgotten when the shape is measured.
ShapeFitsBare(b, keep, lim) ==
  LET shape == ApplyKeep(b, keep)
  IN BlocksFrameSize(shape) - MarkerBytes <= lim.framed /\ TextSize(shape) - MarkerBytes <= lim.text

ShapeFits(b, keep, lim) ==
  LET shape == ApplyKeep(b, keep)
  IN BlocksFrameSize(shape) <= lim.framed /\ TextSize(shape) <= lim.text

\* The binary search of truncateBlocks between lo and hi, with the best keep so
\* far; -1 when nothing fits.
BestKeep(b, lim) ==
  LET n == TextTotal(b)
      fits == [keep \in 0..n |-> ShapeFits(b, keep, lim)]
      search[s \in [lo : 0..(n + 1), hi : -1..n, best : -1..n]] ==
        LET mid == (s.lo + s.hi) \div 2
        IN IF s.lo > s.hi THEN s.best
           ELSE IF fits[mid] THEN search[[s EXCEPT !.lo = mid + 1, !.best = mid]]
           ELSE search[[s EXCEPT !.hi = mid - 1]]
  IN search[[lo |-> 0, hi |-> n, best |-> -1]]

(***************************************************************************)
(* finalize.  inspectContent refuses an empty, oversized or malformed       *)
(* content; a collector's receipt must match; the rest is truncated when it *)
(* does not fit.  The outcome is a sealed output, "limit" or "error".       *)
(***************************************************************************)
ImageBytes(b) == SumOf([i \in DOMAIN b |-> IF b[i].image THEN b[i].size ELSE 0])

InspectContent(b, lim) ==
  IF b = <<>> THEN "error"
  ELSE IF Len(b) > lim.blocks \/ ImageBytes(b) > lim.image THEN "limit" ELSE "ok"

\* A sealed output; "of" is what it was made from.
Seal(b, of, truncated) ==
  [kind |-> "sealed", blocks |-> b, of |-> of, kept |-> BlocksFrameSize(b),
   text |-> TextSize(b), original |-> BlocksFrameSize(of), truncated |-> truncated]

FinalizeBlocks(b, lim) ==
  LET verdict == InspectContent(b, lim)
      over == TextTotal(b) > lim.text \/ BlocksFrameSize(b) > lim.framed
      keep == IF HasText(b) THEN BestKeep(b, lim) ELSE -1
  IN IF verdict # "ok" THEN [kind |-> verdict]
     ELSE IF ~over THEN Seal(b, b, FALSE)
     ELSE IF keep < 0 THEN [kind |-> "limit"]
     ELSE Seal(ApplyKeep(b, keep), b, TRUE)

\* Mutant: only the sizes of the receipt are compared.
VerifyReceiptSizes(o, lim) ==
  o.limits = lim /\ SingleTextFrameSize(o.text) = o.kept

\* verifyReceipt: any edit changes the digest of the content or the error flag.
VerifyReceipt(o, lim) ==
  /\ o.limits = lim
  /\ ~o.edited
  /\ SingleTextFrameSize(o.text) = o.kept
  /\ o.truncated \/ o.original = o.kept

FinalizeCollected(o, lim) ==
  IF ~VerifyReceipt(o, lim) THEN [kind |-> "error"]
  ELSE IF o.kept > lim.framed THEN [kind |-> "limit"]
  ELSE [kind |-> "sealed", blocks |-> <<>>, of |-> <<>>, kept |-> o.kept, text |-> o.text,
        original |-> o.original, truncated |-> o.truncated]

BudgetBlocks == <<Text([i \in 1..BudgetText |-> 1])>>

Finalize(o) ==
  CASE o.kind = "collected" -> FinalizeCollected(o, limits)
    [] o.kind = "budget"    -> FinalizeBlocks(BudgetBlocks, limits)
    [] o.kind = "blocks"    -> FinalizeBlocks(blocks, limits)
    [] o.kind = "sealed"    -> [kind |-> "error"]

\* The end of runCall: an output over its limits becomes the budget error.
FinalizeCall ==
  /\ out # None /\ result = None
  /\ LET final == Finalize(out)
     IN result' = IF final.kind = "limit" THEN FinalizeBlocks(BudgetBlocks, limits) ELSE final
  /\ UNCHANGED <<limits, kind, written, col, src, blocks, out>>

(***************************************************************************)
(* adaptToolOutput: the images the provider's policy refuses become text,   *)
(* and ReFinalize seals the output again under the limits of its seal.  If  *)
(* that does not fit, one manifest stands for all of them.                  *)
(***************************************************************************)
Runes(n) == [i \in 1..n |-> 1]

Downgrade(b, refused) ==
  [i \in DOMAIN b |-> IF i \in refused THEN Text(Runes(DowngradeText)) ELSE b[i]]
Compact(b, refused) ==
  [i \in DOMAIN b |-> IF i \notin refused THEN b[i]
                      ELSE Text(IF i = Min(refused) THEN Runes(ManifestText) ELSE <<>>)]

AdaptToolOutput ==
  /\ result.kind = "sealed" /\ kind = "blocks"
  /\ \E refused \in SUBSET {i \in DOMAIN result.blocks : result.blocks[i].image} :
       LET first == FinalizeBlocks(Downgrade(result.blocks, refused), limits)
           second == FinalizeBlocks(Compact(result.blocks, refused), limits)
       IN /\ refused # {}
          /\ result' = IF first.kind # "limit" THEN first
                       ELSE IF second.kind = "sealed" THEN second ELSE [kind |-> "error"]
  /\ UNCHANGED <<limits, kind, written, col, src, blocks, out>>
=============================================================================
