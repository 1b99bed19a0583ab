------------------------------ MODULE ReadTool ------------------------------
(***************************************************************************)
(* The read tool (core/tools/builtin/read.go, cursor.go): it scans a text   *)
(* file, writes the wanted lines to a Prefix collector one rune at a time,  *)
(* and hands out a cursor to continue from.  A model reads a long file      *)
(* through several calls, while the file may be edited or replaced and the  *)
(* program restarted between them.                                          *)
(*                                                                          *)
(* A file is a sequence of runes: "a" (ASCII), "n" (newline), "w" (two      *)
(* bytes).                                                                  *)
(***************************************************************************)
EXTENDS ToolOutput

CONSTANTS
  Files,       \* the contents a file may have at first
  Edits,       \* the contents an edit may give it
  LineLimits,  \* the "lines" argument
  MaxEpochs    \* bound on the edits, replacements and restarts

ASSUME FileConstants == Files \cup Edits \subseteq Seq({"a", "n", "w"})

VARIABLES
  file,    \* [text, identity, epoch]: epoch only bounds the model
  keyID,   \* the key of this process's cursor codec
  cursor,  \* the continuation the model holds, or NoCursor
  chain    \* what the reads of this chain returned

readVars == <<file, keyID, cursor, chain>>

NoCursor == [none |-> TRUE]
Width(rune) == IF rune = "w" THEN 2 ELSE 1
Offset(text, k) == SumOf([i \in 1..k |-> Width(text[i])])  \* after k runes
Idle == [state |-> "idle", got |-> <<>>, text |-> <<>>, start |-> 0]

(***************************************************************************)
(* The scan: start at the cursor's offset, or at the line asked for, and    *)
(* stop writing after lineLimit lines.                                      *)
(***************************************************************************)
Newlines(text, from, to) == {k \in from..to : text[k] = "n"}

\* The number of runes before the start, or -1 when there is no such place.
StartAtOffset(text, offset) ==
  LET at == {k \in 0..Len(text) : Offset(text, k) = offset}
  IN IF at = {} THEN -1 ELSE Min(at)

StartAtLine(text, line) ==
  LET at == {k \in 0..(Len(text) - 1) : Cardinality(Newlines(text, 1, k)) = line - 1}
  IN IF at = {} THEN -1 ELSE Min(at)

\* The last rune written: the lineLimit-th newline from the start, or the end.
LastWritten(text, start, lines) ==
  LET stops == {k \in Newlines(text, start + 1, Len(text)) :
                  Cardinality(Newlines(text, start + 1, k)) = lines}
  IN IF stops = {} THEN Len(text) ELSE Min(stops)

\* One Write per rune.
WriteRune(c, rune) ==
  ConsumeRaw(c, IF rune = "w" THEN <<"l", "c">> ELSE <<"a">>)

CollectText(text, start, last) ==
  PreparePrefix(FoldLeft(WriteRune, NewTextCollector(limits, "prefix"),
                         SubSeq(text, start + 1, last)))

NextOffset(c, startOffset, writtenEnd) ==
  IF Truncated(c) THEN startOffset + KeptLogicalBytes(c) ELSE writtenEnd

NextLine(text, start, startLine, bytes) ==
  startLine + Cardinality({k \in Newlines(text, start + 1, Len(text)) :
                             Offset(text, k) - Offset(text, start) <= bytes})

(***************************************************************************)
(* readText: the stale-cursor refusals, the page, and the next cursor.      *)
(***************************************************************************)
Fail == /\ chain' = [chain EXCEPT !.state = "failed"]
        /\ cursor' = NoCursor

\* Mutant: the digest of the content is not compared.
StaleUnlessSameFile(c) == c.key # keyID \/ c.identity # file.identity

Stale(c) == \/ c.key # keyID                       \* errCursorStale
            \/ c.identity # file.identity
            \/ c.content # file.text

\* One page of the chain ch; a page with more to come but no progress fails.
Page(ch, start, line, lines) ==
  LET text == file.text
      last == LastWritten(text, start, lines)
      c == CollectText(text, start, last)
      next == NextOffset(c, Offset(text, start), Offset(text, last))
      more == next < Offset(text, Len(text))
      page == [i \in DOMAIN c.window |-> <<start + c.window[i], text[start + c.window[i]]>>]
  IN IF more /\ next <= Offset(text, start) THEN Fail
     ELSE /\ chain' = [ch EXCEPT !.state = IF more THEN "more" ELSE "done", !.got = @ \o page]
          /\ cursor' = IF ~more THEN NoCursor
                       ELSE [key |-> keyID, identity |-> file.identity, content |-> text,
                             offset |-> next, lines |-> lines,
                             line |-> NextLine(text, start, line, next - Offset(text, start))]

\* A first call, from a line.  The chain remembers the text it began with.
ReadFromLine ==
  /\ kind = "read" /\ chain.state = "idle"
  /\ \E line \in 1..2, lines \in LineLimits :
       LET start == StartAtLine(file.text, line)
       IN IF start < 0 THEN Fail
          ELSE Page([chain EXCEPT !.text = file.text, !.start = start], start, line, lines)
  /\ UNCHANGED <<file, keyID, outputVars>>

\* A further call with the cursor.
ReadFromCursor ==
  /\ kind = "read" /\ chain.state = "more"
  /\ LET start == StartAtOffset(file.text, cursor.offset)
     IN IF Stale(cursor) \/ start < 0 THEN Fail
        ELSE Page(chain, start, cursor.line, cursor.lines)
  /\ UNCHANGED <<file, keyID, outputVars>>

(***************************************************************************)
(* The environment, between two calls: the file is edited in place, or      *)
(* replaced by another (a rename gives it a new identity), or the program   *)
(* restarts with a new cursor key.  A change during a call that moves the   *)
(* size, the time or the identity of the file is seen by targetChanged and  *)
(* fails the call, as ReadChanged does.  One that moves none of them is not *)
(* seen: the call then reads some text, digests what it read (readText, the *)
(* TeeReader) and goes on, as if the file had been edited to that text      *)
(* before the call and again after it; two edits of EditFile stand for it.  *)
(***************************************************************************)
EditFile ==
  /\ chain.state = "more" /\ file.epoch < MaxEpochs
  /\ \E text \in Edits, replaced \in BOOLEAN :
       file' = [text |-> text, epoch |-> file.epoch + 1,
                identity |-> IF replaced THEN file.identity + 1 ELSE file.identity]
  /\ UNCHANGED <<keyID, cursor, chain, outputVars>>

ReadChanged ==
  /\ kind = "read" /\ chain.state \in {"idle", "more"} /\ file.epoch < MaxEpochs
  /\ \E text \in Edits : file' = [file EXCEPT !.text = text, !.epoch = @ + 1]
  /\ Fail
  /\ UNCHANGED <<keyID, outputVars>>

Restart ==
  /\ chain.state = "more" /\ file.epoch < MaxEpochs
  /\ keyID' = keyID + 1
  /\ file' = [file EXCEPT !.epoch = @ + 1]
  /\ UNCHANGED <<cursor, chain, outputVars>>

(***************************************************************************)
(* The specification: one tool call of some kind, or one chain of reads.    *)
(***************************************************************************)
Init ==
  /\ limits \in Limits
  /\ kind \in {"prefix", "headTail", "group", "blocks", "read"}
  /\ written = 0
  /\ col = NewTextCollector(limits, IF kind = "prefix" THEN "prefix" ELSE "headTail")
  /\ src = NewTextCollectorGroup(limits, Sources).src
  /\ blocks = <<>> /\ out = None /\ result = None
  /\ keyID = 1 /\ cursor = NoCursor /\ chain = Idle
  /\ file \in [text : IF kind = "read" THEN Files ELSE {<<>>}, identity : {1}, epoch : {0}]

Next ==
  \/ Write /\ UNCHANGED readVars
  \/ WriteSource /\ UNCHANGED readVars
  \/ Prepare /\ UNCHANGED readVars
  \/ Output /\ UNCHANGED readVars
  \/ GroupOutput /\ UNCHANGED readVars
  \/ ReturnBlocks /\ UNCHANGED readVars
  \/ EditCollected /\ UNCHANGED readVars
  \/ FinalizeCall /\ UNCHANGED readVars
  \/ AdaptToolOutput /\ UNCHANGED readVars
  \/ ReadFromLine \/ ReadFromCursor \/ EditFile \/ ReadChanged \/ Restart

Spec == Init /\ [][Next]_<<outputVars, readVars>>

(***************************************************************************)
(* Properties.                                                              *)
(***************************************************************************)
\* What a call may fail for: the tool broke the contract (an empty content, a
\* sealed output reused, a collector's output edited), or returned an image.
MayFail ==
  IF kind = "blocks"
    THEN out.kind = "sealed" \/ blocks = <<>> \/ \E i \in DOMAIN blocks : blocks[i].image
    ELSE out.edited

\* What a call delivers is within its limits, and no limit outcome is left to the
\* run loop: a tool that keeps the contract and returns no image never fails,
\* whatever the limits.  One that returns an image may: adaptToolOutput makes an
\* error of a limit when neither the texts for the refused images nor the
\* manifest fit (output.go finalize, batch.go runCall, tool.go adaptToolOutput).
DeliveredWithinLimits ==
  /\ result.kind = "sealed" => /\ result.kept <= limits.framed
                               /\ result.text <= limits.text
  /\ result.kind # "limit"
  /\ result.kind = "error" => MayFail

\* A collector whose call is large enough for a trailer and a marker never
\* gives its text up for the budget error: the reservation of NewTextCollector
\* covers every metadata it accepts (collector.go Output).
CollectorNeverDiscards ==
  (out.kind = "budget" /\ limits.text >= Reservation + MarkerBytes
     /\ limits.framed >= SingleTextFrameSize(Reservation + MarkerBytes))
    => \A m \in Metas : m > MaxMetaBytes \/ ~OverLimit(RenderedBytes(col, m), limits)

EndsOf(c, n) ==
  \E k \in 0..n : \E j \in k..n : c.window = Positions(1, k) \o Positions(j + 1, n)

\* A window is a part of the stream in its order, without repetition, its head
\* is a prefix of the stream, and a plain HeadTail window is a prefix and a
\* suffix of it with nothing missing inside either (appendHeadTail,
\* partitionRecords, trimRecordTail).
HeadAndTailKept ==
  LET n == Len(col.stream)
  IN /\ kind \in {"headTail", "group"} =>
          /\ KeptLogicalBytes(col) <= col.budget
          /\ SubSeq(col.window, 1, col.head) = Positions(1, col.head)
          /\ \A i \in 1..(Len(col.window) - 1) : col.window[i] < col.window[i + 1]
          /\ ~col.omitted => Len(col.window) = n
     /\ kind = "headTail" => EndsOf(col, n)

CollectedStats ==
  /\ ~out.edited
  /\ result.truncated <=> Len(col.window) < Len(col.stream)

\* An image the tool returned stands as a text in what was last finalized.
Adapted == \E i \in DOMAIN blocks \cap DOMAIN result.of :
             blocks[i].image /\ ~result.of[i].image

BlockStats ==
  LET s == Stream(result.of)
      t == Stream(result.blocks)
  IN /\ result.of \in {blocks, BudgetBlocks} \/ Adapted
     /\ ~result.truncated => result.blocks = result.of
     /\ result.truncated =>
          \E k \in 0..Len(s) : \E j \in k..Len(s) :
            t = SubSeq(s, 1, k) \o Marker \o SubSeq(s, j + 1, Len(s))

\* What the executor says of an output is true of what it was made from.  Of a
\* collector's: nothing a tool changed after it is vouched for, and it is marked
\* truncated exactly when something written is missing.  Of content blocks: they
\* were made from the tool's content, from the budget error that stands for it, or,
\* and then only, from content in which an image of the tool's was replaced;
\* unmarked they are the whole of it, marked their texts are a head, the marker and
\* a tail of its texts (truncateBlocks, applyKeep, verifyReceipt).  After images
\* were replaced the mark no longer speaks of the tool's content: a first
\* truncation is not remembered (tool.go:71-87, output.go:52-66, 116-121).
StatsTruthful ==
  result.kind = "sealed" => IF out.kind = "collected" THEN CollectedStats ELSE BlockStats

Wanted == [i \in 1..(Len(chain.text) - chain.start) |->
             <<chain.start + i, chain.text[chain.start + i]>>]
PagesContiguous ==
  /\ IsPrefix(chain.got, Wanted)
  /\ chain.state = "done" => chain.got = Wanted
Ascii(text) == \A i \in DOMAIN text : text[i] # "w"

\* Following the cursors of an ASCII file returns, from the line asked for, the
\* runes of the text the first call saw, each once and in order, and all of them
\* when no cursor is left, whatever happens to the file and the process in
\* between (readText, the cursor's identity, content and key).
AsciiPagesReassemble == Ascii(chain.text) => PagesContiguous

\* The same of any file: a Prefix collector "keeps a leading prefix and reserves
\* a stable continuation boundary" (collector.go, CollectorMode), and the pages
\* of a file with wider runes are built from it.
PagesReassemble == PagesContiguous
=============================================================================
