--------------------------- MODULE MCModelStream ---------------------------
EXTENDS ModelStream

A == <<"a">>
O == <<"{">>
C == <<"}">>

MCHard == [eventBytes |-> 4, turnBytes |-> 14, events |-> 9, candidates |-> 2,
           parts |-> 2, metadata |-> 1, tools |-> 1]

Zero == [f \in LimitFields |-> 0]
MCConfigured == {Zero, [Zero EXCEPT !.eventBytes = 3, !.turnBytes = 2]}

Chunk(c, slot, name, text, finish) ==
    [type |-> "chunk", choice |-> c, slot |-> slot, name |-> name, text |-> text,
     finish |-> finish]

ChatWires ==
    {Chunk(0, "text", FALSE, A, ""), Chunk(1, "refusal", FALSE, A, ""),
     Chunk(0, "tool0", TRUE, <<>>, ""), Chunk(0, "tool0", FALSE, O, ""),
     Chunk(0, "tool0", FALSE, C, ""), Chunk(0, "tool1", TRUE, Braces, ""),
     Chunk(0, "none", FALSE, <<>>, "stop"), Chunk(0, "text", FALSE, A, "stop"),
     [type |-> "done"], [type |-> "usage"], [type |-> "error"]}

Block(i, kind, text) == [type |-> "block", index |-> i, kind |-> kind, text |-> text]
Delta(i, kind, text) == [type |-> "delta", index |-> i, kind |-> kind, text |-> text]
Plain(t) == [type |-> t, index |-> 0, kind |-> "", text |-> <<>>, finish |-> "stop",
             output |-> <<>>]

AnthropicWires ==
    {Plain(t) : t \in {"start", "stop", "finish", "done", "error"}} \cup
    {Block(0, "text", A), Block(0, "reasoning", <<>>), Block(0, "tool", <<>>),
     Block(1, "tool", Braces), Block(1, "redacted", <<>>),
     Delta(0, "text", A), Delta(0, "reasoning", A), Delta(0, "signature", <<>>),
     Delta(0, "tool", Braces), [Plain("stop") EXCEPT !.index = 1]}

Text(t) == [kind |-> "text", text |-> t]
Call    == [kind |-> "tool", text |-> Braces]
Thought(t) == [kind |-> "reasoning", text |-> t]

Wire(t, kind, i, text) == [Plain(t) EXCEPT !.kind = kind, !.index = i, !.text = text]

ResponsesWires ==
    {Plain(t) : t \in {"start", "failed"}} \cup
    {Wire("added", "text", 0, <<>>), Wire("added", "reasoning", 1, A),
     Wire("delta", "text", 0, A), Wire("done", "text", 0, A),
     Wire("done", "text", 0, A \o A), Wire("item", "tool", 1, <<>>),
     Wire("delta", "tool", 1, O), Wire("done", "tool", 1, Braces),
     Wire("itemDone", "tool", 1, <<>>)} \cup
    {[Plain("completed") EXCEPT !.output = o] :
        o \in {<<>>, <<Text(A)>>, <<Text(A \o A)>>, <<Call>>, <<Text(A), Call>>,
               <<Thought(A)>>, <<Thought(A), Text(A \o A)>>}}

Piece(kind, text, signed) == [kind |-> kind, text |-> text, signed |-> signed]
GoogleChunk(c, parts, finish) ==
    [type |-> "chunk", candidate |-> c, parts |-> parts, finish |-> finish]

GoogleWires ==
    {GoogleChunk(0, <<Piece("text", A, FALSE)>>, ""),
     GoogleChunk(0, <<Piece("text", <<>>, TRUE)>>, "stop"),
     GoogleChunk(0, <<Piece("reasoning", A, FALSE)>>, ""),
     GoogleChunk(0, <<Piece("text", A, FALSE), Piece("text", A, FALSE)>>, ""),
     GoogleChunk(0, <<Piece("tool", Braces, FALSE)>>, "stop"),
     GoogleChunk(0, <<Piece("tool", O, FALSE)>>, ""),
     GoogleChunk(0, <<Piece("signature", <<>>, TRUE)>>, ""),
     GoogleChunk(1, <<Piece("text", A, TRUE)>>, "length"),
     GoogleChunk(1, <<>>, ""), GoogleChunk(-1, <<>>, ""),
     [GoogleChunk(-1, <<>>, "") EXCEPT !.type = "blocked"],
     [GoogleChunk(-1, <<>>, "") EXCEPT !.type = "error"]}

AnyWires ==
    {ResponseStart, PartStart(0, 0, "text"), PartStart(0, 1, "tool"),
     PartStart(1, 0, "link"), PartStart(0, 0, "result"), PartDelta(0, 0, "text", A),
     PartDelta(0, 1, "tool", Braces), PartDelta(1, 0, "text", A),
     PartDelta(0, 0, "text", <<Garbled>>), PartEnd(0, 0), PartEnd(0, 1), PartEnd(1, 0), PartStart(0, 2, "image"),
     ResponseEnd(<<>>, 0), [ResponseEnd(<<>>, 0) EXCEPT !.provider = "other"],
     ResponseEnd(<<[candidate |-> 1, reason |-> "stop", state |-> <<>>]>>, 1)}

MCWires(p) ==
    CASE p = "chat"      -> ChatWires
      [] p = "anthropic" -> AnthropicWires
      [] p = "responses" -> ResponsesWires
      [] p = "google"    -> GoogleWires
      [] p = "any"       -> AnyWires
      [] OTHER           -> {}

MCMaxWires(p) ==
    CASE p = "anthropic" -> 7 [] p \in {"responses", "any"} -> 6 [] p = "chat" -> 5
      [] p = "google" -> 4    [] OTHER -> 0

MCAnswers == {<<>>, ChatDecode(<<Text(<<>>), Text(A), [kind |-> "tool", text |-> <<>>]>>),
              AnthropicDecode(<<Text(<<>>), Thought(<<>>)>>), <<Call, Call>>}
=============================================================================
