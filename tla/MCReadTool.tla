----------------------------- MODULE MCReadTool -----------------------------
EXTENDS ReadTool

\* The last is below the collector's reservation: its body budget is 0.
CallLimits == {[text |-> 15, framed |-> 22, blocks |-> 3, image |-> 4],
               [text |-> 10, framed |-> 15, blocks |-> 3, image |-> 4],
               [text |-> 9, framed |-> 12, blocks |-> 3, image |-> 4],
               [text |-> 4, framed |-> 7, blocks |-> 2, image |-> 2]}

Texts == {Text(<<>>), Text(<<1, 2, 1>>), Text(<<2, 2, 2>>), Text(<<1, 1, 2, 1, 2, 2, 1>>)}
Images == {Image(1), Image(3)}
Lists == {<<>>} \cup UNION {[1..n -> Texts \cup Images] : n \in 1..2}
           \cup {<<t, Image(3), u>> : t, u \in Texts} \cup {<<Image(1), t, Image(3)>> : t \in Texts}

Contents == UNION {[1..n -> {"a", "n", "w"}] : n \in 0..5}
Edited == {<<"n", "a">>, <<"a", "n", "a", "a", "n", "a">>}
=============================================================================
