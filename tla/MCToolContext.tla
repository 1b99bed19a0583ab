--------------------------- MODULE MCToolContext ---------------------------
(***************************************************************************)
(* Small instances of ToolContext.  The sizes keep the order of the real    *)
(* ones: a fixed body (30) is below the reserve (32), a marker, an image    *)
(* note and a summary are a few times that, the reserve of a call (1024)    *)
(* larger, and the text budget (at least 16384) holds several of them.      *)
(***************************************************************************)
EXTENDS ToolContext

Roomy == [text |-> 60, args |-> 6, exchanges |-> 3, image |-> 6, slots |-> 2, deletes |-> TRUE,
          sized |-> TRUE, encoded |-> 400, ceiling |-> 400, retained |-> 500, canonical |-> 600,
          executor |-> 70]

RunnerConfigs ==
  {Roomy,
   [Roomy EXCEPT !.encoded = 90, !.exchanges = 2],                     \* contracts, deletes
   [Roomy EXCEPT !.encoded = 60, !.text = 30],                         \* gives up the newest results
   [Roomy EXCEPT !.encoded = 80, !.deletes = FALSE, !.exchanges = 2],
   [Roomy EXCEPT !.sized = FALSE, !.deletes = FALSE, !.exchanges = 2, !.slots = -1],
   [Roomy EXCEPT !.retained = 60, !.canonical = 70, !.slots = 0],      \* run budgets nearly spent
   [Roomy EXCEPT !.text = 15, !.sized = FALSE, !.exchanges = 2, !.slots = 1],  \* summary against reserves
   [Roomy EXCEPT !.args = 2], [Roomy EXCEPT !.ceiling = 31],
   [Roomy EXCEPT !.encoded = 45]}                          \* refused at once

Calls == {<<1>>, <<2, 1, 1>>}

Result(err, body) == [err |-> err, body |-> body]
ResultBodies ==
  {Result(FALSE, <<Text(1, 0)>>),
   Result(TRUE, <<Text(9, 9)>>),
   Result(FALSE, <<Text(0, 8), Image(4, TRUE), Image(3, FALSE), Text(12, 0)>>)}
=============================================================================
