-------------------------------- MODULE MCHttpApi -------------------------------
(* Scenarios for HttpApi: t1 and t2 are turns, c1 and c2 other clients.        *)
EXTENDS HttpApi

CONSTANTS t1, t2, c1, c2

Stored(n) == [Fresh(1) EXCEPT !.msgs = [i \in 1 .. n |-> c1]]

\* The kinds of t1, t2, c1 and c2, the IDs they name, and the lengths of the
\* transcripts 1 to 4 (-1: no such session).  The record of 2, where it exists,
\* cannot be read.
Scenario(k, ids, lengths) ==
  [job |-> [c \in Clients |->
              [kind |-> k[CASE c = t1 -> 1 [] c = t2 -> 2 [] c = c1 -> 3 [] c = c2 -> 4],
               ids |-> ids]],
   saved |-> [id \in IDs |-> IF lengths[id] < 0 THEN Absent ELSE Stored(lengths[id])]]

MCScenarios ==
  { \* two runs and one permit; the second does not find its session
    [Scenario(<<"run", "run", "none", "none">>, {1}, <<0, -1, -1, -1>>)
       EXCEPT !.job[t2].ids = {3}],
    \* a run against another turn, and against deletion and re-creation
    Scenario(<<"run", "send", "none", "none">>, {1}, <<0, -1, -1, -1>>),
    Scenario(<<"run", "none", "delete", "create">>, {1}, <<0, -1, -1, -1>>),
    \* listings while sessions come and go
    Scenario(<<"none", "none", "list", "delete">>, {1, 3, 4}, <<0, 0, 0, 0>>),
    Scenario(<<"none", "none", "list", "fork">>, {1, 3, 4}, <<0, -1, -1, 0>>),
    \* paging through a transcript that grows, disappears or is patched
    Scenario(<<"send", "none", "detail", "delete">>, {1}, <<2, -1, -1, -1>>),
    Scenario(<<"none", "none", "detail", "patch">>, {1}, <<3, -1, -1, -1>>) }
================================================================================
