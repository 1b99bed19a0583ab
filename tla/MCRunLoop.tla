------------------------------- MODULE MCRunLoop -------------------------------
(***************************************************************************)
(* Instances of RunLoop.  The limits are small enough for every stop       *)
(* reason to be reached: three turns of at most two calls, of which two    *)
(* are allowed; usages at and above the token limit, together more than    *)
(* the counter holds; two steps in a row that may be identical.            *)
(***************************************************************************)
EXTENDS RunLoop

AnyUsage == {0, 2, 3}

OneOrTwo == {1, 2}

Steps == {"same", "other"}

EveryChoice == {"auto", "none", "required"}

AutoOnly == {"auto"}
================================================================================
