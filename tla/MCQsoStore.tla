------------------------------ MODULE MCQsoStore ------------------------------
(***************************************************************************)
(* Constants for checking QsoStore with TLC.                               *)
(***************************************************************************)
EXTENDS QsoStore

CONSTANTS a, b, x, y, r    \* model values: two calls, two contests, one rest

AllCalls    == {a, b}
AllContests == {x, y}
OneRest     == {r}

Qso(c, t, v) == [f \in Field |-> CASE f = "call" -> c
                                   [] f = "contest" -> t
                                   [] f = "rest" -> r
                                   [] f = "is_void" -> v]

(* Drafts with default flags, as every caller in the repository builds.    *)
PlainDrafts == {Qso(a, x, FALSE), Qso(b, x, FALSE)}

Some1(f, v) == [g \in {f} |-> v]

(* Patches that move a record in one index, in both, or set the void flag. *)
SomePatches == {Some1("call", a), Some1("call", b), Some1("is_void", TRUE),
                [g \in {"call", "contest"} |-> IF g = "call" THEN b ELSE y]}

==============================================================================
