------------------------------ MODULE MCProjector ------------------------------
(***************************************************************************)
(* Constants for checking Projector with the engine of the tests.          *)
(***************************************************************************)
EXTENDS ToyEngine

CONSTANTS a, b, c, x, r, s    \* model values: calls, contest, bands

AllCalls   == {a, b, c}
OneContest == {x}
TwoRests   == {r, s}

TwoPrefixes == [k \in AllCalls |-> IF k = c THEN 2 ELSE 1]

Qso(k) == [f \in Field |-> CASE f = "call" -> k
                             [] f = "contest" -> x
                             [] f = "rest" -> r
                             [] f = "is_void" -> FALSE]

SomeDrafts == {Qso(a), Qso(c)}

SomePatches == {[g \in {"call"} |-> a], [g \in {"call"} |-> b], [g \in {"rest"} |-> s]}

(* The hypothesis of the theorem on ProjectionMatchesRecompute, for the    *)
(* engine of the tests.                                                    *)
ASSUME ToyEngineIsLawful == LawfulEngine

==============================================================================
