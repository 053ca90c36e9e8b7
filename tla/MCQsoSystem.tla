------------------------------ MODULE MCQsoSystem ------------------------------
(***************************************************************************)
(* Constants for checking QsoSystem with TLC.                              *)
(***************************************************************************)
EXTENDS QsoSystem

CONSTANTS a, b, x, r    \* model values: two calls, one contest, one rest

AllCalls    == {a, b}
OneContest  == {x}
OneRest     == {r}

OneDraft == {[f \in Field |-> CASE f = "call" -> a
                                [] f = "contest" -> x
                                [] f = "rest" -> r
                                [] f = "is_void" -> FALSE]}

OnePatch == {[g \in {"call"} |-> b]}

(* One client logs and may shut the log down, the other one does a bit of  *)
(* everything else.  Every call may be a mutation, so the bounds on ids    *)
(* and sequence numbers have to admit as many.                             *)
Inserts  == {InsertCmd(q) : q \in OneDraft}
Edits    == {PatchCmd(1, p) : p \in OnePatch}
Plain(K) == {[cmd |-> k] : k \in K}

TwoClients    == {"c1", "c2"}
SomeRequests  == [c \in TwoClients |-> IF c = "c1" THEN Inserts \cup Plain({"shutdown"})
                                       ELSE Edits \cup Plain({"read", "flush"})]
SomeCalls     == [c \in TwoClients |-> IF c = "c1" THEN 2 ELSE 1]

(* The queue to the worker holds one message and every insert triggers a   *)
(* checkpoint.                                                             *)
InMemory ==
  [sink |-> TRUE, ack_mode |-> "InMemory", flush_on_insert |-> FALSE,
   batch_max_ops |-> 2, persist_queue_bound |-> 1,
   snapshot_every_ops |-> 1, compact_after_snapshot |-> FALSE]

Durable == [InMemory EXCEPT !.ack_mode = "Durable"]

BothModes == {InMemory, Durable}

==============================================================================
