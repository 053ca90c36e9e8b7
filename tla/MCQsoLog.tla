------------------------------- MODULE MCQsoLog -------------------------------
(***************************************************************************)
(* Constants for checking QsoLog with TLC.                                 *)
(***************************************************************************)
EXTENDS QsoLog

CONSTANTS a, b, x, r    \* model values: two calls, one contest, one rest

AllCalls    == {a, b}
OneContest  == {x}
OneRest     == {r}

Qso(c) == [f \in Field |-> CASE f = "call" -> c
                             [] f = "contest" -> x
                             [] f = "rest" -> r
                             [] f = "is_void" -> FALSE]

OneDraft == {Qso(a)}

OnePatch == {[g \in {"call"} |-> b]}

(* Batches of two; a snapshot every two inserts, followed by compaction.   *)
InMemory ==
  [sink |-> TRUE, ack_mode |-> "InMemory", flush_on_insert |-> FALSE,
   batch_max_ops |-> 2, persist_queue_bound |-> 2,
   snapshot_every_ops |-> 2, compact_after_snapshot |-> TRUE]

Durable == [InMemory EXCEPT !.ack_mode = "Durable", !.persist_queue_bound = 1]

NoSink == [InMemory EXCEPT !.sink = FALSE]

(* The default RuntimeConfig, with small numbers.                          *)
Default == [InMemory EXCEPT !.flush_on_insert = TRUE, !.compact_after_snapshot = FALSE]

NoSnapshots(c) == [c EXCEPT !.flush_on_insert = TRUE, !.snapshot_every_ops = 0]

AllModes      == {InMemory, Durable, NoSink, Default}
SinkModes     == {InMemory, Durable}
OnlyDefault   == {Default}
OnlyInMemory  == {NoSnapshots(InMemory)}
OnlyDurable   == {NoSnapshots(Durable)}
OnlyBatched   == {InMemory}

==============================================================================
