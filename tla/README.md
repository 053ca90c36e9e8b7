# Verification of qsolog

TLA+ models of the `qsolog` crate, the TLC runs that check them on small instances, and
proofs for every instance, checked by TLAPS: the invariants of the store, of the running log
with its worker and journal, of recovery from the journal, of its callers, of opening a file, of
the projector and of the abstract durable log, and that the running log implements the latter.
Paths are relative to the repository root.

## 1. The system

qsolog keeps a log of radio contacts (QSOs). One task owns the store and handles commands one
at a time; a second task writes the operations the store emits to an SQLite journal in
batches; a log is opened again by loading the latest snapshot and replaying the events after
it.

| Component | State | Operations | Talks to |
|---|---|---|---|
| In-memory store, `src/core/store.rs` | records, canonical order and positions, two secondary indices, undo and redo stacks, emitted operations, two counters | insert, patch, void, undo, redo, replay, export/restore snapshot, checkpoint/rollback of one mutation | called by the loop and by `load_store` |
| Records, patches, operations, `src/qso.rs`, `src/op.rs` | values | apply a patch, capture its inverse | used by the store and the journal |
| Handle, `QsoLogHandle` in `src/runtime/handle.rs` | a sender of the command channel | one method per command; clone, drop | commands to the loop (bounded mpsc), answers by oneshot |
| Runtime loop, `spawn_qsolog` and `handle_command` in `src/runtime/handle.rs` | the store, the count towards the next checkpoint, `PersistenceState` | one handler per command; the `select!` branch that reads batch results | commands from handles (mpsc), messages to the worker (bounded mpsc, `try_send` for operations and `send().await` for the rest), answers by oneshot, batch results by an unbounded channel, events by broadcast |
| Persistence worker, `spawn_persistence_worker`, `flush_buf` | buffer, deadline, last durable sequence number | receive, deadline, flush, checkpoint, shutdown | the sink, in blocking tasks |
| SQLite sink, `src/persist/sqlite.rs` | tables `events`, `snapshots`, `meta` | open, append, flush, snapshot, compact, load | the file |
| Events, `src/runtime/events.rs` | – | `DurableUpTo`, `PersistenceError`, ... | subscribers |
| Contest-engine projector, `src/engine/` | per-QSO results, totals, dependency links | project an operation incrementally | reads the store |

What makes it correct:

- *Store*: order is insertion order for ever; indices list exactly the matching records in that
  order; undo and redo always apply; a rejected mutation leaves no trace; replaying the emitted
  operations gives the same store.
- *Loop and worker*: nothing accepted disappears silently; `DurableUpTo` and a Durable
  acknowledgement mean what they say; memory and the accepted operations agree; every command
  is answered; every batch is written in the end.
- *Handle*: a caller is told Ok exactly if its mutation is in the log; every call returns.
- *Journal*: a crash at any moment recovers a prefix of the accepted operations; an orderly
  stop recovers all of them; a checkpoint makes recovery exact; what was vouched for survives a
  power failure; a file whose opening was interrupted can be opened later.
- *Projector*: incremental results are those of a full evaluation.

What is hard to test: the worker's deadline and messages race; sink failures hit a batch whose
operations were accepted long ago; a failing batch and a later successful one are reported
through a channel the loop reads in arbitrary order with commands; a full queue is noticed
after the store was changed; the process dies between two database calls; callers give up while
their command is queued; the projector sees a store that is ahead of it. `PROJECT.json`
lists these as hazards with the line each one bites at.

## 2. Modules

| Module | What it is |
|---|---|
| `QsoStoreOps` | the store as operators on a store value: one operator per function of `core/store.rs` that changes state, patches from `qso.rs`, operations from `op.rs` |
| `QsoStore` | the store as a component: actions for the API calls, for a mutation that is rolled back, for draining emitted operations into a journal (replayed by `replica`) and for saving and restoring a snapshot |
| `QsoStoreOpsProofs` | lemmas about the store's operators: what each preserves, what a replay computes, what undo and redo return to |
| `QsoStoreProofs` | theorems about `QsoStore` |
| `SqliteJournal` | the tables `events` and `snapshots` as operators on a database value: append, snapshot, compact, load |
| `QsoLog` | the running system: loop, bounded queue, worker, database, crash, power failure and reopening; uses `QsoStoreOps` inside the loop and `SqliteJournal` behind the worker |
| `QsoLogProofs` | lemmas about the operators of `SqliteJournal`; theorems about `QsoLog` on its types, on who may send what when, and on where the accepted operations are |
| `QsoLogStoreProofs` | theorems about `QsoLog` on the store in it: what is in memory, what is loaded from the journal, and that `DurableLog` is implemented |
| `DurableLog` | what `QsoLog` promises, abstractly; `QsoLog!Abstract` is the refinement mapping |
| `DurableLogProofs` | theorem about `DurableLog` |
| `QsoSystem` | callers and the command channel in front of `QsoLog`: its actions take those of `QsoLog` and add the answer to the caller |
| `QsoSystemProofs` | theorems about `QsoSystem` |
| `Projector` | the incremental projector over a store, with the engine as a parameter |
| `ProjectorProofs` | theorems about `Projector` |
| `EngineLaws` | what an engine has to satisfy for the projector to be right; the hypothesis of a theorem |
| `ToyEngine` | the engine of `tests/engine_incremental.rs`, and why it is lawful |
| `SqliteOpen` | opening a database file statement by statement |
| `SqliteOpenProofs` | theorems about `SqliteOpen` |
| `MC...` | model values, configurations and input sets for TLC |

### State and actions of `QsoStore`

`store` has the fields of `struct QsoStore`. A record keeps `call`, `contest` (the indexed
fields), `is_void` and one field `rest` for everything that is only copied; a patch is a
function on the fields that are `Some`. An index key missing from its hash map is the empty
sequence. Positions count from 1. Timestamps are left out.

`InsertQso`, `PatchQso`, `VoidQso`, `UndoLast` and `RedoLast` are the five mutations, each the
whole call: counters, record, order, both indices, stacks and the emitted operation.
`PatchMissing` is the error return that has already consumed a sequence number. `RejectMutation`
is what `handle_command` does to the store when persisting fails: checkpoint, mutate, clear the
buffer, roll back. It is one step because no other task sees the store in between.
`RejectedCmds` says which mutations may be rejected: the passing run and the theorem about
rejection exclude undo and redo, for which the property is false (findings below).

### State and actions of `QsoLog`

The two tasks interleave at their awaits. The loop (`rt.pc`) is *idle*, waits for room in the
queue (*send*), waits for a oneshot answer (*await*), or has *stopped*; the rest of a handler is
one step. The worker (`wk.pc`) takes a message in one step (`Receive`, or `DeadlineExpires`,
`QueueClosed`), and completes each blocking sink call in another (`FlushBuf`, `WriteSnapshot`,
`CompactThrough`), so a crash can fall between any two of them. `AfterFlush` is what each
branch does with the result of `flush_buf`: an operation and a deadline discard it, Flush
returns it, Checkpoint stops at an error, Shutdown ignores it.

- `Perform` is a mutating command: the health check, the store call, `try_send`, and either
  acceptance (`Accept`, with the automatic checkpoint for inserts), the rollback because the
  queue is full, or the start of the Durable flush.
- `ObserveDurable` is the `select!` branch on batch results. It updates `PersistenceState`; the
  result of a failed batch carries the set of lost operations as a history value, so that
  `reported` can say which losses were announced.
- `SinkFaults` chooses which calls may fail: `append` (transaction undone), `panic` (join error:
  the sink panics before or after the commit), `flush` (after the commit), `snapshot`, `compact`.
  `MaxFaults` bounds how often.
- A spawned log without a sink (`config.sink = FALSE`) has no worker: mutations are accepted at
  once and Flush, Checkpoint and Shutdown are answered at once.
- `Reopen` ends the process at any moment and starts the log again with `load_store`; only the
  database is left. If `load_store` fails, the state is *unloadable*.
- `accepted`, `reported` and `promised` are history variables: operations answered Ok, losses
  announced, and operations that a Durable answer, `flush()`, `checkpoint()` or `shutdown()`
  vouched for (`promised` outlives the process).

*Power failure.* The sink uses WAL with `synchronous=NORMAL`: a committed transaction survives the
process, but the WAL is synced only by a checkpoint, which is what `flush()` asks for
(`PRAGMA wal_checkpoint(PASSIVE)`; with the sink's single connection nothing keeps it from
completing). `stable` is the set of databases a power failure may leave: a commit adds one
(`Commits`), a checkpoint leaves only the newest (`Syncs`), and `Reopen` picks any. The deadline's
flush is the only one that commits without a checkpoint; snapshots and compactions are not synced
either. With `PowerLoss = FALSE`, `stable` is `{db}`.

### State and actions of `QsoSystem`

`cmds` is the command channel followed by the senders waiting for room (tokio serves them in
order). `Take` is `handle_command` up to its first suspension, `Suspended` and `Resume` are the
rest, and the answer goes to the caller in the step in which the handler ends; `Answer` finds
nobody when the caller has cancelled or made another call. `CloseChannel` is the end of the loop's
task: the commands left in the channel are dropped, and their callers get `ChannelClosed`.
`owner` is a history variable: which call each accepted operation belongs to.

### The abstract durable log

`DurableLog` has a log of operations, those *pending* on their way to disk, those *saved*, those
whose loss was *told*, and the number announced by `DurableUpTo`. An operation leaves `pending`
only by being saved, told or withdrawn with an error to its caller; saved operations are never
taken away; durability is announced only over operations saved or told before; a crash leaves the
saved ones in their order. The mapping: the log is what was accepted plus the Durable mutation in
flight; pending is what sits in the queue, in the worker's buffer, or as a loss in an unread batch
result; saved is what the events table or the snapshot covers. "Saved" says that the operation is
in the file; that `load_store` can always use it is a different matter, see `v_load`.

### State and actions of `Projector` and `SqliteOpen`

`Project` is `apply_stored_op` on the oldest operation not yet projected, with the store as it is
by then; `MutateStore` moves the store on. The dependency index is a relation, the repeated
recomputation a recursion over as many turns as could be needed: each but the last impacts one
QSO more, and `ReconcileEnds` proves that the bound cuts nothing off. `shown` remembers the record each result was made from, `misled` whether a retract was ever
given another one.

In `SqliteOpen` an opener is the list of SQL statements it still has to execute; each is committed
on its own, as the code uses no transaction there. `Crash` ends an attempt between two statements,
for the death of the process and for a statement that fails alike.

## 3. Runs

All bounds are guards on counters: `MaxQsos` ids, `MaxOps` sequence numbers, `MaxFaults` failing
sink calls, `MaxReopens` reopenings.

| Run | Configuration | What it shows |
|---|---|---|
| `store` | 3 QSOs, 4 operations, 2 calls, 2 contests | order, indices, stacks, replay and round trip hold after every sequence of operations, rejections, drains and restores |
| `clean` | InMemory, Durable, default and sinkless configurations; insert, patch, undo, redo; 3 operations; one reopening after a crash or power failure; no faults | memory matches what was accepted; a crash or power failure anywhere recovers a prefix, which after a mere crash includes all that `DurableUpTo` announced; whatever was vouched for survives; an orderly stop recovers everything |
| `faults` | InMemory and Durable; insert, void; 3 operations; 2 faults of append/snapshot/compact; one reopening | the system implements `DurableLog`; nothing is dropped without an error; `DurableUpTo` skips only announced losses; memory and journal hold nothing that was taken back; an Ok checkpoint makes recovery exact, whatever was lost before it; a failed Durable log stays closed until it is opened again |
| `system` | two clients, three calls of insert, shutdown, patch, read, flush; command channel of 1, worker queue of 1, automatic checkpoint at every insert; one fault of append/panic/flush/snapshot | answers agree with the log whoever cancels; every call returns; accepted operations leave queue and buffer, and their loss is read unless the loop stops first |
| `projector` | 3 QSOs, 5 operations, up to 3 waiting | results, engine state and dependency links equal a full evaluation; retracts get the record they were applied with while the projector keeps up |
| `open` | two openers, two interruptions, six kinds of file | an opened file is complete; a newer file is refused with its rows intact; every other file opens in the end |

Why the bounds are enough for what they are meant to show: three QSOs and four operations let an
index entry lose its middle element and get it back, an insert be rolled back and its id used again, and
an undo be redone after a drain. In `QsoLog`, a queue of 1 or 2 fills while the worker is busy; a
batch of 2 can be full, half full when the deadline comes, or empty when a Flush arrives; three
operations are enough for a lost batch followed by a good one, or for a snapshot with an event on
either side; two faults are enough for a checkpoint that fails after a lost batch; one reopening is
enough to see what a crash left, and operations after it run on the loaded store. In `QsoSystem` a
channel of 1 with two clients has one command handled, one queued and one caller waiting for room.
Three QSOs let one patch take a QSO away from a second, whose duplicate or multiplier it was, and
bring it to a third, which is found only in a later round of the recomputation. Model values are not declared
symmetric: the state spaces are small, and liveness could not use symmetry soundly. Deadlock is
not checked where the system really stops (shutdown, the last opener done, no operation left
under the bound); `EveryCallReturns`, `AcceptedOpsSettle` and `EventuallyOpen` say what must not
get stuck.

**Fairness.** `QsoSystem`: weak fairness of the loop's task, of the worker's task and of the
deadline: tokio schedules both tasks, the sink's blocking calls return, and the timer fires once
armed. Strong fairness of reading batch results: commands may arrive for ever, and
`tokio::select!` without `biased` picks at random among its ready branches, so a waiting result is
read in the end. Callers owe nothing: there is no fairness on calls, cancellations, dropped handles
or faults. `SqliteOpen`: an opener goes on, and a caller whose open was interrupted tries again.

## 4. Findings

Each is a run that TLC refutes; `PROJECT.json` quotes the contradicted line.

| Run | What the counterexample shows |
|---|---|
| `v_durable_ack` | the insert's own flush (`flush_on_insert`) fails and is discarded; the Flush of the empty buffer answers Ok: a Durable acknowledgement of an operation that was never written |
| `v_durable_up_to` | `DurableUpTo` passes over a lost batch |
| `v_load` | lost insert, journaled void of the same QSO: `load_store` fails with MissingQso and the log cannot be opened |
| `v_shutdown` | the final flush fails, `shutdown()` answers Ok, the error is never read |
| `v_auto` | only inserts count towards `snapshot_every_ops` |
| `v_log` | a rejected undo loses its stack entry (truncation cannot put back what a pop took); two rejected undos in a row change the visible log |

Three more things the model shows have no run of their own. The loss behind `v_durable_ack` also
happens without `flush_on_insert`, when the batch deadline fires between an operation and its
Flush. A join error in `flush_buf` (fault `panic`) before the commit loses a batch without any
PersistenceError; after the commit, a Durable operation is rolled back in memory and stays in the
journal. A draft with `is_void` set is not restored by undo and redo, because the inverse of an
insert is always `Void { prev_is_void: false }`.

Because of these, the passing properties are stated for the part of the system where they hold:
`PromisesSurvive` while appends succeed, `NothingSilentlyDropped` and `ImplementsDurableLog` without
join errors and without a sink flush that fails after its commit, `UndoRedoRoundTrip` for drafts with default flags, and `RejectionKeepsLog` for insert, patch and
void. `JournalOnlyAccepted` is checked without a sink `flush` that fails after the commit (such an
operation is rolled back in memory and stays in the journal; nothing in the repository says it may
not). `RetractsAsApplied` is stated for a projector that keeps up with the store; the results agree
even when it does not, because the engine of the tests retracts by dependency keys (`StateLaw`).

## 5. Proofs

Every theorem holds for all values of the constants that satisfy the named assumptions; TLC
evaluates these on every run.

### The store (`QsoStoreProofs`)

For every set of calls, contests and remaining values, all drafts and patches of those types, and
any bounds:

- `StoreInvariant`: `Spec => []Inv(store)`, the inductive invariant;
- `TypeCorrect`, `OrderStaysConsistent`, `IndicesStayConsistent`, `StacksStayApplicable`: the
  invariants of the `store` run, which follow from it;
- `OrderIsCanonical`: the action property that no step, a rolled back insert included, moves or
  drops an id;
- `RejectionKeepsTheLog`: rolling back an insert, patch or void restores records, order, positions
  and indices exactly. Its assumption excludes undo and redo, see `v_log`;
- `JournalDeterminesStore`: replaying the journal, however long, gives the store again. It has the
  same assumption, since after two rejected undos the store is not what its journal says;
- `UndoAndRedoAreInverse`: undoing everything and redoing it, and the other way round, gives back
  the same records. Besides that assumption it needs drafts that are not born void: TLC finds a
  counterexample with a void draft, and one with a rejected undo.

*The inductive invariant.* None of the first four invariants is inductive alone. Moving a record
between index entries with `insert_id_ordered` lands in the right slot only if the entry is sorted
by position and positions are injective, so the indices need the order; undo and redo stay
applicable only if the stacks carry well-typed patches of existing records, which needs types; and
rolling back an insert takes a record away, which is harmless only because it is the newest one and
the stacks it pushed to are truncated. `Inv` is the conjunction of types, `CoreOK` (order,
positions and both indices relative to the records and the next id) and `StacksOK`. The lemmas
follow the code: `CoreInsert`, `PatchInPlaceCore`, `SetVoidCore` for the three in-place changes,
lemmas on `InsertIdOrdered`, `Retain` and `UpdateIndex` for index entries, and one lemma each for
restoring a snapshot and for rolling back. `RejectionKeepsTheLog` and `JournalDeterminesStore` rest
on the fact that an index entry is *determined* by its records and positions, so leaving it and
coming back, or building it up again, gives the same sequence.

`UndoAndRedoAreInverse` needs history: the stacks hold inverses of operations long gone. Its
invariant (`OnLine`) says that there is a line of record states `H[0..n+m]`, n and m the heights of
the two stacks, with the records of now at n, such that each entry of the undo stack, applied where
it stands, leads one step down and each entry of the redo stack one step up (`Line`). A mutation
cuts the line above and adds one state, an undo or redo moves along it, and a rejected mutation
leaves it as it was, cut above (the push cleared the redo stack, and nothing puts it back). The key
lemma is `InverseLeadsBack`: the entry a step pushes leads back to where the step came from. For a
Void that is true only if the flag it names is the flag the record has (`Leads`), which is where the
assumptions come in.

Replay is a recursive function, and the library's induction rules cannot be used here. Facts about
it are proved by a least counterexample instead: the set of lengths for which the fact fails is a set
of naturals; if it is not empty it has a least element (`LeastNatural`, from the library's fact
that `<` is well founded), and one unfolding of the function contradicts it.

### The running log, whatever fails (`QsoLogProofs`)

`ShapeInvariant`, for every configuration, every set of commands and every fault: `ShapeInv` is the
types of all variables and `Flow`, which says where the one open question to the worker is: none
is open, or it is the last message in the queue, or the worker has taken it up, or its answer is
there and nothing is left in queue and buffer. Without `Flow` the types are not inductive: that the
queue never exceeds its bound and that an answer finds somebody waiting depends on the loop having
only one question open. From it:

- `LogTypeCorrect`: `TypeOK` of the runs;
- `UnhealthyForGood`: a Durable log whose persistence failed stays closed until it is opened again.

### The operations between loop and disk (`QsoLogProofs`)

Under `ErrorsReturned` (no join errors and no sink flush that fails after its commit: with these
the properties are false, section 4):

- `DataInvariant`: `Spec => []DataInv`;
- `NoSilentDrop`: every accepted operation is journaled, on its way, or its loss was or will be
  announced (`README.md:57`);
- `DurableUpToIsHonest`: `DurableUpTo(n)` covers every accepted operation up to n but those whose
  loss was announced before;
- `JournalHoldsOnlyAccepted`: nothing that was rolled back is ever in the journal.

Under `NoBatchFails` (appends succeed too): `PromisesAreKept`, what a Durable answer, `flush()`,
`checkpoint()` or `shutdown()` vouched for is in every database a power failure may leave.

`DataInv` has seven parts, each needed by the next. `NumbersInv`: accepted operations are numbered
in order below the store's next number, and so is everything a batch result, an event or a snapshot
reached; the next number after a rollback is still new. `PipelineInv`: what is in queue and buffer
is applied, in order, and past everything reached, so that a batch never conflicts with the journal
and raises the numbers reached in order. `AloneInv`: in Durable mode the mutation in flight is alone
on its way, and if its answer is an error nothing of it was written; this makes the rollback safe.
`SnapshotInv`: a snapshot on its way is of the store as it is now, so compaction behind it removes
only what it covers. `EventsInv`: what a database holds beyond its snapshot was applied, and the
newest database covers all the others. `AccountInv` is `NothingSilentlyDropped` for the applied
operations, and `CoverInv` is `DurableUpToHonest`, also for batch results still to be read: a loss
they pass over is announced by a result in front of them. `PromiseInv` adds for `PromisesAreKept`
that no result is a loss, and that once the worker answers Ok all applied operations are in every
database of `stable`.

### Memory, recovery and the refinement (`QsoLogStoreProofs`)

These look inside the store in the loop and at what `load_store` makes of a database.

| Theorem | Hypotheses | Property |
|---|---|---|
| `LogStoreInvariant` | `ErrorsReturned` | the inductive invariant `LogStoreInv` |
| `CheckpointIsExact` | `ErrorsReturned` | `CheckpointMakesRecoveryExact` |
| `LogImplementsDurableLog` | `ErrorsReturned`, no power failure, every configuration with a sink | `ImplementsDurableLog` |
| `MemoryIsWhatWasAccepted` | `ErrorsReturned`, `RollbackExact` | `MemoryMatchesAccepted` |
| `RecoveryGivesPrefix` | `NoBatchFails`, `RollbackExact` | `RecoveryIsPrefix` |
| `StopLosesNothing` | `NoBatchFails`, `RollbackExact` | `StopKeepsEverything` |

`RollbackExact` says that callers do not undo and redo, or that nobody voids a QSO otherwise (no
`void`, no draft or patch with the flag): a rejected undo or redo is taken back wrongly as soon as a
Void on the stacks can name a flag the record does not have (`v_log`). The runs `clean` and
`faults` each satisfy it, `clean` by the second part and `faults` by the first. `NoBatchFails` is
needed because a lost batch is a hole that recovery cannot know of (`v_load`). The refinement
leaves out power failure, since after one the abstract log would have to give up saved operations
(what survives one is `PromisesAreKept` and `RecoveryGivesPrefix`), and logs without a sink, in
which nothing is ever saved.

*`LogStoreInv`.* While a Durable mutation is in flight the store holds an operation that may be
taken back, so the invariant speaks of two stores: the one in memory and `Held`, what it would be
after the rollback; both satisfy the invariant of `QsoStoreProofs` (`HeldInv`). `IdsInv` says that
ids are given out in the order of sequence numbers and that a snapshot has seen as many of the ones
as of the others; without it a replayed insert might meet its own id in the snapshot. `SnapshotsInv`:
every database restores to a sound store. `UnderWayInv`: a snapshot on its way is still
`export_snapshot()` of the store, from which `CheckpointIsExact` follows together with `EventsInv`.

*The refinement.* `ToldInv` rules out that a loss announced for one operation is taken for the loss
of a later one: a rollback gives a sequence number back, and two operations may then have the same
number; but after a failed flush nothing is added before a later batch made persistence healthy
again. With it, `DataInv` and `LogStoreInv`, each action of `QsoLog` maps to one step of
`DurableLog` or to a stutter: a mutation that reaches the queue adds an operation, a committed batch
saves it (and so does a snapshot, for what an earlier batch lost), a batch result that is read tells
its losses or announces durability, a rejected Durable mutation withdraws its operation, `Reopen` is
a crash, and the rest (receiving, compaction, answers) leaves the abstract state alone.

*`MemInv`*: the store, and `Held`, look like a replay of the applied and of the accepted operations,
and every snapshot like a replay of those it covers. The lemmas on replay are those of the store:
two stores with the same visible part stay so under the same operation. *`RecoverInv`* adds, when no
batch fails, that `load_store` never fails, that what is missing in a database comes after all that
is there (`PrefixInv`), and that a worker that has gone left nothing behind (`StopInv`).

### The callers (`QsoSystemProofs`)

For any clients, requests, channel bound and faults:

- `SystemIsLog`: `SysSpec => Spec`, the loop and the worker behind any callers take only steps of
  `QsoLog`, so all of the above holds of the whole system;
- `AnswersMatch`: a caller is told Ok exactly if its mutation is in the log, and no command is
  executed twice. The inductive invariant `SysInv` says of commands in the channel that none is there
  twice, none was executed, and a caller that still waits is the one who sent it; of the command
  the loop is busy with, that its operation is in the log exactly if only the automatic checkpoint
  is left; and of the owners of operations in the log, that one who still waits for an answer waits
  for that checkpoint.

### Opening a file (`SqliteOpenProofs`)

For any number of openers and interruptions and all files of `FilesAssumption` (what this and older
releases write, what an interrupted open leaves, and files of newer releases): `OpenInvariant`,
`OpenedFilesAreComplete` and `NewerFilesAreLeftAlone`. The invariant `IInv` says that whatever a
file lacks is among the statements that each opener still has to execute, so it does not matter who
executes them; that the branch on the schema version comes last in the first list; and that on a
newer file an opener is refused before it reaches a statement that writes a row.

### The abstract log (`DurableLogProofs`)

`NothingIsLost`: every behaviour of `DurableLog`, for every set of operations, keeps each operation
pending, saved or told, keeps nothing saved that is not in the log, and announces durability only
over saved or told operations. The inductive invariant adds that sequence numbers in the log
increase: without it an operation that is withdrawn might occur a second time in the log and would
be taken off `pending` for both.

### The projector (`ProjectorProofs`)

The engine is a parameter. Three theorems hold for every engine, and for every set of drafts and
patches:

- `ReconcileEnds`: the loop of `incremental_reconcile` ends within as many turns as the store has
  QSOs, and one. Each turn but the last impacts a QSO that was not impacted before, and impacted
  QSOs are in the store or are the changed one;
- `ProjectorTypeCorrect`: `TypeOK`. The invariant `ProjInv` adds the store's own invariant, and that
  each link of the dependency index belongs to a result the projector holds: without this a turn
  could impact an id that is not in the store;
- `RetractsGetWhatWasApplied`: while the projector keeps up, each retract gets the record its result
  was made from. `apply_stored_op` rebuilds the old record from the operation, and for a Void it sets
  the flag the Void names; that this was the record's flag is again the line of the store's undo and
  redo stacks, so `FaithInv` contains `Line`. Drafts must not be born void: with one that is, six
  operations (insert, void, undo, undo, redo, redo) give a retract a record that was never applied.

`IncrementalIsFull`, `ProjectionMatchesRecompute`, cannot hold for every engine, and the trait
(`src/engine/traits.rs`) states no laws. `EngineLaws` states some that are enough (`LawfulEngine`):

- the state is a tally of who holds which dependency key: apply adds the keys of its QSO, retract
  takes those of the result away, whatever record it is given (`StateLaw`);
- a result depends on the keys of its QSO and is determined by what it has seen of each of them
  (`ResultLaw`), which in turn depends only on who holds the key;
- `diff_invalidation` names each key that only one of two results depends on, and each of which they
  have seen different things (`DiffLaw`).

That the engine of the tests satisfies them is an assumption of `MCProjector`, which TLC evaluates
over all tallies of the instance. The laws are sufficient; they are not claimed to be necessary.

The argument: after every turn of `incremental_reconcile`, for each key, either nothing about it has
changed since the operation (the same QSOs hold it and have seen the same), or all that hold it are
impacted (`TurnWell`). For a key that a turn does not report the laws give the first, for one that it
reports the dependents give the second. When no further QSO is impacted, a key of the first kind is
as right as it was, and for one of the second kind all its holders have just been evaluated in
canonical order, so each result has seen the QSOs in front of its own and no other (`Right`). Results
that are right for the same records are the same (`RightIsUnique`), and those of a full evaluation
are right. `MatchInv` says that the results are right for the records they were *made from*
(`shown`), and that an operation still waits for each QSO whose record is another by now; this is what
makes a projector that lags behind the store arrive at the same result.

### Only model-checked

Liveness (`EveryCallReturns`, `AcceptedOpsSettle`, `EventuallyOpen`): fairness is out of the prover's
reach. Every invariant, action property and refinement of the passing runs is a theorem, under the
hypotheses named above.

## 6. Plan

All that was planned is done: the store, the running system, the callers, power failure, the
abstract durable log and its refinement, the projector, opening a file, and the proofs of section
5. What could follow: `MemoryMatchesAccepted` with undo, redo and void together, once the rollback
of an undo restores its stack entry (`v_log`).

## 7. Not modelled

- The broadcast channel of events with its lagging subscribers: nothing in the program depends on
  who hears an event. What `DurableUpTo` and `PersistenceError` report is state of `QsoLog`.
- The data reads return (they change nothing; what they can see is `Visible`) and the lock around
  `PersistenceState`, which is held for one assignment or copy.
- Payload envelopes and their format versions, `latest_seq` (the runtime never asks for it).
- Callers that hand `spawn_qsolog` a store with emitted operations still in its buffer, or an empty
  store together with a database that has events.
- Other connections to the database while the log runs.
- Overflow of the `u64` counters: out of reach of any run of the program.
- Timestamps, error texts, serialization formats, shared types, benchmarks.
