-------------------------------- MODULE QsoLog --------------------------------
(***************************************************************************)
(* The running system (runtime/handle.rs with persist/sqlite.rs): the      *)
(* single-writer loop of spawn_qsolog, the persistence worker it talks to  *)
(* over a bounded queue, the SQLite journal behind the worker, and the     *)
(* process being stopped or killed and opened again from the journal.      *)
(*                                                                         *)
(* The two tasks interleave at their awaits.  The loop suspends while a    *)
(* message waits for room in the queue ("send") and while it waits for the *)
(* worker's oneshot answer ("await"); everything else a handler does is    *)
(* one step.  The worker takes a message in one step and finishes each     *)
(* blocking sink call in another.                                          *)
(*                                                                         *)
(* Abstractions: the callers and their channel are QsoSystem's; broadcast   *)
(* events other than the ones that change PersistenceState, error texts    *)
(* and timestamps are left out; the deadline is a timer that may fire whenever the buffer *)
(* is not empty.  A committed SQLite transaction survives the process; it  *)
(* survives a power failure once the WAL was synced, which under           *)
(* synchronous=NORMAL only a WAL checkpoint does, and a power failure      *)
(* takes the newest transactions first.                                    *)
(***************************************************************************)
EXTENDS SqliteJournal

CONSTANTS
  Drafts, Patches,       \* inputs of insert and patch
  Cmds,                  \* kinds of mutation the callers issue
  Configs,               \* the ways spawn_qsolog is called
  SinkFaults,            \* sink calls that may fail
  PowerLoss,             \* whether the machine may lose power
  MaxQsos, MaxOps,       \* bounds: ids and sequence numbers
  MaxFaults,             \* bound: failing sink calls
  MaxReopens             \* bound: times the log is opened again

(* RuntimeConfig, with `sink` telling whether spawn_qsolog gets one.       *)
RuntimeConfig ==
  [sink : BOOLEAN, ack_mode : {"InMemory", "Durable"}, flush_on_insert : BOOLEAN,
   batch_max_ops : Nat \ {0}, persist_queue_bound : Nat \ {0},
   snapshot_every_ops : Nat, compact_after_snapshot : BOOLEAN]

ASSUME LogInputsAssumption ==
  /\ Drafts \subseteq QsoRecord
  /\ Patches \subseteq QsoPatch
  /\ Cmds \subseteq {"insert", "patch", "void", "undo", "redo"}
ASSUME ConfigAssumption == \A c \in Configs : c \in RuntimeConfig
ASSUME FaultsAssumption ==
  /\ SinkFaults \subseteq {"append", "panic", "flush", "snapshot", "compact"}
  /\ PowerLoss \in BOOLEAN
  /\ {MaxQsos, MaxOps, MaxFaults, MaxReopens} \subseteq Nat

VARIABLES
  config,    \* the RuntimeConfig, never changed
  store,     \* the QsoStore owned by the loop
  rt,        \* the loop: pc, and the command it is busy with
  health,    \* PersistenceState
  ops_since_snapshot,
  queue,     \* persist_tx / persist_rx: bounded channel of PersistMsg
  reply,     \* the oneshot of the message being answered
  durable,   \* durable_tx / durable_rx: unbounded channel of batch results
  wk,        \* the worker: pc, message in hand, buf and last_durable
  db,        \* the database file: events and latest snapshot
  stable,    \* the databases a power failure may leave, db among them
  accepted,  \* history: operations answered with Ok, in order
  reported,  \* history: operations whose loss a PersistenceError announced
  promised,  \* history: operations a Durable answer, flush(), checkpoint()
             \* or shutdown() vouched for, in this life or an earlier one
  faults, reopens

loopVars   == <<store, rt, health, ops_since_snapshot, accepted, reported, promised>>
workerVars == <<wk, db, stable, faults>>
vars == <<config, loopVars, queue, reply, durable, workerVars, reopens>>

None == "none"

------------------------------------------------------------------------------
(* Messages and configuration                                              *)

OpMsg(stored)  == [t |-> "Op", stored |-> stored]
FlushMsg       == [t |-> "Flush"]
CheckpointMsg(s) == [t |-> "Checkpoint", snapshot |-> ExportSnapshot(s)]
ShutdownMsg    == [t |-> "Shutdown"]
TimerMsg       == [t |-> "Timer"]    \* not sent: the deadline expired
ClosedMsg      == [t |-> "Closed"]   \* not sent: recv() returned None
NoMsg          == [t |-> None]

Idle == [pc |-> "idle"]

Stopped(by) == [pc |-> "stopped", by |-> by]

NewWorker == [pc |-> "recv", msg |-> NoMsg, buf |-> << >>, last_durable |-> 0]

NoWorker == [NewWorker EXCEPT !.pc = "dead"]

NewHealth == [is_healthy |-> TRUE, last_durable_seq |-> 0]

Init ==
  /\ config \in Configs
  /\ store = NewStore /\ rt = Idle /\ health = NewHealth
  /\ ops_since_snapshot = 0
  /\ queue = << >> /\ reply = None /\ durable = << >>
  /\ wk = (IF config.sink THEN NewWorker ELSE NoWorker)
  /\ db = EmptyDb /\ stable = {EmptyDb}
  /\ accepted = << >> /\ reported = {} /\ promised = {}
  /\ faults = 0 /\ reopens = 0

------------------------------------------------------------------------------
(* The single-writer loop                                                  *)

Acknowledged == ToSet(accepted)

EnsureMutationAllowed == config.ack_mode = "Durable" => health.is_healthy

MarkPersistUnhealthy == health' = [health EXCEPT !.is_healthy = FALSE]

(* Mutant: the queue is taken to have room.                                *)
RoomAlways == TRUE

RoomInQueue == Len(queue) < config.persist_queue_bound

(* The tail of a handler whose mutation was persisted: only inserts count  *)
(* towards the next automatic checkpoint.                                  *)
Accept(stored) ==
  LET n == IF stored.op.type = "Insert" THEN ops_since_snapshot + 1 ELSE ops_since_snapshot
      checkpoints == /\ stored.op.type = "Insert"
                     /\ config.snapshot_every_ops # 0 /\ n >= config.snapshot_every_ops
                     /\ config.sink
  IN  /\ accepted' = Append(accepted, stored)
      /\ promised' = IF config.sink /\ config.ack_mode = "Durable"
                     THEN promised \cup {stored} ELSE promised
      /\ ops_since_snapshot' = n
      /\ rt' = IF checkpoints THEN [pc |-> "send", job |-> "auto"] ELSE Idle

(* persist_after_mutation without a sink.                                  *)
NotPersisted(stored) ==
  /\ ~config.sink
  /\ Accept(stored)
  /\ UNCHANGED <<queue, health>>

(* enqueue_persist finds the queue full.                                   *)
QueueFull ==
  /\ config.sink /\ ~RoomInQueue
  /\ MarkPersistUnhealthy
  /\ UNCHANGED <<queue, rt, accepted, promised, ops_since_snapshot>>

Enqueued(stored) ==
  /\ config.sink /\ RoomInQueue
  /\ queue' = Append(queue, OpMsg(stored))
  /\ UNCHANGED health
  /\ \/ /\ config.ack_mode = "InMemory"
        /\ Accept(stored)
     \/ /\ config.ack_mode = "Durable"
        /\ rt' = [pc |-> "send", job |-> "mutation", stored |-> stored,
                  checkpoint |-> MutationCheckpoint(store)]
        /\ UNCHANGED <<accepted, promised, ops_since_snapshot>>

(* A mutating command: ensure_mutation_allowed, the store call, the        *)
(* cleared buffer, try_send of the operation, and the rollback if that     *)
(* fails.                                                                  *)
Perform(m) ==
  LET applied == ClearPendingOps(Mutate(store, m))
      stored  == StoredFor(store, m)
  IN
  /\ rt.pc = "idle"
  /\ EnsureMutationAllowed
  /\ store.next_op_seq <= MaxOps
  /\ m.cmd = "insert" => store.next_qso_id <= MaxQsos
  /\ Succeeds(store, m)
  /\ \/ /\ NotPersisted(stored) \/ Enqueued(stored)
        /\ store' = applied
     \/ /\ QueueFull
        /\ store' = RollbackMutation(applied, MutationCheckpoint(store), stored)
  /\ UNCHANGED <<reply, durable, reported, workerVars, config, reopens>>

(* A patch of an unknown id answers MissingQso and keeps its sequence      *)
(* number; every other error leaves no trace.                              *)
PatchMissing(m) ==
  /\ rt.pc = "idle"
  /\ EnsureMutationAllowed
  /\ store.next_op_seq <= MaxOps
  /\ m.cmd = "patch" /\ ~Succeeds(store, m)
  /\ store' = FailedStore(store, m)
  /\ UNCHANGED <<rt, health, ops_since_snapshot, accepted, reported, promised>>
  /\ UNCHANGED <<queue, reply, durable, workerVars, config, reopens>>

(* Command::Flush, Checkpoint and Shutdown have a message to send, or are  *)
(* answered at once when there is no sink.                                 *)
Control(job) ==
  /\ rt.pc = "idle"
  /\ rt' = IF config.sink THEN [pc |-> "send", job |-> job]
           ELSE IF job = "shutdown" THEN Stopped("shutdown") ELSE Idle
  /\ UNCHANGED <<store, health, ops_since_snapshot, accepted, reported, promised>>
  /\ UNCHANGED <<queue, reply, durable, workerVars, config, reopens>>

MessageFor(job) ==
  CASE job \in {"mutation", "flush"}  -> FlushMsg
    [] job \in {"checkpoint", "auto"} -> CheckpointMsg(store)
    [] job = "shutdown"               -> ShutdownMsg

(* tx.send(..).await: waits for room.                                      *)
SendToWorker ==
  /\ rt.pc = "send"
  /\ RoomInQueue
  /\ queue' = Append(queue, MessageFor(rt.job))
  /\ rt' = [rt EXCEPT !.pc = "await"]
  /\ UNCHANGED <<store, health, ops_since_snapshot, accepted, reported, promised>>
  /\ UNCHANGED <<reply, durable, workerVars, config, reopens>>

(* The answer of a Durable mutation's flush: accept it, or mark            *)
(* persistence unhealthy and roll the mutation back.                       *)
MutationAnswer ==
  /\ rt.job = "mutation"
  /\ \/ /\ reply = "ok"
        /\ Accept(rt.stored)
        /\ UNCHANGED <<store, health>>
     \/ /\ reply = "err"
        /\ MarkPersistUnhealthy
        /\ store' = RollbackMutation(store, rt.checkpoint, rt.stored)
        /\ rt' = Idle
        /\ UNCHANGED <<accepted, promised, ops_since_snapshot>>

(* Mutant: a flush that succeeds makes persistence healthy again.          *)
ControlAnswerHeals ==
  /\ rt.job # "mutation"
  /\ rt' = IF rt.job = "shutdown" THEN Stopped("shutdown") ELSE Idle
  /\ ops_since_snapshot' = IF rt.job = "auto" THEN 0 ELSE ops_since_snapshot
  /\ promised' = IF reply = "ok" /\ rt.job # "auto" THEN promised \cup Acknowledged ELSE promised
  /\ health' = IF reply = "ok" THEN [health EXCEPT !.is_healthy = TRUE] ELSE health
  /\ UNCHANGED <<store, accepted>>

(* The other answers are only passed on.  The automatic checkpoint resets  *)
(* its counter whatever the answer was; Shutdown leaves the loop.          *)
ControlAnswer ==
  /\ rt.job # "mutation"
  /\ rt' = IF rt.job = "shutdown" THEN Stopped("shutdown") ELSE Idle
  /\ ops_since_snapshot' = IF rt.job = "auto" THEN 0 ELSE ops_since_snapshot
  /\ promised' = IF reply = "ok" /\ rt.job # "auto" THEN promised \cup Acknowledged ELSE promised
  /\ UNCHANGED <<store, health, accepted>>

AwaitReply ==
  /\ rt.pc = "await" /\ reply # None
  /\ reply' = None
  /\ MutationAnswer \/ ControlAnswer
  /\ UNCHANGED <<queue, durable, reported, workerVars, config, reopens>>

(* Mutant: the other results waiting on the channel are thrown away.       *)
ForgetResults(results) == << >>

(* durable_rx is read one result at a time.                                *)
LaterResults(results) == Tail(results)

(* The select! branch on durable_rx, in any order with the commands.       *)
ObserveDurable ==
  /\ rt.pc = "idle" /\ durable # << >>
  /\ durable' = LaterResults(durable)
  /\ LET d == Head(durable)
     IN  \/ /\ d.ok
            /\ health' = [is_healthy |-> TRUE,
                          last_durable_seq |-> MaxOf(health.last_durable_seq, d.seq)]
            /\ UNCHANGED reported
         \/ /\ ~d.ok
            /\ MarkPersistUnhealthy
            /\ reported' = reported \cup d.lost
  /\ UNCHANGED <<store, rt, ops_since_snapshot, accepted, promised>>
  /\ UNCHANGED <<queue, reply, workerVars, config, reopens>>

(* cmd_rx.recv() returns None: the last handle was dropped.                *)
DropHandles ==
  /\ rt.pc = "idle"
  /\ rt' = Stopped("drop")
  /\ UNCHANGED <<store, health, ops_since_snapshot, accepted, reported, promised>>
  /\ UNCHANGED <<queue, reply, durable, workerVars, config, reopens>>

------------------------------------------------------------------------------
(* The persistence worker                                                  *)

FlushNow(msg, buf) ==
  \/ msg.t # "Op"
  \/ Len(buf) >= config.batch_max_ops
  \/ config.flush_on_insert /\ msg.stored.op.type = "Insert"

Receive ==
  /\ wk.pc = "recv" /\ queue # << >>
  /\ queue' = Tail(queue)
  /\ LET msg == Head(queue)
         buf == IF msg.t = "Op" THEN Append(wk.buf, msg.stored) ELSE wk.buf
     IN  wk' = IF FlushNow(msg, buf)
               THEN [wk EXCEPT !.buf = buf, !.pc = "flush", !.msg = msg]
               ELSE [wk EXCEPT !.buf = buf]
  /\ UNCHANGED <<loopVars, reply, durable, db, stable, faults, config, reopens>>

(* The other two ways into flush_buf: the deadline, and a closed queue.    *)
Wake(msg) ==
  /\ wk.pc = "recv"
  /\ wk' = [wk EXCEPT !.pc = "flush", !.msg = msg]
  /\ UNCHANGED <<loopVars, queue, reply, durable, db, stable, faults, config, reopens>>

(* Mutant: nothing wakes a worker with a half-full batch.                  *)
DeadlineNever == FALSE /\ Wake(TimerMsg)

DeadlineExpires == wk.buf # << >> /\ Wake(TimerMsg)

(* Mutant: the worker leaves without a last flush.                         *)
QueueClosedNoFlush ==
  /\ queue = << >> /\ rt.pc = "stopped" /\ wk.pc = "recv"
  /\ wk' = [wk EXCEPT !.pc = "dead", !.buf = << >>]
  /\ UNCHANGED <<loopVars, queue, reply, durable, db, stable, faults, config, reopens>>

QueueClosed == queue = << >> /\ rt.pc = "stopped" /\ Wake(ClosedMsg)

Fault(f) == f \in SinkFaults /\ faults < MaxFaults /\ faults' = faults + 1

(* A transaction that commits makes d the database; whether a power        *)
(* failure can take it back depends on a WAL checkpoint after it.          *)
Commits(d) == db' = d /\ stable' = IF PowerLoss THEN stable \cup {d} ELSE {d}

Syncs(d) == db' = d /\ stable' = {d}

(* Mutant: an empty buffer leaves flush_buf before the sink is called.     *)
CallsFlushWithOps == wk.msg.t # "Timer" /\ wk.buf # << >>

(* call_flush: every flush_buf but the deadline's ends with sink.flush().  *)
CallsFlush == wk.msg.t # "Timer"

(* What the worker does with the result of flush_buf: an Op or a deadline  *)
(* discards it, Flush sends it back, Checkpoint stops at an error, and     *)
(* Shutdown and a closed queue end the worker.                             *)
ReplyTo(t, ok) ==
  CASE t = "Flush"               -> IF ok THEN "ok" ELSE "err"
    [] t = "Checkpoint" /\ ~ok   -> "err"
    [] t = "Shutdown"            -> "ok"
    [] OTHER                     -> reply

PcAfter(t, ok) ==
  CASE t = "Checkpoint" /\ ok         -> "snapshot"
    [] t \in {"Shutdown", "Closed"}   -> "dead"
    [] OTHER                          -> "recv"

WorkerAfter(ok, last_durable, buf) ==
  wk' = [wk EXCEPT !.buf = buf,
                   !.last_durable = last_durable,
                   !.msg = IF wk.msg.t = "Checkpoint" /\ ok THEN @ ELSE NoMsg,
                   !.pc = PcAfter(wk.msg.t, ok)]

(* Mutant: a failed batch is kept for the next attempt.                    *)
AfterFlushRetries(ok, last_durable) ==
  /\ WorkerAfter(ok, last_durable, IF ok THEN << >> ELSE wk.buf)
  /\ reply' = ReplyTo(wk.msg.t, ok)

(* Mutant: a failed flush is not answered.                                 *)
AfterFlushSilent(ok, last_durable) ==
  /\ WorkerAfter(ok, last_durable, << >>)
  /\ reply' = IF ok THEN ReplyTo(wk.msg.t, ok) ELSE reply

(* buf was taken before the sink was called.                               *)
AfterFlush(ok, last_durable) ==
  /\ WorkerAfter(ok, last_durable, << >>)
  /\ reply' = ReplyTo(wk.msg.t, ok)

FlushSucceeds ==
  LET reached == MaxOf(wk.last_durable, Last(wk.buf).seq)
      d == AppendOps(db, wk.buf)
  IN
  /\ ~Conflicts(db, wk.buf)
  /\ UNCHANGED faults
  /\ IF CallsFlush THEN Syncs(d) ELSE Commits(d)
  /\ \/ /\ wk.buf = << >>
        /\ UNCHANGED durable
        /\ AfterFlush(TRUE, wk.last_durable)
     \/ /\ wk.buf # << >>
        /\ durable' = Append(durable, [ok |-> TRUE, seq |-> reached])
        /\ AfterFlush(TRUE, reached)

(* Mutant: the failure is only logged.                                     *)
AppendFailsQuietly ==
  /\ wk.buf # << >>
  /\ Fault("append")
  /\ UNCHANGED <<db, stable, durable>>
  /\ AfterFlush(FALSE, wk.last_durable)

(* append_ops fails: the transaction is undone and the batch is gone.      *)
AppendFails ==
  /\ wk.buf # << >>
  /\ Fault("append") \/ (Conflicts(db, wk.buf) /\ UNCHANGED faults)
  /\ durable' = Append(durable, [ok |-> FALSE, lost |-> ToSet(wk.buf)])
  /\ UNCHANGED <<db, stable>>
  /\ AfterFlush(FALSE, wk.last_durable)

(* The blocking task panics, in append_ops or, once the batch is          *)
(* committed, in sink.flush(): the join error leaves flush_buf before it   *)
(* says anything on the durable channel.                                   *)
SinkPanics ==
  /\ wk.buf # << >> \/ CallsFlush
  /\ Fault("panic")
  /\ \/ UNCHANGED <<db, stable>>
     \/ CallsFlush /\ ~Conflicts(db, wk.buf) /\ Commits(AppendOps(db, wk.buf))
  /\ UNCHANGED durable
  /\ AfterFlush(FALSE, wk.last_durable)

(* sink.flush() fails; a batch it follows is already committed.            *)
SinkFlushFails ==
  /\ CallsFlush
  /\ ~Conflicts(db, wk.buf)
  /\ Fault("flush")
  /\ Commits(AppendOps(db, wk.buf))
  /\ durable' = IF wk.buf = << >> THEN durable ELSE Append(durable, [ok |-> FALSE, lost |-> {}])
  /\ AfterFlush(FALSE, wk.last_durable)

FlushBuf ==
  /\ wk.pc = "flush"
  /\ FlushSucceeds \/ AppendFails \/ SinkPanics \/ SinkFlushFails
  /\ UNCHANGED <<loopVars, queue, config, reopens>>

CheckpointDone(answer) ==
  /\ wk' = [wk EXCEPT !.pc = "recv", !.msg = NoMsg]
  /\ reply' = answer

(* Mutant: a snapshot that could not be written is answered with Ok.       *)
SnapshotErrorIgnored(what) == Fault(what) /\ UNCHANGED <<db, stable>> /\ CheckpointDone("ok")

(* Mutant: compaction goes ahead although the snapshot was not written.    *)
CheckpointCompactsAnyway(what) ==
  /\ Fault(what) /\ UNCHANGED <<db, stable>>
  /\ IF what = "snapshot" THEN wk' = [wk EXCEPT !.pc = "compact"] /\ UNCHANGED reply
     ELSE CheckpointDone("err")

(* write_snapshot or compact_through fails.                                *)
CheckpointFails(what) == Fault(what) /\ UNCHANGED <<db, stable>> /\ CheckpointDone("err")

WriteSnapshot ==
  /\ wk.pc = "snapshot"
  /\ \/ /\ Commits(InsertSnapshot(db, wk.msg.snapshot))
        /\ UNCHANGED faults
        /\ IF config.compact_after_snapshot
           THEN wk' = [wk EXCEPT !.pc = "compact"] /\ UNCHANGED reply
           ELSE CheckpointDone("ok")
     \/ CheckpointFails("snapshot")
  /\ UNCHANGED <<loopVars, queue, durable, config, reopens>>

(* compact_through(last_seq), last_seq being latest_op_seq() at the time   *)
(* of the snapshot.                                                        *)
CompactThrough ==
  /\ wk.pc = "compact"
  /\ \/ /\ Commits(DeleteEventsThrough(db, wk.msg.snapshot.next_op_seq - 1))
        /\ UNCHANGED faults
        /\ CheckpointDone("ok")
     \/ CheckpointFails("compact")
  /\ UNCHANGED <<loopVars, queue, durable, config, reopens>>

------------------------------------------------------------------------------
(* Opening the log again                                                   *)

(* A Durable mutation that is applied and not answered yet.                *)
InFlight == IF rt.pc \in {"send", "await"} /\ rt.job = "mutation" THEN <<rt.stored>> ELSE << >>

(* The process ends, in the middle of anything or after it stopped, and    *)
(* the log is opened again with load_store and spawn_qsolog.  Only the     *)
(* database file is left of the previous life: db as it was or, if the     *)
(* power failed, one of the others in `stable`.                            *)
Reopen ==
  /\ config.sink /\ rt.pc # "unloadable"
  /\ reopens < MaxReopens /\ reopens' = reopens + 1
  /\ \E d \in stable :
       LET loaded == LoadStore(d) IN
       /\ store' = loaded.store
       /\ rt' = IF loaded.ok THEN Idle ELSE [pc |-> "unloadable"]
       /\ wk' = IF loaded.ok THEN NewWorker ELSE NoWorker
       /\ accepted' = Surviving(accepted \o InFlight, d)
       /\ db' = d /\ stable' = IF d = db THEN stable ELSE {d}
  /\ health' = NewHealth /\ ops_since_snapshot' = 0 /\ reported' = {}
  /\ queue' = << >> /\ reply' = None /\ durable' = << >>
  /\ UNCHANGED <<promised, faults, config>>

------------------------------------------------------------------------------
Ids == 1..MaxQsos

Mutations ==
  {m \in {InsertCmd(d) : d \in Drafts} \cup {PatchCmd(id, p) : id \in Ids, p \in Patches}
           \cup {VoidCmd(id) : id \in Ids} \cup {UndoCmd, RedoCmd} : m.cmd \in Cmds}

Runtime ==
  \/ \E m \in Mutations : Perform(m)
  \/ \E m \in Mutations : PatchMissing(m)
  \/ \E job \in {"flush", "checkpoint", "shutdown"} : Control(job)
  \/ SendToWorker
  \/ AwaitReply
  \/ ObserveDurable
  \/ DropHandles

Worker == Receive \/ DeadlineExpires \/ QueueClosed \/ FlushBuf \/ WriteSnapshot \/ CompactThrough

Next == Runtime \/ Worker \/ Reopen

Spec == Init /\ [][Next]_vars

------------------------------------------------------------------------------
(* The abstract specification                                              *)

InPipeline(o) ==
  \/ \E i \in DOMAIN queue : queue[i].t = "Op" /\ queue[i].stored = o
  \/ o \in ToSet(wk.buf)

LossPending(o) == \E i \in DOMAIN durable : ~durable[i].ok /\ o \in durable[i].lost

Applied == accepted \o InFlight

AnyOp == [type : {"Insert"}, id : QsoId, qso : QsoRecord]
           \cup [type : {"Patch"}, id : QsoId, patch : QsoPatch, prev : QsoPatch]
           \cup [type : {"Void"}, id : QsoId, prev_is_void : BOOLEAN]

(* An operation is pending while it is in the pipeline or its loss waits   *)
(* on the durable channel.                                                 *)
Abstract == INSTANCE DurableLog WITH
  Op      <- [seq : OpSeq, op : AnyOp],
  log     <- Applied,
  pending <- {o \in ToSet(Applied) : InPipeline(o) \/ LossPending(o)},
  saved   <- {o \in ToSet(Applied) : Journaled(db, o)},
  told    <- reported,
  upto    <- health.last_durable_seq

------------------------------------------------------------------------------
(* Properties                                                              *)

Jobs == {"mutation", "flush", "checkpoint", "auto", "shutdown"}

(* Type invariant of the loop, the worker and the channels                 *)
(* (runtime/handle.rs): in particular the bounded queue never exceeds      *)
(* persist_queue_bound, and an answer exists only while one is awaited.    *)
TypeOK ==
  /\ config \in Configs
  /\ rt.pc \in {"idle", "send", "await", "stopped", "unloadable"}
  /\ rt.pc \in {"send", "await"} => rt.job \in Jobs
  /\ health \in [is_healthy : BOOLEAN, last_durable_seq : 0..MaxOps]
  /\ Len(queue) <= config.persist_queue_bound
  /\ reply \in {None, "ok", "err"} /\ (reply # None => rt.pc = "await")
  /\ wk.pc \in {"recv", "flush", "snapshot", "compact", "dead"}
  /\ Len(wk.buf) <= config.batch_max_ops
  /\ wk.last_durable \in 0..MaxOps
  /\ db \in stable
  /\ \A d \in stable : DOMAIN d.events \subseteq 1..MaxOps

(* README.md:57 "no silent dropping of operations": an accepted operation  *)
(* is in the queue, in the worker's buffer, in the journal, or an error    *)
(* for it is on the durable channel or was announced, whatever batches     *)
(* fail (runtime/handle.rs:745).                                           *)
NothingSilentlyDropped ==
  config.sink =>
    \A o \in Acknowledged : Journaled(db, o) \/ InPipeline(o) \/ LossPending(o) \/ o \in reported

(* DurableUpTo(n) (runtime/handle.rs:232) vouches for every accepted       *)
(* operation up to n, except those whose loss was announced before it.     *)
DurableUpToHonest ==
  \A o \in Acknowledged : o.seq <= health.last_durable_seq => Journaled(db, o) \/ o \in reported

(* runtime/events.rs:27, "Persistence has reached at least this op         *)
(* sequence", read literally: the operations up to n are in the journal.   *)
DurableUpToIsJournaled ==
  \A o \in Acknowledged : o.seq <= health.last_durable_seq => Journaled(db, o)

(* AckMode::Durable (runtime/handle.rs:53): "Return success only after     *)
(* persistence flush confirms durability".                                 *)
DurableAckIsJournaled ==
  config.ack_mode = "Durable" => \A o \in Acknowledged : Journaled(db, o)

(* What a Durable answer, flush(), checkpoint() or shutdown() vouched for  *)
(* survives every later crash and power failure, the deadline's flush      *)
(* (runtime/handle.rs:737), which does not sync the WAL, included.         *)
PromisesSurvive == \A o \in promised : \A d \in stable : Journaled(d, o)

(* The journal holds nothing that was not accepted or is about to be       *)
(* answered: what a rollback (core/store.rs:287) takes back was never      *)
(* written, although its sequence number is used again.                    *)
JournalOnlyAccepted ==
  \A n \in DOMAIN db.events :
    \/ StoredOp(n, db.events[n]) \in Acknowledged \cup ToSet(InFlight)
    \/ n < db.snapshot.next_op_seq

(* The store is what the accepted operations make of an empty one: queue   *)
(* overflow, failed flushes and reopening leave no other trace in memory.  *)
MemoryMatchesAccepted ==
  rt.pc # "unloadable" =>
    Visible(store) = Visible(ReplayAll(NewStore, Applied))

(* A process killed at any moment, by a power failure too, recovers        *)
(* (persist/sqlite.rs:59) what the first n accepted operations gave; while *)
(* the machine stays up n includes all that DurableUpTo announced.         *)
RecoveryIsPrefix ==
  LET all == Applied IN
  \A d \in stable :
    /\ LoadStore(d).ok
    /\ \E n \in 0..Len(all) :
         /\ Visible(LoadStore(d).store) = Visible(ReplayAll(NewStore, SubSeq(all, 1, n)))
         /\ d = db => \A i \in (n + 1)..Len(all) : all[i].seq > health.last_durable_seq

(* load_store (persist/sqlite.rs:58, "Loads store state from latest        *)
(* snapshot plus tail events") can load what the worker wrote.             *)
JournalLoads == LoadStore(db).ok

RecoversExactly(d) == LoadStore(d).ok /\ Visible(LoadStore(d).store) = Visible(store)

(* When a checkpoint (runtime/handle.rs:621, 793) answers Ok, opening the  *)
(* log again gives exactly the store in memory, lost batches before it     *)
(* included.                                                               *)
CheckpointMakesRecoveryExact ==
  [][ (rt.pc = "await" /\ rt.job \in {"checkpoint", "auto"} /\ reply = "ok") => RecoversExactly(db) ]_vars

(* When the log has stopped, by Shutdown or because the handles are gone,  *)
(* everything it accepted is recovered, also after a power failure.        *)
StopKeepsEverything ==
  (config.sink /\ rt.pc = "stopped" /\ wk.pc = "dead") => \A d \in stable : RecoversExactly(d)

(* The same with failing batches, as README.md:57 "no silent dropping of   *)
(* operations" has it: what was lost when shutdown() answered was          *)
(* announced by then.                                                      *)
ShutdownAnnouncesLosses ==
  (rt.pc = "stopped" /\ rt.by = "shutdown") =>
    \A o \in Acknowledged : Journaled(db, o) \/ o \in reported

(* runtime/handle.rs:70, "Auto-checkpoint interval in applied ops": at     *)
(* rest, fewer than that many operations follow the latest snapshot.       *)
AutoCheckpointInterval ==
  (rt.pc = "idle" /\ config.snapshot_every_ops # 0) =>
    Len(SelectSeq(accepted, LAMBDA o : o.seq >= db.snapshot.next_op_seq)) < config.snapshot_every_ops

(* A Durable log whose persistence failed, with no batch under way and no  *)
(* good result left to read.                                               *)
Stuck ==
  /\ config.sink /\ config.ack_mode = "Durable"
  /\ ~health.is_healthy
  /\ wk.buf = << >> /\ \A i \in DOMAIN queue : queue[i].t # "Op"
  /\ \A i \in DOMAIN durable : ~durable[i].ok

(* Only the result of a later batch makes persistence healthy again        *)
(* (runtime/handle.rs:236), and ensure_mutation_allowed (858) lets no      *)
(* later batch come to be: flush() and checkpoint() do not help, only      *)
(* opening the log again does.                                             *)
UnhealthyIsFinal == [][ Stuck => Stuck' \/ reopens' # reopens ]_vars

(* The loop, the worker and SQLite together keep the promise of DurableLog *)
(* (README.md:57 and runtime/events.rs:27), whatever batches, snapshots or *)
(* compactions fail and whenever the process ends: operations only leave   *)
(* the way to the disk by being saved or told, nothing saved goes missing  *)
(* by a compaction, and a mutation that is taken back never reached it.    *)
ImplementsDurableLog == Abstract!Spec

==============================================================================
