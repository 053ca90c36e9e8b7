----------------------------- MODULE QsoStoreOps -----------------------------
(***************************************************************************)
(* The in-memory QSO store (core/store.rs) as operators on a store value.  *)
(* A store value is a record with the fields of struct QsoStore; every     *)
(* operator below takes the store before a call and gives the store after  *)
(* it.  QsoStore runs these operators as a component of its own, QsoLog    *)
(* runs them inside the runtime loop and during journal replay.            *)
(*                                                                         *)
(* Abstractions:                                                           *)
(*  - a QsoRecord keeps the two indexed fields, the void flag, and one     *)
(*    field "rest" standing for every other field: those are only ever     *)
(*    copied.  Its id is the key it is stored under.                       *)
(*  - a QsoPatch (a struct of Options) is a function from the fields that  *)
(*    are Some to their values.                                            *)
(*  - an index key that is absent from its HashMap maps to the empty       *)
(*    sequence, so removing a key whose Vec became empty is not a step.    *)
(*  - ts_ms of a StoredOp is left out; u64 overflow is out of the bounds.  *)
(*  - positions count from 1.                                              *)
(***************************************************************************)
EXTENDS Integers, FiniteSets, Sequences, SequencesExt

CONSTANTS Call,      \* normalized callsigns
          Contest,   \* contest instance ids
          Rest       \* values of the fields that are neither indexed nor is_void

Field == {"call", "contest", "rest", "is_void"}

FieldValues(f) == CASE f = "call"    -> Call
                    [] f = "contest" -> Contest
                    [] f = "rest"    -> Rest
                    [] f = "is_void" -> BOOLEAN

QsoId == Nat \ {0}
OpSeq == Nat \ {0}

AnyValue == Call \cup Contest \cup Rest \cup BOOLEAN

QsoRecord == {r \in [Field -> AnyValue] : \A f \in Field : r[f] \in FieldValues(f)}

PatchOn(F) == {p \in [F -> AnyValue] : \A f \in F : p[f] \in FieldValues(f)}

QsoPatch == UNION {PatchOn(F) : F \in SUBSET Field}

(* A stored Insert carries its record, a Patch its inverse as well.        *)
InsertOp(id, qso)         == [type |-> "Insert", id |-> id, qso |-> qso]
PatchOp(id, patch, prev)  == [type |-> "Patch", id |-> id, patch |-> patch, prev |-> prev]
VoidOp(id, prev_is_void)  == [type |-> "Void", id |-> id, prev_is_void |-> prev_is_void]

StoredOp(seq, op) == [seq |-> seq, op |-> op]

------------------------------------------------------------------------------
(* Patches                                                                 *)

ApplyTo(patch, rec) ==
  [f \in Field |-> IF f \in DOMAIN patch THEN patch[f] ELSE rec[f]]

CaptureInverseFor(patch, rec) == [f \in DOMAIN patch |-> rec[f]]

------------------------------------------------------------------------------
(* Maps and secondary indices                                              *)

EmptyMap == [k \in {} |-> k]

MapInsert(m, k, v) == [x \in DOMAIN m \cup {k} |-> IF x = k THEN v ELSE m[x]]

MapRemove(m, k) == [x \in DOMAIN m \ {k} |-> m[x]]

MaxOf(a, b) == IF a >= b THEN a ELSE b

(* Vec::retain(|v| v != id).  An id occurs at most once in an index entry  *)
(* (part of IndicesConsistent), so dropping one occurrence drops them all. *)
Retain(ids, id) ==
  IF \E i \in DOMAIN ids : ids[i] = id
  THEN RemoveAt(ids, CHOOSE i \in DOMAIN ids : ids[i] = id)
  ELSE ids

(* Mutant: a moved id goes to the end of its new entry.                    *)
InsertIdLast(ids, id, pos) == Append(ids, id)

(* binary_search_by_key on positions: the first slot not before target.    *)
InsertIdOrdered(ids, id, pos) ==
  LET at == CHOOSE k \in 1..(Len(ids) + 1) :
              \A i \in DOMAIN ids : (i < k) <=> (pos[ids[i]] < pos[id])
  IN  InsertAt(ids, at, id)

UpdateIndex(index, id, old, new, pos) ==
  IF old = new THEN index
  ELSE [index EXCEPT ![old] = Retain(@, id), ![new] = InsertIdOrdered(@, id, pos)]

------------------------------------------------------------------------------
(* Construction, snapshot and restore                                      *)

NewStore ==
  [records    |-> EmptyMap,
   order      |-> << >>,
   pos        |-> EmptyMap,
   by_call    |-> [c \in Call |-> << >>],
   by_contest |-> [c \in Contest |-> << >>],
   undo       |-> << >>,
   redo       |-> << >>,
   pending_ops |-> << >>,
   next_op_seq |-> 1,
   next_qso_id |-> 1]

(* `order` lists no id that `records` lacks (part of OrderConsistent), so   *)
(* the filter_map over it drops nothing.                                   *)
ExportSnapshot(s) ==
  [next_qso_id |-> s.next_qso_id,
   next_op_seq |-> s.next_op_seq,
   order       |-> s.order,
   records     |-> [i \in DOMAIN s.order |->
                      [id |-> s.order[i], qso |-> s.records[s.order[i]]]]]

(* The set P of positions as an increasing sequence.                       *)
Ascending(P) ==
  CHOOSE at \in [1..Cardinality(P) -> P] :
    /\ \A p \in P : \E k \in DOMAIN at : at[k] = p
    /\ \A k, l \in DOMAIN at : k < l => at[k] < at[l]

(* An index entry of a restored store lists the matching records in the    *)
(* order in which from_snapshot pushes them.                               *)
IndexOf(recs, field, key) ==
  LET at == Ascending({i \in DOMAIN recs : recs[i].qso[field] = key})
  IN  [k \in DOMAIN at |-> recs[at[k]].id]

FromSnapshot(snap) ==
  LET idsOf == {snap.records[i].id : i \in DOMAIN snap.records}
  IN  [NewStore EXCEPT
         !.next_qso_id = snap.next_qso_id,
         !.next_op_seq = snap.next_op_seq,
         !.order       = snap.order,
         !.pos         = [id \in ToSet(snap.order) |->
                            CHOOSE i \in DOMAIN snap.order : snap.order[i] = id],
         !.records     = [id \in idsOf |->
                            snap.records[CHOOSE i \in DOMAIN snap.records :
                                           snap.records[i].id = id].qso],
         !.by_call     = [c \in Call |-> IndexOf(snap.records, "call", c)],
         !.by_contest  = [c \in Contest |-> IndexOf(snap.records, "contest", c)]]

LatestOpSeq(s) == s.next_op_seq - 1

------------------------------------------------------------------------------
(* Applying one operation with a given sequence number                     *)

BumpNextSeqFrom(s, seq) == [s EXCEPT !.next_op_seq = MaxOf(@, seq + 1)]

(* Mutant: the newest QSO is put in front.                                 *)
ApplyInsertInFront(s, id, qso, seq) ==
  BumpNextSeqFrom(
    [s EXCEPT !.next_qso_id           = MaxOf(@, id + 1),
              !.by_call[qso["call"]]       = Append(@, id),
              !.by_contest[qso["contest"]] = Append(@, id),
              !.order   = <<id>> \o @,
              !.pos     = MapInsert([q \in DOMAIN @ |-> @[q] + 1], id, 1),
              !.records = MapInsert(@, id, qso)], seq)

ApplyInsertWithSeq(s, id, qso, seq) ==
  BumpNextSeqFrom(
    [s EXCEPT !.next_qso_id           = MaxOf(@, id + 1),
              !.by_call[qso["call"]]       = Append(@, id),
              !.by_contest[qso["contest"]] = Append(@, id),
              !.pos     = MapInsert(@, id, Len(s.order) + 1),
              !.order   = Append(@, id),
              !.records = MapInsert(@, id, qso)], seq)

(* The record overwritten in place and moved between index entries: what   *)
(* apply_patch_with_seq and rollback_patch have in common.                 *)
PatchInPlace(s, id, patch) ==
  LET old == s.records[id]
      new == ApplyTo(patch, old)
  IN  [s EXCEPT !.records[id] = new,
                !.by_call    = UpdateIndex(@, id, old["call"], new["call"], s.pos),
                !.by_contest = UpdateIndex(@, id, old["contest"], new["contest"], s.pos)]

SetVoid(s, id, is_void) == [s EXCEPT !.records[id]["is_void"] = is_void]

ApplyPatchWithSeq(s, id, patch, seq) == BumpNextSeqFrom(PatchInPlace(s, id, patch), seq)

ApplyVoidWithSeq(s, id, prev_is_void, seq) ==
  BumpNextSeqFrom(SetVoid(s, id, ~prev_is_void), seq)

(* Insert wants a fresh id (else AlreadyExists), the others a known one    *)
(* (else MissingQso).                                                      *)
Applicable(s, op) == (op.type = "Insert") <=> (op.id \notin DOMAIN s.records)

ApplyWithSeq(s, op, seq) ==
  CASE op.type = "Insert" -> ApplyInsertWithSeq(s, op.id, op.qso, seq)
    [] op.type = "Patch"  -> ApplyPatchWithSeq(s, op.id, op.patch, seq)
    [] op.type = "Void"   -> ApplyVoidWithSeq(s, op.id, op.prev_is_void, seq)

(* The op journaled for op, and its compensating op, both taken from the   *)
(* store the op is applied to.                                             *)
Emitted(s, op) ==
  IF op.type = "Patch"
  THEN PatchOp(op.id, op.patch, CaptureInverseFor(op.patch, s.records[op.id]))
  ELSE op

(* Mutant: the inverse of an insert is the insert itself.                  *)
InverseReinserts(s, op) ==
  CASE op.type = "Insert" -> op
    [] op.type = "Patch"  -> PatchOp(op.id, CaptureInverseFor(op.patch, s.records[op.id]), op.patch)
    [] op.type = "Void"   -> VoidOp(op.id, ~op.prev_is_void)

InverseOf(s, op) ==
  CASE op.type = "Insert" -> VoidOp(op.id, FALSE)
    [] op.type = "Patch"  -> PatchOp(op.id, CaptureInverseFor(op.patch, s.records[op.id]), op.patch)
    [] op.type = "Void"   -> VoidOp(op.id, ~op.prev_is_void)

(* take_next_op_seq followed by the application under that number.         *)
ApplyOp(s, op) == ApplyWithSeq([s EXCEPT !.next_op_seq = @ + 1], op, s.next_op_seq)

ApplyReplayedOp(s, stored) ==
  [ApplyWithSeq(s, stored.op, stored.seq) EXCEPT !.undo = << >>, !.redo = << >>]

------------------------------------------------------------------------------
(* The mutating API.  A mutation m is insert(draft), patch(id, patch),     *)
(* void(id), undo() or redo().                                             *)

InsertCmd(draft)     == [cmd |-> "insert", draft |-> draft]
PatchCmd(id, patch)  == [cmd |-> "patch", id |-> id, patch |-> patch]
VoidCmd(id)          == [cmd |-> "void", id |-> id]
UndoCmd              == [cmd |-> "undo"]
RedoCmd              == [cmd |-> "redo"]

OpFor(s, m) ==
  CASE m.cmd = "insert" -> InsertOp(s.next_qso_id, m.draft)
    [] m.cmd = "patch"  -> PatchOp(m.id, m.patch, EmptyMap)
    [] m.cmd = "void"   -> VoidOp(m.id, s.records[m.id]["is_void"])
    [] m.cmd = "undo"   -> Last(s.undo)
    [] m.cmd = "redo"   -> Last(s.redo)

(* The StoredOp the call returns and buffers.                              *)
StoredFor(s, m) == StoredOp(s.next_op_seq, Emitted(s, OpFor(s, m)))

Commit(s, op, stored) ==
  [ApplyOp(s, op) EXCEPT !.undo = Append(@, InverseOf(s, op)),
                         !.redo = << >>,
                         !.pending_ops = Append(@, stored)]

Insert(s, m) == Commit([s EXCEPT !.next_qso_id = @ + 1], OpFor(s, m), StoredFor(s, m))

PatchOrVoid(s, m) == Commit(s, OpFor(s, m), StoredFor(s, m))

(* Mutant: undo puts the operation it applied on the redo stack.           *)
UndoKeepsOp(s) ==
  LET op == Last(s.undo)
  IN  [ApplyOp(s, op) EXCEPT !.undo = Front(@),
                             !.redo = Append(@, op),
                             !.pending_ops = Append(@, StoredFor(s, UndoCmd))]

Undo(s) ==
  LET op == Last(s.undo)
  IN  [ApplyOp(s, op) EXCEPT !.undo = Front(@),
                             !.redo = Append(@, InverseOf(s, op)),
                             !.pending_ops = Append(@, StoredFor(s, UndoCmd))]

(* Mutant: redo forgets to emit its operation.                             *)
RedoUnjournaled(s) ==
  LET op == Last(s.redo)
  IN  [ApplyOp(s, op) EXCEPT !.redo = Front(@), !.undo = Append(@, InverseOf(s, op))]

Redo(s) ==
  LET op == Last(s.redo)
  IN  [ApplyOp(s, op) EXCEPT !.redo = Front(@),
                             !.undo = Append(@, InverseOf(s, op)),
                             !.pending_ops = Append(@, StoredFor(s, RedoCmd))]

Mutate(s, m) ==
  CASE m.cmd = "insert"            -> Insert(s, m)
    [] m.cmd \in {"patch", "void"} -> PatchOrVoid(s, m)
    [] m.cmd = "undo"              -> Undo(s)
    [] m.cmd = "redo"              -> Redo(s)

(* The error returns: MissingQso, NothingToUndo, NothingToRedo.            *)
Succeeds(s, m) ==
  /\ m.cmd \in {"patch", "void"} => m.id \in DOMAIN s.records
  /\ m.cmd = "undo" => s.undo # << >>
  /\ m.cmd = "redo" => s.redo # << >>

(* A patch of a missing id has already taken its sequence number.          *)
FailedStore(s, m) == IF m.cmd = "patch" THEN [s EXCEPT !.next_op_seq = @ + 1] ELSE s

ClearPendingOps(s) == [s EXCEPT !.pending_ops = << >>]

------------------------------------------------------------------------------
(* Rolling back the mutation just made                                     *)

MutationCheckpoint(s) ==
  [undo_len        |-> Len(s.undo),
   redo_len        |-> Len(s.redo),
   pending_ops_len |-> Len(s.pending_ops),
   next_op_seq     |-> s.next_op_seq,
   next_qso_id     |-> s.next_qso_id]

(* Mutant: the stacks are left as the mutation made them.                  *)
TruncateNot(stack, n) == stack

Truncate(stack, n) == IF Len(stack) <= n THEN stack ELSE SubSeq(stack, 1, n)

RemoveFromIndex(index, key, id) == [index EXCEPT ![key] = Retain(@, id)]

(* Mutant: the rolled back id stays in the canonical order.                *)
RollbackInsertKeepsOrder(s, id) ==
  [s EXCEPT !.records    = MapRemove(@, id),
            !.by_call    = RemoveFromIndex(@, s.records[id]["call"], id),
            !.by_contest = RemoveFromIndex(@, s.records[id]["contest"], id),
            !.pos        = MapRemove(@, id)]

RollbackInsert(s, id) ==
  LET rec == s.records[id]
      idx == s.pos[id]
  IN  [s EXCEPT !.records    = MapRemove(@, id),
                !.by_call    = RemoveFromIndex(@, rec["call"], id),
                !.by_contest = RemoveFromIndex(@, rec["contest"], id),
                !.order      = RemoveAt(@, idx),
                !.pos        = [q \in DOMAIN s.pos \ {id} |->
                                  IF s.pos[q] > idx THEN s.pos[q] - 1 ELSE s.pos[q]]]

(* Mutant: only counters and stacks are restored, the records are not.     *)
RollbackOpNot(s, op) == s

RollbackOp(s, op) ==
  CASE op.type = "Insert" -> RollbackInsert(s, op.id)
    [] op.type = "Patch"  -> PatchInPlace(s, op.id, op.prev)
    [] op.type = "Void"   -> SetVoid(s, op.id, op.prev_is_void)

RollbackMutation(s, checkpoint, stored) ==
  [RollbackOp(s, stored.op) EXCEPT
     !.next_op_seq = checkpoint.next_op_seq,
     !.next_qso_id = checkpoint.next_qso_id,
     !.undo        = Truncate(@, checkpoint.undo_len),
     !.redo        = Truncate(@, checkpoint.redo_len),
     !.pending_ops = Truncate(@, checkpoint.pending_ops_len)]

(* handle_command when persist_after_mutation fails: checkpoint, mutate,   *)
(* clear the pending buffer, roll back.  Nobody else sees the store in     *)
(* between, so it is one step of the store.  The runtime keeps the buffer  *)
(* empty between commands.                                                 *)
Rejected(s, m) ==
  RollbackMutation(ClearPendingOps(Mutate(s, m)), MutationCheckpoint(s), StoredFor(s, m))

------------------------------------------------------------------------------
(* Used to state properties                                                *)

ReplayAll(s, stored) ==
  LET replay[n \in 0..Len(stored)] ==
        IF n = 0 THEN s ELSE ApplyReplayedOp(replay[n - 1], stored[n])
  IN  replay[Len(stored)]

(* What the reads (get, by_call, by_contest, ordered) can see of a store.  *)
Visible(s) == [records |-> s.records, order |-> s.order, pos |-> s.pos,
               by_call |-> s.by_call, by_contest |-> s.by_contest]

(* The operations that can stand on the undo and redo stacks.              *)
StackOp == [type : {"Patch"}, id : QsoId, patch : QsoPatch, prev : QsoPatch]
             \cup [type : {"Void"}, id : QsoId, prev_is_void : BOOLEAN]

StoreType(s) ==
  /\ DOMAIN s = DOMAIN NewStore
  /\ DOMAIN s.records \subseteq QsoId
  /\ s.records \in [DOMAIN s.records -> QsoRecord]
  /\ s.order \in Seq(QsoId)
  /\ DOMAIN s.pos \subseteq QsoId
  /\ s.pos \in [DOMAIN s.pos -> Nat]
  /\ s.by_call \in [Call -> Seq(QsoId)]
  /\ s.by_contest \in [Contest -> Seq(QsoId)]
  /\ s.undo \in Seq(StackOp)
  /\ s.redo \in Seq(StackOp)
  /\ s.next_op_seq \in OpSeq
  /\ s.next_qso_id \in QsoId

OrderOK(records, order, pos, next_qso_id) ==
  /\ DOMAIN pos = DOMAIN records
  /\ \A i \in DOMAIN order : order[i] \in DOMAIN records /\ pos[order[i]] = i
  /\ \A id \in DOMAIN records : pos[id] \in DOMAIN order /\ order[pos[id]] = id
  /\ \A i, j \in DOMAIN order : i < j => order[i] < order[j]
  /\ \A id \in DOMAIN records : id < next_qso_id

EntryOK(records, pos, ids, field, key) ==
  /\ \A i \in DOMAIN ids : ids[i] \in DOMAIN records /\ records[ids[i]][field] = key
  /\ \A i, j \in DOMAIN ids : i < j => pos[ids[i]] < pos[ids[j]]
  /\ \A id \in DOMAIN records :
       records[id][field] = key => \E i \in DOMAIN ids : ids[i] = id

IndexOK(records, pos, index, field) ==
  \A key \in DOMAIN index : EntryOK(records, pos, index[key], field, key)

StacksOK(s) == /\ \A i \in DOMAIN s.undo : s.undo[i].id \in DOMAIN s.records
               /\ \A i \in DOMAIN s.redo : s.redo[i].id \in DOMAIN s.records

==============================================================================
