-------------------------- MODULE QsoLogStoreProofs --------------------------
(***************************************************************************)
(* Proofs about QsoLog that look inside the store, for every value of the  *)
(* constants.  The store keeps its own invariant in the loop, through      *)
(* rejected mutations and through every journal it is loaded from; what a  *)
(* checkpoint wrote loads to exactly the store in memory; the runtime      *)
(* implements DurableLog; the store in memory is what the accepted         *)
(* operations make of an empty one; and when no batch fails, a process     *)
(* killed at any moment recovers a prefix of them, and one that has        *)
(* stopped all of them.                                                    *)
(***************************************************************************)
EXTENDS QsoLogProofs

------------------------------------------------------------------------------
(* The store in the loop, as long as a batch that fails is announced       *)

(* The store if the mutation in flight is taken back.                      *)
Held == IF InMutation THEN RollbackMutation(store, rt.checkpoint, rt.stored) ELSE store

(* The store keeps its invariant, taken back or not, and the runtime keeps *)
(* its buffer empty.                                                       *)
HeldInv ==
  rt.pc # "unloadable" =>
    /\ Inv(store) /\ store.pending_ops = << >>
    /\ Inv(Held) /\ Held.pending_ops = << >>
    /\ Held.next_qso_id <= store.next_qso_id

IsInsert(o) == o.op.type = "Insert"

(* Ids are given out in the order of the sequence numbers, and a snapshot  *)
(* has seen as many of the ones as of the others.                          *)
IdsInv ==
  /\ \A o \in AppliedOps : o.op \in AnyOp
  /\ \A o, p \in AppliedOps :
       IsInsert(o) /\ IsInsert(p) /\ o.seq < p.seq => o.op.id < p.op.id
  /\ rt.pc # "unloadable" =>
       /\ \A o \in AppliedOps : IsInsert(o) => o.op.id < store.next_qso_id
       /\ \A o \in Acknowledged : IsInsert(o) => o.op.id < Held.next_qso_id
       /\ \A d \in stable : d.snapshot.next_qso_id <= Held.next_qso_id
  /\ \A d \in stable :
       /\ d.snapshot.next_qso_id <= db.snapshot.next_qso_id
       /\ \A o \in AppliedOps :
            IsInsert(o) => (o.seq < d.snapshot.next_op_seq <=> o.op.id < d.snapshot.next_qso_id)

(* Every snapshot restores a sound store.                                  *)
SnapshotsInv == \A d \in stable : Inv(FromSnapshot(d.snapshot))

(* The snapshot under way is of the store as it is, until the answer is    *)
(* read.                                                                   *)
UnderWayInv ==
  /\ \A i \in DOMAIN queue : queue[i].t = "Checkpoint" => queue[i].snapshot = ExportSnapshot(store)
  /\ wk.pc \in {"flush", "snapshot", "compact"} /\ wk.msg.t = "Checkpoint" =>
       wk.msg.snapshot = ExportSnapshot(store)
  /\ wk.pc = "compact" => db.snapshot = ExportSnapshot(store)
  /\ rt.pc = "await" /\ rt.job \in {"checkpoint", "auto"} /\ reply = "ok" =>
       db.snapshot = ExportSnapshot(store)

LogStoreInv == HeldInv /\ IdsInv /\ SnapshotsInv /\ UnderWayInv

------------------------------------------------------------------------------
(* Operations, one at a time                                               *)

(* What is known of an operation by its type.                              *)
LEMMA AnyOpFields ==
  ASSUME NEW op \in AnyOp
  PROVE  /\ op.type \in {"Insert", "Patch", "Void"} /\ op.id \in QsoId
         /\ op.type = "Insert" => op.qso \in QsoRecord
         /\ op.type = "Patch" => op.patch \in QsoPatch /\ op.prev \in QsoPatch
         /\ op.type = "Void" => op.prev_is_void \in BOOLEAN
<1>1. CASE op \in [type : {"Insert"}, id : QsoId, qso : QsoRecord]
  BY <1>1
<1>2. CASE op \in [type : {"Patch"}, id : QsoId, patch : QsoPatch, prev : QsoPatch]
  BY <1>2
<1>3. CASE op \in [type : {"Void"}, id : QsoId, prev_is_void : BOOLEAN]
  BY <1>3
<1> QED
  BY <1>1, <1>2, <1>3 DEF AnyOp

(* The operation a mutation emits.                                         *)
LEMMA StoredTyped ==
  ASSUME NEW s, Inv(s), NEW m \in Mutation, Succeeds(s, m)
  PROVE  /\ StoredFor(s, m).op \in AnyOp
         /\ IsInsert(StoredFor(s, m)) <=> m.cmd = "insert"
         /\ m.cmd = "insert" => StoredFor(s, m).op.id = s.next_qso_id
<1> DEFINE op == OpFor(s, m)
           e  == StoredFor(s, m).op
<1>0. /\ CoreOf(s) /\ Names(s.undo, DOMAIN s.records) /\ Names(s.redo, DOMAIN s.records)
  BY InvNames
<1>1. e = Emitted(s, op)
  BY DEF StoredFor, StoredOp
<1>2. CASE \E d \in QsoRecord : m = InsertCmd(d)
  <2>1. m.cmd = "insert" /\ m.draft \in QsoRecord
    BY <1>2 DEF InsertCmd
  <2>2. op = InsertOp(s.next_qso_id, m.draft) /\ s.next_qso_id \in QsoId
    BY <1>0, <2>1 DEF OpFor, CoreOf, CoreOK
  <2>3. op.type = "Insert" /\ op.id = s.next_qso_id /\ op \in AnyOp
    BY <2>1, <2>2 DEF InsertOp, AnyOp
  <2>4. e = op
    BY <1>1, <2>3 DEF Emitted
  <2> QED BY <2>1, <2>3, <2>4 DEF IsInsert
<1>3. CASE m.cmd # "insert"
  <2>1. /\ op.type \in {"Patch", "Void"} /\ op.id \in DOMAIN s.records
        /\ op.type = "Patch" => op.patch \in QsoPatch
        /\ op.type = "Void" => op.prev_is_void \in BOOLEAN
    BY <1>3, MutationOp
  <2>2. op.id \in QsoId /\ s.records[op.id] \in QsoRecord
    BY <1>0, <2>1 DEF CoreOf, CoreOK
  <2>3. CASE op.type = "Patch"
    <3> DEFINE prev == CaptureInverseFor(op.patch, s.records[op.id])
    <3>1. prev \in QsoPatch
      BY <2>1, <2>2, <2>3, CaptureInverseType
    <3>2. e = PatchOp(op.id, op.patch, prev)
      BY <1>1, <2>3 DEF Emitted
    <3> HIDE DEF op, e, prev
    <3>3. e \in AnyOp /\ e.type = "Patch"
      BY <2>1, <2>2, <2>3, <3>1, <3>2 DEF PatchOp, AnyOp
    <3> QED BY <1>3, <3>3 DEF IsInsert, e
  <2>4. CASE op.type = "Void"
    <3>1. e = op
      BY <1>1, <2>4 DEF Emitted
    <3>2. op \in [type : {"Void"}, id : QsoId, prev_is_void : BOOLEAN]
      <4>1. CASE m.cmd = "void"
        <5>1. op = VoidOp(m.id, s.records[m.id]["is_void"])
          BY <4>1 DEF OpFor
        <5> HIDE DEF op
        <5>2. op = [type |-> "Void", id |-> op.id, prev_is_void |-> op.prev_is_void]
          BY <5>1 DEF VoidOp
        <5> QED BY <2>1, <2>2, <2>4, <5>2
      <4>2. CASE m.cmd = "undo"
        <5>1. op = Last(s.undo) /\ s.undo # << >>
          BY <4>2 DEF OpFor, Succeeds
        <5>2. op \in StackOp
          BY <1>0, <5>1, StackPop
        <5> HIDE DEF op
        <5> QED BY <2>4, <5>2 DEF StackOp
      <4>3. CASE m.cmd = "redo"
        <5>1. op = Last(s.redo) /\ s.redo # << >>
          BY <4>3 DEF OpFor, Succeeds
        <5>2. op \in StackOp
          BY <1>0, <5>1, StackPop
        <5> HIDE DEF op
        <5> QED BY <2>4, <5>2 DEF StackOp
      <4>4. CASE m.cmd = "patch"
        <5>1. op.type = "Patch"
          BY <4>4 DEF OpFor, PatchOp
        <5> QED BY <2>4, <5>1
      <4>5. m.cmd \in {"patch", "void", "undo", "redo"}
        BY <1>3, MutationOp
      <4> QED BY <4>1, <4>2, <4>3, <4>4, <4>5
    <3>3. op \in AnyOp
      BY <3>2 DEF AnyOp
    <3> QED BY <1>3, <2>4, <3>1, <3>3 DEF IsInsert
  <2> QED BY <2>1, <2>3, <2>4
<1> QED
  BY <1>2, <1>3 DEF Mutation, PatchCmd, VoidCmd, UndoCmd, RedoCmd

(* A larger next id does no harm.                                          *)
LEMMA CoreLater ==
  ASSUME NEW records, NEW order, NEW pos, NEW by_call, NEW by_contest, NEW next,
         CoreOK(records, order, pos, by_call, by_contest, next), NEW later \in QsoId, next <= later
  PROVE  CoreOK(records, order, pos, by_call, by_contest, later)
<1>1. OrderOK(records, order, pos, later)
  <2>1. /\ OrderOK(records, order, pos, next) /\ next \in Nat /\ later \in Nat
        /\ \A id \in DOMAIN records : id \in Nat
    BY DEF CoreOK, QsoId
  <2> QED BY <2>1 DEF OrderOK
<1> QED
  BY <1>1 DEF CoreOK

(* Replaying an insert under an id that was not given out yet.             *)
LEMMA ReplayInsertInv ==
  ASSUME NEW s, Inv(s), NEW e, e.op \in AnyOp, e.seq \in OpSeq, IsInsert(e),
         e.op.id >= s.next_qso_id
  PROVE  /\ Inv(ApplyReplayedOp(s, e)) /\ ApplyReplayedOp(s, e).pending_ops = s.pending_ops
         /\ ApplyReplayedOp(s, e).next_qso_id = e.op.id + 1
<1> DEFINE id == e.op.id
           qso == e.op.qso
           n == e.seq
           a == ApplyInsertWithSeq(s, id, qso, n)
           t == ApplyReplayedOp(s, e)
<1>0. /\ DOMAIN s = StoreFields /\ CoreOf(s) /\ s.next_op_seq \in Nat /\ s.next_qso_id \in Nat
      /\ id \in QsoId /\ id \in Nat /\ n \in Nat /\ qso \in QsoRecord
  BY InvNames, AnyOpFields DEF CoreOf, CoreOK, QsoId, OpSeq, IsInsert
<1>1. t = [a EXCEPT !.undo = << >>, !.redo = << >>]
  BY DEF ApplyReplayedOp, ApplyWithSeq, IsInsert
<1> HIDE DEF id, qso, n
<1>2. /\ DOMAIN a = StoreFields
      /\ a.records = MapInsert(s.records, id, qso) /\ a.order = Append(s.order, id)
      /\ a.pos = MapInsert(s.pos, id, Len(s.order) + 1)
      /\ a.by_call = [s.by_call EXCEPT ![qso["call"]] = Append(@, id)]
      /\ a.by_contest = [s.by_contest EXCEPT ![qso["contest"]] = Append(@, id)]
      /\ a.pending_ops = s.pending_ops
      /\ a.next_op_seq = MaxOf(s.next_op_seq, n + 1) /\ a.next_qso_id = MaxOf(s.next_qso_id, id + 1)
  BY <1>0 DEF ApplyInsertWithSeq, BumpNextSeqFrom, StoreFields
<1> HIDE DEF a, t
<1>3. /\ DOMAIN t = StoreFields
      /\ t.records = MapInsert(s.records, id, qso) /\ t.order = Append(s.order, id)
      /\ t.pos = MapInsert(s.pos, id, Len(s.order) + 1)
      /\ t.by_call = [s.by_call EXCEPT ![qso["call"]] = Append(@, id)]
      /\ t.by_contest = [s.by_contest EXCEPT ![qso["contest"]] = Append(@, id)]
      /\ t.pending_ops = s.pending_ops /\ t.undo = << >> /\ t.redo = << >>
      /\ t.next_op_seq = MaxOf(s.next_op_seq, n + 1) /\ t.next_qso_id = MaxOf(s.next_qso_id, id + 1)
  BY <1>1, <1>2 DEF StoreFields
<1>4. t.next_qso_id = id + 1 /\ t.next_op_seq \in OpSeq
  <2>1. id >= s.next_qso_id
    BY DEF id
  <2> QED BY <1>0, <1>3, <2>1 DEF MaxOf, OpSeq
<1>5. CoreOf(t)
  <2>1. CoreOK(s.records, s.order, s.pos, s.by_call, s.by_contest, id)
    <3>1. s.next_qso_id <= id
      BY <1>0 DEF id
    <3> QED BY <1>0, <3>1, CoreLater DEF CoreOf
  <2>2. CoreOK(MapInsert(s.records, id, qso), Append(s.order, id),
               MapInsert(s.pos, id, Len(s.order) + 1),
               [s.by_call EXCEPT ![qso["call"]] = Append(@, id)],
               [s.by_contest EXCEPT ![qso["contest"]] = Append(@, id)], id + 1)
    BY <2>1, <1>0, CoreInsert
  <2>3. CoreOK(t.records, t.order, t.pos, t.by_call, t.by_contest, t.next_qso_id)
    BY <2>2, <1>3, <1>4, Zenon
  <2> QED BY <2>3 DEF CoreOf
<1>6. Names(t.undo, DOMAIN t.records) /\ Names(t.redo, DOMAIN t.records)
  BY <1>3, StackEmpty
<1>7. Inv(t)
  BY <1>3, <1>4, <1>5, <1>6, InvNames
<1> QED
  BY <1>3, <1>4, <1>7 DEF t, id

(* Replaying a patch or void of a record that is there.                    *)
LEMMA ReplayChangeInv ==
  ASSUME NEW s, Inv(s), NEW e, e.op \in AnyOp, e.seq \in OpSeq, ~IsInsert(e),
         e.op.id \in DOMAIN s.records
  PROVE  /\ Inv(ApplyReplayedOp(s, e)) /\ ApplyReplayedOp(s, e).pending_ops = s.pending_ops
         /\ ApplyReplayedOp(s, e).next_qso_id = s.next_qso_id
<1> DEFINE op == e.op
           p == IF op.type = "Patch" THEN PatchInPlace(s, op.id, op.patch)
                ELSE SetVoid(s, op.id, ~op.prev_is_void)
           t == ApplyReplayedOp(s, e)
<1>0. /\ DOMAIN s = StoreFields /\ CoreOf(s) /\ s.next_op_seq \in OpSeq
  BY InvNames
<1>1. /\ op.type \in {"Patch", "Void"} /\ op.id \in DOMAIN s.records
      /\ op.type = "Patch" => op.patch \in QsoPatch
      /\ op.type = "Void" => op.prev_is_void \in BOOLEAN
  BY AnyOpFields DEF IsInsert
<1>2. t = [BumpNextSeqFrom(p, e.seq) EXCEPT !.undo = << >>, !.redo = << >>]
  BY <1>1 DEF ApplyReplayedOp, ApplyWithSeq, ApplyPatchWithSeq, ApplyVoidWithSeq
<1> HIDE DEF op
<1>3. CoreOf(p) /\ SameFrame(s, p) /\ p.next_op_seq = s.next_op_seq
  <2>1. CASE op.type = "Patch"
    <3>1. p = PatchInPlace(s, op.id, op.patch)
      BY <2>1
    <3> QED BY <1>0, <1>1, <2>1, <3>1, PatchInPlaceCore
  <2>2. CASE op.type = "Void"
    <3>1. p = SetVoid(s, op.id, ~op.prev_is_void)
      BY <2>2
    <3> QED BY <1>0, <1>1, <2>2, <3>1, SetVoidCore
  <2> QED BY <1>1, <2>1, <2>2
<1> HIDE DEF p, t
<1>4. /\ DOMAIN p = StoreFields /\ p.pending_ops = s.pending_ops /\ p.next_qso_id = s.next_qso_id
  BY <1>0, <1>3 DEF SameFrame
<1>5. /\ DOMAIN t = StoreFields /\ t.records = p.records /\ t.order = p.order /\ t.pos = p.pos
      /\ t.by_call = p.by_call /\ t.by_contest = p.by_contest /\ t.next_qso_id = p.next_qso_id
      /\ t.undo = << >> /\ t.redo = << >> /\ t.pending_ops = p.pending_ops
      /\ t.next_op_seq = MaxOf(s.next_op_seq, e.seq + 1)
  BY <1>2, <1>3, <1>4 DEF BumpNextSeqFrom, StoreFields
<1>6. CoreOf(t)
  BY <1>3, <1>5, CoreFrame
<1>7. Names(t.undo, DOMAIN t.records) /\ Names(t.redo, DOMAIN t.records)
  BY <1>5, StackEmpty
<1>8. t.next_op_seq \in OpSeq
  BY <1>0, <1>5 DEF OpSeq, MaxOf
<1>9. Inv(t)
  BY <1>5, <1>6, <1>7, <1>8, InvNames
<1> QED
  BY <1>4, <1>5, <1>9 DEF t

------------------------------------------------------------------------------
(* load_store                                                              *)

(* The store a snapshot restores, before any event.                        *)
LEMMA RestoreFields ==
  ASSUME NEW snap
  PROVE  LET s == FromSnapshot(snap)
         IN  /\ s.pending_ops = << >> /\ s.next_qso_id = snap.next_qso_id
             /\ s.next_op_seq = snap.next_op_seq
  BY DEF FromSnapshot, NewStore

(* One event: a sound store stays one.                                     *)
LEMMA LoadEventInv ==
  ASSUME NEW l, DOMAIN l = {"ok", "store"}, l.ok \in BOOLEAN, Inv(l.store),
         NEW e, e.op \in AnyOp, e.seq \in OpSeq,
         IsInsert(e) => e.op.id >= l.store.next_qso_id
  PROVE  LET k == LoadEvent(l, e)
         IN  /\ DOMAIN k = {"ok", "store"} /\ k.ok \in BOOLEAN /\ Inv(k.store)
             /\ k.store.pending_ops = l.store.pending_ops
             /\ k.store.next_qso_id \in
                  {l.store.next_qso_id} \cup (IF IsInsert(e) THEN {e.op.id + 1} ELSE {})
             /\ k.ok => l.ok /\ (IsInsert(e) => k.store.next_qso_id = e.op.id + 1)
<1> DEFINE k == LoadEvent(l, e)
<1>1. CASE l.ok /\ Applicable(l.store, e.op)
  <2>1. k = [ok |-> TRUE, store |-> ApplyReplayedOp(l.store, e)]
    BY <1>1 DEF LoadEvent
  <2> DEFINE t == ApplyReplayedOp(l.store, e)
  <2>2. DOMAIN k = {"ok", "store"} /\ k.ok = TRUE /\ k.store = t
    BY <2>1
  <2>3. /\ Inv(t) /\ t.pending_ops = l.store.pending_ops
        /\ t.next_qso_id = IF IsInsert(e) THEN e.op.id + 1 ELSE l.store.next_qso_id
    <3>1. CASE IsInsert(e)
      BY <3>1, ReplayInsertInv
    <3>2. CASE ~IsInsert(e)
      <4>1. e.op.id \in DOMAIN l.store.records
        BY <1>1, <3>2 DEF Applicable, IsInsert
      <4> QED BY <3>2, <4>1, ReplayChangeInv
    <3> QED BY <3>1, <3>2
  <2> HIDE DEF t, k
  <2> QED BY <1>1, <2>2, <2>3 DEF k
<1>2. CASE ~(l.ok /\ Applicable(l.store, e.op))
  <2>1. k = [l EXCEPT !.ok = FALSE]
    BY <1>2 DEF LoadEvent
  <2>2. DOMAIN k = {"ok", "store"} /\ k.ok = FALSE /\ k.store = l.store
    BY <2>1
  <2> HIDE DEF k
  <2> QED BY <2>2 DEF k
<1> QED
  BY <1>1, <1>2

(* The events beyond the snapshot bring ids of their own, in their order.  *)
FreshIds(d) ==
  /\ \A n \in DOMAIN d.events : n >= d.snapshot.next_op_seq =>
       /\ d.events[n] \in AnyOp
       /\ d.events[n].type = "Insert" => d.events[n].id >= d.snapshot.next_qso_id
  /\ \A n, k \in DOMAIN d.events :
       n >= d.snapshot.next_op_seq /\ k > n /\ d.events[n].type = "Insert"
         /\ d.events[k].type = "Insert" => d.events[n].id < d.events[k].id

(* What load_store gives back is a sound store, whether or not it could    *)
(* apply every event.                                                      *)
LEMMA LoadInv ==
  ASSUME NEW N \in Nat, NEW d, Decodes(d, N), Inv(FromSnapshot(d.snapshot)), FreshIds(d)
  PROVE  LET l == LoadStore(d)
         IN  /\ Inv(l.store) /\ l.store.pending_ops = << >>
             /\ l.store.next_qso_id >= d.snapshot.next_qso_id
             /\ l.ok => \A n \in DOMAIN d.events :
                  n >= d.snapshot.next_op_seq /\ d.events[n].type = "Insert" =>
                    d.events[n].id < l.store.next_qso_id
<1> DEFINE base == FromSnapshot(d.snapshot)
           E    == LoadEventsAfter(d, LatestOpSeq(base))
           M    == Len(E)
           l    == LoadStore(d)
<1>1. /\ DOMAIN d.events \subseteq 1..N /\ d.snapshot.next_op_seq \in OpSeq
  BY DEF Decodes
<1>2. /\ Inv(base) /\ base.next_op_seq = d.snapshot.next_op_seq
      /\ base.next_qso_id = d.snapshot.next_qso_id /\ base.pending_ops = << >>
  BY RestoreFields
<1>3. l = LoadAll(base, E)
  BY DEF LoadStore
<1> HIDE DEF base, l
<1>4. /\ IsSeq(E)
      /\ \A k \in DOMAIN E : /\ E[k].seq \in DOMAIN d.events /\ E[k].seq > LatestOpSeq(base)
                             /\ E[k].op = d.events[E[k].seq]
      /\ \A n \in DOMAIN d.events : n > LatestOpSeq(base) => \E k \in DOMAIN E : E[k].seq = n
      /\ \A k, j \in DOMAIN E : k < j => E[k].seq < E[j].seq
  BY <1>1, LoadEventsOK
<1> HIDE DEF E
<1>5. M \in Nat /\ DOMAIN E = 1..M
  BY <1>4, SeqFacts
<1>6. \A n \in DOMAIN d.events : n \in Nat /\ (n > LatestOpSeq(base) <=> n >= d.snapshot.next_op_seq)
  BY <1>1, <1>2 DEF LatestOpSeq, OpSeq
<1>7. \A k \in 1..M : /\ E[k].op \in AnyOp /\ E[k].seq \in OpSeq
                      /\ IsInsert(E[k]) => E[k].op.id >= base.next_qso_id
  <2> SUFFICES ASSUME NEW k \in 1..M
               PROVE  /\ E[k].op \in AnyOp /\ E[k].seq \in OpSeq
                      /\ IsInsert(E[k]) => E[k].op.id >= base.next_qso_id
    OBVIOUS
  <2>1. E[k].seq \in DOMAIN d.events /\ E[k].seq >= d.snapshot.next_op_seq /\ E[k].op = d.events[E[k].seq]
    BY <1>4, <1>5, <1>6
  <2>2. E[k].seq \in OpSeq
    BY <1>1, <2>1 DEF OpSeq
  <2> QED BY <1>2, <2>1, <2>2 DEF FreshIds, IsInsert
<1>8. \A j, k \in 1..M : j < k /\ IsInsert(E[j]) /\ IsInsert(E[k]) => E[j].op.id < E[k].op.id
  <2> SUFFICES ASSUME NEW j \in 1..M, NEW k \in 1..M, j < k, IsInsert(E[j]), IsInsert(E[k])
               PROVE  E[j].op.id < E[k].op.id
    OBVIOUS
  <2>1. /\ E[j].seq \in DOMAIN d.events /\ E[j].seq >= d.snapshot.next_op_seq
        /\ E[j].op = d.events[E[j].seq]
        /\ E[k].seq \in DOMAIN d.events /\ E[k].op = d.events[E[k].seq] /\ E[j].seq < E[k].seq
    BY <1>4, <1>5, <1>6
  <2>2. E[k].seq > E[j].seq
    BY <1>6, <2>1
  <2> QED BY <2>1, <2>2 DEF FreshIds, IsInsert
<1>9. PICK g : LoadRun(g, base, E, M) /\ l = g[M]
  BY <1>3, <1>5, LoadAllRun
<1> HIDE DEF M
<1> DEFINE Next_(i) == g[i].store.next_qso_id
           Good(i) == /\ DOMAIN g[i] = {"ok", "store"} /\ g[i].ok \in BOOLEAN /\ Inv(g[i].store)
                      /\ g[i].store.pending_ops = << >>
                      /\ Next_(i) >= base.next_qso_id
                      /\ \A j \in 1..M : j > i /\ IsInsert(E[j]) => E[j].op.id >= Next_(i)
                      /\ g[i].ok => \A j \in 1..i : IsInsert(E[j]) => E[j].op.id < Next_(i)
           Bad == {i \in 0..M : ~ Good(i)}
<1>10. \A s : Inv(s) => s.next_qso_id \in Nat
  BY InvNames DEF CoreOf, CoreOK, QsoId
<1>11. Bad = {}
  <2> SUFFICES ASSUME Bad # {} PROVE FALSE
    OBVIOUS
  <2>1. PICK i \in Bad : \A j \in Bad : i <= j
    <3>1. Bad \in SUBSET Nat
      BY <1>5
    <3> HIDE DEF Bad
    <3> QED BY <3>1, LeastNatural
  <2>2. i # 0
    <3>1. g[0] = [ok |-> TRUE, store |-> base]
      BY <1>9 DEF LoadRun
    <3>2. base.next_qso_id >= base.next_qso_id /\ 0 \in 0..M /\ \A j \in 1..0 : FALSE
      BY <1>2, <1>5, <1>10
    <3>3. Good(0)
      BY <1>2, <1>7, <3>1, <3>2
    <3> QED BY <2>1, <3>3
  <2>3. i \in 1..M /\ i - 1 \in 0..M /\ i - 1 \notin Bad
    BY <1>5, <2>1, <2>2
  <2>4. Good(i - 1)
    BY <2>3
  <2>5. g[i] = LoadEvent(g[i - 1], E[i])
    BY <1>9, <2>3 DEF LoadRun
  <2> DEFINE p == g[i - 1]
             k == g[i]
             e == E[i]
             a == p.store.next_qso_id
             b == k.store.next_qso_id
  <2>6. /\ DOMAIN p = {"ok", "store"} /\ p.ok \in BOOLEAN /\ Inv(p.store)
        /\ p.store.pending_ops = << >> /\ a >= base.next_qso_id
        /\ \A j \in 1..M : j > i - 1 /\ IsInsert(E[j]) => E[j].op.id >= a
        /\ p.ok => \A j \in 1..(i - 1) : IsInsert(E[j]) => E[j].op.id < a
    BY <2>4
  <2>7. /\ e.op \in AnyOp /\ e.seq \in OpSeq /\ k = LoadEvent(p, e)
        /\ IsInsert(e) => e.op.id >= a
    <3>1. i > i - 1
      BY <1>5, <2>3
    <3> QED BY <1>7, <2>3, <2>5, <2>6, <3>1
  <2>8. \A j \in 1..M : IsInsert(E[j]) => E[j].op.id \in Nat
    BY <1>7, AnyOpFields DEF QsoId
  <2> HIDE DEF p, k, e
  <2>9. /\ DOMAIN k = {"ok", "store"} /\ k.ok \in BOOLEAN /\ Inv(k.store)
        /\ k.store.pending_ops = p.store.pending_ops
        /\ b \in {a} \cup (IF IsInsert(e) THEN {e.op.id + 1} ELSE {})
        /\ k.ok => p.ok /\ (IsInsert(e) => b = e.op.id + 1)
    BY <2>6, <2>7, LoadEventInv
  <2>10. a \in Nat /\ b \in Nat /\ base.next_qso_id \in Nat /\ (IsInsert(e) => e.op.id \in Nat)
    BY <1>2, <1>10, <2>3, <2>6, <2>8, <2>9 DEF e
  <2> HIDE DEF a, b
  <2>11. b >= a
    BY <2>7, <2>9, <2>10
  <2>12. \A j \in 1..M : j > i /\ IsInsert(E[j]) => E[j].op.id >= b
    <3> SUFFICES ASSUME NEW j \in 1..M, j > i, IsInsert(E[j]) PROVE E[j].op.id >= b
      OBVIOUS
    <3>1. E[j].op.id >= a /\ E[j].op.id \in Nat
      BY <1>5, <2>3, <2>6, <2>8
    <3>2. IsInsert(e) => e.op.id < E[j].op.id
      BY <1>8, <2>3 DEF e
    <3> QED BY <2>9, <2>10, <3>1, <3>2
  <2>13. k.ok => \A j \in 1..i : IsInsert(E[j]) => E[j].op.id < b
    <3> SUFFICES ASSUME k.ok, NEW j \in 1..i, IsInsert(E[j]) PROVE E[j].op.id < b
      OBVIOUS
    <3>1. j = i \/ j \in 1..(i - 1)
      BY <1>5, <2>3
    <3>2. E[j].op.id \in Nat
      BY <1>5, <2>3, <2>8
    <3>3. CASE j = i
      BY <2>9, <3>2, <3>3 DEF e
    <3>4. CASE j \in 1..(i - 1)
      BY <2>6, <2>9, <2>10, <2>11, <3>2, <3>4
    <3> QED BY <3>1, <3>3, <3>4
  <2>14. b >= base.next_qso_id
    BY <2>6, <2>10, <2>11
  <2>15. Good(i)
    BY <2>6, <2>9, <2>12, <2>13, <2>14 DEF k, b
  <2> QED BY <2>1, <2>15
<1>12. Good(M)
  BY <1>5, <1>11
<1>13. /\ Inv(l.store) /\ l.store.pending_ops = << >>
       /\ l.store.next_qso_id >= base.next_qso_id
       /\ l.ok => \A j \in 1..M : IsInsert(E[j]) => E[j].op.id < l.store.next_qso_id
  BY <1>9, <1>12
<1>14. l.ok => \A n \in DOMAIN d.events : n >= d.snapshot.next_op_seq /\ d.events[n].type = "Insert" =>
                 d.events[n].id < l.store.next_qso_id
  <2> SUFFICES ASSUME l.ok, NEW n \in DOMAIN d.events, n >= d.snapshot.next_op_seq,
                      d.events[n].type = "Insert"
               PROVE  d.events[n].id < l.store.next_qso_id
    OBVIOUS
  <2>1. PICK k \in 1..M : E[k].seq = n
    BY <1>4, <1>5, <1>6
  <2>2. E[k].op = d.events[n]
    BY <1>4, <1>5, <2>1
  <2> QED BY <1>13, <2>1, <2>2 DEF IsInsert
<1> QED
  BY <1>2, <1>13, <1>14 DEF l

------------------------------------------------------------------------------
(* What the steps of the loop do to the store and the accepted operations  *)

(* A mutating command is accepted, under way, or taken back at once.       *)
LEMMA PerformCases ==
  ASSUME ShapeInv, NEW m \in Mutations, Perform(m)
  PROVE  LET o == StoredFor(store, m) IN
         /\ rt.pc = "idle" /\ ~InMutation /\ rt'.pc # "unloadable" /\ rt'.pc # "await"
         /\ m \in Mutation /\ Succeeds(store, m)
         /\ OpOK(o) /\ o.seq = store.next_op_seq
         /\ UNCHANGED <<reply, durable, reported, wk, db, stable, config, reopens>>
         /\ health'.last_durable_seq = health.last_durable_seq
         /\ \/ /\ store' = ClearPendingOps(Mutate(store, m))
               /\ accepted' = Append(accepted, o) /\ ~InMutation'
               /\ \/ ~config.sink /\ queue' = queue
                  \/ /\ config.sink /\ config.ack_mode = "InMemory" /\ queue' = Append(queue, OpMsg(o))
               /\ UNCHANGED health
            \/ /\ store' = ClearPendingOps(Mutate(store, m))
               /\ accepted' = accepted /\ InMutation' /\ rt'.stored = o
               /\ rt'.checkpoint = MutationCheckpoint(store) /\ Held' = Rejected(store, m)
               /\ config.sink /\ config.ack_mode = "Durable" /\ queue' = Append(queue, OpMsg(o))
               /\ UNCHANGED health
            \/ /\ store' = Rejected(store, m)
               /\ ~InMutation' /\ UNCHANGED <<accepted, queue, rt>>
               /\ config.sink /\ ~RoomInQueue
<1> DEFINE o == StoredFor(store, m)
           applied == ClearPendingOps(Mutate(store, m))
           c == MutationCheckpoint(store)
<1>1. /\ rt.pc = "idle" /\ Succeeds(store, m) /\ store.next_op_seq <= MaxOps
      /\ UNCHANGED <<reply, durable, reported, wk, db, stable, config, reopens>>
      /\ \/ (NotPersisted(o) \/ Enqueued(o)) /\ store' = applied
         \/ QueueFull /\ store' = RollbackMutation(applied, c, o)
  BY DEF Perform, workerVars
<1>2. config \in Configs /\ Frame(store) /\ HealthOK
  BY DEF ShapeInv, TypeInv
<1>3. OpOK(o) /\ o.seq = store.next_op_seq
  BY <1>1, <1>2, StoredOK
<1>4. RollbackMutation(applied, c, o) = Rejected(store, m) /\ m \in Mutation
  BY MutationsAreCalls DEF Rejected
<1>5. ~InMutation
  BY <1>1 DEF InMutation
<1> HIDE DEF o, applied, c
<1>6. CASE NotPersisted(o)
  <2>1. /\ ~config.sink /\ Accept(o) /\ UNCHANGED <<queue, health>>
    BY <1>6 DEF NotPersisted
  <2>2. accepted' = Append(accepted, o) /\ store' = applied
    BY <1>1, <2>1 DEF Accept, QueueFull
  <2>3. rt'.pc = "idle"
    BY <1>2, <2>1, AcceptRt
  <2>4. ~InMutation'
    BY <2>3 DEF InMutation
  <2> QED BY <1>1, <1>3, <1>4, <1>5, <2>1, <2>2, <2>3, <2>4 DEF o, applied
<1>7. CASE Enqueued(o)
  <2>1. /\ config.sink /\ RoomInQueue /\ queue' = Append(queue, OpMsg(o)) /\ UNCHANGED health /\ store' = applied
    BY <1>1, <1>7 DEF Enqueued, QueueFull
  <2>2. CASE config.ack_mode = "InMemory" /\ Accept(o)
    <3>1. accepted' = Append(accepted, o)
      BY <2>2 DEF Accept
    <3>2. rt'.pc \in {"idle", "send"} /\ ~InMutation'
      BY <1>2, <2>2, AcceptRt DEF InMutation
    <3> QED BY <1>1, <1>3, <1>4, <1>5, <2>1, <2>2, <3>1, <3>2 DEF o, applied
  <2>3. CASE /\ config.ack_mode = "Durable" /\ UNCHANGED accepted
             /\ rt' = [pc |-> "send", job |-> "mutation", stored |-> o, checkpoint |-> c]
    <3>1. InMutation' /\ rt'.stored = o /\ rt'.checkpoint = c /\ rt'.pc = "send"
      BY <2>3 DEF InMutation
    <3>2. Held' = Rejected(store, m)
      BY <1>4, <2>1, <3>1 DEF Held
    <3> QED BY <1>1, <1>3, <1>4, <1>5, <2>1, <2>3, <3>1, <3>2 DEF o, applied, c
  <2> QED BY <1>7, <2>2, <2>3 DEF Enqueued, c
<1>8. CASE QueueFull
  <2>1. UNCHANGED <<queue, rt, accepted>> /\ health' = [health EXCEPT !.is_healthy = FALSE]
        /\ config.sink /\ ~RoomInQueue
    BY <1>8 DEF QueueFull, MarkPersistUnhealthy
  <2>2. health'.last_durable_seq = health.last_durable_seq
    BY <1>2, <2>1 DEF HealthOK
  <2>3. store' = Rejected(store, m)
    BY <1>1, <1>4, <1>8 DEF QueueFull, NotPersisted, Enqueued
  <2>4. ~InMutation' /\ rt'.pc # "unloadable" /\ rt'.pc # "await"
    BY <1>1, <2>1 DEF InMutation
  <2> QED BY <1>1, <1>3, <1>4, <1>5, <2>1, <2>2, <2>3, <2>4 DEF o
<1> QED
  BY <1>1, <1>6, <1>7, <1>8

(* The answer of the worker accepts the mutation in flight, takes it back, *)
(* or is not about one.                                                    *)
LEMMA AwaitCases ==
  ASSUME ShapeInv, AwaitReply
  PROVE  /\ rt.pc = "await" /\ reply \in {"ok", "err"} /\ reply' = None
         /\ queue = << >> /\ wk.buf = << >> /\ wk.pc \in {"recv", "dead"}
         /\ UNCHANGED <<queue, durable, reported, wk, db, stable, config, reopens>>
         /\ health'.last_durable_seq = health.last_durable_seq
         /\ ~InMutation' /\ rt'.pc \notin {"await", "unloadable"}
         /\ \/ /\ InMutation /\ reply = "err" /\ store' = Held /\ accepted' = accepted
               /\ health' = [health EXCEPT !.is_healthy = FALSE]
            \/ /\ InMutation /\ reply = "ok" /\ store' = store
               /\ accepted' = Append(accepted, rt.stored) /\ UNCHANGED health
            \/ ~InMutation /\ UNCHANGED <<store, accepted, health>>
<1>1. /\ rt.pc = "await" /\ reply # None /\ reply' = None
      /\ MutationAnswer \/ ControlAnswer
      /\ UNCHANGED <<queue, durable, reported, wk, db, stable, config, reopens>>
  BY DEF AwaitReply, workerVars
<1>2. LoopOK /\ HealthOK /\ config \in Configs
  BY DEF ShapeInv, TypeInv
<1>3. /\ queue = << >> /\ wk.buf = << >> /\ wk.pc \in {"recv", "dead"} /\ reply \in {"ok", "err"}
  BY <1>1 DEF ShapeInv, Flow, Quiet, Asked, Working, Answered
<1>4. health'.last_durable_seq = health.last_durable_seq
  BY <1>1, <1>2 DEF MutationAnswer, ControlAnswer, MarkPersistUnhealthy, HealthOK
<1>5. CASE rt.job = "mutation"
  <2>1. InMutation
    BY <1>1, <1>5 DEF InMutation
  <2>2. CASE reply = "err"
    <3>1. /\ store' = Held /\ rt' = Idle /\ UNCHANGED accepted
          /\ health' = [health EXCEPT !.is_healthy = FALSE]
      BY <1>1, <1>5, <2>1, <2>2 DEF MutationAnswer, ControlAnswer, Held, MarkPersistUnhealthy
    <3>2. ~InMutation' /\ rt'.pc \notin {"await", "unloadable"}
      BY <3>1 DEF InMutation, Idle
    <3> QED BY <1>1, <1>3, <1>4, <2>1, <2>2, <3>1, <3>2
  <2>3. CASE reply = "ok"
    <3>1. Accept(rt.stored) /\ UNCHANGED <<store, health>>
      BY <1>1, <1>5, <2>3 DEF MutationAnswer, ControlAnswer
    <3>2. accepted' = Append(accepted, rt.stored)
      BY <3>1 DEF Accept
    <3>3. rt'.pc \in {"idle", "send"} /\ ~InMutation'
      BY <1>2, <3>1, AcceptRt DEF InMutation
    <3> QED BY <1>1, <1>3, <1>4, <2>1, <2>3, <3>1, <3>2, <3>3
  <2> QED BY <1>3, <2>2, <2>3
<1>6. CASE rt.job # "mutation"
  <2>1. UNCHANGED <<store, accepted, health>> /\ rt' \in {Stopped("shutdown"), Idle}
    BY <1>1, <1>6 DEF MutationAnswer, ControlAnswer
  <2>2. rt'.pc \notin {"await", "unloadable"} /\ ~InMutation' /\ ~InMutation
    BY <1>6, <2>1 DEF Stopped, Idle, InMutation
  <2> QED BY <1>1, <1>3, <1>4, <2>1, <2>2
<1> QED
  BY <1>5, <1>6

(* The step neither applies an operation nor takes one back.               *)
Calm == /\ UNCHANGED <<store, accepted, config>> /\ (InMutation' <=> InMutation)
        /\ InMutation => rt'.stored = rt.stored /\ rt'.checkpoint = rt.checkpoint
        /\ rt.pc = "unloadable" <=> rt'.pc = "unloadable"

(* It leaves the operations and both stores as they are.                   *)
LEMMA CalmKeeps ==
  ASSUME Calm
  PROVE  Held' = Held /\ Acknowledged' = Acknowledged /\ AppliedOps' = AppliedOps
<1>1. Held' = Held /\ Acknowledged' = Acknowledged
  BY DEF Calm, Held, Acknowledged
<1> QED
  BY <1>1, AppliedIs, AppliedIsNext DEF Calm

(* The loop's other steps, and all of the worker's.                        *)
LEMMA CalmSteps ==
  ASSUME ShapeInv,
         \/ DropHandles \/ \E job \in {"flush", "checkpoint", "shutdown"} : Control(job)
         \/ SendToWorker \/ ObserveDurable \/ Worker \/ UNCHANGED vars
  PROVE  Calm
<1>1. LoopOK
  BY DEF ShapeInv, TypeInv
<1>2. CASE DropHandles
  BY <1>2 DEF DropHandles, Stopped, Calm, InMutation
<1>3. ASSUME NEW job \in {"flush", "checkpoint", "shutdown"}, Control(job)
      PROVE  Calm
  <2>1. rt' \in {[pc |-> "send", job |-> job], Stopped("shutdown"), Idle}
    BY <1>3 DEF Control
  <2>2. rt'.pc # "unloadable" /\ ~InMutation'
    BY <2>1 DEF Stopped, Idle, InMutation
  <2> QED BY <1>3, <2>2 DEF Control, Calm, InMutation
<1>4. CASE SendToWorker
  <2>1. rt.pc = "send" /\ rt' = [rt EXCEPT !.pc = "await"] /\ UNCHANGED <<store, accepted, config>>
    BY <1>4 DEF SendToWorker
  <2>2. /\ rt'.pc = "await" /\ rt'.job = rt.job
        /\ rt'.stored = rt.stored /\ rt'.checkpoint = rt.checkpoint
    BY <1>1, <2>1 DEF LoopOK
  <2> QED BY <2>1, <2>2 DEF Calm, InMutation
<1>5. CASE ObserveDurable
  BY <1>5 DEF ObserveDurable, Calm, InMutation
<1>6. CASE Worker \/ UNCHANGED vars
  <2>1. UNCHANGED <<loopVars, config>>
    BY <1>6 DEF Worker, Receive, DeadlineExpires, QueueClosed, Wake, FlushBuf, WriteSnapshot,
                CompactThrough, vars
  <2> QED BY <2>1 DEF loopVars, Calm, InMutation
<1> QED
  BY <1>2, <1>3, <1>4, <1>5, <1>6

(* flush_buf adds the batch to the database, or leaves it as it is.        *)
LEMMA FlushCases ==
  ASSUME ErrorsReturned, FlushBuf
  PROVE  /\ wk.pc = "flush" /\ db' \in {db, AppendOps(db, wk.buf)}
         /\ db \in stable => stable' \subseteq stable \cup {db'} /\ db' \in stable'
         /\ UNCHANGED <<loopVars, queue, config, reopens>>
         /\ \/ FlushSucceeds /\ db' = AppendOps(db, wk.buf)
            \/ AppendFails /\ UNCHANGED <<db, stable>>
<1>1. wk.pc = "flush" /\ UNCHANGED <<loopVars, queue, config, reopens>> /\ (FlushSucceeds \/ AppendFails)
  BY DEF FlushBuf, SinkPanics, SinkFlushFails, Fault, ErrorsReturned
<1>2. CASE FlushSucceeds
  <2>1. Syncs(AppendOps(db, wk.buf)) \/ Commits(AppendOps(db, wk.buf))
    BY <1>2 DEF FlushSucceeds
  <2>2. db' = AppendOps(db, wk.buf) /\ stable' \subseteq stable \cup {db'} /\ db' \in stable'
    BY <2>1 DEF Syncs, Commits
  <2> QED BY <1>1, <1>2, <2>2
<1>3. CASE AppendFails
  <2>1. UNCHANGED <<db, stable>>
    BY <1>3 DEF AppendFails
  <2> QED BY <1>1, <1>3, <2>1
<1> QED
  BY <1>1, <1>2, <1>3

------------------------------------------------------------------------------
(* Preservation                                                            *)

(* The stores after a mutation and after taking it back.                   *)
LEMMA MutateNext ==
  ASSUME NEW s, Inv(s), s.pending_ops = << >>, NEW m \in Mutation, Succeeds(s, m)
  PROVE  LET t == ClearPendingOps(Mutate(s, m))
             r == Rejected(s, m)
         IN  /\ Inv(t) /\ t.pending_ops = << >>
             /\ t.next_qso_id = IF m.cmd = "insert" THEN s.next_qso_id + 1 ELSE s.next_qso_id
             /\ Inv(r) /\ r.pending_ops = << >> /\ r.next_qso_id = s.next_qso_id
<1> DEFINE u == Mutate(s, m)
           t == ClearPendingOps(u)
           r == Rejected(s, m)
<1>1. Inv(u) /\ Inv(r)
  BY AnyMutation
<1>2. r.pending_ops = << >>
  BY RejectedPending
<1>3. /\ u.next_qso_id = IF m.cmd = "insert" THEN s.next_qso_id + 1 ELSE s.next_qso_id
      /\ r.next_qso_id = s.next_qso_id
  <2>1. CASE m.cmd # "insert"
    BY <2>1, MutateInv, RejectedInv
  <2>2. CASE m.cmd = "insert"
    <3>1. PICK d \in QsoRecord : m = InsertCmd(d)
      BY <2>2 DEF Mutation, PatchCmd, VoidCmd, UndoCmd, RedoCmd
    <3> QED BY <2>2, <3>1, InsertFields, RejectedInsert
  <2> QED BY <2>1, <2>2
<1> HIDE DEF u, r
<1>4. DOMAIN u = StoreFields
  BY <1>1, InvNames
<1>5. t.pending_ops = << >> /\ t.next_qso_id = u.next_qso_id
  BY <1>4 DEF ClearPendingOps, StoreFields
<1>6. Inv(t)
  BY <1>1, ClearInv
<1> QED
  BY <1>1, <1>2, <1>3, <1>5, <1>6 DEF u, r

(* The next id of a sound store is a number.                               *)
LEMMA NextIdNat == ASSUME NEW s, Inv(s) PROVE s.next_qso_id \in Nat /\ s.next_op_seq \in Nat
  BY InvNames DEF CoreOf, CoreOK, QsoId, OpSeq

(* Applied operations have ids, and so have snapshots.                     *)
LEMMA IdsAreNumbers ==
  ASSUME IdsInv, SnapshotsInv
  PROVE  /\ \A o \in AppliedOps : o.op.id \in Nat
         /\ \A d \in stable : d.snapshot.next_qso_id \in Nat
<1>1. \A o \in AppliedOps : o.op.id \in Nat
  BY AnyOpFields DEF IdsInv, QsoId
<1>2. \A d \in stable : d.snapshot.next_qso_id \in Nat
  BY RestoreFields, NextIdNat DEF SnapshotsInv
<1> QED
  BY <1>1, <1>2

(* Calm steps that write no new snapshot.                                  *)
LEMMA StoreCalm ==
  ASSUME HeldInv, IdsInv, SnapshotsInv, Calm, db'.snapshot = db.snapshot,
         \A d \in stable' : \E c \in stable : d.snapshot = c.snapshot
  PROVE  HeldInv' /\ IdsInv' /\ SnapshotsInv'
<1>1. Held' = Held /\ Acknowledged' = Acknowledged /\ AppliedOps' = AppliedOps
  BY CalmKeeps
<1>2. store' = store /\ (rt'.pc # "unloadable" => rt.pc # "unloadable")
  BY DEF Calm
<1>3. HeldInv'
  BY <1>1, <1>2 DEF HeldInv
<1>4. SnapshotsInv'
  BY DEF SnapshotsInv
<1>5. ASSUME NEW d \in stable'
      PROVE  /\ d.snapshot.next_qso_id <= db'.snapshot.next_qso_id
             /\ rt'.pc # "unloadable" => d.snapshot.next_qso_id <= Held'.next_qso_id
             /\ \A o \in AppliedOps' :
                  IsInsert(o) => (o.seq < d.snapshot.next_op_seq <=> o.op.id < d.snapshot.next_qso_id)
  <2>1. PICK c \in stable : d.snapshot = c.snapshot
    BY <1>5
  <2> QED BY <1>1, <1>2, <2>1 DEF IdsInv
<1>6. IdsInv'
  BY <1>1, <1>2, <1>5 DEF IdsInv
<1> QED
  BY <1>3, <1>4, <1>6

(* A new operation, under the next number and, if it is an insert, id.     *)
LEMMA StoreApply ==
  ASSUME ShapeInv, DataInv, LogStoreInv, rt.pc = "idle", NEW o, o.op \in AnyOp, o.seq = store.next_op_seq,
         IsInsert(o) => o.op.id = store.next_qso_id,
         Inv(store'), store'.pending_ops = << >>,
         store'.next_qso_id = IF IsInsert(o) THEN store.next_qso_id + 1 ELSE store.next_qso_id,
         UNCHANGED <<db, stable>>, AppliedOps' = Acknowledged \cup {o},
         \/ Acknowledged' = Acknowledged \cup {o} /\ Held' = store'
         \/ /\ Acknowledged' = Acknowledged /\ Inv(Held') /\ Held'.pending_ops = << >>
            /\ Held'.next_qso_id = store.next_qso_id
  PROVE  HeldInv' /\ IdsInv' /\ SnapshotsInv'
<1>1. /\ NumbersInv /\ HeldInv /\ IdsInv /\ SnapshotsInv
  BY DEF DataInv, LogStoreInv
<1>2. ~InMutation /\ Held = store /\ AppliedOps = Acknowledged
  BY AppliedIs DEF InMutation, Held
<1>3. Inv(store) /\ store.next_qso_id \in Nat /\ store.next_op_seq \in Nat
  BY <1>1, NextIdNat DEF HeldInv
<1> DEFINE n == store.next_qso_id
           n1 == store'.next_qso_id
           h1 == Held'.next_qso_id
<1>4. n1 \in Nat /\ n1 >= n /\ h1 \in Nat /\ h1 >= n /\ h1 <= n1
  BY <1>3
<1>5. /\ \A p \in Acknowledged : p.seq < o.seq /\ p.op.id \in Nat /\ (IsInsert(p) => p.op.id < n)
      /\ \A p \in Acknowledged : p.seq \in Nat
      /\ o.op.id \in Nat /\ o.seq \in Nat
  <2>1. \A p \in Acknowledged : p.seq < o.seq /\ p.op.id \in Nat /\ (IsInsert(p) => p.op.id < n)
    BY <1>1, <1>2, IdsAreNumbers DEF NumbersInv, IdsInv
  <2>2. \A p \in Acknowledged : p.seq \in Nat
    BY <1>1, <1>2, AppliedNumbers
  <2> QED BY <1>3, <2>1, <2>2, AnyOpFields DEF QsoId
<1>6. HeldInv'
  BY <1>4 DEF HeldInv
<1>7. SnapshotsInv'
  BY <1>1 DEF SnapshotsInv
<1>8. ASSUME NEW d \in stable
      PROVE  /\ d.snapshot.next_qso_id <= h1
             /\ d.snapshot.next_qso_id <= db.snapshot.next_qso_id
             /\ \A p \in AppliedOps' :
                  IsInsert(p) => (p.seq < d.snapshot.next_op_seq <=> p.op.id < d.snapshot.next_qso_id)
  <2>1. /\ d.snapshot.next_qso_id \in Nat /\ d.snapshot.next_qso_id <= n
        /\ d.snapshot.next_qso_id <= db.snapshot.next_qso_id
    BY <1>1, <1>2, IdsAreNumbers DEF IdsInv
  <2>2. d.snapshot.next_op_seq <= store.next_op_seq /\ d.snapshot.next_op_seq \in Nat
    <3>1. d.snapshot.next_op_seq - 1 \in Reached
      BY ReachedNumbers
    <3>2. d.snapshot.next_op_seq - 1 < store.next_op_seq
      BY <1>1, <3>1 DEF NumbersInv
    <3>3. d.snapshot.next_op_seq \in Nat
      BY DEF ShapeInv, TypeInv, DbOK, Decodes, OpSeq
    <3> QED BY <1>3, <3>2, <3>3
  <2>3. IsInsert(o) => ~(o.seq < d.snapshot.next_op_seq) /\ ~(o.op.id < d.snapshot.next_qso_id)
    BY <1>3, <2>1, <2>2
  <2>4. \A p \in Acknowledged :
          IsInsert(p) => (p.seq < d.snapshot.next_op_seq <=> p.op.id < d.snapshot.next_qso_id)
    BY <1>1, <1>2 DEF IdsInv
  <2> QED BY <1>3, <1>4, <2>1, <2>3, <2>4
<1>9. \A p, q \in AppliedOps' : IsInsert(p) /\ IsInsert(q) /\ p.seq < q.seq => p.op.id < q.op.id
  <2>1. \A p, q \in Acknowledged : IsInsert(p) /\ IsInsert(q) /\ p.seq < q.seq => p.op.id < q.op.id
    BY <1>1, <1>2 DEF IdsInv
  <2>2. \A p \in Acknowledged : ~(o.seq < p.seq)
    BY <1>5
  <2>3. ~(o.seq < o.seq)
    BY <1>5
  <2> QED BY <1>5, <2>1, <2>2, <2>3
<1>10. /\ \A p \in AppliedOps' : p.op \in AnyOp
       /\ \A p \in AppliedOps' : IsInsert(p) => p.op.id < n1
       /\ \A p \in Acknowledged' : IsInsert(p) => p.op.id < h1
  <2>1. \A p \in Acknowledged : p.op \in AnyOp
    BY <1>1, <1>2 DEF IdsInv
  <2>2. \A p \in Acknowledged : IsInsert(p) => p.op.id < n1 /\ p.op.id < h1
    BY <1>3, <1>4, <1>5
  <2>3. IsInsert(o) => o.op.id < n1
    BY <1>3
  <2> QED BY <2>1, <2>2, <2>3
<1>11. IdsInv'
  BY <1>8, <1>9, <1>10 DEF IdsInv
<1> QED
  BY <1>6, <1>7, <1>11

(* The store changes and no operation does.                                *)
LEMMA StoreSame ==
  ASSUME LogStoreInv, rt.pc # "unloadable", ~InMutation, ~InMutation', Acknowledged' = Acknowledged,
         Inv(store'), store'.pending_ops = << >>, store'.next_qso_id = store.next_qso_id,
         UNCHANGED <<db, stable>>
  PROVE  HeldInv' /\ IdsInv' /\ SnapshotsInv'
<1>1. Held' = store' /\ Held = store /\ AppliedOps' = AppliedOps
  BY AppliedIs, AppliedIsNext DEF Held
<1>2. store'.next_qso_id <= store'.next_qso_id
  BY NextIdNat
<1> QED
  BY <1>1, <1>2 DEF LogStoreInv, HeldInv, IdsInv, SnapshotsInv

(* A mutating command.                                                     *)
LEMMA StorePerform ==
  ASSUME ShapeInv, DataInv, LogStoreInv, NEW m \in Mutations, Perform(m)
  PROVE  HeldInv' /\ IdsInv' /\ SnapshotsInv'
<1> DEFINE o == StoredFor(store, m)
           applied == ClearPendingOps(Mutate(store, m))
<1>1. /\ rt.pc = "idle" /\ ~InMutation /\ rt'.pc # "unloadable" /\ m \in Mutation /\ Succeeds(store, m)
      /\ OpOK(o) /\ o.seq = store.next_op_seq
      /\ UNCHANGED <<db, stable>>
      /\ \/ store' = applied /\ accepted' = Append(accepted, o) /\ ~InMutation'
         \/ /\ store' = applied /\ accepted' = accepted /\ InMutation' /\ rt'.stored = o
            /\ Held' = Rejected(store, m)
         \/ store' = Rejected(store, m) /\ ~InMutation' /\ accepted' = accepted
  BY PerformCases
<1>2. Inv(store) /\ store.pending_ops = << >> /\ NumbersInv
  BY <1>1 DEF LogStoreInv, HeldInv, DataInv
<1>3. /\ o.op \in AnyOp /\ (IsInsert(o) <=> m.cmd = "insert")
      /\ IsInsert(o) => o.op.id = store.next_qso_id
  BY <1>1, <1>2, StoredTyped
<1>4. /\ Inv(applied) /\ applied.pending_ops = << >>
      /\ applied.next_qso_id = IF m.cmd = "insert" THEN store.next_qso_id + 1 ELSE store.next_qso_id
      /\ Inv(Rejected(store, m)) /\ Rejected(store, m).pending_ops = << >>
      /\ Rejected(store, m).next_qso_id = store.next_qso_id
  BY <1>1, <1>2, MutateNext
<1> HIDE DEF o, applied
<1>5. CASE store' = applied /\ accepted' = Append(accepted, o) /\ ~InMutation'
  <2>1. \A p \in Acknowledged : p.seq < o.seq
    BY <1>1, <1>2 DEF NumbersInv
  <2>2. Acknowledged' = Acknowledged \cup {o}
    BY <1>1, <1>2, <1>5, <2>1, AcceptedPush
  <2>3. AppliedOps' = Acknowledged \cup {o} /\ Held' = store'
    BY <1>5, <2>2, AppliedIsNext DEF Held
  <2> QED BY <1>1, <1>3, <1>4, <1>5, <2>2, <2>3, StoreApply
<1>6. CASE /\ store' = applied /\ accepted' = accepted /\ InMutation' /\ rt'.stored = o
           /\ Held' = Rejected(store, m)
  <2>1. Acknowledged' = Acknowledged
    BY <1>6 DEF Acknowledged
  <2>2. AppliedOps' = Acknowledged \cup {o}
    BY <1>6, <2>1, AppliedIsNext
  <2> QED BY <1>1, <1>3, <1>4, <1>6, <2>1, <2>2, StoreApply
<1>7. CASE store' = Rejected(store, m) /\ ~InMutation' /\ accepted' = accepted
  <2>1. Acknowledged' = Acknowledged
    BY <1>7 DEF Acknowledged
  <2> QED BY <1>1, <1>4, <1>7, <2>1, StoreSame
<1> QED
  BY <1>1, <1>5, <1>6, <1>7

(* A patch of a missing id.                                                *)
LEMMA StorePatchMissing ==
  ASSUME LogStoreInv, NEW m, PatchMissing(m)
  PROVE  HeldInv' /\ IdsInv' /\ SnapshotsInv'
<1>1. /\ rt.pc = "idle" /\ store' = FailedStore(store, m) /\ m.cmd = "patch"
      /\ UNCHANGED <<rt, accepted, db, stable>>
  BY DEF PatchMissing, workerVars
<1>2. Inv(store) /\ store.pending_ops = << >>
  BY <1>1 DEF LogStoreInv, HeldInv
<1>3. DOMAIN store = StoreFields
  BY <1>2, InvNames
<1>4. /\ Inv(store') /\ store'.pending_ops = << >> /\ store'.next_qso_id = store.next_qso_id
  <2>1. Inv(store')
    BY <1>1, <1>2, FailedInv
  <2>2. store' = [store EXCEPT !.next_op_seq = @ + 1]
    BY <1>1 DEF FailedStore
  <2> QED BY <1>2, <1>3, <2>1, <2>2 DEF StoreFields
<1>5. ~InMutation /\ ~InMutation' /\ Acknowledged' = Acknowledged
  BY <1>1 DEF InMutation, Acknowledged
<1> QED
  BY <1>1, <1>4, <1>5, StoreSame

(* The answer of the worker.                                               *)
LEMMA StoreAwait ==
  ASSUME ShapeInv, DataInv, LogStoreInv, AwaitReply
  PROVE  HeldInv' /\ IdsInv' /\ SnapshotsInv'
<1>1. /\ rt.pc = "await" /\ UNCHANGED <<db, stable>> /\ ~InMutation' /\ rt'.pc # "unloadable"
      /\ \/ InMutation /\ store' = Held /\ accepted' = accepted
         \/ InMutation /\ store' = store /\ accepted' = Append(accepted, rt.stored)
         \/ ~InMutation /\ UNCHANGED <<store, accepted>>
  BY AwaitCases
<1>2. /\ NumbersInv /\ HeldInv /\ IdsInv /\ SnapshotsInv
  BY DEF DataInv, LogStoreInv
<1>3. /\ Inv(store) /\ store.pending_ops = << >> /\ Inv(Held) /\ Held.pending_ops = << >>
      /\ Held.next_qso_id <= store.next_qso_id
      /\ store.next_qso_id \in Nat /\ Held.next_qso_id \in Nat
  BY <1>1, <1>2, NextIdNat DEF HeldInv
<1>4. Held' = store' /\ AppliedOps' = Acknowledged'
  BY <1>1, AppliedIsNext DEF Held
<1>5. CASE InMutation /\ store' = Held /\ accepted' = accepted
  <2>1. Acknowledged' = Acknowledged /\ AppliedOps = Acknowledged \cup {rt.stored}
    BY <1>5, AppliedIs DEF Acknowledged
  <2>2. HeldInv'
    BY <1>3, <1>4, <1>5 DEF HeldInv
  <2>3. IdsInv'
    BY <1>1, <1>2, <1>4, <1>5, <2>1 DEF IdsInv
  <2> QED BY <1>1, <1>2, <2>2, <2>3 DEF SnapshotsInv
<1>6. CASE InMutation /\ store' = store /\ accepted' = Append(accepted, rt.stored)
  <2>1. OpOK(rt.stored) /\ \A p \in Acknowledged : p.seq < rt.stored.seq
    BY <1>2, <1>6 DEF ShapeInv, TypeInv, LoopOK, NumbersInv
  <2>2. Acknowledged' = Acknowledged \cup {rt.stored}
    BY <1>2, <1>6, <2>1, AcceptedPush
  <2>3. AppliedOps' = AppliedOps
    BY <1>4, <1>6, <2>2, AppliedIs
  <2>4. HeldInv'
    BY <1>3, <1>4, <1>6 DEF HeldInv
  <2>5. \A d \in stable : d.snapshot.next_qso_id <= store.next_qso_id
    <3>1. \A d \in stable : d.snapshot.next_qso_id <= Held.next_qso_id /\ d.snapshot.next_qso_id \in Nat
      BY <1>1, <1>2, IdsAreNumbers DEF IdsInv
    <3> QED BY <1>3, <3>1
  <2>6. IdsInv'
    BY <1>1, <1>2, <1>4, <1>6, <2>3, <2>5 DEF IdsInv
  <2> QED BY <1>1, <1>2, <2>4, <2>6 DEF SnapshotsInv
<1>7. CASE ~InMutation /\ UNCHANGED <<store, accepted>>
  <2>1. Acknowledged' = Acknowledged /\ rt.pc # "unloadable"
    BY <1>1, <1>7 DEF Acknowledged
  <2> QED BY <1>1, <1>3, <1>7, <2>1, StoreSame
<1> QED
  BY <1>1, <1>5, <1>6, <1>7

(* A batch changes no snapshot.                                            *)
LEMMA StoreFlushBuf ==
  ASSUME ErrorsReturned, ShapeInv, DataInv, LogStoreInv, FlushBuf
  PROVE  HeldInv' /\ IdsInv' /\ SnapshotsInv'
<1>1. DbOK
  BY DEF ShapeInv, TypeInv
<1>2. db \in stable /\ DOMAIN db = {"events", "snapshot"}
  BY <1>1 DEF DbOK
<1>3. db' \in {db, AppendOps(db, wk.buf)} /\ stable' \subseteq stable \cup {db'}
  BY <1>2, FlushCases
<1>4. AppendOps(db, wk.buf).snapshot = db.snapshot
  BY <1>2, BatchIsNew, AppendOpsFacts
<1>5. db'.snapshot = db.snapshot
  BY <1>3, <1>4
<1>6. \A d \in stable' : \E c \in stable : d.snapshot = c.snapshot
  BY <1>2, <1>3, <1>5
<1>7. Calm
  BY CalmSteps DEF Worker
<1> QED
  BY <1>5, <1>6, <1>7, StoreCalm DEF LogStoreInv

(* Where a checkpoint stands once its flush is done.                       *)
LEMMA CheckpointCases ==
  ASSUME ShapeInv, UnderWayInv, WriteSnapshot \/ CompactThrough
  PROVE  /\ Working /\ ~InMutation /\ rt.pc = "await" /\ rt.job \in {"checkpoint", "auto"}
         /\ rt'.pc = rt.pc /\ rt'.job = rt.job /\ queue' = queue
         /\ wk.msg.snapshot = ExportSnapshot(store)
         /\ \/ /\ wk.pc = "snapshot" /\ db'.snapshot = ExportSnapshot(store) /\ db'.events = db.events
               /\ stable' \subseteq stable \cup {db'} /\ db' \in stable'
               /\ \/ wk' = [wk EXCEPT !.pc = "compact"] /\ reply' = reply
                  \/ wk' = [wk EXCEPT !.pc = "recv", !.msg = NoMsg] /\ reply' = "ok"
            \/ /\ wk.pc = "compact" /\ db'.snapshot = db.snapshot /\ db.snapshot = ExportSnapshot(store)
               /\ stable' \subseteq stable \cup {db'} /\ db' \in stable'
               /\ wk' = [wk EXCEPT !.pc = "recv", !.msg = NoMsg] /\ reply' = "ok"
            \/ /\ UNCHANGED <<db, stable>> /\ reply' = "err"
               /\ wk' = [wk EXCEPT !.pc = "recv", !.msg = NoMsg]
<1>1. /\ wk.pc \in {"snapshot", "compact"} /\ UNCHANGED <<loopVars, queue, durable, config>>
  BY DEF WriteSnapshot, CompactThrough
<1>2. LoopOK /\ DbOK /\ Working
  BY <1>1 DEF ShapeInv, TypeInv, Flow, Quiet, Asked, Answered
<1>3. wk.msg.t = "Checkpoint" /\ rt.pc = "await"
  BY <1>1, <1>2 DEF ShapeInv, TypeInv, WorkerOK, Working
<1>4. rt.job \in {"checkpoint", "auto"}
  <2>1. rt.job \in Jobs /\ MessageType(rt.job) = "Checkpoint"
    BY <1>2, <1>3 DEF LoopOK, Working
  <2> QED BY <2>1 DEF Jobs, MessageType
<1>5. ~InMutation /\ rt' = rt
  BY <1>1, <1>4 DEF InMutation, loopVars
<1>6. wk.msg.snapshot = ExportSnapshot(store) /\ (wk.pc = "compact" => db.snapshot = ExportSnapshot(store))
  BY <1>1, <1>3 DEF UnderWayInv
<1>7. DOMAIN db = {"events", "snapshot"}
  BY <1>2 DEF DbOK
<1>8. CASE wk.pc = "snapshot" /\ Commits(InsertSnapshot(db, wk.msg.snapshot))
           /\ ((wk' = [wk EXCEPT !.pc = "compact"] /\ UNCHANGED reply) \/ CheckpointDone("ok"))
  <2>1. /\ InsertSnapshot(db, wk.msg.snapshot).snapshot = ExportSnapshot(store)
        /\ InsertSnapshot(db, wk.msg.snapshot).events = db.events
    BY <1>6, <1>7, InsertSnapshotFacts
  <2>2. /\ db' = InsertSnapshot(db, wk.msg.snapshot)
        /\ stable' \subseteq stable \cup {db'} /\ db' \in stable'
    BY <1>8 DEF Commits
  <2> QED BY <1>1, <1>2, <1>3, <1>4, <1>5, <1>6, <1>8, <2>1, <2>2 DEF CheckpointDone
<1>9. CASE /\ wk.pc = "compact" /\ CheckpointDone("ok")
           /\ Commits(DeleteEventsThrough(db, wk.msg.snapshot.next_op_seq - 1))
  <2>1. DeleteEventsThrough(db, wk.msg.snapshot.next_op_seq - 1).snapshot = db.snapshot
    BY <1>7, DeleteEventsFacts
  <2>2. /\ db' = DeleteEventsThrough(db, wk.msg.snapshot.next_op_seq - 1)
        /\ stable' \subseteq stable \cup {db'} /\ db' \in stable'
    BY <1>9 DEF Commits
  <2> QED BY <1>1, <1>2, <1>3, <1>4, <1>5, <1>6, <1>9, <2>1, <2>2 DEF CheckpointDone
<1>10. CASE UNCHANGED <<db, stable>> /\ CheckpointDone("err")
  BY <1>1, <1>2, <1>3, <1>4, <1>5, <1>6, <1>10 DEF CheckpointDone
<1> QED
  BY <1>8, <1>9, <1>10 DEF WriteSnapshot, CompactThrough, CheckpointFails

(* A snapshot of the store as it is.                                       *)
LEMMA StoreCheckpoint ==
  ASSUME ShapeInv, DataInv, LogStoreInv, WriteSnapshot \/ CompactThrough
  PROVE  HeldInv' /\ IdsInv' /\ SnapshotsInv'
<1>1. /\ NumbersInv /\ HeldInv /\ IdsInv /\ SnapshotsInv /\ UnderWayInv
  BY DEF DataInv, LogStoreInv
<1>2. Calm
  BY CalmSteps DEF Worker
<1>3. /\ ~InMutation /\ rt.pc = "await"
      /\ \/ db'.snapshot = ExportSnapshot(store) /\ stable' \subseteq stable \cup {db'}
         \/ db'.snapshot = db.snapshot /\ stable' \subseteq stable \cup {db'}
         \/ UNCHANGED <<db, stable>>
  BY <1>1, CheckpointCases
<1>4. db \in stable
  BY DEF ShapeInv, TypeInv, DbOK
<1>5. CASE db'.snapshot = db.snapshot /\ stable' \subseteq stable \cup {db'}
  <2>1. \A d \in stable' : \E c \in stable : d.snapshot = c.snapshot
    BY <1>4, <1>5
  <2> QED BY <1>1, <1>2, <1>5, <2>1, StoreCalm
<1>6. CASE db'.snapshot = ExportSnapshot(store) /\ stable' \subseteq stable \cup {db'}
  <2>1. Held' = Held /\ Acknowledged' = Acknowledged /\ AppliedOps' = AppliedOps
    BY <1>2, CalmKeeps
  <2>2. store' = store /\ Held = store /\ rt'.pc # "unloadable"
    BY <1>2, <1>3 DEF Calm, Held
  <2>3. Inv(store) /\ store.next_qso_id \in Nat /\ store.next_op_seq \in Nat
    BY <1>1, <1>3, NextIdNat DEF HeldInv
  <2> DEFINE snap == ExportSnapshot(store)
  <2>4. snap.next_qso_id = store.next_qso_id /\ snap.next_op_seq = store.next_op_seq
    BY DEF ExportSnapshot
  <2>5. Inv(FromSnapshot(snap))
    BY <2>3, RestoreInv
  <2> HIDE DEF snap
  <2>6. db'.snapshot = snap
    BY <1>6 DEF snap
  <2>7. HeldInv'
    BY <1>1, <1>3, <2>1, <2>2 DEF HeldInv
  <2>8. SnapshotsInv'
    BY <1>1, <1>6, <2>5, <2>6 DEF SnapshotsInv
  <2>9. ASSUME NEW d \in stable'
        PROVE  /\ d.snapshot.next_qso_id <= store.next_qso_id
               /\ \A o \in AppliedOps : IsInsert(o) =>
                    (o.seq < d.snapshot.next_op_seq <=> o.op.id < d.snapshot.next_qso_id)
    <3>1. CASE d \in stable
      BY <1>1, <1>3, <2>2, <3>1 DEF IdsInv
    <3>2. CASE d = db'
      <4>1. \A o \in AppliedOps : o.seq < store.next_op_seq
        BY <1>1, <1>3, AppliedNumbers
      <4>2. \A o \in AppliedOps : IsInsert(o) => o.op.id < store.next_qso_id
        BY <1>1, <1>3 DEF IdsInv
      <4> QED BY <2>3, <2>4, <2>6, <3>2, <4>1, <4>2
    <3> QED BY <1>6, <3>1, <3>2
  <2>10. IdsInv'
    BY <1>1, <1>3, <2>1, <2>2, <2>4, <2>6, <2>9 DEF IdsInv
  <2> QED BY <2>7, <2>8, <2>10
<1>7. CASE UNCHANGED <<db, stable>>
  BY <1>1, <1>2, <1>7, StoreCalm
<1> QED
  BY <1>3, <1>5, <1>6, <1>7

(* What opening the log again leaves of the operations.                    *)
LEMMA ReopenFacts ==
  ASSUME ShapeInv, DataInv, Reopen
  PROVE  \E d \in stable :
           /\ store' = LoadStore(d).store /\ LoadStore(d).ok \in BOOLEAN
           /\ rt'.pc = (IF LoadStore(d).ok THEN "idle" ELSE "unloadable") /\ ~InMutation'
           /\ accepted' = Surviving(Applied, d)
           /\ db' = d /\ stable' = (IF d = db THEN stable ELSE {d})
           /\ AppliedOps' = Acknowledged'
           /\ \A o : o \in Acknowledged' <=> o \in AppliedOps /\ Journaled(d, o)
<1>1. PICK d \in stable : LET loaded == LoadStore(d) IN
        /\ store' = loaded.store
        /\ rt' = IF loaded.ok THEN Idle ELSE [pc |-> "unloadable"]
        /\ accepted' = Surviving(Applied, d)
        /\ db' = d /\ stable' = IF d = db THEN stable ELSE {d}
  BY DEF Reopen, Applied
<1>2. DbOK /\ NumbersInv
  BY DEF ShapeInv, TypeInv, DataInv
<1>3. Decodes(d, MaxOps) /\ MaxOps \in Nat
  BY <1>2, FaultsAssumption DEF DbOK
<1>4. LoadStore(d).ok \in BOOLEAN
  BY <1>3, LoadFrame
<1>5. rt'.pc = (IF LoadStore(d).ok THEN "idle" ELSE "unloadable")
  BY <1>1, <1>4 DEF Idle
<1>6. ~InMutation'
  BY <1>5 DEF InMutation
<1>7. AppliedOps' = Acknowledged'
  BY <1>6, AppliedIsNext
<1>8. IsSeq(Applied) /\ ToSet(Applied) = AppliedOps
  BY <1>2, AppliedSeq
<1>9. accepted' = Surviving(Applied, d)
  BY <1>1
<1>10. /\ \A k \in DOMAIN accepted' : Journaled(d, accepted'[k])
       /\ \A i \in DOMAIN Applied : Journaled(d, Applied[i]) =>
            \E k \in DOMAIN accepted' : accepted'[k] = Applied[i]
       /\ \E at : \A k \in DOMAIN accepted' : at[k] \in DOMAIN Applied /\ accepted'[k] = Applied[at[k]]
  BY <1>8, <1>9, SurvivingFacts
<1>11. \A k \in DOMAIN accepted' : \E i \in DOMAIN Applied : accepted'[k] = Applied[i]
  BY <1>10
<1>12. \A o : o \in Acknowledged' <=> \E k \in DOMAIN accepted' : o = accepted'[k]
  BY DEF Acknowledged, ToSet
<1>13. \A o : o \in AppliedOps <=> \E i \in DOMAIN Applied : o = Applied[i]
  BY <1>8 DEF ToSet
<1>14. \A o : o \in Acknowledged' <=> o \in AppliedOps /\ Journaled(d, o)
  BY <1>10, <1>11, <1>12, <1>13
<1> QED
  BY <1>1, <1>4, <1>5, <1>6, <1>7, <1>14

(* What the events of a database bring to a store loaded from it.          *)
LEMMA EventsAreFresh ==
  ASSUME DataInv, IdsInv, ShapeInv, SnapshotsInv, NEW d \in stable
  PROVE  FreshIds(d)
<1>1. EventsInv /\ DbOK
  BY DEF DataInv, ShapeInv, TypeInv
<1>2. \A n \in DOMAIN d.events : n \in Nat /\ d.snapshot.next_op_seq \in Nat
  BY <1>1 DEF DbOK, Decodes, OpSeq
<1>3. \A n \in DOMAIN d.events : n >= d.snapshot.next_op_seq => StoredOp(n, d.events[n]) \in AppliedOps
  BY <1>1 DEF EventsInv
<1>4. \A n, o : StoredOp(n, o).seq = n /\ StoredOp(n, o).op = o
  BY DEF StoredOp
<1>5. ASSUME NEW n \in DOMAIN d.events, n >= d.snapshot.next_op_seq
      PROVE  /\ d.events[n] \in AnyOp
             /\ d.events[n].type = "Insert" => d.events[n].id >= d.snapshot.next_qso_id
  <2> DEFINE o == StoredOp(n, d.events[n])
  <2>1. o \in AppliedOps /\ o.seq = n /\ o.op = d.events[n]
    BY <1>3, <1>4, <1>5
  <2> HIDE DEF o
  <2>2. o.op \in AnyOp /\ o.op.id \in Nat /\ d.snapshot.next_qso_id \in Nat
    BY <2>1, IdsAreNumbers DEF IdsInv
  <2>3. IsInsert(o) => ~(o.op.id < d.snapshot.next_qso_id)
    BY <1>2, <1>5, <2>1 DEF IdsInv
  <2> QED BY <2>1, <2>2, <2>3 DEF IsInsert
<1>6. ASSUME NEW n \in DOMAIN d.events, NEW k \in DOMAIN d.events, n >= d.snapshot.next_op_seq, k > n,
             d.events[n].type = "Insert", d.events[k].type = "Insert"
      PROVE  d.events[n].id < d.events[k].id
  <2> DEFINE o == StoredOp(n, d.events[n])
             p == StoredOp(k, d.events[k])
  <2>1. k >= d.snapshot.next_op_seq /\ n < k
    BY <1>2, <1>6
  <2>2. /\ o \in AppliedOps /\ o.seq = n /\ o.op = d.events[n]
        /\ p \in AppliedOps /\ p.seq = k /\ p.op = d.events[k]
    BY <1>3, <1>4, <1>6, <2>1
  <2> HIDE DEF o, p
  <2> QED BY <1>6, <2>1, <2>2 DEF IdsInv, IsInsert
<1> QED
  BY <1>5, <1>6 DEF FreshIds

(* The log is opened again.                                                *)
LEMMA StoreReopen ==
  ASSUME ShapeInv, DataInv, LogStoreInv, Reopen
  PROVE  HeldInv' /\ IdsInv' /\ SnapshotsInv'
<1>1. PICK d \in stable :
           /\ store' = LoadStore(d).store /\ LoadStore(d).ok \in BOOLEAN
           /\ rt'.pc = (IF LoadStore(d).ok THEN "idle" ELSE "unloadable") /\ ~InMutation'
           /\ db' = d /\ stable' = (IF d = db THEN stable ELSE {d})
           /\ AppliedOps' = Acknowledged'
           /\ \A o : o \in Acknowledged' <=> o \in AppliedOps /\ Journaled(d, o)
  BY ReopenFacts
<1>2. /\ NumbersInv /\ HeldInv /\ IdsInv /\ SnapshotsInv /\ DbOK
  BY DEF DataInv, LogStoreInv, ShapeInv, TypeInv
<1>3. Decodes(d, MaxOps) /\ MaxOps \in Nat /\ Inv(FromSnapshot(d.snapshot))
  BY <1>2, FaultsAssumption DEF DbOK, SnapshotsInv
<1>4. FreshIds(d)
  BY <1>2, EventsAreFresh
<1> DEFINE l == LoadStore(d)
<1>5. /\ Inv(l.store) /\ l.store.pending_ops = << >>
      /\ l.store.next_qso_id >= d.snapshot.next_qso_id
      /\ l.ok => \A n \in DOMAIN d.events :
           n >= d.snapshot.next_op_seq /\ d.events[n].type = "Insert" =>
             d.events[n].id < l.store.next_qso_id
  BY <1>3, <1>4, LoadInv
<1> HIDE DEF l
<1>6. /\ store' = l.store /\ Held' = l.store /\ l.ok \in BOOLEAN
      /\ rt'.pc # "unloadable" => l.ok
  <2>1. Held' = store'
    BY <1>1 DEF Held
  <2> QED BY <1>1, <2>1 DEF l
<1> DEFINE next == l.store.next_qso_id
<1>7. /\ next \in Nat /\ d.snapshot.next_qso_id \in Nat /\ d.snapshot.next_op_seq \in Nat
  BY <1>2, <1>3, <1>5, IdsAreNumbers, NextIdNat DEF Decodes, OpSeq
<1>8. HeldInv'
  BY <1>5, <1>6, <1>7 DEF HeldInv
<1>9. /\ stable' \subseteq stable
      /\ \A e \in stable' : e.snapshot.next_qso_id <= d.snapshot.next_qso_id
  <2>1. CASE d = db
    BY <1>1, <1>2, <2>1 DEF IdsInv
  <2>2. CASE d # db
    BY <1>1, <1>7, <2>2
  <2> QED BY <2>1, <2>2
<1>10. SnapshotsInv'
  BY <1>2, <1>9 DEF SnapshotsInv
<1>11. ASSUME l.ok, NEW o \in Acknowledged', IsInsert(o)
       PROVE  o.op.id < next
  <2>1. o \in AppliedOps /\ Journaled(d, o)
    BY <1>1, <1>11
  <2>2. o.op.id \in Nat /\ o.seq \in Nat
    BY <1>2, <2>1, IdsAreNumbers, AppliedNumbers
  <2>3. CASE o.seq < d.snapshot.next_op_seq
    <3>1. o.op.id < d.snapshot.next_qso_id
      BY <1>2, <1>11, <2>1, <2>3 DEF IdsInv
    <3> QED BY <1>5, <1>7, <2>2, <3>1
  <2>4. CASE ~(o.seq < d.snapshot.next_op_seq)
    <3>1. o.seq \in DOMAIN d.events /\ d.events[o.seq] = o.op /\ o.seq >= d.snapshot.next_op_seq
      BY <1>7, <2>1, <2>2, <2>4 DEF Journaled
    <3> QED BY <1>5, <1>11, <3>1 DEF IsInsert
  <2> QED BY <2>3, <2>4
<1>12. \A e \in stable' : e.snapshot.next_qso_id <= next
  <2>1. \A e \in stable' : e.snapshot.next_qso_id \in Nat
    BY <1>2, <1>9, IdsAreNumbers
  <2> QED BY <1>5, <1>7, <1>9, <2>1
<1>13. AppliedOps' \subseteq AppliedOps
  BY <1>1
<1>14. IdsInv'
  BY <1>1, <1>2, <1>6, <1>9, <1>11, <1>12, <1>13 DEF IdsInv
<1> QED
  BY <1>8, <1>10, <1>14


(* While no answer is awaited, no checkpoint is under way.                 *)
LEMMA UnderWayQuiet ==
  ASSUME ShapeInv', rt'.pc # "await"
  PROVE  UnderWayInv'
BY DEF ShapeInv, Flow, Quiet, Asked, Working, Answered, UnderWayInv

(* The loop is asked for one thing at a time.                              *)
LEMMA UnderWayAsks ==
  ASSUME ShapeInv, UnderWayInv, SendToWorker
  PROVE  UnderWayInv'
<1>1. /\ rt.pc = "send" /\ UNCHANGED <<store, reply, wk, db>> /\ rt'.pc = "await"
      /\ queue' = Append(queue, MessageFor(rt.job))
  BY DEF SendToWorker, workerVars, ShapeInv, TypeInv, LoopOK
<1>2. QueueOK /\ Frame(store) /\ rt.job \in Jobs /\ Quiet
  BY <1>1 DEF ShapeInv, TypeInv, LoopOK, Flow, Asked, Working, Answered
<1> DEFINE msg == MessageFor(rt.job)
<1>3. MsgOK(msg) /\ (msg.t = "Checkpoint" => msg.snapshot = ExportSnapshot(store))
  BY <1>2, MessageOK
<1> HIDE DEF msg
<1>4. /\ Len(queue) \in Nat /\ queue'[Len(queue) + 1] = msg
      /\ DOMAIN queue' = 1..(Len(queue) + 1) /\ DOMAIN queue = 1..Len(queue)
      /\ \A i \in 1..Len(queue) : queue'[i] = queue[i]
  <2>1. queue' = Append(queue, msg)
    BY <1>1 DEF msg
  <2> QED BY <1>2, <1>3, <2>1, QueueOpsPush
<1>5. \A i \in DOMAIN queue' : i \in DOMAIN queue \/ i = Len(queue) + 1
  BY <1>4
<1>6. \A i \in DOMAIN queue' : queue'[i].t = "Checkpoint" => queue'[i].snapshot = ExportSnapshot(store)
  BY <1>3, <1>4, <1>5 DEF UnderWayInv
<1> QED
  BY <1>1, <1>2, <1>6 DEF UnderWayInv, Quiet, None

(* The snapshot in a message is the one the loop took.                     *)
LEMMA UnderWayTakes ==
  ASSUME ShapeInv, UnderWayInv, Receive \/ DeadlineExpires \/ QueueClosed
  PROVE  UnderWayInv'
<1>1. /\ UNCHANGED <<store, rt, reply, db>> /\ wk.pc = "recv"
  BY DEF Receive, DeadlineExpires, QueueClosed, Wake, loopVars
<1>2. WorkerOK /\ QueueOK
  BY DEF ShapeInv, TypeInv
<1>3. CASE DeadlineExpires \/ QueueClosed
  <2>1. PICK msg \in {TimerMsg, ClosedMsg} : Wake(msg)
    BY <1>3 DEF DeadlineExpires, QueueClosed
  <2>2. msg.t \in {"Timer", "Closed"}
    BY DEF TimerMsg, ClosedMsg
  <2>3. queue' = queue /\ wk'.pc = "flush" /\ wk'.msg = msg
    BY <1>2, <2>1 DEF Wake, WorkerOK
  <2> QED BY <1>1, <2>2, <2>3 DEF UnderWayInv
<1>4. CASE Receive
  <2> DEFINE msg == Head(queue)
  <2>1. /\ queue # << >> /\ queue' = Tail(queue)
        /\ \/ wk'.pc = "flush" /\ wk'.msg = msg
           \/ wk'.pc = "recv"
    BY <1>2, <1>4 DEF Receive, WorkerOK
  <2>2. IsSeq(queue)
    BY <1>2 DEF QueueOK
  <2>3. \A i \in DOMAIN queue' : i + 1 \in DOMAIN queue /\ queue'[i] = queue[i + 1]
    BY <2>1, <2>2, SeqTail
  <2>4. 1 \in DOMAIN queue /\ msg = queue[1]
    BY <2>1, <2>2, SeqTail
  <2> HIDE DEF msg
  <2>5. msg.t = "Checkpoint" => msg.snapshot = ExportSnapshot(store)
    BY <2>4 DEF UnderWayInv
  <2> QED BY <1>1, <2>1, <2>3, <2>5 DEF UnderWayInv
<1> QED
  BY <1>3, <1>4

(* A flush that is not a checkpoint's is answered to somebody else.        *)
LEMMA UnderWayFlushes ==
  ASSUME ErrorsReturned, ShapeInv, UnderWayInv, FlushBuf
  PROVE  UnderWayInv'
<1>1. /\ wk.pc = "flush" /\ UNCHANGED <<store, rt, queue>>
  BY FlushCases DEF loopVars
<1>2. WorkerOK /\ (Quiet \/ Asked \/ Working) /\ LoopOK
  BY <1>1 DEF ShapeInv, TypeInv, Flow, Answered
<1>3. ASSUME NEW ok \in BOOLEAN, NEW last, AfterFlush(ok, last)
      PROVE  /\ wk'.pc \in {"recv", "snapshot", "dead"}
             /\ wk'.pc = "snapshot" => wk'.msg = wk.msg
             /\ reply' = "ok" => reply = "ok" \/ wk.msg.t \in {"Flush", "Shutdown"}
  <2>1. /\ wk'.pc = PcAfter(wk.msg.t, ok) /\ reply' = ReplyTo(wk.msg.t, ok)
        /\ wk'.msg = IF wk.msg.t = "Checkpoint" /\ ok THEN wk.msg ELSE NoMsg
    BY <1>2, <1>3 DEF AfterFlush, WorkerAfter, WorkerOK
  <2> QED BY <2>1 DEF PcAfter, ReplyTo
<1>4. \/ AfterFlush(TRUE, wk.last_durable) \/ AfterFlush(TRUE, MaxOf(wk.last_durable, Last(wk.buf).seq))
      \/ AfterFlush(FALSE, wk.last_durable)
  BY FlushCases DEF FlushSucceeds, AppendFails
<1>5. /\ wk'.pc \in {"recv", "snapshot", "dead"}
      /\ wk'.pc = "snapshot" => wk'.msg = wk.msg
      /\ reply' = "ok" => reply = "ok" \/ wk.msg.t \in {"Flush", "Shutdown"}
  BY <1>3, <1>4
<1>6. reply = None
  BY <1>2 DEF Quiet, Asked, Working
<1>7. rt.pc = "await" /\ rt.job \in {"checkpoint", "auto"} => reply' # "ok"
  <2> SUFFICES ASSUME rt.pc = "await", rt.job \in {"checkpoint", "auto"} PROVE reply' # "ok"
    OBVIOUS
  <2>1. wk.msg.t \in {"Op", "Timer", "Checkpoint"}
    BY <1>1, <1>2 DEF Quiet, Asked, Working, MessageType
  <2> QED BY <1>5, <1>6, <2>1 DEF None
<1> QED
  BY <1>1, <1>5, <1>7 DEF UnderWayInv

LEMMA UnderWayWrites ==
  ASSUME ShapeInv, UnderWayInv, WriteSnapshot \/ CompactThrough
  PROVE  UnderWayInv'
<1>1. store' = store
  BY DEF WriteSnapshot, CompactThrough, loopVars
<1>2. WorkerOK /\ queue' = queue
  BY CheckpointCases DEF ShapeInv, TypeInv
<1>3. /\ wk'.pc \in {"recv", "compact"} /\ (wk'.pc = "compact" => wk'.msg = wk.msg)
      /\ wk'.pc = "compact" \/ reply' = "ok" => db'.snapshot = ExportSnapshot(store)
      /\ wk.msg.snapshot = ExportSnapshot(store)
  <2>1. wk.msg.snapshot = ExportSnapshot(store) /\ Working
    BY CheckpointCases
  <2>2. reply = None
    BY <2>1 DEF Working
  <2> QED BY <1>2, <2>1, <2>2, CheckpointCases DEF WorkerOK, None
<1> QED
  BY <1>1, <1>2, <1>3 DEF UnderWayInv

LEMMA UnderWayStep ==
  ASSUME ErrorsReturned, ShapeInv, UnderWayInv, [Next]_vars
  PROVE  UnderWayInv'
<1>1. ShapeInv'
  BY ShapeStep
<1>2. CASE rt'.pc # "await"
  BY <1>1, <1>2, UnderWayQuiet
<1>3. CASE Runtime /\ rt'.pc = "await"
  <2>1. SendToWorker
    <3>1. ASSUME NEW m \in Mutations, Perform(m) PROVE FALSE
      BY <1>3, <3>1, PerformCases
    <3>2. ASSUME AwaitReply PROVE FALSE
      BY <1>3, <3>2, AwaitCases
    <3>3. ASSUME NEW m, PatchMissing(m) PROVE FALSE
      BY <1>3, <3>3 DEF PatchMissing
    <3>4. ASSUME NEW job, Control(job) PROVE FALSE
      BY <1>3, <3>4 DEF Control, Stopped, Idle
    <3>5. ASSUME ObserveDurable \/ DropHandles PROVE FALSE
      BY <1>3, <3>5 DEF ObserveDurable, DropHandles, Stopped
    <3> QED BY <1>3, <3>1, <3>2, <3>3, <3>4, <3>5 DEF Runtime
  <2> QED BY <2>1, UnderWayAsks
<1>4. CASE Worker
  BY <1>4, UnderWayTakes, UnderWayFlushes, UnderWayWrites DEF Worker
<1>5. CASE Reopen
  <2>1. rt'.pc # "await"
    BY <1>5 DEF Reopen, Idle
  <2> QED BY <1>1, <2>1, UnderWayQuiet
<1>6. CASE UNCHANGED vars
  BY <1>6 DEF vars, loopVars, workerVars, UnderWayInv
<1> QED
  BY <1>2, <1>3, <1>4, <1>5, <1>6 DEF Next


------------------------------------------------------------------------------
(* The invariant                                                           *)

LEMMA StoreInit == ASSUME Init PROVE LogStoreInv
<1>1. /\ store = NewStore /\ rt = Idle /\ accepted = << >> /\ db = EmptyDb /\ stable = {EmptyDb}
      /\ reply = None /\ queue = << >> /\ wk \in {NewWorker, NoWorker}
  BY DEF Init
<1>2. rt.pc = "idle" /\ ~InMutation /\ Held = store
  BY <1>1 DEF Idle, InMutation, Held
<1>3. Acknowledged = {}
  BY <1>1 DEF Acknowledged, ToSet
<1>4. AppliedOps = {}
  BY <1>2, <1>3, AppliedIs
<1>5. Inv(NewStore) /\ Inv(FromSnapshot(ExportSnapshot(NewStore))) /\ NewStore.next_qso_id \in Nat
  BY NewStoreInv, RestoreInv, NextIdNat
<1>6. NewStore.pending_ops = << >> /\ ExportSnapshot(NewStore).next_qso_id = NewStore.next_qso_id
  BY DEF NewStore, ExportSnapshot
<1>7. EmptyDb.snapshot = ExportSnapshot(NewStore)
  BY DEF EmptyDb
<1>8. HeldInv
  BY <1>1, <1>2, <1>5, <1>6 DEF HeldInv
<1>9. SnapshotsInv
  BY <1>1, <1>5, <1>7 DEF SnapshotsInv
<1>10. IdsInv
  BY <1>1, <1>2, <1>3, <1>4, <1>5, <1>6, <1>7 DEF IdsInv
<1>11. wk.pc \notin {"flush", "snapshot", "compact"} /\ DOMAIN queue = {}
  BY <1>1 DEF NewWorker, NoWorker
<1>12. UnderWayInv
  BY <1>2, <1>11 DEF UnderWayInv
<1> QED
  BY <1>8, <1>9, <1>10, <1>12 DEF LogStoreInv

LEMMA StoreStep ==
  ASSUME ErrorsReturned, ShapeInv, DataInv, LogStoreInv, [Next]_vars
  PROVE  LogStoreInv'
<1> SUFFICES HeldInv' /\ IdsInv' /\ SnapshotsInv'
  BY UnderWayStep DEF LogStoreInv
<1>1. CASE \E m \in Mutations : Perform(m)
  BY <1>1, StorePerform
<1>2. CASE \E m \in Mutations : PatchMissing(m)
  BY <1>2, StorePatchMissing
<1>3. CASE \/ DropHandles \/ \E job \in {"flush", "checkpoint", "shutdown"} : Control(job)
           \/ SendToWorker \/ ObserveDurable \/ Receive \/ DeadlineExpires \/ QueueClosed
           \/ UNCHANGED vars
  <2>1. Calm
    BY <1>3, CalmSteps DEF Worker
  <2>2. UNCHANGED <<db, stable>>
    BY <1>3 DEF DropHandles, Control, SendToWorker, ObserveDurable, Receive, DeadlineExpires,
                QueueClosed, Wake, vars, workerVars
  <2> QED BY <2>1, <2>2, StoreCalm DEF LogStoreInv
<1>4. CASE AwaitReply
  BY <1>4, StoreAwait
<1>5. CASE FlushBuf
  BY <1>5, StoreFlushBuf
<1>6. CASE WriteSnapshot \/ CompactThrough
  BY <1>6, StoreCheckpoint
<1>7. CASE Reopen
  BY <1>7, StoreReopen
<1> QED
  BY <1>1, <1>2, <1>3, <1>4, <1>5, <1>6, <1>7 DEF Next, Runtime, Worker

(* Every store the log has, takes back (core/store.rs:287) or loads        *)
(* (persist/sqlite.rs:59) satisfies the invariant of core/store.rs, ids    *)
(* are given out once, and a checkpoint under way carries the store.       *)
THEOREM LogStoreInvariant ==
  ASSUME ErrorsReturned
  PROVE  Spec => []LogStoreInv
<1>1. Init => LogStoreInv
  BY StoreInit
<1>2. ShapeInv /\ DataInv /\ LogStoreInv /\ [Next]_vars => LogStoreInv'
  BY StoreStep
<1> QED
  BY <1>1, <1>2, ShapeInvariant, DataInvariant, PTL DEF Spec

------------------------------------------------------------------------------
(* A checkpoint's answer                                                   *)

(* Loading a database with no event after its snapshot.                    *)
LEMMA LoadNoEvents ==
  ASSUME NEW N \in Nat, NEW d, Decodes(d, N), \A n \in DOMAIN d.events : n < d.snapshot.next_op_seq
  PROVE  LoadStore(d) = [ok |-> TRUE, store |-> FromSnapshot(d.snapshot)]
<1> DEFINE base == FromSnapshot(d.snapshot)
           E    == LoadEventsAfter(d, LatestOpSeq(base))
<1>1. base.next_op_seq = d.snapshot.next_op_seq
  BY RestoreFields
<1>2. LoadStore(d) = LoadAll(base, E)
  BY DEF LoadStore
<1> HIDE DEF base
<1>3. \A n \in DOMAIN d.events : n \in Nat /\ ~(n > LatestOpSeq(base))
  BY <1>1 DEF LatestOpSeq, Decodes, OpSeq
<1>4. IsSeq(E) /\ \A k \in DOMAIN E : E[k].seq \in DOMAIN d.events /\ E[k].seq > LatestOpSeq(base)
  BY LoadEventsOK DEF Decodes
<1> HIDE DEF E
<1>5. DOMAIN E = {}
  BY <1>3, <1>4
<1>6. Len(E) = 0
  <2>1. Len(E) \in Nat /\ DOMAIN E = 1..Len(E)
    BY <1>4, SeqFacts
  <2> QED BY <1>5, <2>1
<1>7. PICK g : LoadRun(g, base, E, Len(E)) /\ LoadAll(base, E) = g[Len(E)]
  BY <1>6, LoadAllRun
<1> QED
  BY <1>2, <1>6, <1>7 DEF LoadRun, base


(* When a checkpoint answers Ok (runtime/handle.rs:621, 793), opening the  *)
(* log again (persist/sqlite.rs:59) gives the store in memory, lost        *)
(* batches before it included: the snapshot is the store's, and no event   *)
(* of the journal is beyond it.                                            *)
THEOREM CheckpointIsExact ==
  ASSUME ErrorsReturned
  PROVE  Spec => CheckpointMakesRecoveryExact
<1>1. ASSUME ShapeInv, DataInv, LogStoreInv,
             rt.pc = "await", rt.job \in {"checkpoint", "auto"}, reply = "ok"
      PROVE  RecoversExactly(db)
  <2>1. db.snapshot = ExportSnapshot(store) /\ Inv(store)
    BY <1>1 DEF LogStoreInv, UnderWayInv, HeldInv
  <2>2. db \in stable /\ Decodes(db, MaxOps) /\ MaxOps \in Nat
    BY <1>1, FaultsAssumption DEF ShapeInv, TypeInv, DbOK
  <2>3. db.snapshot.next_op_seq = store.next_op_seq
    BY <2>1 DEF ExportSnapshot
  <2>4. \A n \in DOMAIN db.events : n < db.snapshot.next_op_seq
    <3>1. DOMAIN db.events \subseteq Reached
      BY <1>1, <2>2, ReachedNumbers
    <3>2. \A k \in Reached : k < store.next_op_seq
      BY <1>1 DEF DataInv, NumbersInv
    <3> QED BY <2>3, <3>1, <3>2
  <2>5. LoadStore(db) = [ok |-> TRUE, store |-> FromSnapshot(db.snapshot)]
    BY <2>2, <2>4, LoadNoEvents
  <2> QED BY <2>1, <2>5, RestoreVisible DEF RecoversExactly
<1>2. ShapeInv /\ DataInv /\ LogStoreInv /\ [Next]_vars =>
        [(rt.pc = "await" /\ rt.job \in {"checkpoint", "auto"} /\ reply = "ok") => RecoversExactly(db)]_vars
  BY <1>1
<1> QED
  BY <1>2, ShapeInvariant, DataInvariant, LogStoreInvariant, PTL
     DEF Spec, CheckpointMakesRecoveryExact


------------------------------------------------------------------------------
(* The numbers of lost operations                                          *)

(* The sequence number the next answered mutation has.                     *)
NextSeq == IF InMutation THEN rt.stored.seq ELSE store.next_op_seq

GoneOps == LostOps \cup reported

(* Only a Durable mutation whose flush failed gives its number back, and   *)
(* then nothing is added before a later batch's result made persistence    *)
(* healthy: what a loss announces is never what is added afterwards.       *)
ToldInv ==
  /\ \A o \in GoneOps : o.seq \in Nat /\ o.seq <= NextSeq
  /\ \A o \in GoneOps : \A p \in BufOps \cup QueueOps : o.seq <= p.seq
  /\ \A i, j \in DOMAIN durable : i < j /\ ~durable[i].ok /\ durable[j].ok =>
       \A o \in durable[i].lost : o.seq <= durable[j].seq
  /\ \A o \in reported : \A j \in DOMAIN durable : durable[j].ok => o.seq <= durable[j].seq
  /\ config.ack_mode = "InMemory" => \A o \in GoneOps : o.seq < NextSeq
  /\ health.is_healthy => \A o \in reported : o.seq < NextSeq


LEMMA NextSeqNat ==
  ASSUME ShapeInv
  PROVE  NextSeq \in Nat /\ store.next_op_seq \in Nat
BY DEF NextSeq, ShapeInv, TypeInv, Frame, LoopOK, OpOK, OpSeq

(* Receiving moves operations from the queue to the buffer.                *)
LEMMA ReceiveOps ==
  ASSUME ShapeInv, Receive
  PROVE  (BufOps \cup QueueOps)' = BufOps \cup QueueOps
<1> DEFINE msg == queue[1]
           buf == IF msg.t = "Op" THEN Append(wk.buf, msg.stored) ELSE wk.buf
<1>1. QueueOK /\ WorkerOK
  BY DEF ShapeInv, TypeInv
<1>2. queue # << >> /\ queue' = Tail(queue)
  BY DEF Receive
<1>3. /\ Head(queue) = msg /\ 1 \in DOMAIN queue
      /\ \A i \in DOMAIN queue' : i + 1 \in DOMAIN queue /\ queue'[i] = queue[i + 1]
      /\ DOMAIN queue = 1..Len(queue) /\ DOMAIN queue' = 1..Len(queue')
      /\ Len(queue) \in Nat /\ Len(queue') = Len(queue) - 1
  BY <1>1, <1>2, SeqTail, SeqFacts DEF QueueOK
<1>4. \A i \in DOMAIN queue : i = 1 \/ (i - 1 \in DOMAIN queue' /\ queue'[i - 1] = queue[i])
  BY <1>3
<1>5. wk' = IF FlushNow(msg, buf) THEN [wk EXCEPT !.buf = buf, !.pc = "flush", !.msg = msg]
            ELSE [wk EXCEPT !.buf = buf]
  BY <1>3 DEF Receive
<1> HIDE DEF buf
<1>6. wk'.buf = buf
  BY <1>1, <1>5 DEF WorkerOK
<1>7. \A q \in QueueOps' : q \in QueueOps
  BY <1>3 DEF QueueOps
<1>8. \A q \in QueueOps : q \in QueueOps' \/ (msg.t = "Op" /\ q = msg.stored)
  <2> TAKE q \in QueueOps
  <2>1. PICK i \in DOMAIN queue : queue[i].t = "Op" /\ q = queue[i].stored
    BY DEF QueueOps
  <2> QED BY <1>4, <2>1 DEF QueueOps
<1>9. CASE msg.t = "Op"
  <2>1. msg.stored \in QueueOps
    BY <1>3, <1>9 DEF QueueOps
  <2>2. BufOps' = BufOps \cup {msg.stored}
    <3>1. /\ DOMAIN wk'.buf = 1..(Len(wk.buf) + 1) /\ DOMAIN wk.buf = 1..Len(wk.buf)
          /\ wk'.buf[Len(wk.buf) + 1] = msg.stored
          /\ Len(wk.buf) \in Nat /\ \A i \in 1..Len(wk.buf) : wk'.buf[i] = wk.buf[i]
      BY <1>1, <1>6, <1>9, SeqAppend, SeqFacts DEF WorkerOK, buf
    <3>2. BufOps' = {wk'.buf[i] : i \in DOMAIN wk'.buf} /\ BufOps = {wk.buf[i] : i \in DOMAIN wk.buf}
      BY DEF BufOps, ToSet
    <3>3. \A i \in DOMAIN wk'.buf : i \in DOMAIN wk.buf \/ i = Len(wk.buf) + 1
      BY <3>1
    <3>4. Len(wk.buf) + 1 \in DOMAIN wk'.buf /\ \A i \in DOMAIN wk.buf : i \in DOMAIN wk'.buf
      BY <3>1
    <3> QED BY <3>1, <3>2, <3>3, <3>4
  <2> QED BY <1>7, <1>8, <2>1, <2>2
<1>10. CASE msg.t # "Op"
  <2>1. BufOps' = BufOps
    BY <1>6, <1>10 DEF buf, BufOps
  <2> QED BY <1>7, <1>8, <1>10, <2>1
<1> QED
  BY <1>9, <1>10

(* Reading one result off the channel.                                     *)
LEMMA ObserveOps ==
  ASSUME ShapeInv, ObserveDurable
  PROVE  LET r == durable[1] IN
         /\ rt.pc = "idle" /\ 1 \in DOMAIN durable /\ r.ok \in BOOLEAN
         /\ UNCHANGED <<store, rt, accepted, promised, queue, reply, wk, db, stable, config>>
         /\ \A i \in DOMAIN durable' : i \in Nat /\ i + 1 \in DOMAIN durable /\ durable'[i] = durable[i + 1]
         /\ r.ok => /\ LostOps' = LostOps /\ reported' = reported /\ r.seq \in Nat
                    /\ health' = [is_healthy |-> TRUE,
                                  last_durable_seq |-> MaxOf(health.last_durable_seq, r.seq)]
         /\ ~r.ok => /\ LostOps = LostOps' \cup r.lost /\ reported' = reported \cup r.lost
                     /\ health' = [health EXCEPT !.is_healthy = FALSE]
<1> DEFINE r == durable[1]
<1>1. /\ rt.pc = "idle" /\ durable # << >> /\ durable' = Tail(durable)
      /\ UNCHANGED <<store, rt, accepted, promised, queue, reply, wk, db, stable, config>>
  BY DEF ObserveDurable, LaterResults, workerVars
<1>2. ResultsOK
  BY DEF ShapeInv, TypeInv
<1>3. /\ Head(durable) = r /\ 1 \in DOMAIN durable
      /\ \A i \in DOMAIN durable' : i + 1 \in DOMAIN durable /\ durable'[i] = durable[i + 1]
      /\ DOMAIN durable = 1..Len(durable) /\ DOMAIN durable' = 1..Len(durable')
      /\ Len(durable) \in Nat /\ Len(durable') = Len(durable) - 1
  BY <1>1, <1>2, SeqTail, SeqFacts DEF ResultsOK
<1>4. \A i \in DOMAIN durable : i = 1 \/ (i - 1 \in DOMAIN durable' /\ durable'[i - 1] = durable[i])
  BY <1>3
<1>5. r.ok \in BOOLEAN /\ (r.ok => r.seq \in Nat)
  BY <1>2, <1>3 DEF ResultsOK
<1>6. /\ r.ok => /\ health' = [is_healthy |-> TRUE,
                               last_durable_seq |-> MaxOf(health.last_durable_seq, r.seq)]
                 /\ reported' = reported
      /\ ~r.ok => /\ health' = [health EXCEPT !.is_healthy = FALSE]
                  /\ reported' = reported \cup r.lost
  BY <1>3 DEF ObserveDurable, MarkPersistUnhealthy
<1> HIDE DEF r
<1>7. ASSUME NEW o \in LostOps' PROVE o \in LostOps
  <2>1. PICK i \in DOMAIN durable' : ~durable'[i].ok /\ o \in durable'[i].lost
    BY <1>7 DEF LostOps
  <2> QED BY <1>3, <2>1 DEF LostOps
<1>8. ~r.ok => r.lost \subseteq LostOps
  BY <1>3 DEF LostOps, r
<1>9. ASSUME NEW o \in LostOps PROVE o \in LostOps' \/ (~r.ok /\ o \in r.lost)
  <2>1. PICK i \in DOMAIN durable : ~durable[i].ok /\ o \in durable[i].lost
    BY <1>9 DEF LostOps
  <2>2. CASE i = 1
    BY <2>1, <2>2 DEF r
  <2>3. CASE i # 1
    BY <1>4, <2>1, <2>3 DEF LostOps
  <2> QED BY <2>2, <2>3
<1>10. r.ok => LostOps' = LostOps
  BY <1>7, <1>9
<1>11. ~r.ok => LostOps = LostOps' \cup r.lost
  BY <1>7, <1>8, <1>9
<1>12. \A i \in DOMAIN durable' : i \in Nat
  BY <1>3
<1> QED
  BY <1>1, <1>3, <1>5, <1>6, <1>10, <1>11, <1>12 DEF r

(* One more result on the channel.                                         *)
LEMMA ResultPush ==
  ASSUME ShapeInv, NEW r, r.ok \in BOOLEAN, durable' = Append(durable, r)
  PROVE  /\ LostOps' = IF r.ok THEN LostOps ELSE LostOps \cup r.lost
         /\ \A i \in DOMAIN durable' :
              (i \in DOMAIN durable /\ durable'[i] = durable[i]) \/ durable'[i] = r
         /\ \A i, j \in DOMAIN durable' : i < j =>
              i \in DOMAIN durable /\ durable'[i] = durable[i]
<1>1. IsSeq(durable)
  BY DEF ShapeInv, TypeInv, ResultsOK
<1>2. /\ DOMAIN durable' = 1..(Len(durable) + 1) /\ DOMAIN durable = 1..Len(durable)
      /\ Len(durable) \in Nat /\ durable'[Len(durable) + 1] = r
      /\ \A i \in 1..Len(durable) : durable'[i] = durable[i]
  BY <1>1, SeqAppend, SeqFacts
<1>3. /\ \A i \in DOMAIN durable' : i \in DOMAIN durable \/ i = Len(durable) + 1
      /\ \A i \in DOMAIN durable : i \in DOMAIN durable' /\ durable'[i] = durable[i]
      /\ \A i, j \in DOMAIN durable' : i < j => i \in DOMAIN durable
      /\ Len(durable) + 1 \in DOMAIN durable'
  BY <1>2
<1>4. ASSUME NEW o PROVE o \in LostOps' <=> o \in LostOps \/ (~r.ok /\ o \in r.lost)
  <2>1. o \in LostOps' <=> \E i \in DOMAIN durable' : ~durable'[i].ok /\ o \in durable'[i].lost
    BY DEF LostOps
  <2>2. o \in LostOps <=> \E i \in DOMAIN durable : ~durable[i].ok /\ o \in durable[i].lost
    BY DEF LostOps
  <2> QED BY <1>2, <1>3, <2>1, <2>2
<1>5. LostOps' = IF r.ok THEN LostOps ELSE LostOps \cup r.lost
  BY <1>4
<1> QED
  BY <1>2, <1>3, <1>5


(* flush_buf empties the buffer and says what became of it.                *)
LEMMA FlushOps ==
  ASSUME ErrorsReturned, ShapeInv, FlushBuf
  PROVE  /\ UNCHANGED <<loopVars, queue, config>> /\ BufOps' = {} /\ QueueOps' = QueueOps
         /\ \/ db' = AppendOps(db, wk.buf) /\ durable' = durable
            \/ /\ db' = AppendOps(db, wk.buf) /\ wk.buf # << >>
               /\ durable' = Append(durable, [ok |-> TRUE, seq |-> MaxOf(wk.last_durable, Last(wk.buf).seq)])
            \/ /\ db' = db
               /\ durable' = Append(durable, [ok |-> FALSE, lost |-> BufOps])
<1>1. UNCHANGED <<loopVars, queue, config>> /\ WorkerOK /\ QueueOps' = QueueOps
  BY FlushCases DEF ShapeInv, TypeInv, QueueOps
<1>2. ASSUME NEW ok, NEW last, AfterFlush(ok, last) PROVE BufOps' = {}
  <2>1. wk'.buf = << >>
    BY <1>1, <1>2 DEF AfterFlush, WorkerAfter, WorkerOK
  <2> QED BY <2>1 DEF BufOps, ToSet
<1>3. CASE FlushSucceeds
  <2>1. db' = AppendOps(db, wk.buf)
    BY <1>3 DEF FlushSucceeds, Syncs, Commits
  <2>2. \/ durable' = durable /\ AfterFlush(TRUE, wk.last_durable)
        \/ /\ wk.buf # << >> /\ AfterFlush(TRUE, MaxOf(wk.last_durable, Last(wk.buf).seq))
           /\ durable' = Append(durable, [ok |-> TRUE, seq |-> MaxOf(wk.last_durable, Last(wk.buf).seq)])
    BY <1>3 DEF FlushSucceeds
  <2> QED BY <1>1, <1>2, <2>1, <2>2
<1>4. CASE AppendFails
  <2>1. /\ db' = db /\ AfterFlush(FALSE, wk.last_durable)
        /\ durable' = Append(durable, [ok |-> FALSE, lost |-> BufOps])
    BY <1>4 DEF AppendFails, BufOps
  <2> QED BY <1>1, <1>2, <2>1
<1> QED
  BY <1>3, <1>4, FlushCases

(* Steps that leave the results alone.                                     *)
LEMMA ToldSame ==
  ASSUME ToldInv, UNCHANGED <<durable, reported, config>>, NextSeq \in Nat,
         NextSeq' \in Nat, NextSeq' >= NextSeq, health'.is_healthy => health.is_healthy,
         \A p \in BufOps' \cup QueueOps' :
           p \in BufOps \cup QueueOps \/ (p.seq \in Nat /\ p.seq >= NextSeq),
         \A p \in BufOps \cup QueueOps : p.seq \in Nat
  PROVE  ToldInv'
<1>1. LostOps' = LostOps /\ GoneOps' = GoneOps
  BY DEF LostOps, GoneOps
<1>2. /\ \A o \in GoneOps : o.seq \in Nat /\ o.seq <= NextSeq
      /\ \A o \in GoneOps : \A p \in BufOps \cup QueueOps : o.seq <= p.seq
      /\ config.ack_mode = "InMemory" => \A o \in GoneOps : o.seq < NextSeq
      /\ health.is_healthy => \A o \in reported : o.seq < NextSeq
  BY DEF ToldInv
<1>3. reported \subseteq GoneOps
  BY DEF GoneOps
<1>4. /\ \A o \in GoneOps : o.seq \in Nat /\ o.seq <= NextSeq'
      /\ config.ack_mode = "InMemory" => \A o \in GoneOps : o.seq < NextSeq'
      /\ health'.is_healthy => \A o \in reported : o.seq < NextSeq'
  BY <1>2, <1>3
<1>5. \A o \in GoneOps : \A p \in BufOps' \cup QueueOps' : o.seq <= p.seq
  BY <1>2
<1> QED
  BY <1>1, <1>4, <1>5 DEF ToldInv

LEMMA PipelineNumbers ==
  ASSUME ShapeInv, DataInv
  PROVE  /\ \A p \in BufOps \cup QueueOps : p \in AppliedOps /\ p.seq \in Nat
         /\ rt.pc # "unloadable" => \A o \in AppliedOps : o.seq \in Nat /\ o.seq <= NextSeq
         /\ rt.pc # "unloadable" /\ ~InMutation => \A o \in AppliedOps : o.seq < NextSeq
<1>1. /\ \A o \in AppliedOps : o.seq \in Nat
      /\ rt.pc # "unloadable" => \A o \in AppliedOps : o.seq < store.next_op_seq
      /\ store.next_op_seq \in Nat
  BY AppliedNumbers DEF DataInv
<1>2. InMutation => store.next_op_seq = rt.stored.seq + 1 /\ rt.stored.seq \in Nat
  BY DEF DataInv, NumbersInv, ShapeInv, TypeInv, LoopOK, OpOK
<1>3. \A p \in BufOps \cup QueueOps : p \in AppliedOps
  BY DEF DataInv, PipelineInv
<1> QED
  BY <1>1, <1>2, <1>3 DEF NextSeq

LEMMA ToldPerform ==
  ASSUME ShapeInv, DataInv, LogStoreInv, ToldInv, NEW m \in Mutations, Perform(m)
  PROVE  ToldInv'
<1> DEFINE o == StoredFor(store, m)
<1>1. /\ rt.pc = "idle" /\ ~InMutation /\ m \in Mutation /\ Succeeds(store, m)
      /\ UNCHANGED <<durable, reported, config, wk>>
      /\ OpOK(o) /\ o.seq = store.next_op_seq
      /\ \/ /\ store' = ClearPendingOps(Mutate(store, m)) /\ ~InMutation' /\ health' = health
            /\ queue' = queue \/ queue' = Append(queue, OpMsg(o))
         \/ /\ InMutation' /\ rt'.stored = o /\ health' = health
            /\ queue' = Append(queue, OpMsg(o))
         \/ store' = Rejected(store, m) /\ ~InMutation' /\ queue' = queue
  BY PerformCases
<1>2. health'.is_healthy => health.is_healthy
  <2>1. HealthOK BY DEF ShapeInv, TypeInv
  <2> QED BY <2>1 DEF Perform, NotPersisted, QueueFull, Enqueued, MarkPersistUnhealthy, HealthOK
<1>3. Inv(store) /\ store.pending_ops = << >>
  BY <1>1 DEF LogStoreInv, HeldInv
<1>4. /\ ClearPendingOps(Mutate(store, m)).next_op_seq = store.next_op_seq + 1
      /\ Rejected(store, m).next_op_seq = store.next_op_seq
  <2> DEFINE t == ClearPendingOps(Mutate(store, m))
             c == MutationCheckpoint(store)
  <2>1. Frame(store) /\ o.op.type \in OpTypes
    BY <1>1 DEF ShapeInv, TypeInv, OpOK
  <2>2. Frame(t) /\ t.next_op_seq = store.next_op_seq + 1
    BY <1>1, <2>1, MutateFrame
  <2>3. /\ c.next_op_seq = store.next_op_seq /\ c.next_op_seq \in OpSeq
        /\ c.undo_len \in Nat /\ c.redo_len \in Nat
    BY <2>1, CheckpointFrame
  <2>4. Rejected(store, m) = RollbackMutation(t, c, o)
    BY DEF Rejected
  <2> HIDE DEF t, c, o
  <2>5. RollbackMutation(t, c, o).next_op_seq = c.next_op_seq
    BY <2>1, <2>2, <2>3, RollbackFrame
  <2> QED BY <2>2, <2>3, <2>4, <2>5 DEF t
<1>5. NextSeq = store.next_op_seq /\ NextSeq \in Nat /\ NextSeq' \in Nat /\ NextSeq' >= NextSeq
  <2>1. NextSeq = store.next_op_seq /\ store.next_op_seq \in Nat
    BY <1>1, NextSeqNat DEF NextSeq
  <2>2. NextSeq' \in {store.next_op_seq, store.next_op_seq + 1}
    BY <1>1, <1>4 DEF NextSeq
  <2> QED BY <2>1, <2>2
<1>6. BufOps' = BufOps
  BY <1>1 DEF BufOps
<1>7. QueueOps' \subseteq QueueOps \cup {o}
  <2>1. CASE queue' = queue
    BY <2>1 DEF QueueOps
  <2>2. CASE queue' = Append(queue, OpMsg(o))
    <3>1. MsgOK(OpMsg(o)) /\ OpMsg(o).t = "Op" /\ OpMsg(o).stored = o
      BY <1>1 DEF OpMsg, MsgOK
    <3>2. QueueOK BY DEF ShapeInv, TypeInv
    <3> QED BY <2>2, <3>1, <3>2, QueueOpsPush
  <2> QED BY <1>1, <2>1, <2>2
<1>8. \A p \in BufOps \cup QueueOps : p.seq \in Nat
  BY PipelineNumbers
<1> QED
  BY <1>1, <1>2, <1>5, <1>6, <1>7, <1>8, ToldSame


LEMMA ToldPatchMissing ==
  ASSUME ShapeInv, DataInv, ToldInv, NEW m, PatchMissing(m)
  PROVE  ToldInv'
<1>1. /\ rt.pc = "idle" /\ m.cmd = "patch" /\ store' = FailedStore(store, m)
      /\ UNCHANGED <<rt, health, reported, queue, durable, wk, config>>
  BY DEF PatchMissing, workerVars
<1>2. store'.next_op_seq = store.next_op_seq + 1
  BY <1>1, FailedFrame DEF ShapeInv, TypeInv
<1>3. NextSeq \in Nat /\ NextSeq' = NextSeq + 1
  BY <1>1, <1>2, NextSeqNat DEF NextSeq, InMutation
<1>4. BufOps' = BufOps /\ QueueOps' = QueueOps
  BY <1>1 DEF BufOps, QueueOps
<1> QED
  BY <1>1, <1>3, <1>4, PipelineNumbers, ToldSame

LEMMA ToldCalm ==
  ASSUME ShapeInv, DataInv, ToldInv, Calm, UNCHANGED <<durable, reported, health>>,
         (BufOps \cup QueueOps)' = BufOps \cup QueueOps
  PROVE  ToldInv'
<1>1. NextSeq' = NextSeq /\ config' = config
  BY DEF Calm, NextSeq
<1> QED
  BY <1>1, NextSeqNat, PipelineNumbers, ToldSame

(* A failed Durable mutation gives its number back, an accepted one moves  *)
(* on to the next.                                                         *)
LEMMA ToldAwait ==
  ASSUME ShapeInv, DataInv, LogStoreInv, ToldInv, AwaitReply
  PROVE  ToldInv'
<1>1. /\ UNCHANGED <<queue, durable, reported, wk, config>> /\ ~InMutation' /\ rt.pc = "await"
      /\ \/ /\ InMutation /\ store' = Held
            /\ health' = [health EXCEPT !.is_healthy = FALSE]
         \/ InMutation /\ store' = store /\ UNCHANGED health
         \/ ~InMutation /\ UNCHANGED <<store, health>>
  BY AwaitCases
<1>2. health'.is_healthy => health.is_healthy
  BY <1>1 DEF ShapeInv, TypeInv, HealthOK
<1>3. BufOps' = BufOps /\ QueueOps' = QueueOps
  BY <1>1 DEF BufOps, QueueOps
<1>4. InMutation => Held.next_op_seq = rt.stored.seq
  <2> SUFFICES ASSUME InMutation PROVE Held.next_op_seq = rt.stored.seq
    OBVIOUS
  <2>1. /\ Frame(store) /\ OpOK(rt.stored) /\ rt.checkpoint.next_op_seq \in OpSeq
        /\ rt.checkpoint.undo_len \in Nat /\ rt.checkpoint.redo_len \in Nat
    BY DEF ShapeInv, TypeInv, LoopOK
  <2>2. rt.stored.op.type \in OpTypes
    BY <2>1 DEF OpOK
  <2>3. Held.next_op_seq = rt.checkpoint.next_op_seq
    BY <2>1, <2>2, RollbackFrame DEF Held
  <2> QED BY <2>3 DEF DataInv, NumbersInv
<1>5. InMutation => store.next_op_seq = rt.stored.seq + 1
  BY DEF DataInv, NumbersInv
<1>6. NextSeq \in Nat /\ store.next_op_seq \in Nat
  BY NextSeqNat
<1>7. NextSeq' = store'.next_op_seq
  BY <1>1 DEF NextSeq
<1>8. NextSeq' \in Nat /\ NextSeq' >= NextSeq
  BY <1>1, <1>4, <1>5, <1>6, <1>7 DEF NextSeq
<1> QED
  BY <1>1, <1>2, <1>3, <1>6, <1>8, PipelineNumbers, ToldSame

(* A good result is of a batch after every loss read before it.            *)
LEMMA ToldObserve ==
  ASSUME ShapeInv, DataInv, ToldInv, ObserveDurable
  PROVE  ToldInv'
<1> DEFINE r == durable[1]
<1>1. /\ rt.pc = "idle" /\ 1 \in DOMAIN durable /\ r.ok \in BOOLEAN
      /\ UNCHANGED <<store, rt, queue, wk, config>>
      /\ \A i \in DOMAIN durable' : i \in Nat /\ i + 1 \in DOMAIN durable /\ durable'[i] = durable[i + 1]
      /\ r.ok => LostOps' = LostOps /\ reported' = reported /\ r.seq \in Nat
      /\ ~r.ok => /\ LostOps = LostOps' \cup r.lost /\ reported' = reported \cup r.lost
                  /\ health' = [health EXCEPT !.is_healthy = FALSE]
  BY ObserveOps
<1>2. /\ \A o \in GoneOps : o.seq \in Nat /\ o.seq <= NextSeq
      /\ \A o \in GoneOps : \A p \in BufOps \cup QueueOps : o.seq <= p.seq
      /\ \A i, j \in DOMAIN durable : i < j /\ ~durable[i].ok /\ durable[j].ok =>
           \A o \in durable[i].lost : o.seq <= durable[j].seq
      /\ \A o \in reported : \A j \in DOMAIN durable : durable[j].ok => o.seq <= durable[j].seq
      /\ config.ack_mode = "InMemory" => \A o \in GoneOps : o.seq < NextSeq
      /\ health.is_healthy => \A o \in reported : o.seq < NextSeq
  BY DEF ToldInv
<1>3. NextSeq' = NextSeq /\ BufOps' = BufOps /\ QueueOps' = QueueOps /\ NextSeq \in Nat
  BY <1>1, NextSeqNat DEF NextSeq, InMutation, BufOps, QueueOps
<1>4. r.ok => r.seq < NextSeq /\ r.seq \in Nat
  <2>1. ~InMutation BY <1>1 DEF InMutation
  <2>2. r.ok => r.seq \in Reached BY <1>1, ReachedNumbers
  <2> QED BY <1>1, <2>1, <2>2 DEF DataInv, NumbersInv, NextSeq
<1>5. r.ok => \A o \in reported : o.seq <= r.seq
  BY <1>1, <1>2
<1>6. ~r.ok => \A j \in DOMAIN durable : 1 < j /\ durable[j].ok => \A o \in r.lost : o.seq <= durable[j].seq
  BY <1>1, <1>2
<1>7. ~health'.is_healthy \/ r.ok
  BY <1>1 DEF ShapeInv, TypeInv, HealthOK
<1> HIDE DEF r
<1>8. GoneOps' \subseteq GoneOps /\ reported \subseteq GoneOps
  BY <1>1 DEF GoneOps
<1>9. ASSUME NEW i \in DOMAIN durable', NEW j \in DOMAIN durable', i < j, ~durable'[i].ok, durable'[j].ok,
             NEW o \in durable'[i].lost
      PROVE  o.seq <= durable'[j].seq
  <2>1. /\ i + 1 \in DOMAIN durable /\ j + 1 \in DOMAIN durable /\ i + 1 < j + 1
        /\ durable'[i] = durable[i + 1] /\ durable'[j] = durable[j + 1]
    BY <1>1, <1>9
  <2> QED BY <1>2, <1>9, <2>1
<1>10. ASSUME NEW o \in reported', NEW j \in DOMAIN durable', durable'[j].ok
       PROVE  o.seq <= durable'[j].seq
  <2>1. j \in Nat /\ j + 1 \in DOMAIN durable /\ durable'[j] = durable[j + 1]
    BY <1>1
  <2>2. 1 < j + 1
    <3>1. IsSeq(durable')
      BY ShapeObserve DEF ShapeInv, TypeInv, ResultsOK
    <3>2. DOMAIN durable' = 1..Len(durable') /\ Len(durable') \in Nat
      BY <3>1, SeqFacts
    <3> QED BY <2>1, <3>2
  <2>3. CASE o \in reported
    BY <1>2, <1>10, <2>1, <2>3
  <2>4. CASE ~r.ok /\ o \in r.lost
    BY <1>6, <1>10, <2>1, <2>2, <2>4
  <2> QED BY <1>1, <1>10, <2>3, <2>4
<1>11. health'.is_healthy => \A o \in reported' : o.seq < NextSeq
  <2> SUFFICES ASSUME r.ok, NEW o \in reported PROVE o.seq < NextSeq
    BY <1>1, <1>7
  <2>1. o.seq \in Nat /\ o.seq <= r.seq
    BY <1>2, <1>5, <1>8
  <2> QED BY <1>3, <1>4, <2>1
<1> QED
  BY <1>1, <1>2, <1>3, <1>8, <1>9, <1>10, <1>11 DEF ToldInv

(* A batch's result is no smaller than what was lost before the batch.     *)
LEMMA ToldFlush ==
  ASSUME ErrorsReturned, ShapeInv, DataInv, ToldInv, FlushBuf
  PROVE  ToldInv'
<1>1. UNCHANGED <<loopVars, queue, config>> /\ BufOps' = {} /\ QueueOps' = QueueOps
  BY FlushOps
<1>2. NextSeq' = NextSeq /\ NextSeq \in Nat /\ UNCHANGED <<reported, health>>
  BY <1>1, NextSeqNat DEF loopVars, NextSeq, InMutation
<1>3. CASE durable' = durable
  BY <1>1, <1>2, <1>3, PipelineNumbers, ToldSame
<1>4. /\ \A o \in GoneOps : o.seq \in Nat /\ o.seq <= NextSeq
      /\ \A o \in GoneOps : \A p \in BufOps \cup QueueOps : o.seq <= p.seq
      /\ \A i, j \in DOMAIN durable : i < j /\ ~durable[i].ok /\ durable[j].ok =>
           \A o \in durable[i].lost : o.seq <= durable[j].seq
      /\ \A o \in reported : \A j \in DOMAIN durable : durable[j].ok => o.seq <= durable[j].seq
      /\ config.ack_mode = "InMemory" => \A o \in GoneOps : o.seq < NextSeq
      /\ health.is_healthy => \A o \in reported : o.seq < NextSeq
  BY DEF ToldInv
<1>5. LostOps \subseteq GoneOps /\ reported \subseteq GoneOps
  BY DEF GoneOps
<1>6. \A i \in DOMAIN durable : ~durable[i].ok => durable[i].lost \subseteq LostOps
  BY DEF LostOps
<1>7. wk.pc = "flush" /\ WorkerOK /\ LoopOK /\ config \in Configs
  BY FlushCases DEF ShapeInv, TypeInv
<1>8. rt.pc # "unloadable"
  BY <1>7 DEF ShapeInv, Flow
<1>9. \A p \in BufOps \cup QueueOps : p \in AppliedOps /\ p.seq \in Nat /\ p.seq <= NextSeq
  BY <1>8, PipelineNumbers
<1>10. CASE /\ wk.buf # << >>
            /\ durable' = Append(durable, [ok |-> TRUE, seq |-> MaxOf(wk.last_durable, Last(wk.buf).seq)])
  <2> DEFINE r == [ok |-> TRUE, seq |-> MaxOf(wk.last_durable, Last(wk.buf).seq)]
  <2>1. Last(wk.buf) \in BufOps
    BY <1>7, <1>10, SeqLast DEF WorkerOK, BufOps, ToSet
  <2>2. Last(wk.buf).seq \in Nat /\ \A o \in GoneOps : o.seq <= Last(wk.buf).seq
    BY <1>4, <1>9, <2>1
  <2>3. r.ok = TRUE /\ r.seq \in Nat /\ r.seq >= Last(wk.buf).seq
    BY <1>7, <2>2 DEF WorkerOK, MaxOf
  <2>4. \A o \in GoneOps : o.seq <= r.seq
    BY <1>4, <2>2, <2>3
  <2>5. durable' = Append(durable, r) /\ r.ok \in BOOLEAN
    BY <1>10, <2>3
  <2> HIDE DEF r
  <2>6. /\ LostOps' = LostOps
        /\ \A i \in DOMAIN durable' :
             (i \in DOMAIN durable /\ durable'[i] = durable[i]) \/ durable'[i] = r
        /\ \A i, j \in DOMAIN durable' : i < j => i \in DOMAIN durable /\ durable'[i] = durable[i]
    BY <2>3, <2>5, ResultPush
  <2>7. GoneOps' = GoneOps
    BY <1>2, <2>6 DEF GoneOps
  <2>8. ASSUME NEW i \in DOMAIN durable', NEW j \in DOMAIN durable', i < j, ~durable'[i].ok, durable'[j].ok,
               NEW o \in durable'[i].lost
        PROVE  o.seq <= durable'[j].seq
    <3>1. i \in DOMAIN durable /\ durable'[i] = durable[i] /\ o \in GoneOps
      BY <1>5, <1>6, <2>6, <2>8
    <3>2. CASE durable'[j] = r
      BY <2>4, <3>1, <3>2
    <3>3. CASE j \in DOMAIN durable /\ durable'[j] = durable[j]
      BY <1>4, <2>8, <3>1, <3>3
    <3> QED BY <2>6, <3>2, <3>3
  <2>9. ASSUME NEW o \in reported, NEW j \in DOMAIN durable', durable'[j].ok
        PROVE  o.seq <= durable'[j].seq
    BY <1>4, <1>5, <2>4, <2>6, <2>9
  <2> QED BY <1>1, <1>2, <1>4, <2>7, <2>8, <2>9 DEF ToldInv
<1>11. CASE durable' = Append(durable, [ok |-> FALSE, lost |-> BufOps])
  <2> DEFINE r == [ok |-> FALSE, lost |-> BufOps]
  <2>1. durable' = Append(durable, r) /\ r.ok = FALSE /\ r.lost = BufOps /\ r.ok \in BOOLEAN
    BY <1>11
  <2> HIDE DEF r
  <2>2. /\ LostOps' = LostOps \cup BufOps
        /\ \A i \in DOMAIN durable' :
             (i \in DOMAIN durable /\ durable'[i] = durable[i]) \/ durable'[i] = r
        /\ \A i, j \in DOMAIN durable' : i < j => i \in DOMAIN durable /\ durable'[i] = durable[i]
    BY <2>1, ResultPush
  <2>3. GoneOps' = GoneOps \cup BufOps
    BY <1>2, <2>2 DEF GoneOps
  <2>4. ASSUME NEW i \in DOMAIN durable', NEW j \in DOMAIN durable', i < j, ~durable'[i].ok, durable'[j].ok,
               NEW o \in durable'[i].lost
        PROVE  o.seq <= durable'[j].seq
    BY <1>4, <2>1, <2>2, <2>4
  <2>5. ASSUME NEW o \in reported, NEW j \in DOMAIN durable', durable'[j].ok
        PROVE  o.seq <= durable'[j].seq
    BY <1>4, <2>1, <2>2, <2>5
  <2>6. \A o \in BufOps : \A p \in QueueOps : o.seq <= p.seq
    BY <1>9 DEF DataInv, PipelineInv
  <2>7. config.ack_mode = "InMemory" => \A o \in BufOps : o.seq < NextSeq
    <3>1. config.ack_mode = "InMemory" => ~InMutation
      BY <1>7 DEF LoopOK
    <3> QED BY <1>8, <1>9, <3>1, PipelineNumbers
  <2> QED BY <1>1, <1>2, <1>4, <1>9, <2>3, <2>4, <2>5, <2>6, <2>7 DEF ToldInv
<1> QED
  BY <1>3, <1>10, <1>11, FlushOps

LEMMA ToldStep ==
  ASSUME ErrorsReturned, ShapeInv, DataInv, LogStoreInv, ToldInv, [Next]_vars
  PROVE  ToldInv'
<1>1. CASE \E m \in Mutations : Perform(m)
  BY <1>1, ToldPerform
<1>2. CASE \E m \in Mutations : PatchMissing(m)
  BY <1>2, ToldPatchMissing
<1>3. CASE \/ DropHandles \/ \E job \in {"flush", "checkpoint", "shutdown"} : Control(job)
           \/ DeadlineExpires \/ QueueClosed \/ UNCHANGED vars
  <2>1. Calm
    BY <1>3, CalmSteps DEF Worker
  <2>2. UNCHANGED <<durable, reported, health>> /\ queue' = queue /\ wk'.buf = wk.buf
    <3>1. CASE DropHandles \/ \E job \in {"flush", "checkpoint", "shutdown"} : Control(job)
      BY <3>1 DEF DropHandles, Control, workerVars
    <3>2. CASE DeadlineExpires \/ QueueClosed
      <4>1. PICK msg \in {TimerMsg, ClosedMsg} : Wake(msg)
        BY <3>2 DEF DeadlineExpires, QueueClosed
      <4>2. wk' = [wk EXCEPT !.pc = "flush", !.msg = msg] /\ UNCHANGED <<loopVars, durable, queue>>
        BY <4>1 DEF Wake
      <4> QED BY <4>2 DEF ShapeInv, TypeInv, WorkerOK, loopVars
    <3>3. CASE UNCHANGED vars
      BY <3>3 DEF vars, loopVars, workerVars
    <3> QED BY <1>3, <3>1, <3>2, <3>3
  <2>3. (BufOps \cup QueueOps)' = BufOps \cup QueueOps
    BY <2>2 DEF BufOps, QueueOps
  <2> QED BY <2>1, <2>2, <2>3, ToldCalm
<1>4. CASE SendToWorker
  <2>1. Calm
    BY <1>4, CalmSteps
  <2>2. /\ UNCHANGED <<durable, reported, health, wk>> /\ rt.pc = "send"
        /\ queue' = Append(queue, MessageFor(rt.job))
    BY <1>4 DEF SendToWorker, workerVars
  <2>3. QueueOK /\ Frame(store) /\ rt.job \in Jobs
    BY <2>2 DEF ShapeInv, TypeInv, LoopOK
  <2>4. MsgOK(MessageFor(rt.job)) /\ MessageFor(rt.job).t # "Op"
    BY <2>3, MessageOK
  <2>5. QueueOps' = QueueOps /\ BufOps' = BufOps
    BY <2>2, <2>3, <2>4, QueueOpsPush DEF BufOps
  <2> QED BY <2>1, <2>2, <2>5, ToldCalm
<1>5. CASE AwaitReply
  BY <1>5, ToldAwait
<1>6. CASE ObserveDurable
  BY <1>6, ToldObserve
<1>7. CASE Receive
  <2>1. Calm /\ UNCHANGED <<durable, reported, health>>
    BY <1>7, CalmSteps DEF Worker, Receive, loopVars
  <2> QED BY <1>7, <2>1, ReceiveOps, ToldCalm
<1>8. CASE FlushBuf
  BY <1>8, ToldFlush
<1>9. CASE WriteSnapshot \/ CompactThrough
  <2>1. Calm
    BY <1>9, CalmSteps DEF Worker
  <2>2. UNCHANGED <<durable, reported, health, queue>>
    BY <1>9 DEF WriteSnapshot, CompactThrough, loopVars
  <2>3. wk'.buf = << >> /\ wk.buf = << >>
    BY <1>9, CheckpointWrites DEF ShapeInv, TypeInv, WorkerOK, WriteSnapshot, CompactThrough
  <2>4. (BufOps \cup QueueOps)' = BufOps \cup QueueOps
    BY <2>2, <2>3 DEF BufOps, QueueOps
  <2> QED BY <2>1, <2>2, <2>4, ToldCalm
<1>10. CASE Reopen
  <2>1. durable' = << >> /\ reported' = {}
    BY <1>10 DEF Reopen
  <2>2. GoneOps' = {} /\ DOMAIN durable' = {}
    BY <2>1 DEF GoneOps, LostOps
  <2> QED BY <2>1, <2>2 DEF ToldInv
<1> QED
  BY <1>1, <1>2, <1>3, <1>4, <1>5, <1>6, <1>7, <1>8, <1>9, <1>10 DEF Next, Runtime, Worker


------------------------------------------------------------------------------
(* The refinement                                                          *)

PendingOps == {o \in AppliedOps : o \in BufOps \cup QueueOps \cup LostOps}

SavedOps == {o \in AppliedOps : Journaled(db, o)}

(* What the refinement mapping comes to.                                   *)
Mapped ==
  /\ ToSet(Applied) = AppliedOps
  /\ {o \in ToSet(Applied) : InPipeline(o) \/ LossPending(o)} = PendingOps
  /\ {o \in ToSet(Applied) : Journaled(db, o)} = SavedOps

LEMMA MappedHolds == ShapeInv /\ NumbersInv => Mapped
<1> SUFFICES ASSUME ShapeInv, NumbersInv PROVE Mapped
  OBVIOUS
<1>1. ToSet(Applied) = AppliedOps
  BY AppliedSeq
<1>2. ASSUME NEW o PROVE InPipeline(o) \/ LossPending(o) <=> o \in BufOps \cup QueueOps \cup LostOps
  <2>1. InPipeline(o) <=> o \in BufOps \cup QueueOps
    BY DEF InPipeline, BufOps, QueueOps
  <2>2. LossPending(o) <=> o \in LostOps
    BY DEF LossPending, LostOps
  <2> QED BY <2>1, <2>2
<1> QED
  BY <1>1, <1>2 DEF Mapped, PendingOps, SavedOps

LEMMA MappedNext == ShapeInv' /\ NumbersInv' => Mapped'
  BY MappedHolds, PTL


(* The helpers on sequences are those of the community modules.            *)
LEMMA SameHelpers ==
  \A q : Abstract!ToSet(q) = ToSet(q) /\ Abstract!Last(q) = Last(q) /\ Abstract!Front(q) = Front(q)
BY DEF Abstract!ToSet, ToSet, Abstract!Last, Last, Abstract!Front, Front

LEMMA AbsAdd ==
  ASSUME Mapped, Mapped', NEW o \in [seq : OpSeq, op : AnyOp], o.seq > health.last_durable_seq,
         \A p \in AppliedOps : p.seq < o.seq, o \notin reported, IsSeq(Applied),
         Applied' = Append(Applied, o), PendingOps' = PendingOps \cup {o}, SavedOps' = SavedOps,
         UNCHANGED reported, health'.last_durable_seq = health.last_durable_seq
  PROVE  Abstract!Next
<1>1. Applied' # << >> /\ Last(Applied') = o
  <2>1. /\ Len(Append(Applied, o)) = Len(Applied) + 1 /\ Append(Applied, o)[Len(Applied) + 1] = o
        /\ Append(Applied, o) # << >>
    BY SeqAppend
  <2> QED BY <2>1 DEF Last
<1>2. o.seq \in Int
  BY DEF OpSeq
<1>3. Abstract!Last(Applied') = o /\ Abstract!ToSet(Applied) = AppliedOps
  BY <1>1, SameHelpers DEF Mapped
<1>4. Abstract!Add
  BY <1>1, <1>2, <1>3, Zenon DEF Abstract!Add, Mapped
<1> QED
  BY <1>4 DEF Abstract!Next

(* Stuttering.                                                             *)
LEMMA AbsSame ==
  ASSUME Mapped, Mapped', Applied' = Applied, PendingOps' = PendingOps, SavedOps' = SavedOps,
         UNCHANGED reported, health'.last_durable_seq = health.last_durable_seq
  PROVE  UNCHANGED Abstract!vars
BY DEF Abstract!vars, Mapped

LEMMA AbsSave ==
  ASSUME Mapped, Mapped', Applied' = Applied, SavedOps \subseteq SavedOps',
         SavedOps' \subseteq AppliedOps,
         PendingOps' \subseteq PendingOps, PendingOps \subseteq PendingOps' \cup SavedOps',
         UNCHANGED reported, health'.last_durable_seq = health.last_durable_seq
  PROVE  Abstract!Next
<1>1. Abstract!ToSet(Applied) = AppliedOps
  BY SameHelpers DEF Mapped
<1>2. Abstract!Save
  BY <1>1, Zenon DEF Abstract!Save, Mapped
<1> QED
  BY <1>2 DEF Abstract!Next

LEMMA AbsTell ==
  ASSUME Mapped, Mapped', Applied' = Applied, SavedOps' = SavedOps, reported \subseteq reported',
         PendingOps' \subseteq PendingOps, PendingOps \subseteq PendingOps' \cup reported',
         health'.last_durable_seq = health.last_durable_seq
  PROVE  Abstract!Next
<1>1. PendingOps \subseteq PendingOps' \cup SavedOps \cup reported'
  OBVIOUS
<1>2. Abstract!Tell
  BY <1>1, Zenon DEF Abstract!Tell, Mapped
<1> QED
  BY <1>2 DEF Abstract!Next

LEMMA AbsAnnounce ==
  ASSUME Mapped, Mapped', Applied' = Applied, PendingOps' = PendingOps, SavedOps' = SavedOps,
         UNCHANGED reported, health'.last_durable_seq \in Nat,
         health'.last_durable_seq >= health.last_durable_seq,
         \A o \in AppliedOps : o.seq <= health'.last_durable_seq => o \in SavedOps \cup reported
  PROVE  Abstract!Next
<1>1. Abstract!ToSet(Applied) = AppliedOps
  BY SameHelpers DEF Mapped
<1>2. health'.last_durable_seq \in Int
  OBVIOUS
<1>3. Abstract!Announce
  BY <1>1, <1>2, Zenon DEF Abstract!Announce, Mapped
<1> QED
  BY <1>3 DEF Abstract!Next

LEMMA AbsWithdraw ==
  ASSUME Mapped, Mapped', NEW o, NEW q, IsSeq(q), Applied = Append(q, o), Applied' = q, o \notin SavedOps,
         PendingOps' = PendingOps \ {o}, SavedOps' = SavedOps,
         UNCHANGED reported, health'.last_durable_seq = health.last_durable_seq
  PROVE  Abstract!Next
<1>1. Applied # << >> /\ Last(Applied) = o /\ Front(Applied) = q
  <2>1. /\ Len(Append(q, o)) = Len(q) + 1 /\ Append(q, o)[Len(q) + 1] = o
        /\ Append(q, o) # << >>
    BY SeqAppend
  <2>2. PICK S : Append(q, o) \in Seq(S) /\ q \in Seq(S)
    <3>1. PICK S : q \in Seq(S)
      BY DEF IsSeq
    <3>2. q \in Seq(S \cup {o})
      BY <3>1
    <3>3. Append(q, o) \in Seq(S \cup {o})
      BY <3>2
    <3> QED BY <3>2, <3>3
  <2>3. Front(Append(q, o)) = q
    BY <2>2 DEF Front
  <2> QED BY <2>1, <2>3 DEF Last
<1>2. Abstract!Last(Applied) = o /\ Abstract!Front(Applied) = q
  BY <1>1, SameHelpers
<1>3. Abstract!Withdraw
  BY <1>1, <1>2, Zenon DEF Abstract!Withdraw, Mapped
<1> QED
  BY <1>3 DEF Abstract!Next

LEMMA AbsCrash ==
  ASSUME Mapped, Mapped', Applied' \in Seq([seq : OpSeq, op : AnyOp]), AppliedOps' = SavedOps,
         NEW at, \A k \in DOMAIN Applied' : at[k] \in DOMAIN Applied /\ Applied'[k] = Applied[at[k]],
         \A k, l \in DOMAIN Applied' : k < l => at[k] < at[l],
         PendingOps' = {}, reported' = {}, health'.last_durable_seq = 0, SavedOps' = SavedOps
  PROVE  Abstract!Next
<1>1. Abstract!KeepsOrderOf(Applied', Applied)
  <2> SUFFICES ASSUME NEW i \in DOMAIN Applied', NEW j \in DOMAIN Applied', i < j
               PROVE  \E m, n \in DOMAIN Applied :
                        m < n /\ Applied[m] = Applied'[i] /\ Applied[n] = Applied'[j]
    BY DEF Abstract!KeepsOrderOf
  <2>1. at[i] < at[j] /\ at[i] \in DOMAIN Applied /\ at[j] \in DOMAIN Applied
    OBVIOUS
  <2> QED BY <2>1
<1>2. Abstract!ToSet(Applied') = AppliedOps' /\ Abstract!ToSet(Applied) = AppliedOps
  BY SameHelpers DEF Mapped
<1>3. AppliedOps' = AppliedOps \cap SavedOps
  BY DEF SavedOps
<1>4. Abstract!Crash
  BY <1>1, <1>2, <1>3, Zenon DEF Abstract!Crash, Mapped
<1> QED
  BY <1>4 DEF Abstract!Next


(* The applied operations, as a sequence.                                  *)
AppliedForm == /\ InMutation => Applied = Append(accepted, rt.stored)
               /\ ~InMutation => Applied = accepted

LEMMA AppliedForms == NumbersInv => AppliedForm
<1> SUFFICES ASSUME NumbersInv PROVE AppliedForm
  OBVIOUS
<1>1. IsSeq(accepted)
  BY DEF NumbersInv
<1>2. PICK S : accepted \in Seq(S)
  BY <1>1 DEF IsSeq
<1>3. CASE InMutation
  <2>1. InFlight = <<rt.stored>>
    BY <1>3 DEF InFlight, InMutation
  <2>2. accepted \in Seq(S \cup {rt.stored})
    BY <1>2
  <2>3. accepted \o <<rt.stored>> = Append(accepted, rt.stored)
    BY <2>2
  <2> QED BY <1>3, <2>1, <2>3 DEF Applied, AppliedForm
<1>4. CASE ~InMutation
  <2>1. InFlight = << >>
    BY <1>4 DEF InFlight, InMutation
  <2>2. accepted \o << >> = accepted
    BY <1>2
  <2> QED BY <1>4, <2>1, <2>2 DEF Applied, AppliedForm
<1> QED
  BY <1>3, <1>4 DEF AppliedForm

LEMMA AppliedFormsNext == NumbersInv' => AppliedForm'
  BY AppliedForms, PTL


(* Every configuration has a sink, and the machine does not lose power.    *)
Sinks == /\ ErrorsReturned /\ ~PowerLoss
         /\ \A c \in Configs : c.sink

OneDb == stable = {db}

(* The invariant behind the refinement.                                    *)
RefineInv == ShapeInv /\ DataInv /\ LogStoreInv /\ ToldInv /\ OneDb

LEMMA OneDbStep ==
  ASSUME Sinks, OneDb, [Next]_vars
  PROVE  OneDb'
<1>1. CASE UNCHANGED <<db, stable>>
  BY <1>1 DEF OneDb
<1>2. ASSUME NEW d, Commits(d) \/ Syncs(d) PROVE OneDb'
  BY <1>2 DEF Commits, Syncs, OneDb, Sinks
<1>3. CASE FlushBuf
  BY <1>1, <1>2, <1>3 DEF FlushBuf, FlushSucceeds, AppendFails, SinkPanics, SinkFlushFails
<1>4. CASE WriteSnapshot \/ CompactThrough
  BY <1>1, <1>2, <1>4 DEF WriteSnapshot, CompactThrough, CheckpointFails
<1>5. CASE Reopen
  <2>1. PICK d \in stable : db' = d /\ stable' = IF d = db THEN stable ELSE {d}
    BY <1>5 DEF Reopen
  <2> QED BY <2>1 DEF OneDb
<1>6. CASE \/ Receive \/ DeadlineExpires \/ QueueClosed \/ UNCHANGED vars
  BY <1>1, <1>6 DEF Receive, DeadlineExpires, QueueClosed, Wake, vars, workerVars
<1>7. CASE Runtime
  BY <1>1, <1>7 DEF Runtime, Perform, PatchMissing, Control, SendToWorker, AwaitReply, ObserveDurable,
                    DropHandles, workerVars
<1> QED
  BY <1>3, <1>4, <1>5, <1>6, <1>7 DEF Next, Worker

LEMMA RefineInvStep ==
  ASSUME Sinks, RefineInv, [Next]_vars
  PROVE  RefineInv'
BY ShapeStep, DataStep, StoreStep, ToldStep, OneDbStep DEF RefineInv, Sinks

(* Where the mapping stands before and after a step.                       *)
LEMMA MappedStep ==
  ASSUME Sinks, RefineInv, [Next]_vars
  PROVE  /\ Mapped /\ Mapped' /\ IsSeq(Applied) /\ AppliedForm /\ AppliedForm'
         /\ ShapeInv' /\ NumbersInv' /\ NumbersInv
<1>1. RefineInv'
  BY RefineInvStep
<1>2. NumbersInv /\ NumbersInv' /\ ShapeInv /\ ShapeInv'
  BY <1>1 DEF RefineInv, DataInv
<1> QED
  BY <1>2, MappedHolds, MappedNext, AppliedSeq, AppliedForms, AppliedFormsNext

(* Steps that leave all of it alone.                                       *)
LEMMA RefineCalm ==
  ASSUME Mapped, Mapped', AppliedForm, AppliedForm', Calm, UNCHANGED reported, db' = db,
         health'.last_durable_seq = health.last_durable_seq,
         (BufOps \cup QueueOps \cup LostOps)' = BufOps \cup QueueOps \cup LostOps
  PROVE  UNCHANGED Abstract!vars
<1>1. AppliedOps' = AppliedOps
  BY CalmKeeps
<1>2. Applied' = Applied
  BY DEF AppliedForm, Calm
<1>3. PendingOps' = PendingOps
  BY <1>1 DEF PendingOps
<1>4. SavedOps' = SavedOps
  BY <1>1 DEF SavedOps
<1> QED
  BY <1>2, <1>3, <1>4, AbsSame


(* An applied mutation is added; one that finds the queue full leaves no   *)
(* trace.                                                                  *)
LEMMA RefinePerform ==
  ASSUME Sinks, RefineInv, NEW m \in Mutations, Perform(m)
  PROVE  Abstract!Next \/ UNCHANGED Abstract!vars
<1> DEFINE o == StoredFor(store, m)
<1>1. [Next]_vars
  BY DEF Next, Runtime
<1>2. /\ Mapped /\ Mapped' /\ IsSeq(Applied) /\ AppliedForm /\ AppliedForm' /\ NumbersInv
  BY <1>1, MappedStep
<1>3. ShapeInv /\ DataInv /\ LogStoreInv /\ ToldInv
  BY DEF RefineInv
<1>4. config.sink /\ config.ack_mode \in {"InMemory", "Durable"}
  BY <1>3, ConfigFacts DEF Sinks, ShapeInv, TypeInv
<1>5. /\ rt.pc = "idle" /\ ~InMutation /\ m \in Mutation /\ Succeeds(store, m)
      /\ UNCHANGED <<reply, durable, reported, wk, db, config>>
      /\ health'.last_durable_seq = health.last_durable_seq
      /\ OpOK(o) /\ o.seq = store.next_op_seq
      /\ \/ /\ queue' = Append(queue, OpMsg(o))
            /\ \/ accepted' = Append(accepted, o) /\ ~InMutation'
               \/ accepted' = accepted /\ InMutation' /\ rt'.stored = o
         \/ ~InMutation' /\ UNCHANGED <<accepted, queue>>
  BY <1>3, <1>4, PerformCases
<1>6. BufOps' = BufOps /\ LostOps' = LostOps
  BY <1>5 DEF BufOps, LostOps
<1>7. Applied = accepted /\ AppliedOps = Acknowledged
  BY <1>2, <1>5, AppliedIs DEF AppliedForm
<1>8. CASE ~InMutation' /\ UNCHANGED <<accepted, queue>>
  <2>1. Applied' = Applied /\ AppliedOps' = AppliedOps
    BY <1>2, <1>7, <1>8, AppliedIsNext DEF AppliedForm, Acknowledged
  <2>2. QueueOps' = QueueOps
    BY <1>8 DEF QueueOps
  <2>3. PendingOps' = PendingOps /\ SavedOps' = SavedOps
    BY <1>5, <1>6, <2>1, <2>2 DEF PendingOps, SavedOps
  <2> QED BY <1>2, <1>5, <2>1, <2>3, AbsSame
<1>9. CASE /\ queue' = Append(queue, OpMsg(o))
           /\ \/ accepted' = Append(accepted, o) /\ ~InMutation'
              \/ accepted' = accepted /\ InMutation' /\ rt'.stored = o
  <2>1. Inv(store)
    BY <1>3, <1>5 DEF LogStoreInv, HeldInv
  <2>2. o \in [seq : OpSeq, op : AnyOp]
    <3>1. o.op \in AnyOp
      BY <1>5, <2>1, StoredTyped
    <3>2. o.seq \in OpSeq
      BY <1>5 DEF OpOK, OpSeq
    <3>3. o = StoredOp(o.seq, o.op)
      BY <1>5 DEF OpOK
    <3> HIDE DEF o
    <3> QED BY <3>1, <3>2, <3>3 DEF StoredOp
  <2>3. \A p \in AppliedOps : p.seq < o.seq
    BY <1>3, <1>5, AppliedNumbers DEF DataInv
  <2>4. \A k \in Reached : k < o.seq
    BY <1>5, <1>2 DEF NumbersInv
  <2>5. Reached \subseteq Nat /\ health.last_durable_seq \in Reached /\ db \in stable
        /\ DOMAIN db.events \subseteq Reached /\ db.snapshot.next_op_seq - 1 \in Reached
    BY <1>3, ReachedNumbers DEF ShapeInv, TypeInv, DbOK
  <2>6. o.seq > health.last_durable_seq
    BY <1>5, <2>4, <2>5 DEF OpOK
  <2>7. ~Journaled(db, o)
    <3>1. o.seq \notin DOMAIN db.events
      BY <1>5, <2>4, <2>5 DEF OpOK
    <3>2. db.snapshot.next_op_seq \in Nat
      BY <1>3, <2>5 DEF ShapeInv, TypeInv, DbOK, Decodes, OpSeq
    <3>3. ~(o.seq < db.snapshot.next_op_seq)
      BY <1>5, <2>4, <2>5, <3>2 DEF OpOK
    <3> QED BY <3>1, <3>3 DEF Journaled
  <2>8. o \notin reported
    <3>1. ASSUME o \in reported PROVE FALSE
      <4>1. NextSeq = o.seq /\ o.seq \in Nat
        BY <1>5, <1>3, NextSeqNat DEF NextSeq
      <4>2. o \in GoneOps
        BY <3>1 DEF GoneOps
      <4>3. health.is_healthy \/ config.ack_mode = "InMemory"
        BY <1>4 DEF Perform, EnsureMutationAllowed
      <4>4. o.seq < NextSeq
        BY <1>3, <3>1, <4>2, <4>3 DEF ToldInv
      <4> QED BY <4>1, <4>4
    <3> QED BY <3>1
  <2>9. Applied' = Append(Applied, o)
    BY <1>2, <1>7, <1>9 DEF AppliedForm
  <2>10. AppliedOps' = AppliedOps \cup {o}
    <3>1. CASE accepted' = Append(accepted, o) /\ ~InMutation'
      <4>1. \A p \in Acknowledged : p.seq < o.seq
        BY <1>7, <2>3
      <4>2. Acknowledged' = Acknowledged \cup {o}
        BY <1>2, <1>5, <3>1, <4>1, AcceptedPush
      <4> QED BY <1>7, <3>1, <4>2, AppliedIsNext
    <3>2. CASE accepted' = accepted /\ InMutation' /\ rt'.stored = o
      BY <1>7, <3>2, AppliedIsNext DEF Acknowledged
    <3> QED BY <1>9, <3>1, <3>2
  <2>11. QueueOps' = QueueOps \cup {o}
    <3>1. MsgOK(OpMsg(o)) /\ OpMsg(o).t = "Op" /\ OpMsg(o).stored = o
      BY <1>5 DEF OpMsg, MsgOK
    <3>2. QueueOK BY <1>3 DEF ShapeInv, TypeInv
    <3> QED BY <1>9, <3>1, <3>2, QueueOpsPush
  <2> HIDE DEF o
  <2>12. PendingOps' = PendingOps \cup {o}
    BY <1>6, <2>10, <2>11 DEF PendingOps
  <2>13. SavedOps' = SavedOps
    BY <1>5, <2>7, <2>10 DEF SavedOps
  <2>14. UNCHANGED reported /\ health'.last_durable_seq = health.last_durable_seq
    BY <1>5
  <2> QED BY <1>2, <2>2, <2>3, <2>6, <2>8, <2>9, <2>12, <2>13, <2>14, AbsAdd
<1> QED
  BY <1>5, <1>8, <1>9

(* The answer of a Durable mutation: nothing new, or it is withdrawn.      *)
LEMMA RefineAwait ==
  ASSUME Sinks, RefineInv, AwaitReply
  PROVE  Abstract!Next \/ UNCHANGED Abstract!vars
<1>1. [Next]_vars
  BY DEF Next, Runtime
<1>2. /\ Mapped /\ Mapped' /\ AppliedForm /\ AppliedForm' /\ NumbersInv
  BY <1>1, MappedStep
<1>3. ShapeInv /\ DataInv
  BY DEF RefineInv
<1>4. /\ UNCHANGED <<queue, durable, reported, wk, db, config>> /\ ~InMutation'
      /\ health'.last_durable_seq = health.last_durable_seq
      /\ \/ InMutation /\ reply = "err" /\ accepted' = accepted
         \/ InMutation /\ accepted' = Append(accepted, rt.stored)
         \/ ~InMutation /\ accepted' = accepted
  BY <1>3, AwaitCases
<1>5. BufOps' = BufOps /\ QueueOps' = QueueOps /\ LostOps' = LostOps
  BY <1>4 DEF BufOps, QueueOps, LostOps
<1>6. CASE \/ InMutation /\ accepted' = Append(accepted, rt.stored)
           \/ ~InMutation /\ accepted' = accepted
  <2>1. Applied' = Applied
    BY <1>2, <1>4, <1>6 DEF AppliedForm
  <2>2. AppliedOps' = AppliedOps
    BY <1>2, <2>1 DEF Mapped
  <2>3. PendingOps' = PendingOps /\ SavedOps' = SavedOps
    BY <1>4, <1>5, <2>2 DEF PendingOps, SavedOps
  <2> QED BY <1>2, <1>4, <2>1, <2>3, AbsSame
<1>7. CASE InMutation /\ reply = "err" /\ accepted' = accepted
  <2> DEFINE o == rt.stored
  <2>1. /\ Applied = Append(accepted, o) /\ Applied' = accepted /\ IsSeq(accepted)
        /\ AppliedOps = Acknowledged \cup {o} /\ AppliedOps' = Acknowledged
    BY <1>2, <1>4, <1>7, AppliedIs, AppliedIsNext DEF AppliedForm, NumbersInv, Acknowledged
  <2>2. o.seq \in Nat /\ config.ack_mode = "Durable" /\ db \in stable
    BY <1>3, <1>7 DEF ShapeInv, TypeInv, LoopOK, OpOK, DbOK
  <2>3. \A k \in Reached : k < o.seq
    BY <1>3, <1>7, <2>2 DEF DataInv, AloneInv
  <2>4. o \notin Acknowledged
    <3>1. \A p \in Acknowledged : p.seq < o.seq
      BY <1>2, <1>7 DEF NumbersInv
    <3> QED BY <2>2, <3>1
  <2>5. ~Journaled(db, o)
    <3>1. Reached \subseteq Nat /\ DOMAIN db.events \subseteq Reached /\ db.snapshot.next_op_seq - 1 \in Reached
      BY <1>3, <2>2, ReachedNumbers
    <3>2. o.seq \notin DOMAIN db.events
      BY <2>2, <2>3, <3>1
    <3>3. db.snapshot.next_op_seq \in Nat
      BY <1>3, <2>2 DEF ShapeInv, TypeInv, DbOK, Decodes, OpSeq
    <3>4. ~(o.seq < db.snapshot.next_op_seq)
      BY <2>2, <2>3, <3>1, <3>3
    <3> QED BY <3>2, <3>4 DEF Journaled
  <2> HIDE DEF o
  <2>6. AppliedOps' = AppliedOps \ {o}
    BY <2>1, <2>4
  <2>7. PendingOps' = PendingOps \ {o}
    BY <1>5, <2>6 DEF PendingOps
  <2>8. SavedOps' = SavedOps /\ o \notin SavedOps
    BY <1>4, <2>5, <2>6 DEF SavedOps
  <2>9. UNCHANGED reported /\ health'.last_durable_seq = health.last_durable_seq
    BY <1>4
  <2> QED BY <1>2, <2>1, <2>7, <2>8, <2>9, AbsWithdraw
<1> QED
  BY <1>4, <1>6, <1>7

(* A result that is read is announced, or told as a loss.                  *)
LEMMA RefineObserve ==
  ASSUME Sinks, RefineInv, ObserveDurable
  PROVE  Abstract!Next \/ UNCHANGED Abstract!vars
<1> DEFINE r == durable[1]
<1>1. [Next]_vars
  BY DEF Next, Runtime
<1>2. Mapped /\ Mapped' /\ AppliedForm /\ AppliedForm' /\ ShapeInv /\ CoverInv
  BY <1>1, MappedStep DEF RefineInv, DataInv
<1>3. /\ 1 \in DOMAIN durable /\ r.ok \in BOOLEAN
      /\ UNCHANGED <<store, rt, accepted, queue, wk, db, config>>
      /\ r.ok => /\ LostOps' = LostOps /\ reported' = reported /\ r.seq \in Nat
                 /\ health' = [is_healthy |-> TRUE,
                               last_durable_seq |-> MaxOf(health.last_durable_seq, r.seq)]
      /\ ~r.ok => /\ LostOps = LostOps' \cup r.lost /\ reported' = reported \cup r.lost
                  /\ health' = [health EXCEPT !.is_healthy = FALSE]
  BY <1>2, ObserveOps
<1>4. health.last_durable_seq \in Nat /\ DOMAIN health = {"is_healthy", "last_durable_seq"}
  BY <1>2 DEF ShapeInv, TypeInv, HealthOK
<1>5. /\ BufOps' = BufOps /\ QueueOps' = QueueOps /\ Applied' = Applied
  BY <1>3 DEF BufOps, QueueOps, Applied, InFlight
<1>6. AppliedOps' = AppliedOps
  BY <1>2, <1>5 DEF Mapped
<1>7. SavedOps' = SavedOps
  BY <1>3, <1>6 DEF SavedOps
<1>8. CASE r.ok
  <2>1. PendingOps' = PendingOps
    BY <1>3, <1>5, <1>6, <1>8 DEF PendingOps
  <2>2. /\ health'.last_durable_seq \in Nat /\ health'.last_durable_seq >= health.last_durable_seq
        /\ health'.last_durable_seq \in {health.last_durable_seq, r.seq}
    BY <1>3, <1>4, <1>8 DEF MaxOf
  <2>3. \A o \in AppliedOps : o.seq <= r.seq => Journaled(db, o) \/ o \in reported
    <3>1. ~ \E j \in DOMAIN durable : j < 1
      <4>1. IsSeq(durable) BY <1>2 DEF ShapeInv, TypeInv, ResultsOK
      <4> QED BY <4>1, SeqFacts
    <3> QED BY <1>2, <1>3, <1>8, <3>1 DEF CoverInv
  <2>4. \A o \in AppliedOps : o.seq <= health.last_durable_seq => Journaled(db, o) \/ o \in reported
    BY <1>2 DEF CoverInv
  <2>5. \A o \in AppliedOps : o.seq <= health'.last_durable_seq => o \in SavedOps \cup reported
    BY <2>2, <2>3, <2>4 DEF SavedOps
  <2>6. UNCHANGED reported
    BY <1>3, <1>8
  <2> QED BY <1>2, <1>5, <1>7, <2>1, <2>2, <2>5, <2>6, AbsAnnounce
<1>9. CASE ~r.ok
  <2>1. health'.last_durable_seq = health.last_durable_seq /\ reported \subseteq reported'
    BY <1>3, <1>4, <1>9
  <2>2. PendingOps' \subseteq PendingOps /\ PendingOps \subseteq PendingOps' \cup reported'
    <3> HIDE DEF r
    <3> QED BY <1>3, <1>5, <1>6, <1>9 DEF PendingOps
  <2> QED BY <1>2, <1>5, <1>7, <2>1, <2>2, AbsTell
<1> QED
  BY <1>3, <1>8, <1>9


(* A batch is saved, or goes to those whose loss is still to be told.      *)
LEMMA RefineFlush ==
  ASSUME Sinks, RefineInv, FlushBuf
  PROVE  Abstract!Next \/ UNCHANGED Abstract!vars
<1>1. [Next]_vars
  BY DEF Next, Worker
<1>2. Mapped /\ Mapped' /\ AppliedForm /\ AppliedForm' /\ ShapeInv /\ DataInv /\ ErrorsReturned
  BY <1>1, MappedStep DEF RefineInv, Sinks
<1>3. /\ UNCHANGED <<loopVars, queue, config>> /\ BufOps' = {} /\ QueueOps' = QueueOps
      /\ \/ db' = AppendOps(db, wk.buf) /\ durable' = durable
         \/ /\ db' = AppendOps(db, wk.buf)
            /\ durable' = Append(durable, [ok |-> TRUE, seq |-> MaxOf(wk.last_durable, Last(wk.buf).seq)])
         \/ /\ db' = db
            /\ durable' = Append(durable, [ok |-> FALSE, lost |-> BufOps])
  BY <1>2, FlushOps
<1>4. UNCHANGED <<reported, health, rt, accepted>>
  BY <1>3 DEF loopVars
<1>5. Applied' = Applied
  BY <1>4 DEF Applied, InFlight
<1>6. AppliedOps' = AppliedOps
  BY <1>2, <1>5 DEF Mapped
<1>7. CASE durable' = Append(durable, [ok |-> FALSE, lost |-> BufOps]) /\ db' = db
  <2> DEFINE r == [ok |-> FALSE, lost |-> BufOps]
  <2>1. durable' = Append(durable, r) /\ r.ok = FALSE /\ r.lost = BufOps /\ r.ok \in BOOLEAN
    BY <1>7
  <2> HIDE DEF r
  <2>2. LostOps' = LostOps \cup BufOps
    BY <1>2, <2>1, ResultPush
  <2>3. PendingOps' = PendingOps
    BY <1>3, <1>6, <2>2 DEF PendingOps
  <2>4. SavedOps' = SavedOps
    BY <1>6, <1>7 DEF SavedOps
  <2> QED BY <1>2, <1>4, <1>5, <2>3, <2>4, AbsSame
<1>8. CASE db' = AppendOps(db, wk.buf) /\ LostOps' = LostOps
  <2>1. Keeps(db, db') /\ \A o \in BufOps : Journaled(db', o)
    BY <1>2, <1>8, BatchIsNew
  <2>2. SavedOps \subseteq SavedOps' /\ SavedOps' \subseteq AppliedOps
    <3>1. \A o \in AppliedOps : o.seq \in Nat
      BY <1>2, AppliedNumbers DEF DataInv
    <3> QED BY <1>6, <2>1, <3>1 DEF SavedOps, Keeps
  <2>3. PendingOps' \subseteq PendingOps /\ PendingOps \subseteq PendingOps' \cup SavedOps'
    BY <1>3, <1>6, <1>8, <2>1 DEF PendingOps, SavedOps
  <2> QED BY <1>2, <1>4, <1>5, <2>2, <2>3, AbsSave
<1>9. CASE db' = AppendOps(db, wk.buf) /\ durable' = durable
  BY <1>8, <1>9 DEF LostOps
<1>10. CASE /\ db' = AppendOps(db, wk.buf)
            /\ durable' = Append(durable, [ok |-> TRUE, seq |-> MaxOf(wk.last_durable, Last(wk.buf).seq)])
  <2> DEFINE r == [ok |-> TRUE, seq |-> MaxOf(wk.last_durable, Last(wk.buf).seq)]
  <2>1. durable' = Append(durable, r) /\ r.ok = TRUE /\ r.ok \in BOOLEAN
    BY <1>10
  <2> HIDE DEF r
  <2>2. LostOps' = LostOps
    BY <1>2, <2>1, ResultPush
  <2> QED BY <1>8, <1>10, <2>2
<1> QED
  BY <1>3, <1>7, <1>9, <1>10

(* A snapshot saves whatever it covers, and compaction takes nothing away. *)
LEMMA RefineCheckpoint ==
  ASSUME Sinks, RefineInv, WriteSnapshot \/ CompactThrough
  PROVE  Abstract!Next
<1>1. [Next]_vars
  BY DEF Next, Worker
<1>2. Mapped /\ Mapped' /\ ShapeInv /\ DataInv
  BY <1>1, MappedStep DEF RefineInv
<1>3. UNCHANGED <<loopVars, queue, durable, config>>
  BY DEF WriteSnapshot, CompactThrough
<1>4. UNCHANGED <<reported, health, rt, accepted>>
  BY <1>3 DEF loopVars
<1>5. Applied' = Applied
  BY <1>4 DEF Applied, InFlight
<1>6. AppliedOps' = AppliedOps
  BY <1>2, <1>5 DEF Mapped
<1>7. Keeps(db, db') /\ wk'.buf = << >>
  BY <1>2, CheckpointWrites
<1>8. wk.buf = << >>
  BY <1>2 DEF WriteSnapshot, CompactThrough, ShapeInv, TypeInv, WorkerOK
<1>9. BufOps' = BufOps /\ QueueOps' = QueueOps /\ LostOps' = LostOps
  BY <1>3, <1>7, <1>8 DEF BufOps, QueueOps, LostOps
<1>10. PendingOps' = PendingOps
  BY <1>6, <1>9 DEF PendingOps
<1>11. SavedOps \subseteq SavedOps' /\ SavedOps' \subseteq AppliedOps
  <2>1. \A o \in AppliedOps : o.seq \in Nat
    BY <1>2, AppliedNumbers DEF DataInv
  <2> QED BY <1>6, <1>7, <2>1 DEF SavedOps, Keeps
<1>12. PendingOps' \subseteq PendingOps /\ PendingOps \subseteq PendingOps' \cup SavedOps'
  BY <1>10
<1> QED
  BY <1>2, <1>4, <1>5, <1>11, <1>12, AbsSave

(* Opening the log again cuts it back to what was saved.                   *)
LEMMA RefineReopen ==
  ASSUME Sinks, RefineInv, Reopen
  PROVE  Abstract!Next
<1>1. [Next]_vars
  BY DEF Next
<1>2. /\ Mapped /\ Mapped' /\ AppliedForm' /\ IsSeq(Applied) /\ ShapeInv /\ DataInv
      /\ ShapeInv' /\ NumbersInv' /\ NumbersInv
  BY <1>1, MappedStep DEF RefineInv
<1>3. PICK d \in stable :
        /\ ~InMutation' /\ accepted' = Surviving(Applied, d) /\ db' = d
        /\ AppliedOps' = Acknowledged'
        /\ \A o : o \in Acknowledged' <=> o \in AppliedOps /\ Journaled(d, o)
  BY <1>2, ReopenFacts
<1>4. d = db
  BY DEF RefineInv, OneDb
<1>5. AppliedOps' = SavedOps
  BY <1>3, <1>4 DEF SavedOps
<1>6. SavedOps' = SavedOps
  BY <1>3, <1>4, <1>5 DEF SavedOps
<1>7. Applied' = Surviving(Applied, d)
  BY <1>2, <1>3 DEF AppliedForm
<1>8. /\ IsSeq(Applied')
      /\ \E at : /\ \A k \in DOMAIN Applied' : at[k] \in DOMAIN Applied /\ Applied'[k] = Applied[at[k]]
                 /\ \A k, l \in DOMAIN Applied' : k < l => at[k] < at[l]
  BY <1>2, <1>7, SurvivingFacts
<1>9. PICK at : /\ \A k \in DOMAIN Applied' : at[k] \in DOMAIN Applied /\ Applied'[k] = Applied[at[k]]
                /\ \A k, l \in DOMAIN Applied' : k < l => at[k] < at[l]
  BY <1>8
<1>10. Applied' \in Seq([seq : OpSeq, op : AnyOp])
  <2>1. ASSUME NEW k \in DOMAIN Applied'
        PROVE  Applied'[k] \in [seq : OpSeq, op : AnyOp]
    <3> DEFINE o == Applied[at[k]]
    <3>1. o \in AppliedOps /\ OpOK(o) /\ Applied'[k] = o
      BY <1>2, <1>9, AppliedSeq
    <3>2. o.op \in AnyOp
      BY <3>1 DEF RefineInv, LogStoreInv, IdsInv
    <3>3. o.seq \in OpSeq /\ o = StoredOp(o.seq, o.op)
      BY <3>1 DEF OpOK, OpSeq
    <3> HIDE DEF o
    <3> QED BY <3>1, <3>2, <3>3 DEF StoredOp
  <2>2. PICK S : Applied' \in Seq(S)
    BY <1>8 DEF IsSeq
  <2>3. Len(Applied') \in Nat /\ DOMAIN Applied' = 1..Len(Applied')
    BY <1>8, SeqFacts
  <2>4. Applied' \in [1..Len(Applied') -> [seq : OpSeq, op : AnyOp]]
    BY <2>1, <2>2, <2>3
  <2>5. \A q, T, n : n \in Nat /\ q \in [1..n -> T] => q \in Seq(T)
    OBVIOUS
  <2> QED BY <2>3, <2>4, <2>5
<1>11. queue' = << >> /\ durable' = << >> /\ reported' = {} /\ health' = NewHealth
  BY DEF Reopen
<1>12. wk'.buf = << >>
  BY DEF Reopen, NewWorker, NoWorker
<1>13. PendingOps' = {} /\ health'.last_durable_seq = 0
  <2>1. QueueOps' = {} /\ LostOps' = {} /\ BufOps' = {}
    BY <1>11, <1>12 DEF QueueOps, LostOps, BufOps, ToSet
  <2> QED BY <1>11, <2>1 DEF PendingOps, NewHealth
<1> QED
  BY <1>2, <1>5, <1>6, <1>9, <1>10, <1>11, <1>13, AbsCrash

LEMMA RefineStep ==
  ASSUME Sinks, RefineInv, [Next]_vars
  PROVE  Abstract!Next \/ UNCHANGED Abstract!vars
<1>1. Mapped /\ Mapped' /\ AppliedForm /\ AppliedForm' /\ ShapeInv /\ NumbersInv
  BY MappedStep DEF RefineInv
<1>2. CASE \E m \in Mutations : Perform(m)
  BY <1>2, RefinePerform
<1>3. CASE \E m \in Mutations : PatchMissing(m)
  <2>1. UNCHANGED <<rt, accepted, queue, durable, wk, db, reported, health>>
    BY <1>3 DEF PatchMissing, workerVars
  <2>2. Applied' = Applied
    BY <2>1 DEF Applied, InFlight
  <2>3. AppliedOps' = AppliedOps
    BY <1>1, <2>2 DEF Mapped
  <2>4. PendingOps' = PendingOps /\ SavedOps' = SavedOps
    BY <2>1, <2>3 DEF PendingOps, SavedOps, BufOps, QueueOps, LostOps
  <2> QED BY <1>1, <2>1, <2>2, <2>4, AbsSame
<1>4. CASE \/ DropHandles \/ \E job \in {"flush", "checkpoint", "shutdown"} : Control(job)
           \/ DeadlineExpires \/ QueueClosed \/ UNCHANGED vars
  <2>1. Calm
    BY <1>1, <1>4, CalmSteps DEF Worker
  <2>2. UNCHANGED <<durable, reported, health, queue, db>> /\ wk'.buf = wk.buf
    <3>1. CASE DropHandles \/ \E job \in {"flush", "checkpoint", "shutdown"} : Control(job)
      BY <3>1 DEF DropHandles, Control, workerVars
    <3>2. CASE DeadlineExpires \/ QueueClosed
      <4>1. PICK msg \in {TimerMsg, ClosedMsg} : Wake(msg)
        BY <3>2 DEF DeadlineExpires, QueueClosed
      <4>2. wk' = [wk EXCEPT !.pc = "flush", !.msg = msg] /\ UNCHANGED <<loopVars, durable, queue, db>>
        BY <4>1 DEF Wake
      <4> QED BY <1>1, <4>2 DEF ShapeInv, TypeInv, WorkerOK, loopVars
    <3>3. CASE UNCHANGED vars
      BY <3>3 DEF vars, loopVars, workerVars
    <3> QED BY <1>4, <3>1, <3>2, <3>3
  <2>3. (BufOps \cup QueueOps \cup LostOps)' = BufOps \cup QueueOps \cup LostOps
    BY <2>2 DEF BufOps, QueueOps, LostOps
  <2> QED BY <1>1, <2>1, <2>2, <2>3, RefineCalm
<1>5. CASE SendToWorker
  <2>1. Calm
    BY <1>1, <1>5, CalmSteps
  <2>2. /\ UNCHANGED <<durable, reported, health, wk, db>> /\ rt.pc = "send"
        /\ queue' = Append(queue, MessageFor(rt.job))
    BY <1>5 DEF SendToWorker, workerVars
  <2>3. QueueOK /\ Frame(store) /\ rt.job \in Jobs
    BY <1>1, <2>2 DEF ShapeInv, TypeInv, LoopOK
  <2>4. MsgOK(MessageFor(rt.job)) /\ MessageFor(rt.job).t # "Op"
    BY <2>3, MessageOK
  <2>5. QueueOps' = QueueOps /\ BufOps' = BufOps /\ LostOps' = LostOps
    BY <2>2, <2>3, <2>4, QueueOpsPush DEF BufOps, LostOps
  <2> QED BY <1>1, <2>1, <2>2, <2>5, RefineCalm
<1>6. CASE AwaitReply
  BY <1>6, RefineAwait
<1>7. CASE ObserveDurable
  BY <1>7, RefineObserve
<1>8. CASE Receive
  <2>1. Calm /\ UNCHANGED <<durable, reported, health, db>>
    BY <1>1, <1>8, CalmSteps DEF Worker, Receive, loopVars
  <2>2. (BufOps \cup QueueOps)' = BufOps \cup QueueOps /\ LostOps' = LostOps
    BY <1>1, <1>8, <2>1, ReceiveOps DEF LostOps
  <2> QED BY <1>1, <2>1, <2>2, RefineCalm
<1>9. CASE FlushBuf
  BY <1>9, RefineFlush
<1>10. CASE WriteSnapshot \/ CompactThrough
  BY <1>10, RefineCheckpoint
<1>11. CASE Reopen
  BY <1>11, RefineReopen
<1> QED
  BY <1>2, <1>3, <1>4, <1>5, <1>6, <1>7, <1>8, <1>9, <1>10, <1>11 DEF Next, Runtime, Worker

LEMMA RefineInit == ASSUME Init PROVE RefineInv /\ Abstract!Init
<1>1. /\ rt = Idle /\ accepted = << >> /\ db = EmptyDb /\ stable = {EmptyDb}
      /\ queue = << >> /\ durable = << >> /\ reported = {} /\ health = NewHealth
      /\ wk.buf = << >>
  BY DEF Init, NewWorker, NoWorker
<1>2. ShapeInv /\ DataInv /\ LogStoreInv /\ OneDb
  BY <1>1, ShapeInit, DataInit, StoreInit DEF OneDb
<1>3. GoneOps = {} /\ DOMAIN durable = {}
  BY <1>1 DEF GoneOps, LostOps
<1>4. ToldInv
  BY <1>1, <1>3 DEF ToldInv
<1>5. Mapped /\ AppliedForm
  BY <1>2, MappedHolds, AppliedForms DEF DataInv
<1>6. Applied = << >>
  BY <1>1, <1>5 DEF AppliedForm, InMutation, Idle
<1>7. AppliedOps = {}
  BY <1>5, <1>6 DEF Mapped, ToSet
<1>8. PendingOps = {} /\ SavedOps = {}
  BY <1>7 DEF PendingOps, SavedOps
<1>9. health.last_durable_seq = 0
  BY <1>1 DEF NewHealth
<1>10. Abstract!Init
  BY <1>1, <1>5, <1>6, <1>8, <1>9 DEF Abstract!Init, Mapped
<1> QED
  BY <1>2, <1>4, <1>10 DEF RefineInv

(* The loop, the worker and SQLite together implement DurableLog           *)
(* (README.md:57, runtime/events.rs:27), whatever batches, snapshots and   *)
(* compactions fail and whenever the process ends, for every set of        *)
(* inputs, batch size, queue bound and number of failures.                 *)
THEOREM LogImplementsDurableLog ==
  ASSUME Sinks
  PROVE  Spec => ImplementsDurableLog
<1>1. Init => RefineInv /\ Abstract!Init
  BY RefineInit
<1>2. RefineInv /\ [Next]_vars => RefineInv'
  BY RefineInvStep
<1>3. RefineInv /\ [Next]_vars => [Abstract!Next]_(Abstract!vars)
  BY RefineStep
<1> QED
  BY <1>1, <1>2, <1>3, PTL DEF Spec, ImplementsDurableLog, Abstract!Spec

------------------------------------------------------------------------------
(* Rolling back undo() and redo()                                          *)

(* op leaves the void flag alone, or names the value it overwrites.        *)
Fits(s, op) == /\ NamesFlag(s, op)
               /\ op.type = "Patch" => "is_void" \notin DOMAIN op.patch

Apart(a, b) == ~(a.type = "Void" /\ b.type = "Void" /\ a.id = b.id)

(* Every entry of the undo and redo stacks fits the store as it is, not    *)
(* only when its turn comes: no two of them set the same void flag.        *)
StacksFit(s, u, r) ==
  /\ \A i \in DOMAIN u : Fits(s, u[i])
  /\ \A i \in DOMAIN r : Fits(s, r[i])
  /\ \A i, j \in DOMAIN u : i # j => Apart(u[i], u[j])
  /\ \A i, j \in DOMAIN r : i # j => Apart(r[i], r[j])
  /\ \A i \in DOMAIN u, j \in DOMAIN r : Apart(u[i], r[j])

FlagsOK(s) == StacksFit(s, s.undo, s.redo)

(* What a change does to the void flags.                                   *)
LEMMA ChangedFlags ==
  ASSUME NEW s, Inv(s), NEW m \in Mutation, m.cmd # "insert", Succeeds(s, m),
         Fits(s, OpFor(s, m))
  PROVE  LET t == Mutate(s, m)
             op == OpFor(s, m)
             inv == InverseOf(s, op)
         IN  /\ Fits(t, inv)
             /\ \A x : Fits(s, x) /\ x.id \in DOMAIN s.records /\ Apart(x, op) =>
                         Fits(t, x) /\ Apart(x, inv)
<1> DEFINE t == Mutate(s, m)
           op == OpFor(s, m)
           inv == InverseOf(s, op)
           rec == s.records[op.id]
<1>0. CoreOf(s) /\ DOMAIN s = StoreFields
  BY InvNames
<1>1. /\ op.type \in {"Patch", "Void"} /\ op.id \in DOMAIN s.records
      /\ op.type = "Patch" => op.patch \in QsoPatch
      /\ op.type = "Void" => op.prev_is_void \in BOOLEAN
  BY MutationOp
<1>2. rec \in QsoRecord /\ s.records = [q \in DOMAIN s.records |-> s.records[q]]
  BY <1>0, <1>1 DEF CoreOf, CoreOK
<1>3. /\ op.type = "Patch" => t.records = PatchInPlace(s, op.id, op.patch).records
      /\ op.type = "Void" => t.records = SetVoid(s, op.id, ~op.prev_is_void).records
  BY ChangedRecords
<1>4. Fits(s, op)
  OBVIOUS
<1> HIDE DEF t, op, rec
<1>5. CASE op.type = "Patch"
  <2>1. t.records = [s.records EXCEPT ![op.id] = ApplyTo(op.patch, rec)]
    BY <1>0, <1>3, <1>5 DEF PatchInPlace, StoreFields, rec
  <2>2. ApplyTo(op.patch, rec)["is_void"] = rec["is_void"]
    BY <1>4, <1>5 DEF Fits, ApplyTo, Field
  <2>3. \A q \in DOMAIN s.records : t.records[q]["is_void"] = s.records[q]["is_void"]
    BY <1>2, <2>1, <2>2 DEF rec
  <2>4. inv = PatchOp(op.id, CaptureInverseFor(op.patch, rec), op.patch)
    BY <1>5 DEF InverseOf, rec
  <2>5. inv.type = "Patch" /\ DOMAIN inv.patch = DOMAIN op.patch
    BY <2>4 DEF PatchOp, CaptureInverseFor
  <2> HIDE DEF inv
  <2>6. Fits(t, inv)
    BY <1>4, <1>5, <2>5 DEF Fits, NamesFlag
  <2>7. \A x : Fits(s, x) /\ x.id \in DOMAIN s.records => Fits(t, x) /\ Apart(x, inv)
    BY <2>3, <2>5 DEF Fits, NamesFlag, Apart
  <2> QED BY <2>6, <2>7 DEF t, op, inv
<1>6. CASE op.type = "Void"
  <2>1. t.records = [s.records EXCEPT ![op.id] = [rec EXCEPT !["is_void"] = ~op.prev_is_void]]
    BY <1>0, <1>3, <1>6 DEF SetVoid, StoreFields, rec
  <2>2. "is_void" \in DOMAIN rec
    BY <1>2 DEF QsoRecord, Field
  <2>3. /\ t.records[op.id]["is_void"] = ~op.prev_is_void
        /\ \A q \in DOMAIN s.records : q # op.id => t.records[q] = s.records[q]
    BY <1>1, <1>2, <2>1, <2>2
  <2>4. inv = VoidOp(op.id, ~op.prev_is_void)
    BY <1>6 DEF InverseOf
  <2>5. inv.type = "Void" /\ inv.id = op.id /\ inv.prev_is_void = ~op.prev_is_void
    BY <2>4 DEF VoidOp
  <2> HIDE DEF inv
  <2>6. Fits(t, inv)
    BY <2>3, <2>5 DEF Fits, NamesFlag
  <2>7. \A x : Fits(s, x) /\ x.id \in DOMAIN s.records /\ Apart(x, op) => Fits(t, x) /\ Apart(x, inv)
    BY <1>6, <2>3, <2>5 DEF Fits, NamesFlag, Apart
  <2> QED BY <2>6, <2>7 DEF t, op, inv
<1> QED BY <1>1, <1>5, <1>6 DEF t, op

LEMMA FitEitherWay ==
  ASSUME NEW s, NEW u, NEW r, StacksFit(s, u, r)
  PROVE  StacksFit(s, r, u)
  BY DEF StacksFit, Apart

(* undo() and redo() take an entry from one stack and put its inverse on   *)
(* the other.                                                              *)
LEMMA FitMove ==
  ASSUME NEW s, NEW u, NEW r, StacksFit(s, u, r), IsSeq(u), IsSeq(r), u # << >>,
         NEW t, NEW D, NEW inv, Fits(t, inv),
         \A i \in DOMAIN u : u[i].id \in D, \A i \in DOMAIN r : r[i].id \in D,
         \A x : Fits(s, x) /\ x.id \in D /\ Apart(x, Last(u)) => Fits(t, x) /\ Apart(x, inv)
  PROVE  StacksFit(t, Front(u), Append(r, inv))
<1> DEFINE f == Front(u)
           g == Append(r, inv)
<1>1. Len(u) \in DOMAIN u /\ Last(u) = u[Len(u)] /\ DOMAIN u = 1..Len(u) /\ Len(u) \in Nat
  BY SeqLast, SeqFacts
<1>2. /\ IsSeq(f) /\ Len(f) = Len(u) - 1
      /\ \A i \in DOMAIN f : i \in DOMAIN u /\ f[i] = u[i]
  BY SeqFront
<1>3. DOMAIN f = 1..(Len(u) - 1)
  BY <1>2, SeqFacts
<1>4. /\ Len(r) \in Nat /\ DOMAIN r = 1..Len(r) /\ DOMAIN g = 1..(Len(r) + 1)
      /\ \A i \in 1..Len(r) : g[i] = r[i]
      /\ g[Len(r) + 1] = inv
  BY SeqAppend, SeqFacts
<1> HIDE DEF f, g
<1>5. \A i \in DOMAIN f : /\ Fits(s, f[i]) /\ f[i].id \in D /\ Apart(f[i], Last(u)) /\ i # Len(u)
  BY <1>1, <1>2, <1>3 DEF StacksFit
<1>6. \A i \in DOMAIN r : Fits(s, r[i]) /\ r[i].id \in D /\ Apart(r[i], Last(u))
  BY <1>1 DEF StacksFit, Apart
<1>7. \A i \in DOMAIN f : Fits(t, f[i]) /\ Apart(f[i], inv)
  BY <1>5
<1>8. \A i \in DOMAIN r : Fits(t, r[i]) /\ Apart(r[i], inv)
  BY <1>6
<1>9. \A i \in DOMAIN g : (i \in DOMAIN r /\ g[i] = r[i]) \/ (i = Len(r) + 1 /\ g[i] = inv)
  BY <1>4
<1>10. \A i \in DOMAIN g : Fits(t, g[i])
  BY <1>8, <1>9
<1>11. \A i, j \in DOMAIN f : i # j => Apart(f[i], f[j])
  BY <1>2 DEF StacksFit
<1>12. \A i, j \in DOMAIN g : i # j => Apart(g[i], g[j])
  <2>1. \A i, j \in DOMAIN r : i # j => Apart(r[i], r[j])
    BY DEF StacksFit
  <2>2. \A x, y : Apart(x, y) => Apart(y, x)
    BY DEF Apart
  <2> QED BY <1>8, <1>9, <2>1, <2>2
<1>13. \A i \in DOMAIN f, j \in DOMAIN g : Apart(f[i], g[j])
  <2>1. \A i \in DOMAIN f, j \in DOMAIN r : Apart(f[i], r[j])
    BY <1>2 DEF StacksFit
  <2> QED BY <1>7, <1>9, <2>1
<1> QED
  BY <1>7, <1>10, <1>11, <1>12, <1>13 DEF StacksFit, f, g

(* A command that takes nothing from the stacks clears one and pushes the  *)
(* inverse on the other.                                                   *)
LEMMA FitPush ==
  ASSUME NEW t, NEW u, IsSeq(u), NEW inv, Fits(t, inv),
         \A i \in DOMAIN u : Fits(t, u[i]) /\ Apart(u[i], inv),
         \A i, j \in DOMAIN u : i # j => Apart(u[i], u[j])
  PROVE  StacksFit(t, Append(u, inv), << >>)
<1> DEFINE g == Append(u, inv)
<1>1. /\ Len(u) \in Nat /\ DOMAIN u = 1..Len(u) /\ DOMAIN g = 1..(Len(u) + 1)
      /\ \A i \in 1..Len(u) : g[i] = u[i]
      /\ g[Len(u) + 1] = inv
  BY SeqAppend, SeqFacts
<1> HIDE DEF g
<1>2. \A i \in DOMAIN g : (i \in DOMAIN u /\ g[i] = u[i]) \/ (i = Len(u) + 1 /\ g[i] = inv)
  BY <1>1
<1>3. \A i \in DOMAIN g : Fits(t, g[i])
  BY <1>2
<1>4. \A i, j \in DOMAIN g : i # j => Apart(g[i], g[j])
  <2>2. \A x, y : Apart(x, y) => Apart(y, x)
    BY DEF Apart
  <2> QED BY <1>2, <2>2
<1>5. DOMAIN << >> = {}
  OBVIOUS
<1> QED
  BY <1>3, <1>4, <1>5 DEF StacksFit, g

(* Prefixes of stacks that fit, in a store with the same records, fit.     *)
LEMMA FitPrefix ==
  ASSUME NEW s, NEW t, t.records = s.records, FlagsOK(s),
         \A i \in DOMAIN t.undo : i \in DOMAIN s.undo /\ t.undo[i] = s.undo[i],
         \A i \in DOMAIN t.redo : i \in DOMAIN s.redo /\ t.redo[i] = s.redo[i]
  PROVE  FlagsOK(t)
<1>1. \A x : Fits(s, x) => Fits(t, x)
  BY DEF Fits, NamesFlag
<1> QED BY <1>1 DEF FlagsOK, StacksFit

(* m voids nothing, and inserts nothing that is void already.              *)
LeavesFlags(m) == /\ m.cmd # "void"
                  /\ m.cmd = "insert" => m.draft["is_void"] = FALSE
                  /\ m.cmd = "patch" => "is_void" \notin DOMAIN m.patch

LEMMA InvStacks ==
  ASSUME NEW s, Inv(s)
  PROVE  /\ IsSeq(s.undo) /\ IsSeq(s.redo)
         /\ \A i \in DOMAIN s.undo : s.undo[i].id \in DOMAIN s.records
         /\ \A i \in DOMAIN s.redo : s.redo[i].id \in DOMAIN s.records
<1>1. Names(s.undo, DOMAIN s.records) /\ Names(s.redo, DOMAIN s.records)
  BY InvNames
<1> QED BY <1>1 DEF Names, IsSeq

LEMMA FlagsInsert ==
  ASSUME NEW s, Inv(s), FlagsOK(s), NEW draft \in QsoRecord, draft["is_void"] = FALSE
  PROVE  FlagsOK(Mutate(s, InsertCmd(draft)))
<1> DEFINE t == Mutate(s, InsertCmd(draft))
           id == s.next_qso_id
           D == DOMAIN s.records
           inv == VoidOp(id, FALSE)
<1>1. /\ t.records = MapInsert(s.records, id, draft)
      /\ t.undo = Append(s.undo, inv) /\ t.redo = << >>
  BY InsertFields
<1>2. /\ IsSeq(s.undo) /\ \A i \in DOMAIN s.undo : s.undo[i].id \in D
  BY InvStacks
<1>3. \A q \in D : q \in Nat /\ q < id
  BY DEF Inv, CoreOf, CoreOK, OrderOK, QsoId
<1>4. id \in Nat
  BY NextIdNat
<1> HIDE DEF t, id
<1>5. t.records[id] = draft /\ \A q \in D : q # id /\ t.records[q] = s.records[q]
  BY <1>1, <1>3, <1>4 DEF MapInsert
<1>6. inv.type = "Void" /\ inv.id = id /\ inv.prev_is_void = FALSE
  BY DEF VoidOp
<1>7. Fits(t, inv)
  BY <1>5, <1>6 DEF Fits, NamesFlag
<1>8. \A i \in DOMAIN s.undo : Fits(t, s.undo[i]) /\ Apart(s.undo[i], inv)
  BY <1>2, <1>5, <1>6 DEF FlagsOK, StacksFit, Fits, NamesFlag, Apart
<1>9. \A i, j \in DOMAIN s.undo : i # j => Apart(s.undo[i], s.undo[j])
  BY DEF FlagsOK, StacksFit
<1> HIDE DEF inv, D
<1> QED
  BY <1>1, <1>2, <1>7, <1>8, <1>9, FitPush DEF FlagsOK, t

(* The operation of undo() or redo() fits.                                 *)
LEMMA TopFits ==
  ASSUME NEW s, Inv(s), FlagsOK(s), NEW m \in Mutation, Succeeds(s, m), LeavesFlags(m), m.cmd # "insert"
  PROVE  /\ m.cmd \in {"patch", "undo", "redo"} /\ Fits(s, OpFor(s, m))
         /\ m.cmd = "patch" => OpFor(s, m).type = "Patch"
         /\ m.cmd = "undo" => OpFor(s, m) = Last(s.undo) /\ s.undo # << >>
         /\ m.cmd = "redo" => OpFor(s, m) = Last(s.redo) /\ s.redo # << >>
<1>1. m.cmd \in {"patch", "undo", "redo"}
  BY MutationOp DEF LeavesFlags
<1>2. IsSeq(s.undo) /\ IsSeq(s.redo)
  BY InvStacks
<1>3. CASE m.cmd = "patch"
  BY <1>3 DEF OpFor, PatchOp, LeavesFlags, Fits, NamesFlag
<1>4. CASE m.cmd = "undo"
  <2>1. OpFor(s, m) = Last(s.undo) /\ s.undo # << >>
    BY <1>4 DEF OpFor, Succeeds
  <2>2. Len(s.undo) \in DOMAIN s.undo /\ Last(s.undo) = s.undo[Len(s.undo)]
    BY <1>2, <2>1, SeqLast
  <2> QED BY <1>1, <1>4, <2>1, <2>2 DEF FlagsOK, StacksFit
<1>5. CASE m.cmd = "redo"
  <2>1. OpFor(s, m) = Last(s.redo) /\ s.redo # << >>
    BY <1>5 DEF OpFor, Succeeds
  <2>2. Len(s.redo) \in DOMAIN s.redo /\ Last(s.redo) = s.redo[Len(s.redo)]
    BY <1>2, <2>1, SeqLast
  <2> QED BY <1>1, <1>5, <2>1, <2>2 DEF FlagsOK, StacksFit
<1> QED BY <1>1, <1>3, <1>4, <1>5

LEMMA FlagsChange ==
  ASSUME NEW s, Inv(s), FlagsOK(s), NEW m \in Mutation, Succeeds(s, m), LeavesFlags(m), m.cmd # "insert"
  PROVE  FlagsOK(Mutate(s, m))
<1> DEFINE t == Mutate(s, m)
           op == OpFor(s, m)
           inv == InverseOf(s, op)
           D == DOMAIN s.records
<1>1. /\ m.cmd \in {"patch", "undo", "redo"} /\ Fits(s, op)
      /\ m.cmd = "patch" => op.type = "Patch"
      /\ m.cmd = "undo" => op = Last(s.undo) /\ s.undo # << >>
      /\ m.cmd = "redo" => op = Last(s.redo) /\ s.redo # << >>
  BY TopFits
<1>2. /\ Fits(t, inv)
      /\ \A x : Fits(s, x) /\ x.id \in D /\ Apart(x, op) => Fits(t, x) /\ Apart(x, inv)
  BY <1>1, ChangedFlags
<1>3. /\ m.cmd = "patch" => t.undo = Append(s.undo, inv) /\ t.redo = << >>
      /\ m.cmd = "undo" => t.undo = Front(s.undo) /\ t.redo = Append(s.redo, inv)
      /\ m.cmd = "redo" => t.undo = Append(s.undo, inv) /\ t.redo = Front(s.redo)
  BY ChangedStacks
<1>4. /\ IsSeq(s.undo) /\ IsSeq(s.redo)
      /\ \A i \in DOMAIN s.undo : s.undo[i].id \in D
      /\ \A i \in DOMAIN s.redo : s.redo[i].id \in D
  BY InvStacks
<1>5. StacksFit(s, s.undo, s.redo) /\ StacksFit(s, s.redo, s.undo)
  BY FitEitherWay DEF FlagsOK
<1> HIDE DEF t, op, inv, D
<1>6. CASE m.cmd = "patch"
  <2>1. \A i \in DOMAIN s.undo : Fits(t, s.undo[i]) /\ Apart(s.undo[i], inv)
    BY <1>1, <1>2, <1>4, <1>5, <1>6 DEF StacksFit, Apart
  <2>2. \A i, j \in DOMAIN s.undo : i # j => Apart(s.undo[i], s.undo[j])
    BY <1>5 DEF StacksFit
  <2>3. StacksFit(t, Append(s.undo, inv), << >>)
    BY <1>2, <1>4, <2>1, <2>2, FitPush
  <2> QED BY <1>3, <1>6, <2>3 DEF FlagsOK, t
<1>7. CASE m.cmd = "undo"
  <2>1. StacksFit(t, Front(s.undo), Append(s.redo, inv))
    BY <1>1, <1>2, <1>4, <1>5, <1>7, FitMove
  <2> QED BY <1>3, <1>7, <2>1 DEF FlagsOK, t
<1>8. CASE m.cmd = "redo"
  <2>1. StacksFit(t, Front(s.redo), Append(s.undo, inv))
    BY <1>1, <1>2, <1>4, <1>5, <1>8, FitMove
  <2>2. StacksFit(t, Append(s.undo, inv), Front(s.redo))
    BY <2>1, FitEitherWay
  <2> QED BY <1>3, <1>8, <2>2 DEF FlagsOK, t
<1> QED BY <1>1, <1>6, <1>7, <1>8

(* Rejecting a mutation only shortens the stacks.                          *)
LEMMA RejectedStacks ==
  ASSUME NEW s, Inv(s), NEW m \in Mutation, Succeeds(s, m)
  PROVE  LET t == Rejected(s, m)
         IN  /\ \A i \in DOMAIN t.undo : i \in DOMAIN s.undo /\ t.undo[i] = s.undo[i]
             /\ \A i \in DOMAIN t.redo : i \in DOMAIN s.redo /\ t.redo[i] = s.redo[i]
<1> DEFINE t == Rejected(s, m)
           u == Mutate(s, m)
           r == RollbackOp(ClearPendingOps(u), StoredFor(s, m).op)
<1>1. IsSeq(s.undo) /\ IsSeq(s.redo)
  BY InvStacks
<1>2. CASE m.cmd = "insert"
  <2>1. PICK draft \in QsoRecord : m = InsertCmd(draft)
    BY <1>2 DEF Mutation, PatchCmd, VoidCmd, UndoCmd, RedoCmd
  <2>2. t.undo = s.undo /\ t.redo = << >>
    BY <2>1, RejectedInsert
  <2> HIDE DEF t
  <2> QED BY <2>2 DEF t
<1>3. CASE m.cmd # "insert"
  <2> DEFINE inv == InverseOf(s, OpFor(s, m))
  <2>1. m.cmd \in {"patch", "void", "undo", "redo"}
    BY <1>3, MutationOp
  <2>2. Inv(u)
    BY <1>3, MutateInv
  <2>3. DOMAIN u = StoreFields
    BY <2>2, InvNames
  <2>4. /\ m.cmd \in {"patch", "void"} => u.undo = Append(s.undo, inv) /\ u.redo = << >>
        /\ m.cmd = "undo" => u.undo = Front(s.undo) /\ u.redo = Append(s.redo, inv)
        /\ m.cmd = "redo" => u.undo = Append(s.undo, inv) /\ u.redo = Front(s.redo)
    BY <1>3, ChangedStacks
  <2>5. t.undo = Truncate(u.undo, Len(s.undo)) /\ t.redo = Truncate(u.redo, Len(s.redo))
    <3> DEFINE c == ClearPendingOps(u)
    <3>1. DOMAIN c = StoreFields /\ c.undo = u.undo /\ c.redo = u.redo
      BY <2>3, ClearFields
    <3>2. DOMAIN r = StoreFields /\ r.undo = c.undo /\ r.redo = c.redo
      <4> DEFINE e == StoredFor(s, m).op
      <4>1. e.type \in {"Patch", "Void"}
        BY <1>3, EmittedEffect DEF SameEffect
      <4> HIDE DEF c, e
      <4>2. r = RollbackOp(c, e)
        BY DEF c, e
      <4> HIDE DEF r
      <4> QED BY <3>1, <4>1, <4>2 DEF RollbackOp, PatchInPlace, SetVoid, StoreFields
    <3> QED BY <2>3, <3>1, <3>2, RejectedFields
  <2> HIDE DEF t, u, inv
  <2>6. ASSUME NEW q, NEW e, IsSeq(q)
        PROVE  Truncate(Append(q, e), Len(q)) = q
    <3>1. PICK T : q \in Seq(T)
      BY <2>6 DEF IsSeq
    <3>2. q \in Seq(T \cup {e}) /\ e \in T \cup {e}
      BY <3>1
    <3> QED BY <3>2, TruncateAppend
  <2>a. /\ Truncate(Append(s.undo, inv), Len(s.undo)) = s.undo
        /\ Truncate(Append(s.redo, inv), Len(s.redo)) = s.redo
    BY <1>1, <2>6
  <2>7. Truncate(<< >>, Len(s.redo)) = << >>
    BY <1>1, SeqFacts, SeqEmpty DEF Truncate
  <2>8. \A q : IsSeq(q) /\ q # << >> => /\ Truncate(Front(q), Len(q)) = Front(q)
                                        /\ \A i \in DOMAIN Front(q) : i \in DOMAIN q /\ Front(q)[i] = q[i]
    BY SeqFront, SeqFacts DEF Truncate
  <2>9. CASE m.cmd \in {"patch", "void"}
    <3>1. t.undo = s.undo /\ t.redo = << >>
      BY <2>4, <2>5, <2>a, <2>7, <2>9
    <3> QED BY <3>1 DEF t
  <2>10. CASE m.cmd = "undo"
    <3>1. s.undo # << >>
      BY <2>10 DEF Succeeds
    <3>2. t.undo = Front(s.undo) /\ t.redo = s.redo
      BY <1>1, <2>4, <2>5, <2>a, <2>8, <2>10, <3>1
    <3> QED BY <1>1, <2>8, <3>1, <3>2 DEF t
  <2>11. CASE m.cmd = "redo"
    <3>1. s.redo # << >>
      BY <2>11 DEF Succeeds
    <3>2. t.undo = s.undo /\ t.redo = Front(s.redo)
      BY <1>1, <2>4, <2>5, <2>a, <2>8, <2>11, <3>1
    <3> QED BY <1>1, <2>8, <3>1, <3>2 DEF t
  <2> QED BY <2>1, <2>9, <2>10, <2>11
<1> QED BY <1>2, <1>3

(* So the stacks go on fitting, and a rollback of any of these commands    *)
(* gives back what the reads see.                                          *)
LEMMA FlagsStay ==
  ASSUME NEW s, Inv(s), FlagsOK(s), NEW m \in Mutation, Succeeds(s, m), LeavesFlags(m)
  PROVE  /\ FlagsOK(ClearPendingOps(Mutate(s, m)))
         /\ FlagsOK(Rejected(s, m)) /\ Visible(Rejected(s, m)) = Visible(s)
<1> DEFINE u == Mutate(s, m)
           t == Rejected(s, m)
<1>1. FlagsOK(u) /\ Inv(u) /\ Visible(t) = Visible(s)
  <2>1. CASE m.cmd = "insert"
    <3>1. PICK draft \in QsoRecord : m = InsertCmd(draft)
      BY <2>1 DEF Mutation, PatchCmd, VoidCmd, UndoCmd, RedoCmd
    <3>2. draft["is_void"] = FALSE
      BY <2>1, <3>1 DEF LeavesFlags, InsertCmd
    <3> QED BY <3>1, <3>2, FlagsInsert, InsertInv, RejectedInsert
  <2>2. CASE m.cmd # "insert"
    <3>1. Fits(s, OpFor(s, m))
      BY <2>2, TopFits
    <3> QED BY <2>2, <3>1, FlagsChange, MutateInv, ChangeVisible DEF Fits
  <2> QED BY <2>1, <2>2
<1>2. t.records = s.records
  BY <1>1 DEF Visible
<1>3. FlagsOK(t)
  <2>1. /\ \A i \in DOMAIN t.undo : i \in DOMAIN s.undo /\ t.undo[i] = s.undo[i]
        /\ \A i \in DOMAIN t.redo : i \in DOMAIN s.redo /\ t.redo[i] = s.redo[i]
    BY RejectedStacks
  <2> HIDE DEF t
  <2> QED BY <1>2, <2>1, FitPrefix
<1>4. FlagsOK(ClearPendingOps(u))
  <2> DEFINE c == ClearPendingOps(u)
  <2> HIDE DEF u
  <2>1. DOMAIN u = StoreFields
    BY <1>1, InvNames
  <2>2. c.records = u.records /\ c.undo = u.undo /\ c.redo = u.redo
    BY <2>1, ClearFields
  <2> HIDE DEF c
  <2>3. FlagsOK(c)
    BY <1>1, <2>2, FitPrefix
  <2> QED BY <2>3 DEF c
<1> QED BY <1>1, <1>3, <1>4

------------------------------------------------------------------------------
(* Replaying a prefix                                                      *)

(* The store that the first k operations of q make of an empty one.        *)
Replayed(q, k) == ReplayAll(NewStore, SubSeq(q, 1, k))

LEMMA SameSeq ==
  ASSUME NEW p, NEW q, IsSeq(p), IsSeq(q), Len(p) = Len(q), \A i \in 1..Len(p) : p[i] = q[i]
  PROVE  p = q
<1>1. PICK S : p \in Seq(S)
  BY DEF IsSeq
<1>2. PICK T : q \in Seq(T)
  BY DEF IsSeq
<1> QED BY <1>1, <1>2

LEMMA PrefixFacts ==
  ASSUME NEW q, IsSeq(q), NEW k \in 0..Len(q)
  PROVE  /\ IsSeq(SubSeq(q, 1, k)) /\ Len(SubSeq(q, 1, k)) = k
         /\ DOMAIN SubSeq(q, 1, k) = 1..k
         /\ \A i \in 1..k : SubSeq(q, 1, k)[i] = q[i]
<1>1. PICK S : q \in Seq(S)
  BY DEF IsSeq
<1>2. Len(q) \in Nat
  BY SeqFacts
<1>3. SubSeq(q, 1, k) \in Seq(S) /\ Len(SubSeq(q, 1, k)) = k /\ \A i \in 1..k : SubSeq(q, 1, k)[i] = q[i]
  BY <1>1, <1>2
<1>4. IsSeq(SubSeq(q, 1, k))
  BY <1>3 DEF IsSeq
<1> QED BY <1>3, <1>4, SeqFacts

LEMMA ReplayedAgree ==
  ASSUME NEW p, NEW q, IsSeq(p), IsSeq(q), NEW k \in Nat, k <= Len(p), k <= Len(q),
         \A i \in 1..k : p[i] = q[i]
  PROVE  Replayed(p, k) = Replayed(q, k)
<1>1. Len(p) \in Nat /\ Len(q) \in Nat
  BY SeqFacts
<1>2. k \in 0..Len(p) /\ k \in 0..Len(q)
  BY <1>1
<1> DEFINE a == SubSeq(p, 1, k)
           b == SubSeq(q, 1, k)
<1>3. IsSeq(a) /\ IsSeq(b) /\ Len(a) = k /\ Len(b) = k /\ \A i \in 1..k : a[i] = b[i]
  BY <1>2, PrefixFacts
<1> HIDE DEF a, b
<1>4. a = b
  BY <1>3, SameSeq
<1> QED BY <1>4 DEF Replayed, a, b

LEMMA ReplayedAppend ==
  ASSUME NEW s, NEW q, IsSeq(q), NEW e
  PROVE  ReplayAll(s, Append(q, e)) = ApplyReplayedOp(ReplayAll(s, q), e)
<1>1. PICK S : q \in Seq(S)
  BY DEF IsSeq
<1>2. q \in Seq(S \cup {e}) /\ e \in S \cup {e}
  BY <1>1
<1> QED BY <1>2, ReplayAppend

LEMMA ReplayedSteps ==
  ASSUME NEW q, IsSeq(q)
  PROVE  /\ Replayed(q, 0) = NewStore /\ Replayed(q, Len(q)) = ReplayAll(NewStore, q)
         /\ \A k \in 1..Len(q) : Replayed(q, k) = ApplyReplayedOp(Replayed(q, k - 1), q[k])
<1>0. Len(q) \in Nat
  BY SeqFacts
<1>1. Replayed(q, 0) = NewStore
  <2>1. 0 \in 0..Len(q)
    BY <1>0
  <2> DEFINE a == SubSeq(q, 1, 0)
  <2>2. IsSeq(a) /\ Len(a) = 0
    BY <2>1, PrefixFacts
  <2> HIDE DEF a
  <2>3. a = << >>
    BY <2>2, SeqFacts
  <2> QED BY <2>3, ReplayNone DEF Replayed, a
<1>2. Replayed(q, Len(q)) = ReplayAll(NewStore, q)
  <2>1. Len(q) \in 0..Len(q)
    BY <1>0
  <2> DEFINE a == SubSeq(q, 1, Len(q))
  <2>2. IsSeq(a) /\ Len(a) = Len(q) /\ \A i \in 1..Len(a) : a[i] = q[i]
    BY <2>1, PrefixFacts
  <2> HIDE DEF a
  <2>3. a = q
    BY <2>2, SameSeq
  <2> QED BY <2>3 DEF Replayed, a
<1>3. ASSUME NEW k \in 1..Len(q)
      PROVE  Replayed(q, k) = ApplyReplayedOp(Replayed(q, k - 1), q[k])
  <2> DEFINE a == SubSeq(q, 1, k)
             b == SubSeq(q, 1, k - 1)
             c == Append(b, q[k])
  <2>1. k \in 0..Len(q) /\ k - 1 \in 0..Len(q)
    BY <1>0
  <2>2. IsSeq(a) /\ Len(a) = k /\ \A i \in 1..k : a[i] = q[i]
    BY <2>1, PrefixFacts
  <2>3. IsSeq(b) /\ Len(b) = k - 1 /\ \A i \in 1..(k - 1) : b[i] = q[i]
    BY <2>1, PrefixFacts
  <2> HIDE DEF a, b
  <2>4. IsSeq(c) /\ Len(c) = k /\ c[k] = q[k] /\ \A i \in 1..(k - 1) : c[i] = q[i]
    BY <1>0, <2>3, SeqAppend
  <2>5. \A i \in 1..k : i \in 1..(k - 1) \/ i = k
    BY <1>0
  <2> HIDE DEF c
  <2>6. a = c
    BY <2>2, <2>4, <2>5, SameSeq
  <2>7. ReplayAll(NewStore, c) = ApplyReplayedOp(ReplayAll(NewStore, b), q[k])
    BY <2>3, ReplayedAppend DEF c
  <2> QED BY <2>6, <2>7 DEF Replayed, a, b
<1> QED BY <1>1, <1>2, <1>3

LEMMA SameEffectSelf ==
  ASSUME NEW op, op.type \in OpTypes
  PROVE  SameEffect(op, op)
  BY DEF SameEffect, OpTypes

(* Replaying the same operation on two stores that read alike.             *)
LEMMA ReplayVisible ==
  ASSUME NEW s, NEW t, DOMAIN s = StoreFields, DOMAIN t = StoreFields, Visible(s) = Visible(t),
         NEW e, e.op.type \in OpTypes
  PROVE  /\ Visible(ApplyReplayedOp(s, e)) = Visible(ApplyReplayedOp(t, e))
         /\ DOMAIN ApplyReplayedOp(s, e) = StoreFields
         /\ DOMAIN ApplyReplayedOp(t, e) = StoreFields
<1> DEFINE a == ApplyWithSeq(s, e.op, e.seq)
           b == ApplyWithSeq(t, e.op, e.seq)
<1>1. SameEffect(e.op, e.op)
  BY SameEffectSelf
<1>2. Visible(a) = Visible(b) /\ DOMAIN a = StoreFields /\ DOMAIN b = StoreFields
  BY <1>1, ApplyVisible
<1> DEFINE x == ApplyReplayedOp(s, e)
           y == ApplyReplayedOp(t, e)
<1>3. x = [a EXCEPT !.undo = << >>, !.redo = << >>] /\ y = [b EXCEPT !.undo = << >>, !.redo = << >>]
  BY DEF ApplyReplayedOp
<1> HIDE DEF a, b, x, y
<1>4. Visible(x) = Visible(a) /\ DOMAIN x = StoreFields
  BY <1>2, <1>3 DEF Visible, StoreFields
<1>5. Visible(y) = Visible(b) /\ DOMAIN y = StoreFields
  BY <1>2, <1>3 DEF Visible, StoreFields
<1> QED BY <1>2, <1>4, <1>5 DEF x, y

LEMMA ReplayedFields ==
  ASSUME NEW q, IsSeq(q), \A i \in DOMAIN q : q[i].op.type \in OpTypes
  PROVE  \A k \in 0..Len(q) : DOMAIN Replayed(q, k) = StoreFields
<1> DEFINE T == {k \in 0..Len(q) : DOMAIN Replayed(q, k) # StoreFields}
<1>0. Len(q) \in Nat /\ DOMAIN q = 1..Len(q)
  BY SeqFacts
<1>1. SUFFICES ASSUME T # {}
               PROVE  FALSE
  OBVIOUS
<1>2. T \in SUBSET Nat
  BY <1>0
<1> HIDE DEF T
<1>3. PICK k \in T : \A n \in T : k <= n
  BY <1>1, <1>2, LeastNatural
<1>4. k \in 0..Len(q) /\ DOMAIN Replayed(q, k) # StoreFields
  BY <1>3 DEF T
<1>5. k # 0
  BY <1>4, ReplayedSteps, NewStoreFields
<1>6. k \in 1..Len(q) /\ k - 1 \in 0..Len(q) /\ ~(k <= k - 1)
  BY <1>0, <1>4, <1>5
<1>7. DOMAIN Replayed(q, k - 1) = StoreFields
  BY <1>3, <1>6 DEF T
<1>8. q[k].op.type \in OpTypes
  BY <1>0, <1>6
<1>9. DOMAIN ApplyReplayedOp(Replayed(q, k - 1), q[k]) = StoreFields
  BY <1>7, <1>8, ReplayVisible
<1> QED BY <1>4, <1>6, <1>9, ReplayedSteps

------------------------------------------------------------------------------
(* Ascending sequences of operations                                       *)

Ascends(q) == \A i, j \in DOMAIN q : i < j => q[i].seq < q[j].seq

Numbered(q) == IsSeq(q) /\ Ascends(q) /\ \A i \in DOMAIN q : q[i].seq \in Nat

(* p is a prefix of q if its operations are operations of q and it misses  *)
(* none that comes before one of them.                                     *)
LEMMA PrefixOf ==
  ASSUME NEW p, NEW q, Numbered(p), Numbered(q),
         \A i \in DOMAIN p : \E j \in DOMAIN q : p[i] = q[j],
         \A i \in DOMAIN p, j \in DOMAIN q : q[j].seq < p[i].seq => \E l \in DOMAIN p : p[l] = q[j]
  PROVE  Len(p) <= Len(q) /\ \A i \in DOMAIN p : i \in DOMAIN q /\ p[i] = q[i]
<1> DEFINE T == {i \in DOMAIN p : ~(i \in DOMAIN q /\ p[i] = q[i])}
<1>0. /\ Len(p) \in Nat /\ DOMAIN p = 1..Len(p) /\ Len(q) \in Nat /\ DOMAIN q = 1..Len(q)
  BY SeqFacts DEF Numbered
<1>1. T = {}
  <2>1. SUFFICES ASSUME T # {}
                 PROVE  FALSE
    OBVIOUS
  <2>2. T \in SUBSET Nat
    BY <1>0
  <2> HIDE DEF T
  <2>3. PICK i \in T : \A n \in T : i <= n
    BY <2>1, <2>2, LeastNatural
  <2>4. i \in DOMAIN p /\ ~(i \in DOMAIN q /\ p[i] = q[i])
    BY <2>3 DEF T
  <2>5. \A n \in DOMAIN p : n < i => n \in DOMAIN q /\ p[n] = q[n]
    <3>1. \A n \in DOMAIN p : n < i => n \notin T
      BY <1>0, <2>3, <2>4
    <3> QED BY <3>1 DEF T
  <2>6. PICK j \in DOMAIN q : p[i] = q[j]
    BY <2>4
  <2>7. ~(j < i)
    <3>1. SUFFICES ASSUME j < i
                   PROVE  FALSE
      OBVIOUS
    <3>2. j \in DOMAIN p
      BY <1>0, <2>4, <2>6, <3>1
    <3>3. p[j] = q[j] /\ p[j].seq < p[i].seq /\ p[i].seq \in Nat
      BY <2>4, <2>5, <3>1, <3>2 DEF Numbered, Ascends
    <3> QED BY <2>6, <3>3
  <2>8. i # j
    BY <2>4, <2>6
  <2>9. i \in DOMAIN q /\ i < j
    BY <1>0, <2>4, <2>6, <2>7, <2>8
  <2>10. q[i].seq < p[i].seq /\ q[i].seq \in Nat /\ p[i].seq \in Nat
    BY <2>4, <2>6, <2>9 DEF Numbered, Ascends
  <2>11. PICK l \in DOMAIN p : p[l] = q[i]
    BY <2>4, <2>9, <2>10
  <2>12. l < i
    <3>1. p[l].seq < p[i].seq
      BY <2>10, <2>11
    <3>2. l # i /\ ~(i < l)
      BY <2>4, <2>10, <2>11, <3>1 DEF Numbered, Ascends
    <3> QED BY <1>0, <2>4, <3>2
  <2>13. q[l] = q[i] /\ l \in DOMAIN q
    BY <2>5, <2>11, <2>12
  <2>14. q[l].seq < q[i].seq
    BY <2>9, <2>12, <2>13 DEF Numbered, Ascends
  <2> QED BY <2>10, <2>13, <2>14
<1>2. \A i \in DOMAIN p : i \in DOMAIN q /\ p[i] = q[i]
  BY <1>1
<1>3. Len(p) <= Len(q)
  <2>1. Len(p) = 0 \/ Len(p) \in DOMAIN p
    BY <1>0
  <2> QED BY <1>0, <1>2, <2>1
<1> QED BY <1>2, <1>3

(* Two of them with the same operations are equal.                         *)
LEMMA SameOps ==
  ASSUME NEW p, NEW q, Numbered(p), Numbered(q),
         \A i \in DOMAIN p : \E j \in DOMAIN q : p[i] = q[j],
         \A j \in DOMAIN q : \E i \in DOMAIN p : p[i] = q[j]
  PROVE  p = q
<1>1. Len(p) <= Len(q) /\ \A i \in DOMAIN p : i \in DOMAIN q /\ p[i] = q[i]
  BY PrefixOf
<1>2. Len(q) <= Len(p)
  <2>1. \A i \in DOMAIN q : \E j \in DOMAIN p : q[i] = p[j]
    OBVIOUS
  <2>2. \A i \in DOMAIN q, j \in DOMAIN p : p[j].seq < q[i].seq => \E l \in DOMAIN q : q[l] = p[j]
    OBVIOUS
  <2> QED BY <2>1, <2>2, PrefixOf
<1>3. Len(p) \in Nat /\ Len(q) \in Nat /\ DOMAIN p = 1..Len(p) /\ IsSeq(p) /\ IsSeq(q)
  BY SeqFacts DEF Numbered
<1>4. Len(p) = Len(q)
  BY <1>1, <1>2, <1>3
<1> QED BY <1>1, <1>3, <1>4, SameSeq

(* The operations that survive are numbered too, and keep a prefix that is *)
(* in the journal.                                                         *)
LEMMA SurvivingNumbered ==
  ASSUME NEW q, Numbered(q), NEW d
  PROVE  LET S == Surviving(q, d)
         IN  /\ Numbered(S)
             /\ \A k \in DOMAIN S : Journaled(d, S[k]) /\ \E i \in DOMAIN q : S[k] = q[i]
             /\ \A i \in DOMAIN q : Journaled(d, q[i]) => \E k \in DOMAIN S : S[k] = q[i]
<1> DEFINE S == Surviving(q, d)
<1>1. /\ IsSeq(S)
      /\ \A k \in DOMAIN S : Journaled(d, S[k])
      /\ \A i \in DOMAIN q : Journaled(d, q[i]) => \E k \in DOMAIN S : S[k] = q[i]
      /\ \E at : /\ \A k \in DOMAIN S : at[k] \in DOMAIN q /\ S[k] = q[at[k]]
                 /\ \A k, l \in DOMAIN S : k < l => at[k] < at[l]
  BY SurvivingFacts DEF Numbered
<1> HIDE DEF S
<1>2. PICK at : /\ \A k \in DOMAIN S : at[k] \in DOMAIN q /\ S[k] = q[at[k]]
                /\ \A k, l \in DOMAIN S : k < l => at[k] < at[l]
  BY <1>1
<1>3. Ascends(S) /\ \A k \in DOMAIN S : S[k].seq \in Nat /\ \E i \in DOMAIN q : S[k] = q[i]
  BY <1>2 DEF Numbered, Ascends
<1> QED BY <1>1, <1>3 DEF Numbered, S

LEMMA SurvivingPrefix ==
  ASSUME NEW q, Numbered(q), NEW d, NEW k \in 0..Len(q), \A i \in 1..k : Journaled(d, q[i])
  PROVE  LET S == Surviving(q, d)
         IN  k <= Len(S) /\ \A i \in 1..k : i \in DOMAIN S /\ S[i] = q[i]
<1> DEFINE S == Surviving(q, d)
           p == SubSeq(q, 1, k)
<1>0. Len(q) \in Nat /\ DOMAIN q = 1..Len(q)
  BY SeqFacts DEF Numbered
<1>1. /\ Numbered(S)
      /\ \A n \in DOMAIN S : \E i \in DOMAIN q : S[n] = q[i]
      /\ \A i \in DOMAIN q : Journaled(d, q[i]) => \E n \in DOMAIN S : S[n] = q[i]
  BY SurvivingNumbered
<1>2. IsSeq(p) /\ Len(p) = k /\ DOMAIN p = 1..k /\ \A i \in 1..k : p[i] = q[i]
  BY PrefixFacts DEF Numbered
<1> HIDE DEF S, p
<1>3. \A i \in 1..k : i \in DOMAIN q
  BY <1>0
<1>4. Numbered(p)
  BY <1>2, <1>3 DEF Numbered, Ascends
<1>5. \A i \in DOMAIN p : \E j \in DOMAIN S : p[i] = S[j]
  BY <1>1, <1>2, <1>3
<1>6. ASSUME NEW i \in DOMAIN p, NEW j \in DOMAIN S, S[j].seq < p[i].seq
      PROVE  \E l \in DOMAIN p : p[l] = S[j]
  <2>1. PICK l \in DOMAIN q : S[j] = q[l]
    BY <1>1
  <2>2. q[l].seq < q[i].seq /\ i \in DOMAIN q
    BY <1>2, <1>3, <1>6, <2>1
  <2>3. ~(i < l) /\ i # l
    <3>1. q[l].seq \in Nat /\ q[i].seq \in Nat /\ (i < l => q[i].seq < q[l].seq)
      BY <2>2 DEF Numbered, Ascends
    <3> QED BY <2>2, <3>1
  <2>4. l \in 1..k
    BY <1>0, <1>2, <2>3
  <2> QED BY <1>2, <2>1, <2>4
<1>7. Len(p) <= Len(S) /\ \A i \in DOMAIN p : i \in DOMAIN S /\ p[i] = S[i]
  BY <1>1, <1>4, <1>5, <1>6, PrefixOf
<1> QED BY <1>2, <1>7 DEF S

------------------------------------------------------------------------------
(* Loading                                                                 *)

(* load_store replays events that end a sequence of operations on a store  *)
(* that reads like the replay of the rest of it.                           *)
LEMMA LoadMatches ==
  ASSUME NEW base, DOMAIN base = StoreFields, NEW q, IsSeq(q), \A i \in DOMAIN q : q[i].op.type \in OpTypes,
         NEW E, IsSeq(E), NEW k \in Nat, Len(q) = k + Len(E), \A j \in DOMAIN E : q[k + j] = E[j],
         Visible(base) = Visible(Replayed(q, k))
  PROVE  LET l == LoadAll(base, E)
         IN  /\ l.ok => Visible(l.store) = Visible(ReplayAll(NewStore, q))
             /\ (\A i \in DOMAIN q : Applicable(Replayed(q, i - 1), q[i].op)) => l.ok
<1> DEFINE M == Len(E)
           All == \A i \in DOMAIN q : Applicable(Replayed(q, i - 1), q[i].op)
           l == LoadAll(base, E)
<1>0. /\ M \in Nat /\ DOMAIN E = 1..M /\ DOMAIN q = 1..(k + M) /\ Len(q) = k + M /\ Len(q) \in Nat
  BY SeqFacts
<1>1. PICK g : LoadRun(g, base, E, M) /\ l = g[M]
  BY <1>0, LoadAllRun
<1>2. \A n \in 0..Len(q) : DOMAIN Replayed(q, n) = StoreFields
  BY ReplayedFields
<1>3. /\ Replayed(q, Len(q)) = ReplayAll(NewStore, q)
      /\ \A n \in 1..Len(q) : Replayed(q, n) = ApplyReplayedOp(Replayed(q, n - 1), q[n])
  BY ReplayedSteps
<1> DEFINE Good(j) == /\ DOMAIN g[j] = {"ok", "store"} /\ g[j].ok \in BOOLEAN
                      /\ g[j].ok => /\ DOMAIN g[j].store = StoreFields
                                    /\ Visible(g[j].store) = Visible(Replayed(q, k + j))
                      /\ All => g[j].ok
           T == {j \in 0..M : ~Good(j)}
<1> HIDE DEF M, l, All
<1>4. Good(0)
  <2>1. g[0] = [ok |-> TRUE, store |-> base] /\ k + 0 = k
    BY <1>1 DEF LoadRun
  <2> QED BY <2>1
<1>5. ASSUME NEW j \in 1..M, Good(j - 1)
      PROVE  Good(j)
  <2> DEFINE a == g[j - 1]
             e == E[j]
             n == k + j
             r == Replayed(q, n - 1)
  <2>1. /\ n \in 1..Len(q) /\ n \in DOMAIN q /\ q[n] = e /\ n - 1 = k + (j - 1) /\ n - 1 \in 0..Len(q)
    BY <1>0
  <2>2. g[j] = LoadEvent(a, e)
    BY <1>1 DEF LoadRun
  <2>3. e.op.type \in OpTypes
    BY <2>1
  <2>4. Replayed(q, n) = ApplyReplayedOp(r, e) /\ DOMAIN r = StoreFields
    BY <1>2, <1>3, <2>1
  <2>5. /\ DOMAIN a = {"ok", "store"} /\ a.ok \in BOOLEAN
        /\ a.ok => DOMAIN a.store = StoreFields /\ Visible(a.store) = Visible(r)
        /\ All => a.ok
    BY <1>5, <2>1
  <2>6. All => Applicable(r, e.op)
    BY <2>1 DEF All
  <2> HIDE DEF a, e, n, r
  <2>7. CASE a.ok /\ Applicable(a.store, e.op)
    <3>1. g[j] = [ok |-> TRUE, store |-> ApplyReplayedOp(a.store, e)]
      BY <2>2, <2>7 DEF LoadEvent
    <3>2. /\ Visible(ApplyReplayedOp(a.store, e)) = Visible(ApplyReplayedOp(r, e))
          /\ DOMAIN ApplyReplayedOp(a.store, e) = StoreFields
      BY <2>3, <2>4, <2>5, <2>7, ReplayVisible
    <3> QED BY <2>4, <3>1, <3>2 DEF n
  <2>8. CASE ~(a.ok /\ Applicable(a.store, e.op))
    <3>1. g[j] = [a EXCEPT !.ok = FALSE]
      BY <2>2, <2>8 DEF LoadEvent
    <3>2. DOMAIN g[j] = {"ok", "store"} /\ g[j].ok = FALSE
      BY <2>5, <3>1
    <3>3. ~All
      <4>1. SUFFICES ASSUME All
                     PROVE  FALSE
        OBVIOUS
      <4>2. a.ok /\ Visible(a.store) = Visible(r) /\ Applicable(r, e.op)
        BY <2>5, <2>6, <4>1
      <4>3. a.store.records = r.records
        BY <4>2 DEF Visible
      <4> QED BY <2>8, <4>2, <4>3 DEF Applicable
    <3> QED BY <3>2, <3>3
  <2> QED BY <2>7, <2>8
<1>6. T = {}
  <2>1. SUFFICES ASSUME T # {}
                 PROVE  FALSE
    OBVIOUS
  <2>2. T \in SUBSET Nat
    BY <1>0
  <2> HIDE DEF T
  <2>3. PICK j \in T : \A n \in T : j <= n
    BY <2>1, <2>2, LeastNatural
  <2> HIDE DEF Good
  <2>4. j \in 0..M /\ ~Good(j)
    BY <2>3 DEF T
  <2>5. j # 0
    BY <1>4, <2>4
  <2>6. j \in 1..M /\ j - 1 \in 0..M /\ ~(j <= j - 1)
    BY <1>0, <2>4, <2>5
  <2>7. Good(j - 1)
    BY <2>3, <2>6 DEF T
  <2> QED BY <1>5, <2>4, <2>6, <2>7
<1>7. Good(M)
  <2>1. M \in 0..M
    BY <1>0
  <2> HIDE DEF Good
  <2> QED BY <1>6, <2>1
<1> QED
  BY <1>0, <1>1, <1>3, <1>7 DEF l, All

(* A snapshot reads like the replay of the operations it covers.           *)
CoversTo(snap, q, k) ==
  /\ \A i \in DOMAIN q : i <= k <=> q[i].seq < snap.next_op_seq
  /\ Visible(FromSnapshot(snap)) = Visible(Replayed(q, k))

Covers(snap, q) == \E k \in 0..Len(q) : CoversTo(snap, q, k)

(* Loading d gives what the operations that are left in d give.            *)
LEMMA LoadCovered ==
  ASSUME NEW q, Numbered(q), \A i \in DOMAIN q : q[i].op.type \in OpTypes /\ q[i] = StoredOp(q[i].seq, q[i].op),
         NEW N \in Nat, NEW d, Decodes(d, N), Covers(d.snapshot, q),
         \A n \in DOMAIN d.events : n >= d.snapshot.next_op_seq =>
           \E i \in DOMAIN q : q[i] = StoredOp(n, d.events[n])
  PROVE  LET S == Surviving(q, d)
             l == LoadStore(d)
         IN  /\ l.ok => Visible(l.store) = Visible(ReplayAll(NewStore, S))
             /\ (\A i \in DOMAIN S : Applicable(Replayed(S, i - 1), S[i].op)) => l.ok
<1> DEFINE S == Surviving(q, d)
           base == FromSnapshot(d.snapshot)
           next == d.snapshot.next_op_seq
           E == LoadEventsAfter(d, LatestOpSeq(base))
           l == LoadStore(d)
<1>0. /\ DOMAIN d.events \subseteq 1..N /\ next \in Nat /\ next \in OpSeq
      /\ \A n \in DOMAIN d.events : d.events[n].type \in OpTypes
  BY DEF Decodes, OpSeq
<1>1. Frame(base) /\ base.next_op_seq = next
  BY <1>0, RestoreFrame
<1>2. l = LoadAll(base, E) /\ DOMAIN base = StoreFields /\ LatestOpSeq(base) = next - 1
  BY <1>1 DEF LoadStore, LatestOpSeq, Frame
<1>3. PICK k \in 0..Len(q) : CoversTo(d.snapshot, q, k)
  BY DEF Covers
<1>4. Len(q) \in Nat /\ DOMAIN q = 1..Len(q) /\ \A i \in DOMAIN q : q[i].seq \in Nat
  BY SeqFacts DEF Numbered
<1>5. \A i \in DOMAIN q : i <= k <=> q[i].seq < next
  BY <1>3 DEF CoversTo
<1>6. \A i \in 1..k : Journaled(d, q[i])
  BY <1>4, <1>5 DEF Journaled
<1>7. k <= Len(S) /\ \A i \in 1..k : i \in DOMAIN S /\ S[i] = q[i]
  BY <1>6, SurvivingPrefix
<1>8. /\ Numbered(S)
      /\ \A n \in DOMAIN S : Journaled(d, S[n]) /\ \E i \in DOMAIN q : S[n] = q[i]
      /\ \A i \in DOMAIN q : Journaled(d, q[i]) => \E n \in DOMAIN S : S[n] = q[i]
  BY SurvivingNumbered
<1>9. /\ IsSeq(E)
      /\ \A n \in DOMAIN E : /\ E[n].seq \in DOMAIN d.events /\ E[n].seq > next - 1
                             /\ E[n].op = d.events[E[n].seq]
                             /\ E[n] = StoredOp(E[n].seq, E[n].op)
      /\ \A n \in DOMAIN d.events : n > next - 1 => \E i \in DOMAIN E : E[i].seq = n
      /\ \A n, i \in DOMAIN E : n < i => E[n].seq < E[i].seq
  BY <1>0, <1>2, LoadEventsOK
<1> HIDE DEF S, base, next, E, l
<1>10. Numbered(E)
  BY <1>0, <1>9 DEF Numbered, Ascends
<1>11. Len(S) \in Nat /\ DOMAIN S = 1..Len(S) /\ IsSeq(S)
  BY <1>8, SeqFacts DEF Numbered
<1> DEFINE T == [j \in 1..(Len(S) - k) |-> S[k + j]]
<1>12. /\ Len(S) - k \in Nat /\ IsSeq(T) /\ Len(T) = Len(S) - k /\ DOMAIN T = 1..(Len(S) - k)
       /\ \A j \in DOMAIN T : k + j \in DOMAIN S /\ T[j] = S[k + j]
  <2>1. Len(S) - k \in Nat
    BY <1>4, <1>7, <1>11
  <2>2. \A j \in 1..(Len(S) - k) : k + j \in DOMAIN S
    BY <1>4, <1>11, <2>1
  <2>3. T \in [1..(Len(S) - k) -> {S[i] : i \in DOMAIN S}]
    BY <2>2
  <2>4. DOMAIN T = 1..(Len(S) - k) /\ \A j \in 1..(Len(S) - k) : T[j] = S[k + j]
    OBVIOUS
  <2>5. \A f, X, n : n \in Nat /\ f \in [1..n -> X] => f \in Seq(X) /\ Len(f) = n
    OBVIOUS
  <2> HIDE DEF T
  <2>6. T \in Seq({S[i] : i \in DOMAIN S}) /\ Len(T) = Len(S) - k
    BY <2>1, <2>3, <2>5
  <2> QED BY <2>1, <2>2, <2>4, <2>6 DEF IsSeq
<1> HIDE DEF T
<1>13. Numbered(T)
  <2>1. \A i, j \in DOMAIN T : i < j => k + i < k + j
    BY <1>4, <1>12
  <2> QED BY <1>8, <1>12, <2>1 DEF Numbered, Ascends
<1>14. ASSUME NEW n \in DOMAIN S, n > k
       PROVE  ~(S[n].seq < next)
  <2>1. PICK i \in DOMAIN q : S[n] = q[i]
    BY <1>8
  <2>2. CASE i <= k
    <3>1. i \in DOMAIN S /\ S[i] = q[i] /\ i < n
      BY <1>4, <1>7, <1>11, <1>14, <2>2
    <3>2. S[i].seq < S[n].seq /\ S[n].seq \in Nat
      BY <1>8, <3>1 DEF Numbered, Ascends
    <3> QED BY <2>1, <3>1, <3>2
  <2>3. CASE ~(i <= k)
    BY <1>5, <2>1, <2>3
  <2> QED BY <2>2, <2>3
<1>15. ASSUME NEW j \in DOMAIN T
       PROVE  \E i \in DOMAIN E : T[j] = E[i]
  <2> DEFINE o == T[j]
  <2>1. o = S[k + j] /\ k + j \in DOMAIN S /\ k + j > k
    BY <1>4, <1>12
  <2>2. ~(o.seq < next) /\ Journaled(d, o) /\ o.seq \in Nat
    BY <1>8, <1>14, <2>1 DEF Numbered
  <2>3. o = StoredOp(o.seq, o.op)
    BY <1>8, <2>1
  <2> HIDE DEF o
  <2>4. o.seq \in DOMAIN d.events /\ d.events[o.seq] = o.op /\ o.seq > next - 1
    BY <1>0, <2>2 DEF Journaled, next
  <2>5. PICK i \in DOMAIN E : E[i].seq = o.seq
    BY <1>9, <2>4
  <2>6. E[i] = StoredOp(o.seq, o.op)
    BY <1>9, <2>4, <2>5
  <2> QED BY <2>3, <2>6 DEF o
<1>16. ASSUME NEW i \in DOMAIN E
       PROVE  \E j \in DOMAIN T : T[j] = E[i]
  <2>1. /\ E[i].seq \in DOMAIN d.events /\ E[i].op = d.events[E[i].seq]
        /\ E[i] = StoredOp(E[i].seq, E[i].op) /\ E[i].seq \in Nat /\ E[i].seq >= next
    BY <1>0, <1>9
  <2>2. PICK n \in DOMAIN q : q[n] = E[i]
    BY <2>1 DEF next
  <2>3. Journaled(d, q[n])
    BY <2>1, <2>2 DEF Journaled
  <2>4. PICK m \in DOMAIN S : S[m] = q[n]
    BY <1>8, <2>3
  <2>5. ~(m <= k)
    <3>1. SUFFICES ASSUME m <= k
                   PROVE  FALSE
      OBVIOUS
    <3>2. m \in DOMAIN q /\ S[m] = q[m]
      BY <1>4, <1>7, <1>11, <3>1
    <3>3. q[m].seq < next
      BY <1>5, <3>1, <3>2
    <3> QED BY <1>0, <2>1, <2>2, <2>4, <3>2, <3>3
  <2>6. m - k \in DOMAIN T /\ k + (m - k) = m
    BY <1>4, <1>11, <1>12, <2>5
  <2> QED BY <1>12, <2>2, <2>4, <2>6
<1>17. T = E
  BY <1>10, <1>13, <1>15, <1>16, SameOps
<1>18. Len(S) = k + Len(E) /\ \A j \in DOMAIN E : S[k + j] = E[j]
  <2>1. Len(E) = Len(S) - k /\ \A j \in DOMAIN E : E[j] = S[k + j]
    <3>1. Len(T) = Len(S) - k /\ \A j \in DOMAIN T : T[j] = S[k + j]
      BY <1>12
    <3> QED BY <1>17, <3>1
  <2>2. Len(S) \in Nat /\ k \in Nat
    BY <1>4, <1>11
  <2>3. Len(S) = k + Len(E)
    BY <2>1, <2>2
  <2> QED BY <2>1, <2>3
<1>19. Visible(base) = Visible(Replayed(S, k))
  <2>1. IsSeq(q) /\ k \in Nat /\ k <= Len(q) /\ \A i \in 1..k : S[i] = q[i]
    BY <1>4, <1>7 DEF Numbered
  <2>2. Replayed(S, k) = Replayed(q, k)
    BY <1>7, <1>11, <2>1, ReplayedAgree
  <2> QED BY <1>3, <2>2 DEF CoversTo, base
<1>20. \A i \in DOMAIN S : S[i].op.type \in OpTypes
  BY <1>8
<1>21. k \in Nat
  BY <1>4
<1>22. /\ LoadAll(base, E).ok => Visible(LoadAll(base, E).store) = Visible(ReplayAll(NewStore, S))
       /\ (\A i \in DOMAIN S : Applicable(Replayed(S, i - 1), S[i].op)) => LoadAll(base, E).ok
  <2>1. IsSeq(E) /\ IsSeq(S) /\ DOMAIN base = StoreFields
    BY <1>2, <1>9, <1>11
  <2> QED BY <2>1, <1>18, <1>19, <1>20, <1>21, LoadMatches
<1> QED
  BY <1>2, <1>22 DEF S, l

(* An operation after the snapshot.                                        *)
LEMMA CoversAppend ==
  ASSUME NEW q, Numbered(q), NEW snap, snap.next_op_seq \in Nat, NEW o, o.seq \in Nat,
         o.seq >= snap.next_op_seq, Covers(snap, q)
  PROVE  Covers(snap, Append(q, o))
<1> DEFINE p == Append(q, o)
<1>1. PICK k \in 0..Len(q) : CoversTo(snap, q, k)
  BY DEF Covers
<1>2. /\ IsSeq(q) /\ Len(q) \in Nat /\ DOMAIN q = 1..Len(q)
      /\ \A i \in DOMAIN q : q[i].seq \in Nat
  BY SeqFacts DEF Numbered
<1>3. /\ IsSeq(p) /\ Len(p) = Len(q) + 1 /\ DOMAIN p = 1..(Len(q) + 1)
      /\ \A i \in 1..Len(q) : p[i] = q[i]
      /\ p[Len(q) + 1] = o
  BY <1>2, SeqAppend
<1> HIDE DEF p
<1>4. k \in Nat /\ k <= Len(q) /\ k <= Len(p) /\ k \in 0..Len(p) /\ \A i \in 1..k : i \in 1..Len(q)
  BY <1>2, <1>3
<1>5. Replayed(p, k) = Replayed(q, k)
  BY <1>2, <1>3, <1>4, ReplayedAgree
<1>6. \A i \in DOMAIN p : i <= k <=> p[i].seq < snap.next_op_seq
  <2> SUFFICES ASSUME NEW i \in DOMAIN p
               PROVE  i <= k <=> p[i].seq < snap.next_op_seq
    OBVIOUS
  <2>1. CASE i \in 1..Len(q)
    BY <1>1, <1>2, <1>3, <2>1 DEF CoversTo
  <2>2. CASE i = Len(q) + 1
    BY <1>2, <1>3, <1>4, <2>2
  <2> QED BY <1>2, <1>3, <2>1, <2>2
<1>7. CoversTo(snap, p, k)
  BY <1>1, <1>5, <1>6 DEF CoversTo
<1> QED BY <1>4, <1>7 DEF Covers, p

(* Taking such an operation back.                                          *)
LEMMA CoversFront ==
  ASSUME NEW q, IsSeq(q), NEW snap, snap.next_op_seq \in Nat, NEW o, o.seq \in Nat,
         o.seq >= snap.next_op_seq, Covers(snap, Append(q, o))
  PROVE  Covers(snap, q)
<1> DEFINE p == Append(q, o)
<1>1. PICK k \in 0..Len(p) : CoversTo(snap, p, k)
  BY DEF Covers
<1>2. Len(q) \in Nat /\ DOMAIN q = 1..Len(q)
  BY SeqFacts
<1>3. /\ IsSeq(p) /\ Len(p) = Len(q) + 1 /\ DOMAIN p = 1..(Len(q) + 1)
      /\ \A i \in 1..Len(q) : p[i] = q[i]
      /\ p[Len(q) + 1] = o
  BY SeqAppend
<1> HIDE DEF p
<1>4. \A i \in DOMAIN p : i <= k <=> p[i].seq < snap.next_op_seq
  BY <1>1 DEF CoversTo
<1>5. ~(Len(q) + 1 <= k)
  <2>1. Len(q) + 1 \in DOMAIN p
    BY <1>2, <1>3
  <2> QED BY <1>3, <1>4, <2>1
<1>6. k \in Nat /\ k <= Len(q) /\ k <= Len(p) /\ k \in 0..Len(q) /\ \A i \in 1..k : i \in 1..Len(q)
  BY <1>2, <1>3, <1>5
<1>7. Replayed(p, k) = Replayed(q, k)
  BY <1>3, <1>6, ReplayedAgree
<1>8. \A i \in DOMAIN q : i <= k <=> q[i].seq < snap.next_op_seq
  <2>1. \A i \in DOMAIN q : i \in DOMAIN p /\ p[i] = q[i]
    BY <1>2, <1>3
  <2> QED BY <1>4, <2>1
<1>9. CoversTo(snap, q, k)
  BY <1>1, <1>7, <1>8 DEF CoversTo
<1> QED BY <1>6, <1>9 DEF Covers

(* A snapshot of the store after all operations.                           *)
LEMMA CoversAll ==
  ASSUME NEW q, IsSeq(q), NEW snap, \A i \in DOMAIN q : q[i].seq < snap.next_op_seq,
         Visible(FromSnapshot(snap)) = Visible(ReplayAll(NewStore, q))
  PROVE  Covers(snap, q)
<1>1. Len(q) \in Nat /\ DOMAIN q = 1..Len(q)
  BY SeqFacts
<1>2. Replayed(q, Len(q)) = ReplayAll(NewStore, q)
  BY ReplayedSteps
<1>3. CoversTo(snap, q, Len(q))
  BY <1>1, <1>2 DEF CoversTo
<1> QED BY <1>1, <1>3 DEF Covers

(* An older snapshot covers no operation that a database has lost.         *)
LEMMA CoversSurviving ==
  ASSUME NEW q, Numbered(q), NEW snap, NEW d, Covers(snap, q), snap.next_op_seq \in Nat,
         d.snapshot.next_op_seq \in Nat, snap.next_op_seq <= d.snapshot.next_op_seq
  PROVE  Covers(snap, Surviving(q, d))
<1> DEFINE S == Surviving(q, d)
<1>1. PICK k \in 0..Len(q) : CoversTo(snap, q, k)
  BY DEF Covers
<1>2. /\ IsSeq(q) /\ Len(q) \in Nat /\ DOMAIN q = 1..Len(q)
      /\ \A i \in DOMAIN q : q[i].seq \in Nat
  BY SeqFacts DEF Numbered
<1>3. \A i \in DOMAIN q : i <= k <=> q[i].seq < snap.next_op_seq
  BY <1>1 DEF CoversTo
<1>4. \A i \in 1..k : Journaled(d, q[i])
  <2> SUFFICES ASSUME NEW i \in 1..k
               PROVE  Journaled(d, q[i])
    OBVIOUS
  <2>1. i \in DOMAIN q /\ i <= k
    BY <1>2
  <2>2. q[i].seq < snap.next_op_seq /\ q[i].seq \in Nat
    BY <1>2, <1>3, <2>1
  <2> QED BY <2>2 DEF Journaled
<1>5. k <= Len(S) /\ \A i \in 1..k : i \in DOMAIN S /\ S[i] = q[i]
  BY <1>4, SurvivingPrefix
<1>6. Numbered(S) /\ \A n \in DOMAIN S : \E i \in DOMAIN q : S[n] = q[i]
  BY SurvivingNumbered
<1> HIDE DEF S
<1>7. Len(S) \in Nat /\ DOMAIN S = 1..Len(S) /\ IsSeq(S)
  BY <1>6, SeqFacts DEF Numbered
<1>8. Replayed(S, k) = Replayed(q, k)
  <2>1. k \in Nat /\ k <= Len(q)
    BY <1>2
  <2> QED BY <1>2, <1>5, <1>7, <2>1, ReplayedAgree
<1>9. ASSUME NEW n \in DOMAIN S
      PROVE  n <= k <=> S[n].seq < snap.next_op_seq
  <2>1. CASE n <= k
    <3>1. n \in 1..k /\ n \in DOMAIN q
      BY <1>2, <1>7, <2>1
    <3> QED BY <1>3, <1>5, <2>1, <3>1
  <2>2. CASE ~(n <= k)
    <3>1. PICK i \in DOMAIN q : S[n] = q[i]
      BY <1>6
    <3>2. CASE i <= k
      <4>1. i \in 1..k /\ i \in DOMAIN S /\ S[i] = S[n] /\ i < n
        BY <1>2, <1>5, <1>7, <2>2, <3>1, <3>2
      <4>2. S[i].seq < S[n].seq /\ S[n].seq \in Nat
        BY <1>6, <4>1 DEF Numbered, Ascends
      <4> QED BY <4>1, <4>2
    <3>3. CASE ~(i <= k)
      BY <1>3, <2>2, <3>1, <3>3
    <3> QED BY <3>2, <3>3
  <2> QED BY <2>1, <2>2
<1>10. CoversTo(snap, S, k)
  BY <1>1, <1>8, <1>9 DEF CoversTo
<1>11. k \in 0..Len(S)
  BY <1>5, <1>7
<1> QED BY <1>10, <1>11 DEF Covers, S

(* A loaded store has nothing to undo or redo.                             *)
LEMMA LoadStacks ==
  ASSUME NEW N \in Nat, NEW d, Decodes(d, N)
  PROVE  LoadStore(d).store.undo = << >> /\ LoadStore(d).store.redo = << >>
<1> DEFINE base == FromSnapshot(d.snapshot)
           E    == LoadEventsAfter(d, LatestOpSeq(base))
           l    == LoadStore(d)
<1>1. /\ DOMAIN d.events \subseteq 1..N /\ d.snapshot.next_op_seq \in OpSeq
      /\ \A n \in DOMAIN d.events : d.events[n].type \in OpTypes
  BY DEF Decodes
<1>2. DOMAIN base = StoreFields /\ base.undo = << >> /\ base.redo = << >>
  <2>1. DOMAIN base = StoreFields
    BY <1>1, RestoreFrame DEF Frame
  <2> QED BY <2>1 DEF FromSnapshot, NewStore
<1>3. l = LoadAll(base, E)
  BY DEF LoadStore
<1> HIDE DEF base, l
<1>4. /\ IsSeq(E)
      /\ \A k \in DOMAIN E : E[k].seq \in DOMAIN d.events /\ E[k].op = d.events[E[k].seq]
  BY <1>1, LoadEventsOK
<1> HIDE DEF E
<1> DEFINE M == Len(E)
<1>5. M \in Nat /\ DOMAIN E = 1..M
  BY <1>4, SeqFacts
<1>6. \A k \in 1..M : E[k].op.type \in OpTypes
  BY <1>1, <1>4, <1>5
<1>7. PICK g : LoadRun(g, base, E, M) /\ l = g[M]
  BY <1>3, <1>5, LoadAllRun
<1> HIDE DEF M
<1> DEFINE Good(i) == /\ DOMAIN g[i] = {"ok", "store"} /\ DOMAIN g[i].store = StoreFields
                      /\ g[i].store.undo = << >> /\ g[i].store.redo = << >>
           Bad == {i \in 0..M : ~ Good(i)}
<1>8. Bad = {}
  <2> SUFFICES ASSUME Bad # {} PROVE FALSE
    OBVIOUS
  <2>1. PICK i \in Bad : \A j \in Bad : i <= j
    <3>1. Bad \in SUBSET Nat
      BY <1>5
    <3> HIDE DEF Bad
    <3> QED BY <3>1, LeastNatural
  <2>2. i # 0
    <3>1. g[0] = [ok |-> TRUE, store |-> base]
      BY <1>7 DEF LoadRun
    <3>2. Good(0)
      BY <1>2, <3>1
    <3> QED BY <2>1, <3>2
  <2>3. i \in 1..M /\ i - 1 \in 0..M /\ i - 1 \notin Bad
    BY <1>5, <2>1, <2>2
  <2>4. Good(i - 1)
    BY <2>3
  <2>5. g[i] = LoadEvent(g[i - 1], E[i])
    BY <1>7, <2>3 DEF LoadRun
  <2> DEFINE p == g[i - 1]
             k == g[i]
             e == E[i]
  <2>6. /\ DOMAIN p = {"ok", "store"} /\ DOMAIN p.store = StoreFields
        /\ p.store.undo = << >> /\ p.store.redo = << >>
    BY <2>4
  <2>7. e.op.type \in OpTypes /\ k = LoadEvent(p, e)
    BY <1>6, <2>3, <2>5
  <2> HIDE DEF p, k, e
  <2>8. /\ DOMAIN k = {"ok", "store"} /\ DOMAIN k.store = StoreFields
        /\ k.store.undo = << >> /\ k.store.redo = << >>
    <3>1. CASE p.ok /\ Applicable(p.store, e.op)
      <4> DEFINE a == ApplyWithSeq(p.store, e.op, e.seq)
      <4>1. k = [ok |-> TRUE, store |-> ApplyReplayedOp(p.store, e)]
        BY <2>7, <3>1 DEF LoadEvent
      <4>2. DOMAIN a = StoreFields
        BY <2>6, <2>7, ApplyFrame
      <4>3. ApplyReplayedOp(p.store, e) = [a EXCEPT !.undo = << >>, !.redo = << >>]
        BY DEF ApplyReplayedOp
      <4> HIDE DEF a
      <4> QED BY <4>1, <4>2, <4>3 DEF StoreFields
    <3>2. CASE ~(p.ok /\ Applicable(p.store, e.op))
      <4>1. k = [p EXCEPT !.ok = FALSE]
        BY <2>7, <3>2 DEF LoadEvent
      <4> QED BY <2>6, <4>1
    <3> QED BY <3>1, <3>2
  <2>9. Good(i)
    BY <2>8 DEF k
  <2> QED BY <2>1, <2>9
<1>9. Good(M)
  BY <1>5, <1>8
<1> QED
  BY <1>7, <1>9 DEF l

------------------------------------------------------------------------------
(* The store is what the accepted operations make                          *)

(* No caller sets or clears the void flag except through undo and redo.    *)
NoVoids == /\ "void" \notin Cmds
           /\ \A draft \in Drafts : draft["is_void"] = FALSE
           /\ \A patch \in Patches : "is_void" \notin DOMAIN patch

(* rollback_op writes back the flag a Void names (core/store.rs:295), and  *)
(* an undone or redone Void may name another than the record had, unless   *)
(* every flag on the stacks comes from an insert.                          *)
RollbackExact == Cmds \cap {"undo", "redo"} = {} \/ NoVoids

MemInv ==
  /\ rt.pc # "unloadable" =>
       /\ Visible(store) = Visible(ReplayAll(NewStore, Applied))
       /\ Visible(Held) = Visible(ReplayAll(NewStore, accepted))
       /\ NoVoids => FlagsOK(store) /\ FlagsOK(Held)
  /\ \A d \in stable : Covers(d.snapshot, Applied)

LEMMA AppliedNumbered ==
  ASSUME ShapeInv, NumbersInv
  PROVE  /\ Numbered(Applied)
         /\ \A i \in DOMAIN Applied : /\ Applied[i].op.type \in OpTypes /\ Applied[i] \in AppliedOps
                                      /\ Applied[i] = StoredOp(Applied[i].seq, Applied[i].op)
         /\ \A o \in AppliedOps : \E i \in DOMAIN Applied : Applied[i] = o
<1>1. /\ IsSeq(Applied) /\ ToSet(Applied) = AppliedOps
      /\ \A i \in DOMAIN Applied : Applied[i] \in AppliedOps /\ OpOK(Applied[i])
      /\ \A i, j \in DOMAIN Applied : i < j => Applied[i].seq < Applied[j].seq
  BY AppliedSeq
<1>2. \A o \in AppliedOps : \E i \in DOMAIN Applied : Applied[i] = o
  BY <1>1 DEF ToSet
<1> HIDE DEF Applied
<1>3. \A i \in DOMAIN Applied : Applied[i].seq \in Nat /\ Applied[i].op.type \in OpTypes
  BY <1>1 DEF OpOK
<1> QED BY <1>1, <1>2, <1>3 DEF OpOK, Numbered, Ascends

(* The store and the one a rollback would give back, after a call.         *)
LEMMA MutationEffects ==
  ASSUME RollbackExact, NEW s, Inv(s), NoVoids => FlagsOK(s), NEW m \in Mutations, Succeeds(s, m)
  PROVE  /\ Visible(Rejected(s, m)) = Visible(s)
         /\ NoVoids => FlagsOK(ClearPendingOps(Mutate(s, m))) /\ FlagsOK(Rejected(s, m))
<1>1. m \in Mutation /\ m.cmd \in Cmds
  BY MutationsAreCalls DEF Mutations
<1>2. NoVoids => LeavesFlags(m)
  <2> SUFFICES ASSUME NoVoids
               PROVE  LeavesFlags(m)
    OBVIOUS
  <2>1. m.cmd = "insert" => m.draft \in Drafts
    BY DEF Mutations, InsertCmd, PatchCmd, VoidCmd, UndoCmd, RedoCmd
  <2>2. m.cmd = "patch" => m.patch \in Patches
    BY DEF Mutations, InsertCmd, PatchCmd, VoidCmd, UndoCmd, RedoCmd
  <2> QED BY <1>1, <2>1, <2>2 DEF NoVoids, LeavesFlags
<1>3. CASE NoVoids
  BY <1>1, <1>2, <1>3, FlagsStay
<1>4. CASE ~NoVoids
  <2>1. m.cmd \notin {"undo", "redo"}
    BY <1>1, <1>4 DEF RollbackExact
  <2>2. CASE m.cmd = "insert"
    <3>1. PICK draft \in QsoRecord : m = InsertCmd(draft)
      BY <1>1, <2>2 DEF Mutation, PatchCmd, VoidCmd, UndoCmd, RedoCmd
    <3> QED BY <1>4, <3>1, RejectedInsert
  <2>3. CASE m.cmd # "insert"
    <3>1. m.cmd \in {"patch", "void"}
      BY <1>1, <2>1, <2>3, MutationOp
    <3> QED BY <1>1, <1>4, <3>1, RejectedVisible
  <2> QED BY <2>2, <2>3
<1> QED BY <1>3, <1>4

LEMMA MemCalm ==
  ASSUME MemInv, AppliedForm, AppliedForm', Calm,
         \A d \in stable' : \E c \in stable : d.snapshot = c.snapshot
  PROVE  MemInv'
<1>1. Applied' = Applied
  BY DEF AppliedForm, Calm
<1>2. Held' = Held /\ store' = store /\ accepted' = accepted
  BY CalmKeeps DEF Calm
<1>3. rt.pc = "unloadable" <=> rt'.pc = "unloadable"
  BY DEF Calm
<1> HIDE DEF Applied, Held
<1> QED BY <1>1, <1>2, <1>3 DEF MemInv

(* The numbers of later operations are past every snapshot.                *)
LEMMA PastSnapshots ==
  ASSUME ShapeInv, NEW n \in Nat, \A k \in Reached : k < n
  PROVE  \A d \in stable : d.snapshot.next_op_seq \in Nat /\ n >= d.snapshot.next_op_seq
<1> SUFFICES ASSUME NEW d \in stable
             PROVE  d.snapshot.next_op_seq \in Nat /\ n >= d.snapshot.next_op_seq
  OBVIOUS
<1>1. d.snapshot.next_op_seq \in Nat
  BY DEF ShapeInv, TypeInv, DbOK, Decodes, OpSeq
<1>2. d.snapshot.next_op_seq - 1 \in Reached
  BY ReachedNumbers
<1> QED BY <1>1, <1>2

LEMMA MemPerform ==
  ASSUME RollbackExact, ShapeInv, DataInv, LogStoreInv, MemInv, AppliedForm, AppliedForm',
         NEW m \in Mutations, Perform(m)
  PROVE  MemInv'
<1> DEFINE o == StoredFor(store, m)
           t == ClearPendingOps(Mutate(store, m))
<1>1. /\ rt.pc = "idle" /\ ~InMutation /\ m \in Mutation /\ Succeeds(store, m)
      /\ OpOK(o) /\ o.seq = store.next_op_seq /\ stable' = stable
      /\ rt'.pc # "unloadable"
      /\ \/ store' = t /\ accepted' = Append(accepted, o) /\ ~InMutation'
         \/ /\ store' = t /\ accepted' = accepted /\ InMutation' /\ rt'.stored = o
            /\ Held' = Rejected(store, m)
         \/ store' = Rejected(store, m) /\ ~InMutation' /\ accepted' = accepted
  BY PerformCases
<1>2. Inv(store) /\ DOMAIN store = StoreFields
  BY <1>1, InvNames DEF LogStoreInv, HeldInv
<1>3. /\ Visible(store) = Visible(ReplayAll(NewStore, accepted))
      /\ Applied = accepted /\ Held = store
      /\ NoVoids => FlagsOK(store)
      /\ \A d \in stable : Covers(d.snapshot, accepted)
  BY <1>1 DEF MemInv, AppliedForm, Held
<1>4. /\ Visible(Rejected(store, m)) = Visible(store)
      /\ NoVoids => FlagsOK(t) /\ FlagsOK(Rejected(store, m))
  BY <1>1, <1>2, <1>3, MutationEffects
<1>5. Numbered(accepted) /\ \A i \in DOMAIN accepted : accepted[i].op.type \in OpTypes
  BY <1>3, AppliedNumbered DEF DataInv
<1>6. Visible(t) = Visible(ReplayAll(NewStore, Append(accepted, o)))
  <2> DEFINE R == ReplayAll(NewStore, accepted)
  <2>1. DOMAIN R = StoreFields
    <3>1. IsSeq(accepted) /\ Len(accepted) \in 0..Len(accepted)
      BY <1>5, SeqFacts DEF Numbered
    <3>2. R = Replayed(accepted, Len(accepted))
      BY <3>1, ReplayedSteps
    <3> QED BY <1>5, <3>1, <3>2, ReplayedFields
  <2>2. ReplayAll(NewStore, Append(accepted, o)) = ApplyReplayedOp(R, o)
    BY <1>5, ReplayedAppend DEF Numbered
  <2>3. Visible(R) = Visible(store)
    BY <1>3
  <2> HIDE DEF R
  <2>4. Visible(ApplyReplayedOp(R, o)) = Visible(Mutate(store, m))
    BY <1>1, <1>2, <2>1, <2>3, MutateVisible
  <2>5. Inv(Mutate(store, m))
    BY <1>1, <1>2, AnyMutation
  <2>6. Visible(t) = Visible(Mutate(store, m))
    <3> DEFINE u == Mutate(store, m)
    <3>1. DOMAIN u = StoreFields
      BY <2>5, InvNames
    <3> HIDE DEF u
    <3>2. LET c == ClearPendingOps(u) IN
            /\ c.records = u.records /\ c.order = u.order /\ c.pos = u.pos
            /\ c.by_call = u.by_call /\ c.by_contest = u.by_contest
      BY <3>1, ClearFields
    <3>3. Visible(ClearPendingOps(u)) = Visible(u)
      BY <3>2 DEF Visible
    <3> QED BY <3>3 DEF u
  <2> QED BY <2>2, <2>4, <2>6
<1>7. \A d \in stable : Covers(d.snapshot, Append(accepted, o))
  <2>1. o.seq \in Nat /\ \A k \in Reached : k < o.seq
    <3>1. store.next_op_seq \in Nat
      BY <1>2, NextIdNat
    <3> QED BY <1>1, <3>1 DEF DataInv, NumbersInv
  <2> HIDE DEF o
  <2>2. \A d \in stable : d.snapshot.next_op_seq \in Nat /\ o.seq >= d.snapshot.next_op_seq
    BY <2>1, PastSnapshots
  <2> QED BY <1>3, <1>5, <2>1, <2>2, CoversAppend
<1> HIDE DEF o, t
<1>8. CASE store' = t /\ accepted' = Append(accepted, o) /\ ~InMutation'
  <2>1. Applied' = Append(accepted, o) /\ Held' = t
    BY <1>8 DEF AppliedForm, Held
  <2> HIDE DEF Applied, Held
  <2> QED BY <1>1, <1>4, <1>6, <1>7, <1>8, <2>1 DEF MemInv
<1>9. CASE /\ store' = t /\ accepted' = accepted /\ InMutation' /\ rt'.stored = o
           /\ Held' = Rejected(store, m)
  <2>1. Applied' = Append(accepted, o)
    BY <1>9 DEF AppliedForm
  <2> HIDE DEF Applied, Held
  <2> QED BY <1>1, <1>3, <1>4, <1>6, <1>7, <1>9, <2>1 DEF MemInv
<1>10. CASE store' = Rejected(store, m) /\ ~InMutation' /\ accepted' = accepted
  <2>1. Applied' = accepted /\ Held' = Rejected(store, m)
    BY <1>10 DEF AppliedForm, Held
  <2> HIDE DEF Applied, Held
  <2> QED BY <1>1, <1>3, <1>4, <1>10, <2>1 DEF MemInv
<1> QED BY <1>1, <1>8, <1>9, <1>10

LEMMA MemPatchMissing ==
  ASSUME ShapeInv, LogStoreInv, MemInv, AppliedForm, AppliedForm', NEW m, PatchMissing(m)
  PROVE  MemInv'
<1>1. /\ rt.pc = "idle" /\ store' = [store EXCEPT !.next_op_seq = @ + 1]
      /\ UNCHANGED <<rt, accepted, db, stable>>
  BY DEF PatchMissing, workerVars, FailedStore
<1>2. Inv(store) /\ DOMAIN store = StoreFields
  BY <1>1, InvNames DEF LogStoreInv, HeldInv
<1>3. ~InMutation /\ ~InMutation'
  BY <1>1 DEF InMutation
<1>4. Applied = accepted /\ Applied' = accepted /\ Held = store /\ Held' = store'
  BY <1>1, <1>3 DEF AppliedForm, Held
<1>5. /\ Visible(store') = Visible(store) /\ store'.records = store.records
      /\ store'.undo = store.undo /\ store'.redo = store.redo
  BY <1>1, <1>2 DEF Visible, StoreFields
<1>6. FlagsOK(store) => FlagsOK(store')
  BY <1>5, FitPrefix
<1> HIDE DEF Applied, Held
<1> QED BY <1>1, <1>4, <1>5, <1>6 DEF MemInv

LEMMA MemAwait ==
  ASSUME ShapeInv, DataInv, LogStoreInv, MemInv, AppliedForm, AppliedForm', AwaitReply
  PROVE  MemInv'
<1>1. /\ rt.pc = "await" /\ stable' = stable /\ ~InMutation'
      /\ \/ InMutation /\ reply = "err" /\ store' = Held /\ accepted' = accepted
         \/ InMutation /\ reply = "ok" /\ store' = store /\ accepted' = Append(accepted, rt.stored)
         \/ ~InMutation /\ UNCHANGED <<store, accepted>>
  BY AwaitCases
<1>2. Applied' = accepted' /\ Held' = store'
  BY <1>1 DEF AppliedForm, Held
<1>3. /\ Visible(store) = Visible(ReplayAll(NewStore, Applied))
      /\ Visible(Held) = Visible(ReplayAll(NewStore, accepted))
      /\ NoVoids => FlagsOK(store) /\ FlagsOK(Held)
      /\ \A d \in stable : Covers(d.snapshot, Applied)
  BY <1>1 DEF MemInv
<1>4. (InMutation => Applied = Append(accepted, rt.stored)) /\ (~InMutation => Applied = accepted)
  BY DEF AppliedForm
<1>5. CASE InMutation /\ reply = "err" /\ store' = Held /\ accepted' = accepted
  <2>1. rt.stored.seq \in Nat /\ \A k \in Reached : k < rt.stored.seq
    BY <1>5 DEF ShapeInv, TypeInv, LoopOK, OpOK, DataInv, AloneInv
  <2>2. \A d \in stable : d.snapshot.next_op_seq \in Nat /\ rt.stored.seq >= d.snapshot.next_op_seq
    BY <2>1, PastSnapshots
  <2>3. IsSeq(accepted)
    BY DEF DataInv, NumbersInv
  <2> HIDE DEF Applied, Held
  <2>4. \A d \in stable : Covers(d.snapshot, accepted)
    BY <1>3, <1>4, <1>5, <2>1, <2>2, <2>3, CoversFront
  <2> QED BY <1>1, <1>2, <1>3, <1>5, <2>4 DEF MemInv
<1>6. CASE InMutation /\ reply = "ok" /\ store' = store /\ accepted' = Append(accepted, rt.stored)
  <2> HIDE DEF Applied, Held
  <2> QED BY <1>1, <1>2, <1>3, <1>4, <1>6 DEF MemInv
<1>7. CASE ~InMutation /\ UNCHANGED <<store, accepted>>
  <2> HIDE DEF Applied, Held
  <2> QED BY <1>1, <1>2, <1>3, <1>4, <1>7 DEF MemInv
<1> QED BY <1>1, <1>5, <1>6, <1>7

(* What load_store makes of a database that a crash may leave.             *)
LEMMA LoadGives ==
  ASSUME ShapeInv, DataInv, MemInv, NEW d \in stable
  PROVE  LET S == Surviving(Applied, d)
             l == LoadStore(d)
         IN  /\ l.ok => Visible(l.store) = Visible(ReplayAll(NewStore, S))
             /\ (\A i \in DOMAIN S : Applicable(Replayed(S, i - 1), S[i].op)) => l.ok
<1>1. NumbersInv /\ EventsInv /\ DbOK
  BY DEF DataInv, ShapeInv, TypeInv
<1>2. Decodes(d, MaxOps) /\ MaxOps \in Nat
  BY <1>1, FaultsAssumption DEF DbOK
<1>3. /\ Numbered(Applied)
      /\ \A i \in DOMAIN Applied : /\ Applied[i].op.type \in OpTypes
                                   /\ Applied[i] = StoredOp(Applied[i].seq, Applied[i].op)
      /\ \A o \in AppliedOps : \E i \in DOMAIN Applied : Applied[i] = o
  BY <1>1, AppliedNumbered
<1>4. Covers(d.snapshot, Applied)
  BY DEF MemInv
<1>5. \A n \in DOMAIN d.events : n >= d.snapshot.next_op_seq => StoredOp(n, d.events[n]) \in AppliedOps
  BY <1>1 DEF EventsInv
<1> HIDE DEF Applied
<1>6. \A n \in DOMAIN d.events : n >= d.snapshot.next_op_seq =>
        \E i \in DOMAIN Applied : Applied[i] = StoredOp(n, d.events[n])
  BY <1>3, <1>5
<1> QED BY <1>2, <1>3, <1>4, <1>6, LoadCovered

LEMMA MemCheckpoint ==
  ASSUME ShapeInv, DataInv, LogStoreInv, MemInv, AppliedForm, AppliedForm',
         WriteSnapshot \/ CompactThrough
  PROVE  MemInv'
<1>1. NumbersInv /\ HeldInv /\ UnderWayInv
  BY DEF DataInv, LogStoreInv
<1>2. Calm
  BY CalmSteps DEF Worker
<1>3. /\ ~InMutation /\ rt.pc = "await"
      /\ \/ db'.snapshot = ExportSnapshot(store) /\ stable' \subseteq stable \cup {db'}
         \/ db'.snapshot = db.snapshot /\ stable' \subseteq stable \cup {db'}
         \/ UNCHANGED <<db, stable>>
  BY <1>1, CheckpointCases
<1>4. db \in stable
  BY DEF ShapeInv, TypeInv, DbOK
<1>5. CASE db'.snapshot = ExportSnapshot(store) /\ stable' \subseteq stable \cup {db'}
  <2>1. Applied' = Applied /\ Held' = Held /\ store' = store /\ accepted' = accepted
    BY <1>2, CalmKeeps DEF AppliedForm, Calm
  <2>2. /\ Visible(store) = Visible(ReplayAll(NewStore, Applied))
        /\ Visible(Held) = Visible(ReplayAll(NewStore, accepted))
        /\ NoVoids => FlagsOK(store) /\ FlagsOK(Held)
        /\ \A d \in stable : Covers(d.snapshot, Applied)
    BY <1>3 DEF MemInv
  <2>3. IsSeq(Applied) /\ \A i \in DOMAIN Applied : Applied[i] \in AppliedOps
    BY <1>1, AppliedSeq
  <2>4. \A o \in AppliedOps : o.seq < store.next_op_seq
    BY <1>1, <1>3, AppliedNumbers
  <2> DEFINE snap == ExportSnapshot(store)
  <2>5. snap.next_op_seq = store.next_op_seq /\ Visible(FromSnapshot(snap)) = Visible(store)
    BY <1>1, <1>3, RestoreVisible DEF ExportSnapshot, HeldInv
  <2> HIDE DEF snap, Applied, Held
  <2>6. Covers(snap, Applied)
    BY <2>2, <2>3, <2>4, <2>5, CoversAll
  <2>7. db'.snapshot = snap
    BY <1>5 DEF snap
  <2>8. \A d \in stable' : Covers(d.snapshot, Applied)
    BY <1>5, <2>2, <2>6, <2>7
  <2> QED BY <2>1, <2>2, <2>8 DEF MemInv
<1>6. CASE db'.snapshot = db.snapshot /\ stable' \subseteq stable \cup {db'}
  <2>1. \A d \in stable' : \E c \in stable : d.snapshot = c.snapshot
    BY <1>4, <1>6
  <2> QED BY <1>2, <2>1, MemCalm
<1>7. CASE UNCHANGED <<db, stable>>
  BY <1>2, <1>7, MemCalm
<1> QED BY <1>3, <1>5, <1>6, <1>7

LEMMA MemFlushBuf ==
  ASSUME ErrorsReturned, ShapeInv, DataInv, MemInv, AppliedForm, AppliedForm', FlushBuf
  PROVE  MemInv'
<1>1. db \in stable /\ DOMAIN db = {"events", "snapshot"}
  BY DEF ShapeInv, TypeInv, DbOK
<1>2. db' \in {db, AppendOps(db, wk.buf)} /\ stable' \subseteq stable \cup {db'}
  BY <1>1, FlushCases
<1>3. AppendOps(db, wk.buf).snapshot = db.snapshot
  BY <1>1, BatchIsNew, AppendOpsFacts
<1>4. \A d \in stable' : \E c \in stable : d.snapshot = c.snapshot
  BY <1>1, <1>2, <1>3
<1>5. Calm
  BY CalmSteps DEF Worker
<1> QED BY <1>4, <1>5, MemCalm

LEMMA MemReopen ==
  ASSUME ShapeInv, DataInv, LogStoreInv, MemInv, AppliedForm', Reopen
  PROVE  MemInv'
<1>1. PICK d \in stable :
           /\ store' = LoadStore(d).store /\ LoadStore(d).ok \in BOOLEAN
           /\ rt'.pc = (IF LoadStore(d).ok THEN "idle" ELSE "unloadable") /\ ~InMutation'
           /\ accepted' = Surviving(Applied, d)
           /\ db' = d /\ stable' = (IF d = db THEN stable ELSE {d})
  BY ReopenFacts
<1> DEFINE S == Surviving(Applied, d)
<1>2. Applied' = S /\ Held' = store' /\ accepted' = S
  BY <1>1 DEF AppliedForm, Held
<1>3. LoadStore(d).ok => Visible(LoadStore(d).store) = Visible(ReplayAll(NewStore, S))
  BY LoadGives
<1>4. NumbersInv /\ EventsInv /\ DbOK
  BY DEF DataInv, ShapeInv, TypeInv
<1>5. \A e \in stable : e.snapshot.next_op_seq \in Nat /\ Decodes(e, MaxOps)
  BY <1>4 DEF DbOK, Decodes, OpSeq
<1>6. FlagsOK(store')
  <2>1. store'.undo = << >> /\ store'.redo = << >>
    BY <1>1, <1>5, LoadStacks, FaultsAssumption
  <2> QED BY <2>1 DEF FlagsOK, StacksFit
<1>7. \A e \in stable' : e \in stable /\ e.snapshot.next_op_seq <= d.snapshot.next_op_seq
  <2>1. CASE d = db
    BY <1>1, <1>4, <2>1 DEF EventsInv
  <2>2. CASE d # db
    BY <1>1, <1>5, <2>2
  <2> QED BY <2>1, <2>2
<1>8. Numbered(Applied) /\ \A e \in stable : Covers(e.snapshot, Applied)
  BY <1>4, AppliedNumbered DEF MemInv
<1>9. \A e \in stable' : Covers(e.snapshot, S)
  <2> HIDE DEF Applied
  <2> QED BY <1>5, <1>7, <1>8, CoversSurviving
<1> HIDE DEF S
<1>10. rt'.pc # "unloadable" => Visible(store') = Visible(ReplayAll(NewStore, S))
  BY <1>1, <1>3
<1> HIDE DEF Applied, Held
<1> QED BY <1>2, <1>6, <1>9, <1>10 DEF MemInv

LEMMA MemInit == ASSUME Init PROVE MemInv
<1>1. /\ store = NewStore /\ rt = Idle /\ accepted = << >> /\ stable = {EmptyDb}
  BY DEF Init
<1>2. ~InMutation /\ Held = NewStore
  BY <1>1 DEF Idle, InMutation, Held
<1>3. Applied = << >>
  BY <1>1, <1>2, SeqEmpty DEF Applied, InFlight, InMutation
<1>4. ReplayAll(NewStore, << >>) = NewStore
  BY ReplayNone
<1>5. FlagsOK(NewStore)
  <2>1. NewStore.undo = << >> /\ NewStore.redo = << >>
    BY DEF NewStore
  <2> QED BY <2>1 DEF FlagsOK, StacksFit
<1>6. Covers(EmptyDb.snapshot, << >>)
  <2>1. EmptyDb.snapshot = ExportSnapshot(NewStore)
    BY DEF EmptyDb
  <2>2. Visible(FromSnapshot(ExportSnapshot(NewStore))) = Visible(NewStore)
    BY NewStoreInv, RestoreVisible
  <2>3. IsSeq(<< >>) /\ \A i \in DOMAIN << >> : FALSE
    BY SeqEmpty
  <2> QED BY <1>4, <2>1, <2>2, <2>3, CoversAll
<1> HIDE DEF Applied, Held
<1> QED BY <1>1, <1>2, <1>3, <1>4, <1>5, <1>6 DEF MemInv

LEMMA MemStep ==
  ASSUME ErrorsReturned, RollbackExact, ShapeInv, DataInv, LogStoreInv, MemInv, DataInv', [Next]_vars
  PROVE  MemInv'
<1>0. AppliedForm /\ AppliedForm'
  BY AppliedForms, AppliedFormsNext DEF DataInv
<1>1. CASE \E m \in Mutations : Perform(m)
  BY <1>0, <1>1, MemPerform
<1>2. CASE \E m \in Mutations : PatchMissing(m)
  BY <1>0, <1>2, MemPatchMissing
<1>3. CASE \/ DropHandles \/ \E job \in {"flush", "checkpoint", "shutdown"} : Control(job)
           \/ SendToWorker \/ ObserveDurable \/ Receive \/ DeadlineExpires \/ QueueClosed
           \/ UNCHANGED vars
  <2>1. Calm
    BY <1>3, CalmSteps DEF Worker
  <2>2. stable' = stable
    BY <1>3 DEF DropHandles, Control, SendToWorker, ObserveDurable, Receive, DeadlineExpires,
                QueueClosed, Wake, vars, workerVars
  <2> QED BY <1>0, <2>1, <2>2, MemCalm
<1>4. CASE AwaitReply
  BY <1>0, <1>4, MemAwait
<1>5. CASE FlushBuf
  BY <1>0, <1>5, MemFlushBuf
<1>6. CASE WriteSnapshot \/ CompactThrough
  BY <1>0, <1>6, MemCheckpoint
<1>7. CASE Reopen
  BY <1>0, <1>7, MemReopen
<1> QED
  BY <1>1, <1>2, <1>3, <1>4, <1>5, <1>6, <1>7 DEF Next, Runtime, Worker

LEMMA MemInvariant ==
  ASSUME ErrorsReturned, RollbackExact
  PROVE  Spec => []MemInv
<1>1. Init => MemInv
  BY MemInit
<1>2. ShapeInv /\ DataInv /\ LogStoreInv /\ MemInv /\ DataInv' /\ [Next]_vars => MemInv'
  BY MemStep
<1> QED
  BY <1>1, <1>2, ShapeInvariant, DataInvariant, LogStoreInvariant, PTL DEF Spec

(* In memory the log is exactly what the accepted operations make of an    *)
(* empty store, whatever batches fail, mutations are taken back            *)
(* (runtime/handle.rs:450) or processes end; a rollback is exact as long   *)
(* as no Void on the stacks can name a flag the record does not have.      *)
THEOREM MemoryIsWhatWasAccepted ==
  ASSUME ErrorsReturned, RollbackExact
  PROVE  Spec => []MemoryMatchesAccepted
<1>1. MemInv => MemoryMatchesAccepted
  BY DEF MemInv, MemoryMatchesAccepted
<1> QED
  BY <1>1, MemInvariant, PTL

------------------------------------------------------------------------------
(* Recovery when no batch fails                                            *)

(* Every operation of q can be replayed after the ones before it.          *)
AllApply(q) == \A i \in DOMAIN q : Applicable(Replayed(q, i - 1), q[i].op)

LEMMA AllApplyPrefix ==
  ASSUME NEW p, NEW q, IsSeq(p), IsSeq(q), Len(p) <= Len(q),
         \A i \in DOMAIN p : i \in DOMAIN q /\ p[i] = q[i], AllApply(q)
  PROVE  AllApply(p)
<1> SUFFICES ASSUME NEW i \in DOMAIN p
             PROVE  Applicable(Replayed(p, i - 1), p[i].op)
  BY DEF AllApply
<1>1. Len(p) \in Nat /\ DOMAIN p = 1..Len(p) /\ Len(q) \in Nat
  BY SeqFacts
<1>2. i - 1 \in Nat /\ i - 1 <= Len(p) /\ i - 1 <= Len(q) /\ \A j \in 1..(i - 1) : j \in DOMAIN p
  BY <1>1
<1>3. Replayed(p, i - 1) = Replayed(q, i - 1)
  BY <1>2, ReplayedAgree
<1> QED BY <1>3 DEF AllApply

LEMMA AllApplyAppend ==
  ASSUME NEW q, IsSeq(q), AllApply(q), NEW o, Applicable(ReplayAll(NewStore, q), o.op)
  PROVE  AllApply(Append(q, o))
<1> DEFINE p == Append(q, o)
<1>1. /\ IsSeq(p) /\ Len(p) = Len(q) + 1 /\ DOMAIN p = 1..(Len(q) + 1)
      /\ \A i \in 1..Len(q) : p[i] = q[i]
      /\ p[Len(q) + 1] = o
  BY SeqAppend
<1>2. Len(q) \in Nat /\ DOMAIN q = 1..Len(q) /\ Replayed(q, Len(q)) = ReplayAll(NewStore, q)
  BY SeqFacts, ReplayedSteps
<1> HIDE DEF p
<1>3. ASSUME NEW i \in DOMAIN p
      PROVE  Applicable(Replayed(p, i - 1), p[i].op)
  <2>1. i - 1 \in Nat /\ i - 1 <= Len(p) /\ i - 1 <= Len(q) /\ \A j \in 1..(i - 1) : j \in 1..Len(q)
    BY <1>1, <1>2
  <2>2. Replayed(p, i - 1) = Replayed(q, i - 1)
    BY <1>1, <2>1, ReplayedAgree
  <2>3. CASE i \in 1..Len(q)
    BY <1>1, <1>2, <2>2, <2>3 DEF AllApply
  <2>4. CASE i = Len(q) + 1
    <3>1. i - 1 = Len(q)
      BY <1>2, <2>4
    <3> QED BY <1>1, <1>2, <2>2, <2>4, <3>1
  <2> QED BY <1>1, <1>2, <2>3, <2>4
<1> QED BY <1>3 DEF AllApply, p

(* A mutation that succeeds emits an operation that applies.               *)
LEMMA EmittedApplies ==
  ASSUME NEW s, Inv(s), NEW m \in Mutation, Succeeds(s, m), NEW t, Visible(t) = Visible(s)
  PROVE  Applicable(t, StoredFor(s, m).op)
<1>1. t.records = s.records
  BY DEF Visible
<1>2. SameEffect(OpFor(s, m), StoredFor(s, m).op)
  BY EmittedEffect
<1> DEFINE op == OpFor(s, m)
<1>3. CASE m.cmd = "insert"
  <2>1. op = InsertOp(s.next_qso_id, m.draft)
    BY <1>3 DEF OpFor
  <2>2. op.type = "Insert" /\ op.id = s.next_qso_id
    BY <2>1 DEF InsertOp
  <2>3. s.next_qso_id \notin DOMAIN s.records
    <3>1. s.next_qso_id \in Nat
      BY NextIdNat
    <3>2. \A id \in DOMAIN s.records : id < s.next_qso_id
      BY DEF Inv, CoreOf, CoreOK, OrderOK
    <3> QED BY <3>1, <3>2
  <2> HIDE DEF op
  <2> QED BY <1>1, <1>2, <2>2, <2>3 DEF SameEffect, Applicable, op
<1>4. CASE m.cmd # "insert"
  <2>1. op.type \in {"Patch", "Void"} /\ op.id \in DOMAIN s.records
    BY <1>4, MutationOp
  <2> HIDE DEF op
  <2> QED BY <1>1, <1>2, <2>1 DEF SameEffect, Applicable, op
<1> QED BY <1>3, <1>4

(* What is missing in a database comes after all that is there, and a      *)
(* worker that has gone left nothing behind.                               *)
PrefixInv ==
  \A d \in stable : \A o, p \in AppliedOps : Journaled(d, p) /\ o.seq < p.seq => Journaled(d, o)

StopInv ==
  config.sink /\ wk.pc = "dead" => \A o \in AppliedOps : \A d \in stable : Journaled(d, o)

RecoverInv == rt.pc # "unloadable" /\ AllApply(Applied) /\ PrefixInv /\ StopInv

(* The operations left in a database are the first ones.                   *)
LEMMA SurvivingIsPrefix ==
  ASSUME ShapeInv, DataInv, RecoverInv, NEW d \in stable
  PROVE  LET S == Surviving(Applied, d)
         IN  /\ Numbered(S) /\ Len(S) <= Len(Applied)
             /\ \A i \in DOMAIN S : i \in DOMAIN Applied /\ S[i] = Applied[i]
             /\ AllApply(S)
<1> DEFINE S == Surviving(Applied, d)
<1>1. /\ Numbered(Applied) /\ AllApply(Applied)
      /\ \A i \in DOMAIN Applied : Applied[i] \in AppliedOps
  BY AppliedNumbered DEF DataInv, RecoverInv
<1>2. \A o, p \in AppliedOps : Journaled(d, p) /\ o.seq < p.seq => Journaled(d, o)
  BY DEF RecoverInv, PrefixInv
<1> DEFINE q == Applied
<1> HIDE DEF q
<1>3. Numbered(q) /\ AllApply(q) /\ \A i \in DOMAIN q : q[i] \in AppliedOps
  BY <1>1 DEF q
<1>4. /\ Numbered(Surviving(q, d))
      /\ \A k \in DOMAIN Surviving(q, d) :
           Journaled(d, Surviving(q, d)[k]) /\ \E i \in DOMAIN q : Surviving(q, d)[k] = q[i]
      /\ \A i \in DOMAIN q : Journaled(d, q[i]) =>
           \E k \in DOMAIN Surviving(q, d) : Surviving(q, d)[k] = q[i]
  BY <1>3, SurvivingNumbered
<1>5. S = Surviving(q, d)
  BY DEF q
<1> HIDE DEF S
<1>6. \A i \in DOMAIN S, j \in DOMAIN q : q[j].seq < S[i].seq => \E l \in DOMAIN S : S[l] = q[j]
  BY <1>2, <1>3, <1>4, <1>5
<1>7. Len(S) <= Len(q) /\ \A i \in DOMAIN S : i \in DOMAIN q /\ S[i] = q[i]
  BY <1>3, <1>4, <1>5, <1>6, PrefixOf
<1>8. AllApply(S)
  BY <1>3, <1>4, <1>5, <1>7, AllApplyPrefix DEF Numbered
<1> QED BY <1>4, <1>5, <1>7, <1>8 DEF S, q

(* Steps that apply nothing and write nothing.                             *)
LEMMA PrefixKept ==
  ASSUME PrefixInv, AppliedOps' \subseteq AppliedOps, stable' \subseteq stable
  PROVE  PrefixInv'
BY DEF PrefixInv

LEMMA StopKept ==
  ASSUME StopInv, AppliedOps' \subseteq AppliedOps, stable' \subseteq stable, config' = config,
         wk'.pc = "dead" => wk.pc = "dead"
  PROVE  StopInv'
BY DEF StopInv

(* With a sink, a worker that has gone means a loop that is stopping.      *)
LEMMA DeadMeans ==
  ASSUME ShapeInv, config.sink, wk.pc = "dead"
  PROVE  /\ rt.pc \in {"stopped", "unloadable", "await"} /\ ~InMutation
<1>1. Flow /\ LoopOK
  BY DEF ShapeInv, TypeInv
<1>2. Quiet \/ Answered
  BY <1>1 DEF Flow, Asked, Working
<1>3. CASE Quiet
  BY <1>3 DEF Quiet, InMutation
<1>4. CASE Answered
  <2>1. rt.pc = "await" /\ rt.job = "shutdown"
    BY <1>4 DEF Answered
  <2> QED BY <2>1 DEF InMutation
<1> QED BY <1>2, <1>3, <1>4

LEMMA RecoverPerform ==
  ASSUME ShapeInv, DataInv, LogStoreInv, MemInv, RecoverInv, AppliedForm, AppliedForm',
         NEW m \in Mutations, Perform(m)
  PROVE  RecoverInv'
<1> DEFINE o == StoredFor(store, m)
<1>1. /\ rt.pc = "idle" /\ ~InMutation /\ m \in Mutation /\ Succeeds(store, m)
      /\ OpOK(o) /\ o.seq = store.next_op_seq /\ rt'.pc # "unloadable"
      /\ UNCHANGED <<stable, wk, config>>
      /\ \/ accepted' = Append(accepted, o) /\ ~InMutation'
         \/ accepted' = accepted /\ InMutation' /\ rt'.stored = o
         \/ accepted' = accepted /\ ~InMutation'
  BY PerformCases
<1>2. Inv(store) /\ NumbersInv /\ config.sink \in BOOLEAN
  BY <1>1, ConfigFacts DEF LogStoreInv, HeldInv, DataInv, ShapeInv, TypeInv
<1>3. Applied = accepted /\ AppliedOps = Acknowledged
  BY <1>1, AppliedIs DEF AppliedForm
<1>4. ~(config.sink /\ wk.pc = "dead")
  BY <1>1, DeadMeans
<1>5. StopInv'
  BY <1>1, <1>4 DEF StopInv
<1>6. IsSeq(accepted) /\ AllApply(accepted) /\ PrefixInv
  BY <1>2, <1>3 DEF NumbersInv, RecoverInv
<1>7. Applicable(ReplayAll(NewStore, accepted), o.op)
  <2>1. Visible(ReplayAll(NewStore, accepted)) = Visible(store)
    BY <1>1, <1>3 DEF MemInv
  <2> QED BY <1>1, <1>2, <2>1, EmittedApplies
<1>8. o.seq \in Nat /\ (\A k \in Reached : k < o.seq) /\ \A p \in AppliedOps : p.seq < o.seq /\ p.seq \in Nat
  <2>1. store.next_op_seq \in Nat
    BY <1>2, NextIdNat
  <2>2. \A p \in AppliedOps : p.seq < store.next_op_seq /\ p.seq \in Nat
    BY <1>1, <1>2, AppliedNumbers
  <2> QED BY <1>1, <1>2, <2>1, <2>2 DEF NumbersInv
<1> HIDE DEF o
<1>9. AllApply(Append(accepted, o))
  BY <1>6, <1>7, AllApplyAppend
<1>10. \A d \in stable : ~Journaled(d, o)
  <2>1. \A d \in stable : d.snapshot.next_op_seq \in Nat /\ o.seq >= d.snapshot.next_op_seq
    BY <1>8, PastSnapshots
  <2>2. \A d \in stable : o.seq \notin DOMAIN d.events
    BY <1>8, ReachedNumbers
  <2> QED BY <1>8, <2>1, <2>2 DEF Journaled
<1>11. CASE \/ accepted' = Append(accepted, o) /\ ~InMutation'
            \/ accepted' = accepted /\ InMutation' /\ rt'.stored = o
  <2>1. Applied' = Append(accepted, o)
    BY <1>11 DEF AppliedForm
  <2>2. AppliedOps' = AppliedOps \cup {o}
    <3>1. CASE accepted' = Append(accepted, o) /\ ~InMutation'
      <4>1. \A p \in Acknowledged : p.seq < o.seq
        BY <1>3, <1>8
      <4>2. Acknowledged' = Acknowledged \cup {o}
        BY <1>1, <1>2, <3>1, <4>1, AcceptedPush
      <4> QED BY <1>3, <3>1, <4>2, AppliedIsNext
    <3>2. CASE accepted' = accepted /\ InMutation' /\ rt'.stored = o
      BY <1>3, <3>2, AppliedIsNext DEF Acknowledged
    <3> QED BY <1>11, <3>1, <3>2
  <2>3. PrefixInv'
    <3> SUFFICES ASSUME NEW d \in stable, NEW p \in AppliedOps', NEW x \in AppliedOps',
                        Journaled(d, x), p.seq < x.seq
                 PROVE  Journaled(d, p)
      BY <1>1 DEF PrefixInv
    <3>1. x # o
      BY <1>10
    <3>2. x \in AppliedOps
      BY <2>2, <3>1
    <3>3. p # o
      BY <1>8, <3>2
    <3> QED BY <1>6, <2>2, <3>2, <3>3 DEF PrefixInv
  <2> HIDE DEF Applied
  <2> QED BY <1>1, <1>5, <1>9, <2>1, <2>3 DEF RecoverInv
<1>12. CASE accepted' = accepted /\ ~InMutation'
  <2>1. Applied' = accepted
    BY <1>12 DEF AppliedForm
  <2>2. AppliedOps' = AppliedOps
    BY <1>3, <1>12, AppliedIsNext DEF Acknowledged
  <2>3. PrefixInv'
    BY <1>1, <1>6, <2>2, PrefixKept
  <2> HIDE DEF Applied
  <2> QED BY <1>1, <1>5, <1>6, <2>1, <2>3 DEF RecoverInv
<1> QED BY <1>1, <1>11, <1>12

LEMMA RecoverCalm ==
  ASSUME RecoverInv, AppliedForm, AppliedForm', Calm, stable' \subseteq stable,
         wk'.pc = "dead" => wk.pc = "dead"
  PROVE  RecoverInv'
<1>1. Applied' = Applied
  BY DEF AppliedForm, Calm
<1>2. AppliedOps' = AppliedOps /\ config' = config
  BY CalmKeeps DEF Calm
<1>3. PrefixInv' /\ StopInv'
  BY <1>2, PrefixKept, StopKept DEF RecoverInv
<1>4. rt'.pc # "unloadable"
  BY DEF Calm, RecoverInv
<1> HIDE DEF Applied
<1> QED BY <1>1, <1>3, <1>4 DEF RecoverInv

LEMMA RecoverPatchMissing ==
  ASSUME RecoverInv, AppliedForm, AppliedForm', NEW m, PatchMissing(m)
  PROVE  RecoverInv'
<1>1. UNCHANGED <<rt, accepted, stable, wk, config>> /\ rt.pc = "idle"
  BY DEF PatchMissing, workerVars
<1>2. ~InMutation /\ ~InMutation'
  BY <1>1 DEF InMutation
<1>3. Applied' = Applied
  BY <1>1, <1>2 DEF AppliedForm
<1>4. AppliedOps' = AppliedOps
  BY <1>1, <1>2, AppliedIs, AppliedIsNext DEF Acknowledged
<1>5. PrefixInv' /\ StopInv'
  BY <1>1, <1>4, PrefixKept, StopKept DEF RecoverInv
<1> HIDE DEF Applied
<1> QED BY <1>1, <1>3, <1>5 DEF RecoverInv

LEMMA RecoverAwait ==
  ASSUME ShapeInv, DataInv, RecoverInv, AppliedForm, AppliedForm', AwaitReply
  PROVE  RecoverInv'
<1>1. /\ UNCHANGED <<stable, wk, config>> /\ ~InMutation' /\ rt'.pc # "unloadable"
      /\ \/ InMutation /\ accepted' = accepted
         \/ InMutation /\ accepted' = Append(accepted, rt.stored)
         \/ ~InMutation /\ UNCHANGED <<store, accepted>>
  BY AwaitCases
<1>2. Applied' = accepted' /\ AppliedOps' = Acknowledged'
  BY <1>1, AppliedIsNext DEF AppliedForm
<1>3. NumbersInv /\ IsSeq(accepted) /\ AllApply(Applied)
  BY DEF DataInv, NumbersInv, RecoverInv
<1>4. (InMutation => Applied = Append(accepted, rt.stored)) /\ (~InMutation => Applied = accepted)
  BY DEF AppliedForm
<1>5. AllApply(accepted') /\ AppliedOps' \subseteq AppliedOps
  <2>1. CASE InMutation /\ accepted' = accepted
    <3>1. AllApply(accepted)
      <4>1. /\ IsSeq(Append(accepted, rt.stored))
            /\ Len(Append(accepted, rt.stored)) = Len(accepted) + 1
            /\ DOMAIN Append(accepted, rt.stored) = 1..(Len(accepted) + 1)
            /\ \A i \in 1..Len(accepted) : Append(accepted, rt.stored)[i] = accepted[i]
        BY <1>3, SeqAppend
      <4>2. Len(accepted) \in Nat /\ DOMAIN accepted = 1..Len(accepted)
        BY <1>3, SeqFacts
      <4> DEFINE q == Append(accepted, rt.stored)
      <4>3. AllApply(q)
        BY <1>3, <1>4, <2>1
      <4> HIDE DEF q
      <4>4. /\ IsSeq(q) /\ Len(accepted) <= Len(q)
            /\ \A i \in DOMAIN accepted : i \in DOMAIN q /\ accepted[i] = q[i]
        BY <4>1, <4>2 DEF q
      <4> QED BY <1>3, <4>3, <4>4, AllApplyPrefix
    <3> QED BY <1>2, <2>1, <3>1, AppliedIs DEF Acknowledged
  <2>2. CASE InMutation /\ accepted' = Append(accepted, rt.stored)
    <3>1. OpOK(rt.stored) /\ \A p \in Acknowledged : p.seq < rt.stored.seq
      BY <1>3, <2>2 DEF ShapeInv, TypeInv, LoopOK, NumbersInv
    <3>2. Acknowledged' = Acknowledged \cup {rt.stored}
      BY <1>3, <2>2, <3>1, AcceptedPush
    <3> HIDE DEF Applied
    <3> QED BY <1>2, <1>3, <1>4, <2>2, <3>2, AppliedIs
  <2>3. CASE ~InMutation /\ UNCHANGED <<store, accepted>>
    <3>1. AppliedOps' \subseteq AppliedOps
      BY <1>2, <2>3, AppliedIs DEF Acknowledged
    <3> HIDE DEF Applied
    <3> QED BY <1>3, <1>4, <2>3, <3>1
  <2> QED BY <1>1, <2>1, <2>2, <2>3
<1>6. PrefixInv' /\ StopInv'
  BY <1>1, <1>5, PrefixKept, StopKept DEF RecoverInv
<1> HIDE DEF Applied
<1> QED BY <1>1, <1>2, <1>5, <1>6 DEF RecoverInv

(* A batch goes to the journal before anything that follows it.            *)
LEMMA RecoverFlushBuf ==
  ASSUME NoBatchFails, ShapeInv, DataInv, PromiseInv, RecoverInv, AppliedForm, AppliedForm', FlushBuf
  PROVE  RecoverInv'
<1> DEFINE D == AppendOps(db, wk.buf)
           t == wk.msg.t
<1>1. Calm /\ wk.pc = "flush"
  BY CalmSteps DEF Worker, FlushBuf
<1>2. Applied' = Applied /\ AppliedOps' = AppliedOps /\ config' = config /\ rt'.pc # "unloadable"
  BY <1>1, CalmKeeps DEF AppliedForm, Calm, RecoverInv
<1>3. ~Conflicts(db, wk.buf) /\ Keeps(db, D) /\ \A o \in BufOps : Journaled(D, o)
  BY BatchIsNew
<1>4. FlushSucceeds
  BY <1>3 DEF FlushBuf, AppendFails, SinkPanics, SinkFlushFails, Fault, NoBatchFails, ErrorsReturned
<1>5. /\ stable' \subseteq stable \cup {D} /\ (t # "Timer" => stable' = {D})
      /\ \E last : AfterFlush(TRUE, last)
  BY <1>4 DEF FlushSucceeds, Syncs, Commits, CallsFlush
<1>6. WorkerOK /\ DbOK /\ config \in Configs /\ NumbersInv /\ AccountInv /\ PipelineInv
  BY DEF ShapeInv, TypeInv, DataInv
<1>7. config.sink
  BY <1>1, <1>6, ConfigFacts DEF ShapeInv, Flow
<1>8. wk'.pc = PcAfter(t, TRUE)
  BY <1>5, <1>6 DEF AfterFlush, WorkerAfter, WorkerOK
<1>9. LostOps = {} /\ reported = {}
  BY DEF PromiseInv, LostOps
<1>10. \A o \in AppliedOps : o.seq \in Nat /\ (Journaled(db, o) \/ o \in BufOps \/ o \in QueueOps)
  BY <1>6, <1>7, <1>9, AppliedNumbers DEF AccountInv
<1>11. \A o \in AppliedOps : Journaled(D, o) \/ o \in QueueOps
  BY <1>3, <1>10 DEF Keeps
<1>12. ASSUME NEW o \in QueueOps, NEW p, p.seq \in Nat, Journaled(D, p)
       PROVE  p.seq < o.seq
  <2>1. /\ DOMAIN D.events = DOMAIN db.events \cup {wk.buf[i].seq : i \in DOMAIN wk.buf}
        /\ D.snapshot = db.snapshot
    BY <1>3, <1>6, AppendOpsFacts DEF DbOK
  <2>2. /\ o.seq \in Nat /\ \A k \in Reached : k < o.seq
        /\ \A x \in BufOps : x.seq < o.seq
    BY <1>6, <1>10 DEF PipelineInv
  <2>3. db \in stable
    BY <1>6 DEF DbOK
  <2>4. /\ DOMAIN db.events \subseteq Reached
        /\ db.snapshot.next_op_seq \in Nat /\ o.seq >= db.snapshot.next_op_seq
    BY <2>2, <2>3, ReachedNumbers, PastSnapshots
  <2>5. \A i \in DOMAIN wk.buf : wk.buf[i].seq < o.seq
    BY <2>2 DEF BufOps, ToSet
  <2>6. p.seq \in DOMAIN D.events \/ p.seq < D.snapshot.next_op_seq
    BY <1>12 DEF Journaled
  <2> HIDE DEF D
  <2>7. CASE p.seq \in DOMAIN D.events
    BY <2>1, <2>2, <2>4, <2>5, <2>7
  <2>8. CASE p.seq < D.snapshot.next_op_seq
    BY <1>12, <2>1, <2>2, <2>4, <2>8
  <2> QED BY <2>6, <2>7, <2>8
<1> HIDE DEF D
<1>13. PrefixInv'
  <2> SUFFICES ASSUME NEW d \in stable', NEW o \in AppliedOps, NEW p \in AppliedOps,
                      Journaled(d, p), o.seq < p.seq
               PROVE  Journaled(d, o)
    BY <1>2 DEF PrefixInv
  <2>1. CASE d \in stable
    BY <2>1 DEF RecoverInv, PrefixInv
  <2>2. CASE d = D
    <3>1. o \notin QueueOps
      <4>1. p.seq \in Nat /\ o.seq \in Nat
        BY <1>10
      <4>2. o \in QueueOps => p.seq < o.seq
        BY <1>12, <2>2, <4>1
      <4> QED BY <4>1, <4>2
    <3> QED BY <1>11, <2>2, <3>1
  <2> QED BY <1>5, <2>1, <2>2
<1>14. StopInv'
  <2> SUFFICES ASSUME wk'.pc = "dead", NEW o \in AppliedOps, NEW d \in stable'
               PROVE  Journaled(d, o)
    BY <1>2 DEF StopInv
  <2>1. t \in {"Shutdown", "Closed"}
    BY <1>8 DEF PcAfter
  <2>2. stable' = {D}
    BY <1>5, <2>1
  <2>3. queue = << >>
    BY <1>1, <2>1 DEF ShapeInv, Flow, Quiet, Asked, Working, Answered
  <2>4. o \notin QueueOps
    BY <2>3, NoOps
  <2> QED BY <1>11, <2>2, <2>4
<1> HIDE DEF Applied
<1> QED BY <1>2, <1>13, <1>14 DEF RecoverInv

(* A checkpoint writes when everything is in the journal.                  *)
LEMMA RecoverCheckpoint ==
  ASSUME ShapeInv, DataInv, PromiseInv, LogStoreInv, RecoverInv, AppliedForm, AppliedForm',
         WriteSnapshot \/ CompactThrough
  PROVE  RecoverInv'
<1>1. Calm /\ wk.pc \in {"snapshot", "compact"}
  BY CalmSteps DEF Worker, WriteSnapshot, CompactThrough
<1>2. Applied' = Applied /\ AppliedOps' = AppliedOps /\ rt'.pc # "unloadable"
  BY <1>1, CalmKeeps DEF AppliedForm, Calm, RecoverInv
<1>3. stable' \subseteq stable \cup {db'} /\ Keeps(db, db')
  BY CheckpointWrites
<1>4. rt.pc = "await" /\ db \in stable /\ DOMAIN wk = {"pc", "msg", "buf", "last_durable"}
  BY <1>1 DEF ShapeInv, TypeInv, DbOK, WorkerOK, Flow, Quiet, Asked, Working, Answered
<1>5. \A o \in AppliedOps : o.seq \in Nat /\ \A d \in stable : Journaled(d, o)
  BY <1>1, <1>4, AppliedNumbers DEF PromiseInv, DataInv
<1>6. \A o \in AppliedOps : \A d \in stable' : Journaled(d, o)
  BY <1>3, <1>4, <1>5 DEF Keeps
<1>7. PrefixInv' /\ StopInv'
  BY <1>2, <1>6 DEF PrefixInv, StopInv
<1> HIDE DEF Applied
<1> QED BY <1>2, <1>7 DEF RecoverInv

(* A first part of the operations is loaded.                               *)
LEMMA RecoverReopen ==
  ASSUME ShapeInv, ShapeInv', DataInv, MemInv, RecoverInv, AppliedForm', Reopen
  PROVE  RecoverInv'
<1>1. PICK d \in stable :
           /\ LoadStore(d).ok \in BOOLEAN
           /\ rt'.pc = (IF LoadStore(d).ok THEN "idle" ELSE "unloadable") /\ ~InMutation'
           /\ accepted' = Surviving(Applied, d)
           /\ stable' = (IF d = db THEN stable ELSE {d})
           /\ AppliedOps' = Acknowledged'
           /\ \A o : o \in Acknowledged' <=> o \in AppliedOps /\ Journaled(d, o)
  BY ReopenFacts
<1> DEFINE S == Surviving(Applied, d)
<1>2. Applied' = S
  BY <1>1 DEF AppliedForm
<1>3. AllApply(S)
  BY SurvivingIsPrefix
<1>4. LoadStore(d).ok
  BY <1>3, LoadGives DEF AllApply
<1>5. rt'.pc = "idle" /\ config'.sink
  BY <1>1, <1>4 DEF Reopen
<1>6. wk'.pc # "dead"
  BY <1>5 DEF ShapeInv, Flow, Quiet, Asked, Working, Answered
<1>7. PrefixInv'
  BY <1>1, PrefixKept DEF RecoverInv
<1>8. StopInv'
  BY <1>6 DEF StopInv
<1> HIDE DEF Applied, S
<1> QED BY <1>2, <1>3, <1>5, <1>7, <1>8 DEF RecoverInv

LEMMA RecoverInit == ASSUME Init, ShapeInv PROVE RecoverInv
<1>1. rt = Idle /\ accepted = << >>
  BY DEF Init
<1>2. rt.pc = "idle" /\ ~InMutation
  BY <1>1 DEF Idle, InMutation
<1>3. Applied = << >>
  BY <1>1, <1>2, SeqEmpty DEF Applied, InFlight, InMutation
<1>4. AppliedOps = {}
  BY <1>1, <1>2, AppliedIs DEF Acknowledged, ToSet
<1>5. AllApply(<< >>)
  BY SeqEmpty DEF AllApply
<1>6. PrefixInv /\ StopInv
  BY <1>4 DEF PrefixInv, StopInv
<1> HIDE DEF Applied
<1> QED BY <1>2, <1>3, <1>5, <1>6 DEF RecoverInv

LEMMA RecoverStep ==
  ASSUME NoBatchFails, ShapeInv, DataInv, PromiseInv, LogStoreInv, MemInv, RecoverInv,
         ShapeInv', DataInv', [Next]_vars
  PROVE  RecoverInv'
<1>0. AppliedForm /\ AppliedForm'
  BY AppliedForms, AppliedFormsNext DEF DataInv
<1>1. CASE \E m \in Mutations : Perform(m)
  BY <1>0, <1>1, RecoverPerform
<1>2. CASE \E m \in Mutations : PatchMissing(m)
  BY <1>0, <1>2, RecoverPatchMissing
<1>3. CASE \/ DropHandles \/ \E job \in {"flush", "checkpoint", "shutdown"} : Control(job)
           \/ SendToWorker \/ ObserveDurable \/ Receive \/ DeadlineExpires \/ QueueClosed
           \/ UNCHANGED vars
  <2>1. Calm
    BY <1>3, CalmSteps DEF Worker
  <2>2. stable' = stable
    BY <1>3 DEF DropHandles, Control, SendToWorker, ObserveDurable, Receive, DeadlineExpires,
                QueueClosed, Wake, vars, workerVars
  <2>3. WorkerOK
    BY DEF ShapeInv, TypeInv
  <2>4. wk'.pc = "dead" => wk.pc = "dead"
    <3>1. CASE Receive
      BY <2>3, <3>1 DEF Receive, WorkerOK
    <3>2. CASE DeadlineExpires \/ QueueClosed
      BY <2>3, <3>2 DEF DeadlineExpires, QueueClosed, Wake, WorkerOK
    <3>3. CASE \/ DropHandles \/ \E job \in {"flush", "checkpoint", "shutdown"} : Control(job)
               \/ SendToWorker \/ ObserveDurable \/ UNCHANGED vars
      BY <3>3 DEF DropHandles, Control, SendToWorker, ObserveDurable, vars, workerVars
    <3> QED BY <1>3, <3>1, <3>2, <3>3
  <2> QED BY <1>0, <2>1, <2>2, <2>4, RecoverCalm
<1>4. CASE AwaitReply
  BY <1>0, <1>4, RecoverAwait
<1>5. CASE FlushBuf
  BY <1>0, <1>5, RecoverFlushBuf
<1>6. CASE WriteSnapshot \/ CompactThrough
  BY <1>0, <1>6, RecoverCheckpoint
<1>7. CASE Reopen
  BY <1>0, <1>7, RecoverReopen
<1> QED
  BY <1>1, <1>2, <1>3, <1>4, <1>5, <1>6, <1>7 DEF Next, Runtime, Worker

LEMMA RecoverInvariant ==
  ASSUME NoBatchFails, RollbackExact
  PROVE  Spec => [](ShapeInv /\ DataInv /\ PromiseInv /\ MemInv /\ RecoverInv)
<1>1. ErrorsReturned
  BY DEF NoBatchFails
<1>2. Init => PromiseInv
  BY SeqEmpty DEF Init, PromiseInv, PromisesSurvive, Idle
<1>3. ShapeInv /\ DataInv /\ PromiseInv /\ [Next]_vars => PromiseInv'
  BY PromiseStep
<1>4. Init /\ ShapeInv => RecoverInv
  BY RecoverInit
<1>5. /\ ShapeInv /\ DataInv /\ PromiseInv /\ LogStoreInv /\ MemInv /\ RecoverInv
      /\ ShapeInv' /\ DataInv' /\ [Next]_vars
      => RecoverInv'
  BY RecoverStep
<1>6. Spec => []DataInv /\ []LogStoreInv /\ []MemInv
  BY <1>1, DataInvariant, LogStoreInvariant, MemInvariant
<1> QED
  BY <1>2, <1>3, <1>4, <1>5, <1>6, ShapeInvariant, PTL DEF Spec

LEMMA PrefixRecovered ==
  ASSUME ShapeInv, DataInv, PromiseInv, MemInv, RecoverInv
  PROVE  RecoveryIsPrefix
<1> DEFINE q == Applied
<1>1. Numbered(Applied) /\ \A i \in DOMAIN Applied : Applied[i] \in AppliedOps
  BY AppliedNumbered DEF DataInv
<1> SUFFICES ASSUME NEW d \in stable
             PROVE  /\ LoadStore(d).ok
                    /\ \E n \in 0..Len(q) :
                         /\ Visible(LoadStore(d).store) = Visible(ReplayAll(NewStore, SubSeq(q, 1, n)))
                         /\ d = db => \A i \in (n + 1)..Len(q) : q[i].seq > health.last_durable_seq
  BY DEF RecoveryIsPrefix
<1> DEFINE S == Surviving(Applied, d)
<1>2. /\ Numbered(S) /\ Len(S) <= Len(Applied)
      /\ \A i \in DOMAIN S : i \in DOMAIN Applied /\ S[i] = Applied[i]
      /\ AllApply(S)
  BY SurvivingIsPrefix
<1>3. /\ LoadStore(d).ok => Visible(LoadStore(d).store) = Visible(ReplayAll(NewStore, S))
      /\ AllApply(S) => LoadStore(d).ok
  BY LoadGives DEF AllApply
<1>4. \A i \in DOMAIN Applied : Journaled(d, Applied[i]) => \E k \in DOMAIN S : S[k] = Applied[i]
  BY <1>1, SurvivingNumbered
<1>5. \A i \in DOMAIN Applied :
        d = db /\ Applied[i].seq <= health.last_durable_seq => Journaled(d, Applied[i])
  BY <1>1 DEF DataInv, CoverInv, PromiseInv
<1>6. health.last_durable_seq \in Nat
  BY DEF ShapeInv, TypeInv, HealthOK
<1>7. /\ Numbered(q) /\ Len(S) <= Len(q) /\ \A i \in DOMAIN S : i \in DOMAIN q /\ S[i] = q[i]
      /\ \A i \in DOMAIN q : Journaled(d, q[i]) => \E k \in DOMAIN S : S[k] = q[i]
      /\ \A i \in DOMAIN q : d = db /\ q[i].seq <= health.last_durable_seq => Journaled(d, q[i])
  BY <1>1, <1>2, <1>4, <1>5
<1> HIDE DEF q, S
<1>8. /\ IsSeq(q) /\ IsSeq(S) /\ Len(q) \in Nat /\ Len(S) \in Nat
      /\ DOMAIN q = 1..Len(q) /\ DOMAIN S = 1..Len(S)
  BY <1>2, <1>7, SeqFacts DEF Numbered
<1>9. Len(S) \in 0..Len(q)
  BY <1>7, <1>8
<1>10. SubSeq(q, 1, Len(S)) = S
  <2>1. /\ IsSeq(SubSeq(q, 1, Len(S))) /\ Len(SubSeq(q, 1, Len(S))) = Len(S)
        /\ \A i \in 1..Len(S) : SubSeq(q, 1, Len(S))[i] = q[i]
    BY <1>8, <1>9, PrefixFacts
  <2> QED BY <1>7, <1>8, <2>1, SameSeq
<1>11. ASSUME d = db, NEW i \in (Len(S) + 1)..Len(q)
       PROVE  q[i].seq > health.last_durable_seq
  <2>1. i \in DOMAIN q /\ q[i].seq \in Nat
    BY <1>7, <1>8 DEF Numbered
  <2>2. SUFFICES ASSUME q[i].seq <= health.last_durable_seq
                 PROVE  FALSE
    BY <1>6, <2>1
  <2>3. PICK k \in DOMAIN S : S[k] = q[i]
    BY <1>7, <1>11, <2>1, <2>2
  <2>4. k \in DOMAIN q /\ q[k] = q[i] /\ k < i
    BY <1>7, <1>8, <2>3
  <2>5. q[k].seq < q[i].seq
    BY <1>7, <2>1, <2>4 DEF Numbered, Ascends
  <2> QED BY <2>1, <2>4, <2>5
<1> QED BY <1>2, <1>3, <1>9, <1>10, <1>11

(* When append_ops and flush return no error, a process killed at any      *)
(* moment, by a power failure too, opens again (persist/sqlite.rs:59) with *)
(* what the first n accepted operations gave, never with a hole, and n     *)
(* includes what DurableUpTo (runtime/handle.rs:232) announced unless the  *)
(* machine lost power.                                                     *)
THEOREM RecoveryGivesPrefix ==
  ASSUME NoBatchFails, RollbackExact
  PROVE  Spec => []RecoveryIsPrefix
<1>1. ShapeInv /\ DataInv /\ PromiseInv /\ MemInv /\ RecoverInv => RecoveryIsPrefix
  BY PrefixRecovered
<1> QED
  BY <1>1, RecoverInvariant, PTL

LEMMA StopRecovered ==
  ASSUME ShapeInv, DataInv, MemInv, RecoverInv
  PROVE  StopKeepsEverything
<1> SUFFICES ASSUME config.sink, rt.pc = "stopped", wk.pc = "dead", NEW d \in stable
             PROVE  RecoversExactly(d)
  BY DEF StopKeepsEverything
<1> DEFINE S == Surviving(Applied, d)
<1>1. /\ Numbered(Applied)
      /\ \A i \in DOMAIN Applied : Applied[i] \in AppliedOps
  BY AppliedNumbered DEF DataInv
<1>2. \A i \in DOMAIN Applied : Journaled(d, Applied[i])
  BY <1>1 DEF RecoverInv, StopInv
<1>3. /\ Numbered(S) /\ \A k \in DOMAIN S : \E i \in DOMAIN Applied : S[k] = Applied[i]
      /\ \A i \in DOMAIN Applied : \E k \in DOMAIN S : S[k] = Applied[i]
  BY <1>1, <1>2, SurvivingNumbered
<1>4. /\ LoadStore(d).ok => Visible(LoadStore(d).store) = Visible(ReplayAll(NewStore, S))
      /\ AllApply(S) => LoadStore(d).ok
  BY LoadGives DEF AllApply
<1>5. AllApply(Applied) /\ Visible(store) = Visible(ReplayAll(NewStore, Applied))
  BY DEF RecoverInv, MemInv
<1> HIDE DEF S, Applied
<1>6. S = Applied
  BY <1>1, <1>3, SameOps
<1> QED BY <1>4, <1>5, <1>6 DEF RecoversExactly

(* When append_ops and flush return no error, a log that has stopped, by   *)
(* Shutdown (runtime/handle.rs:730) or because the handles are gone, left  *)
(* a database from which exactly the store in memory is loaded again, also *)
(* after a power failure.                                                  *)
THEOREM StopLosesNothing ==
  ASSUME NoBatchFails, RollbackExact
  PROVE  Spec => []StopKeepsEverything
<1>1. ShapeInv /\ DataInv /\ PromiseInv /\ MemInv /\ RecoverInv => StopKeepsEverything
  BY StopRecovered
<1> QED
  BY <1>1, RecoverInvariant, PTL

==============================================================================
