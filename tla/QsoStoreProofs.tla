---------------------------- MODULE QsoStoreProofs ----------------------------
(***************************************************************************)
(* Proofs about QsoStore, for every set of calls, contests, drafts and     *)
(* patches and for every bound.                                            *)
(***************************************************************************)
EXTENDS QsoStore, QsoStoreOpsProofs

(* The calls of this component are calls of the store's API.               *)
LEMMA MutationsAreMutation == Mutations \subseteq Mutation
  BY InputsAssumption, BoundsAssumption DEF Mutations, Mutation, Ids, QsoId

(* The inductive invariant implies the four invariants the runs check.     *)
LEMMA InvImplies ==
  ASSUME Inv(store)
  PROVE  TypeOK /\ OrderConsistent /\ IndicesConsistent /\ StacksApplicable
<1>1. CoreOK(store.records, store.order, store.pos, store.by_call, store.by_contest,
             store.next_qso_id)
  BY DEF Inv, CoreOf
<1>2. OrderConsistent /\ IndicesConsistent
  BY <1>1 DEF CoreOK, OrderConsistent, IndicesConsistent
<1>3. StacksApplicable
  BY DEF Inv, StacksApplicable
<1>4. DOMAIN store.pos = DOMAIN store.records
  BY <1>1 DEF CoreOK
<1>5. TypeOK
  BY <1>1, <1>4 DEF Inv, CoreOK, TypeOK, StoreType
<1> QED
  BY <1>2, <1>3, <1>5

(* Every behaviour keeps the inductive invariant: whatever the sets of     *)
(* drafts and patches, whichever kinds of mutation are rolled back, and    *)
(* however long it runs.                                                   *)
THEOREM StoreInvariant == Spec => []Inv(store)
<1>1. Init => Inv(store)
  BY NewStoreInv DEF Init
<1>2. Inv(store) /\ [Next]_vars => Inv(store)'
  <2> SUFFICES ASSUME Inv(store), [Next]_vars PROVE Inv(store')
    OBVIOUS
  <2>1. ASSUME NEW m \in Mutations, Perform(m) PROVE Inv(store')
    BY <2>1, MutationsAreMutation, AnyMutation DEF Perform
  <2>2. ASSUME NEW d \in Drafts, InsertQso(d) PROVE Inv(store')
    BY <2>1, <2>2 DEF InsertQso, Mutations
  <2>3. ASSUME NEW id \in Ids, NEW p \in Patches, PatchQso(id, p) PROVE Inv(store')
    BY <2>1, <2>3 DEF PatchQso, Mutations
  <2>4. ASSUME NEW id \in Ids, NEW p \in Patches, PatchMissing(id, p) PROVE Inv(store')
    BY <2>4, FailedInv DEF PatchMissing
  <2>5. ASSUME NEW id \in Ids, VoidQso(id) PROVE Inv(store')
    BY <2>1, <2>5 DEF VoidQso, Mutations
  <2>6. CASE UndoLast
    BY <2>1, <2>6 DEF UndoLast, Mutations
  <2>7. CASE RedoLast
    BY <2>1, <2>7 DEF RedoLast, Mutations
  <2>8. ASSUME NEW m \in Mutations, RejectMutation(m) PROVE Inv(store')
    BY <2>8, MutationsAreMutation, AnyMutation DEF RejectMutation
  <2>9. CASE DrainPendingOps
    BY <2>9, ClearInv DEF DrainPendingOps
  <2>10. CASE SaveAndRestore
    BY <2>10, RestoreInv DEF SaveAndRestore
  <2>11. CASE UNCHANGED vars
    BY <2>11 DEF vars
  <2> QED
    BY <2>2, <2>3, <2>4, <2>5, <2>6, <2>7, <2>8, <2>9, <2>10, <2>11 DEF Next
<1> QED
  BY <1>1, <1>2, PTL DEF Spec

(* The store struct stays well-formed, and no Insert ever stands on the    *)
(* undo or redo stack.                                                     *)
THEOREM TypeCorrect == Spec => []TypeOK
<1>1. Inv(store) => TypeOK
  BY InvImplies
<1> QED
  BY <1>1, StoreInvariant, PTL

(* `order`, `pos` and `records` agree after every operation, rollback and  *)
(* restore, and the next id is fresh.                                      *)
THEOREM OrderStaysConsistent == Spec => []OrderConsistent
<1>1. Inv(store) => OrderConsistent
  BY InvImplies
<1> QED
  BY <1>1, StoreInvariant, PTL

(* What debug_assert_indices_consistent asserts holds after every          *)
(* operation, rollback and restore.                                        *)
THEOREM IndicesStayConsistent == Spec => []IndicesConsistent
<1>1. Inv(store) => IndicesConsistent
  BY InvImplies
<1> QED
  BY <1>1, StoreInvariant, PTL

(* undo and redo never pop an entry whose record is gone.                  *)
THEOREM StacksStayApplicable == Spec => []StacksApplicable
<1>1. Inv(store) => StacksApplicable
  BY InvImplies
<1> QED
  BY <1>1, StoreInvariant, PTL

(* Canonical order is insertion order and never reorders: no operation,    *)
(* rollback or restore moves or drops an id, or takes the id counter back. *)
THEOREM OrderIsCanonical == Spec => CanonicalOrder
<1>1. Inv(store) /\ [Next]_vars => [Extends(store, store')]_vars
  <2> SUFFICES ASSUME Inv(store), Next PROVE Extends(store, store')
    OBVIOUS
  <2>1. ASSUME NEW m \in Mutations, m.cmd # "insert", Perform(m) PROVE Extends(store, store')
    BY <2>1, MutationsAreMutation, MutateInv, SameOrderExtends DEF Perform
  <2>2. ASSUME NEW d \in Drafts, InsertQso(d) PROVE Extends(store, store')
    BY <2>2, InputsAssumption, InsertExtends DEF InsertQso, Perform
  <2>3. ASSUME NEW id \in Ids, NEW p \in Patches, PatchQso(id, p) PROVE Extends(store, store')
    BY <2>1, <2>3 DEF PatchQso, PatchCmd, Mutations
  <2>4. ASSUME NEW id \in Ids, NEW p \in Patches, PatchMissing(id, p) PROVE Extends(store, store')
    <3>1. DOMAIN store = StoreFields
      BY InvNames
    <3>2. store'.order = store.order /\ store'.next_qso_id = store.next_qso_id
      BY <3>1, <2>4 DEF PatchMissing, FailedStore, StoreFields
    <3> QED BY <3>2, SameOrderExtends
  <2>5. ASSUME NEW id \in Ids, VoidQso(id) PROVE Extends(store, store')
    BY <2>1, <2>5 DEF VoidQso, VoidCmd, Mutations
  <2>6. CASE UndoLast
    BY <2>1, <2>6 DEF UndoLast, UndoCmd, Mutations
  <2>7. CASE RedoLast
    BY <2>1, <2>7 DEF RedoLast, RedoCmd, Mutations
  <2>8. ASSUME NEW m \in Mutations, RejectMutation(m) PROVE Extends(store, store')
    <3>1. store' = Rejected(store, m) /\ Succeeds(store, m)
      BY <2>8 DEF RejectMutation
    <3>2. CASE m.cmd # "insert"
      BY <3>1, <3>2, MutationsAreMutation, RejectedInv, SameOrderExtends
    <3>3. CASE m.cmd = "insert"
      <4>1. PICK d \in Drafts : m = InsertCmd(d)
        BY <3>3 DEF Mutations, InsertCmd, PatchCmd, VoidCmd, UndoCmd, RedoCmd
      <4>2. Visible(store') = Visible(store) /\ store'.next_qso_id = store.next_qso_id
        BY <3>1, <4>1, InputsAssumption, RejectedInsert
      <4>3. store'.order = store.order
        BY <4>2 DEF Visible
      <4> QED BY <4>2, <4>3, SameOrderExtends
    <3> QED BY <3>2, <3>3
  <2>9. CASE DrainPendingOps
    <3>1. DOMAIN store = StoreFields
      BY InvNames
    <3>2. store'.order = store.order /\ store'.next_qso_id = store.next_qso_id
      BY <3>1, <2>9, ClearFields DEF DrainPendingOps
    <3> QED BY <3>2, SameOrderExtends
  <2>10. CASE SaveAndRestore
    BY <2>10, RestoreInv, SameOrderExtends DEF SaveAndRestore
  <2> QED
    BY <2>2, <2>3, <2>4, <2>5, <2>6, <2>7, <2>8, <2>9, <2>10 DEF Next
<1>2. [Extends(store, store')]_vars =>
        [ /\ Len(store.order) <= Len(store'.order)
          /\ \A i \in DOMAIN store.order : store'.order[i] = store.order[i]
          /\ store.next_qso_id <= store'.next_qso_id ]_vars
  BY DEF Extends
<1> QED
  BY <1>1, <1>2, StoreInvariant, PTL DEF Spec, CanonicalOrder

(* Provided only inserts, patches and voids are rejected, a mutation the   *)
(* persistence queue rejects leaves records, order and indices exactly as  *)
(* they were.  Without the proviso the run of RejectionKeepsLog with       *)
(* rejected undos finds a counterexample.                                  *)
THEOREM RejectionKeepsTheLog ==
  ASSUME RejectedCmds \subseteq {"insert", "patch", "void"}
  PROVE  Spec => RejectionKeepsLog
<1>1. Inv(store) /\ [Next]_vars =>
        [ (\E m \in Mutations : RejectMutation(m)) => Visible(store') = Visible(store) ]_vars
  <2> SUFFICES ASSUME Inv(store), NEW m \in Mutations, RejectMutation(m)
               PROVE  Visible(store') = Visible(store)
    OBVIOUS
  <2>1. m.cmd \in {"insert", "patch", "void"} /\ Succeeds(store, m) /\ store' = Rejected(store, m)
    BY DEF RejectMutation
  <2>2. CASE m.cmd = "insert"
    <3>1. PICK d \in Drafts : m = InsertCmd(d)
      BY <2>2 DEF Mutations, InsertCmd, PatchCmd, VoidCmd, UndoCmd, RedoCmd
    <3> QED BY <2>1, <3>1, InputsAssumption, RejectedInsert
  <2>3. CASE m.cmd \in {"patch", "void"}
    BY <2>1, <2>3, MutationsAreMutation, RejectedVisible
  <2> QED BY <2>1, <2>2, <2>3
<1> QED
  BY <1>1, StoreInvariant, PTL DEF Spec, RejectionKeepsLog

------------------------------------------------------------------------------
(* The journal determines the store                                        *)

Replayed == ReplayAll(replica, store.pending_ops)

(* The store the journal and the buffer rebuild reads like the store.      *)
JournalInv == /\ Inv(store)
              /\ \E S : store.pending_ops \in Seq(S)
              /\ DOMAIN Replayed = StoreFields
              /\ Visible(Replayed) = Visible(store)

(* Provided only inserts, patches and voids are rejected, journal plus     *)
(* buffer replay to the same records, order and indices at any moment,     *)
(* however mutations, undos, redos, rejections, drains and restores were   *)
(* mixed.  A rejected undo breaks it as it breaks RejectionKeepsLog.       *)
THEOREM JournalDeterminesStore ==
  ASSUME RejectedCmds \subseteq {"insert", "patch", "void"}
  PROVE  Spec => []JournalReproducesStore
<1>1. Init => JournalInv
  <2> SUFFICES ASSUME Init PROVE JournalInv
    OBVIOUS
  <2>1. store.pending_ops = << >>
    BY DEF Init, NewStore
  <2>2. Replayed = replica /\ << >> \in Seq({})
    BY <2>1, ReplayNone DEF Replayed
  <2> QED BY <2>1, <2>2, NewStoreInv, NewStoreFields DEF Init, JournalInv
<1>2. JournalInv /\ Inv(store)' /\ [Next]_vars => JournalInv'
  <2> SUFFICES ASSUME JournalInv, Inv(store'), [Next]_vars PROVE JournalInv'
    OBVIOUS
  <2>0. /\ Inv(store) /\ DOMAIN store = StoreFields
        /\ DOMAIN Replayed = StoreFields /\ Visible(Replayed) = Visible(store)
    BY InvNames DEF JournalInv
  <2>1. PICK S : store.pending_ops \in Seq(S)
    BY DEF JournalInv
  <2>2. ASSUME replica' = replica, store'.pending_ops = store.pending_ops,
               Visible(store') = Visible(store)
        PROVE  JournalInv'
    BY <2>0, <2>1, <2>2 DEF JournalInv, Replayed
  <2>3. ASSUME NEW m \in Mutations, Perform(m) PROVE JournalInv'
    <3> DEFINE e == StoredFor(store, m)
               q == store.pending_ops
    <3>1. m \in Mutation /\ Succeeds(store, m) /\ store' = Mutate(store, m) /\ replica' = replica
      BY <2>3, MutationsAreMutation DEF Perform
    <3>2. /\ Visible(ApplyReplayedOp(Replayed, e)) = Visible(store')
          /\ DOMAIN ApplyReplayedOp(Replayed, e) = StoreFields
          /\ store'.pending_ops = Append(q, e)
      BY <2>0, <3>1, MutateVisible
    <3> HIDE DEF e
    <3> DEFINE T == S \cup {e}
    <3>3. q \in Seq(T) /\ e \in T
      BY <2>1
    <3>4. Replayed' = ReplayAll(replica, Append(q, e))
      BY <3>1, <3>2 DEF Replayed
    <3> HIDE DEF T
    <3>5. Append(q, e) \in Seq(T)
      BY <3>3
    <3>6. Replayed' = ApplyReplayedOp(Replayed, e)
      BY <3>3, <3>4, ReplayAppend DEF Replayed
    <3> QED BY <3>2, <3>5, <3>6 DEF JournalInv
  <2>4. ASSUME NEW d \in Drafts, InsertQso(d) PROVE JournalInv'
    BY <2>3, <2>4 DEF InsertQso, Mutations
  <2>5. ASSUME NEW id \in Ids, NEW p \in Patches, PatchQso(id, p) PROVE JournalInv'
    BY <2>3, <2>5 DEF PatchQso, Mutations
  <2>6. ASSUME NEW id \in Ids, NEW p \in Patches, PatchMissing(id, p) PROVE JournalInv'
    <3>1. Visible(store') = Visible(store) /\ store'.pending_ops = store.pending_ops
      BY <2>0, <2>6 DEF PatchMissing, FailedStore, Visible, StoreFields
    <3> QED BY <2>2, <2>6, <3>1 DEF PatchMissing
  <2>7. ASSUME NEW id \in Ids, VoidQso(id) PROVE JournalInv'
    BY <2>3, <2>7 DEF VoidQso, Mutations
  <2>8. CASE UndoLast
    BY <2>3, <2>8 DEF UndoLast, Mutations
  <2>9. CASE RedoLast
    BY <2>3, <2>9 DEF RedoLast, Mutations
  <2>10. ASSUME NEW m \in Mutations, RejectMutation(m) PROVE JournalInv'
    <3>1. /\ m \in Mutation /\ m.cmd \in {"insert", "patch", "void"} /\ Succeeds(store, m)
          /\ store' = Rejected(store, m) /\ store.pending_ops = << >> /\ replica' = replica
      BY <2>10, MutationsAreMutation DEF RejectMutation
    <3>2. store'.pending_ops = store.pending_ops
      BY <2>0, <3>1, RejectedPending
    <3>3. CASE m.cmd = "insert"
      <4>1. PICK d \in QsoRecord : m = InsertCmd(d)
        BY <3>1, <3>3 DEF Mutation, InsertCmd, PatchCmd, VoidCmd, UndoCmd, RedoCmd
      <4>2. Visible(store') = Visible(store)
        BY <2>0, <3>1, <4>1, RejectedInsert
      <4> QED BY <2>2, <3>1, <3>2, <4>2
    <3>4. CASE m.cmd \in {"patch", "void"}
      <4>1. Visible(store') = Visible(store)
        BY <2>0, <3>1, <3>4, RejectedVisible
      <4> QED BY <2>2, <3>1, <3>2, <4>1
    <3> QED BY <3>1, <3>3, <3>4
  <2>11. CASE DrainPendingOps
    <3>1. /\ store'.pending_ops = << >> /\ Visible(store') = Visible(store) /\ replica' = Replayed
      BY <2>0, <2>11, ClearFields DEF DrainPendingOps, ClearPendingOps, StoreFields, Visible, Replayed
    <3>2. Replayed' = Replayed /\ << >> \in Seq({})
      BY <3>1, ReplayNone DEF Replayed
    <3> QED BY <2>0, <3>1, <3>2 DEF JournalInv
  <2>12. CASE SaveAndRestore
    <3>1. Visible(store') = Visible(store) /\ store'.pending_ops = store.pending_ops
      BY <2>0, <2>12, RestoreVisible, RestoreInv DEF SaveAndRestore
    <3> QED BY <2>2, <2>12, <3>1 DEF SaveAndRestore
  <2>13. CASE UNCHANGED vars
    BY <2>2, <2>13 DEF vars
  <2> QED
    BY <2>4, <2>5, <2>6, <2>7, <2>8, <2>9, <2>10, <2>11, <2>12, <2>13 DEF Next
<1>3. JournalInv => JournalReproducesStore
  BY DEF JournalInv, JournalReproducesStore, Replayed
<1> QED
  BY <1>1, <1>2, <1>3, StoreInvariant, PTL DEF Spec

------------------------------------------------------------------------------
(* Undoing and redoing everything                                          *)

(* g lists the stores that n calls of m go through.                        *)
CallRun(g, s, m, n) ==
  /\ DOMAIN g = 0..n
  /\ g[0] = s
  /\ \A i \in 1..n : g[i] = Mutate(g[i - 1], m)

LEMMA CallRunExists ==
  ASSUME NEW s, NEW m, NEW N \in Nat
  PROVE  \E g : CallRun(g, s, m, N)
<1> DEFINE Bad == {n \in Nat : ~ \E g : CallRun(g, s, m, n)}
<1> SUFFICES ASSUME Bad # {} PROVE FALSE
  OBVIOUS
<1>1. PICK n \in Bad : \A k \in Bad : n <= k
  <2>1. Bad \in SUBSET Nat
    OBVIOUS
  <2> HIDE DEF Bad
  <2> QED BY <2>1, LeastNatural
<1>2. CASE n = 0
  <2>1. CallRun([i \in 0..0 |-> s], s, m, 0)
    BY DEF CallRun
  <2> QED BY <1>2, <2>1
<1>3. CASE n # 0
  <2>1. n - 1 \in Nat /\ n - 1 \notin Bad
    BY <1>1, <1>3
  <2>2. PICK g : CallRun(g, s, m, n - 1)
    BY <2>1
  <2> DEFINE h == [i \in 0..n |-> IF i < n THEN g[i] ELSE Mutate(g[n - 1], m)]
  <2>3. DOMAIN h = 0..n /\ h[0] = s
    BY <1>1, <1>3, <2>2 DEF CallRun
  <2>4. \A i \in 1..n : h[i] = Mutate(h[i - 1], m)
    <3> TAKE i \in 1..n
    <3>1. i \in 0..n /\ i - 1 \in 0..n /\ i - 1 < n
      BY <1>1
    <3>2. h[i - 1] = g[i - 1]
      BY <3>1
    <3>3. CASE i < n
      <4>1. i \in 1..(n - 1)
        BY <1>1, <3>3
      <4>2. g[i] = Mutate(g[i - 1], m)
        BY <2>2, <4>1 DEF CallRun
      <4> QED BY <3>1, <3>2, <3>3, <4>2
    <3>4. CASE i = n
      BY <3>1, <3>2, <3>4
    <3> QED BY <1>1, <3>3, <3>4
  <2> HIDE DEF h
  <2>5. CallRun(h, s, m, n)
    BY <2>3, <2>4 DEF CallRun
  <2> QED BY <1>1, <2>5
<1> QED
  BY <1>2, <1>3

(* Repeated gives the last store of the list.                              *)
LEMMA RepeatedRun ==
  ASSUME NEW s, NEW m, NEW N \in Nat
  PROVE  \E g : CallRun(g, s, m, N) /\ Repeated(s, m, N) = g[N]
<1> DEFINE Eq(g) == g = [k \in 0..N |-> IF k = 0 THEN s ELSE Mutate(g[k - 1], m)]
<1>1. Repeated(s, m, N) = (CHOOSE g : Eq(g))[N]
  BY DEF Repeated
<1>2. PICK h : CallRun(h, s, m, N)
  BY CallRunExists
<1>3. \E g : Eq(g)
  <2> DEFINE f == [k \in 0..N |-> h[k]]
  <2>1. ASSUME NEW k \in 0..N
        PROVE  f[k] = IF k = 0 THEN s ELSE Mutate(f[k - 1], m)
    <3>1. CASE k = 0
      BY <3>1, <1>2 DEF CallRun
    <3>2. CASE k # 0
      <4>1. k \in 1..N /\ k - 1 \in 0..N
        BY <3>2
      <4>2. h[k] = Mutate(h[k - 1], m)
        BY <1>2, <4>1 DEF CallRun
      <4> QED BY <3>2, <4>1, <4>2
    <3> QED BY <3>1, <3>2
  <2>2. f = [k \in 0..N |-> IF k = 0 THEN s ELSE Mutate(f[k - 1], m)]
    <3>1. DOMAIN f = 0..N /\ f = [k \in 0..N |-> f[k]]
      OBVIOUS
    <3> HIDE DEF f
    <3> QED BY <2>1, <3>1
  <2>3. Eq(f)
    BY <2>2
  <2> HIDE DEF f, Eq
  <2> QED BY <2>3
<1> DEFINE g == CHOOSE k : Eq(k)
<1>4. Eq(g)
  <2> HIDE DEF Eq
  <2> QED BY <1>3
<1> HIDE DEF g
<1>5. CallRun(g, s, m, N)
  <2>1. g = [k \in 0..N |-> IF k = 0 THEN s ELSE Mutate(g[k - 1], m)]
    BY <1>4
  <2>2. DOMAIN g = 0..N
    BY <2>1
  <2>3. \A k \in 0..N : g[k] = IF k = 0 THEN s ELSE Mutate(g[k - 1], m)
    BY <2>1
  <2> QED BY <2>2, <2>3 DEF CallRun
<1> QED
  BY <1>1, <1>5 DEF g

(* n undos go n steps down the line, n redos n steps up.                   *)
LEMMA LineUndone ==
  ASSUME NEW s, Inv(s), NEW H, Line(s, H), NEW n \in Nat, n <= Len(s.undo)
  PROVE  LET t == Repeated(s, UndoCmd, n)
         IN  /\ Inv(t) /\ Line(t, H)
             /\ Len(t.undo) = Len(s.undo) - n /\ Len(t.redo) = Len(s.redo) + n
<1> DEFINE At(k, t) == /\ Inv(t) /\ Line(t, H)
                       /\ Len(t.undo) = Len(s.undo) - k /\ Len(t.redo) = Len(s.redo) + k
<1>1. PICK g : CallRun(g, s, UndoCmd, n) /\ Repeated(s, UndoCmd, n) = g[n]
  BY RepeatedRun
<1>2. Len(s.undo) \in Nat /\ Len(s.redo) \in Nat
  BY DEF Inv
<1> DEFINE Bad == {k \in 0..n : ~At(k, g[k])}
<1> SUFFICES ASSUME Bad # {} PROVE FALSE
  <2>1. n \in 0..n
    OBVIOUS
  <2> QED BY <1>1, <2>1
<1>3. PICK k \in Bad : \A j \in Bad : k <= j
  <2>1. Bad \in SUBSET Nat
    OBVIOUS
  <2> HIDE DEF Bad
  <2> QED BY <2>1, LeastNatural
<1>4. k # 0
  BY <1>1, <1>2, <1>3 DEF CallRun
<1>5. k \in 1..n /\ k - 1 \in 0..n /\ k - 1 \notin Bad
  BY <1>3, <1>4
<1> DEFINE t == g[k - 1]
<1>6. At(k - 1, t)
  BY <1>5
<1>7. g[k] = Mutate(t, UndoCmd)
  BY <1>1, <1>5 DEF CallRun
<1> HIDE DEF t
<1>8. Len(t.undo) > 0
  BY <1>2, <1>5, <1>6
<1>9. t.undo # << >>
  BY <1>8
<1>10. At(k, g[k])
  <2>1. /\ Inv(g[k]) /\ Line(g[k], H)
        /\ Len(g[k].undo) = Len(t.undo) - 1 /\ Len(g[k].redo) = Len(t.redo) + 1
    BY <1>6, <1>7, <1>9, LineUndo
  <2> QED BY <1>2, <1>5, <1>6, <2>1
<1> QED
  BY <1>3, <1>10

LEMMA LineRedone ==
  ASSUME NEW s, Inv(s), NEW H, Line(s, H), NEW n \in Nat, n <= Len(s.redo)
  PROVE  LET t == Repeated(s, RedoCmd, n)
         IN  /\ Inv(t) /\ Line(t, H)
             /\ Len(t.undo) = Len(s.undo) + n /\ Len(t.redo) = Len(s.redo) - n
<1> DEFINE At(k, t) == /\ Inv(t) /\ Line(t, H)
                       /\ Len(t.undo) = Len(s.undo) + k /\ Len(t.redo) = Len(s.redo) - k
<1>1. PICK g : CallRun(g, s, RedoCmd, n) /\ Repeated(s, RedoCmd, n) = g[n]
  BY RepeatedRun
<1>2. Len(s.undo) \in Nat /\ Len(s.redo) \in Nat
  BY DEF Inv
<1> DEFINE Bad == {k \in 0..n : ~At(k, g[k])}
<1> SUFFICES ASSUME Bad # {} PROVE FALSE
  <2>1. n \in 0..n
    OBVIOUS
  <2> QED BY <1>1, <2>1
<1>3. PICK k \in Bad : \A j \in Bad : k <= j
  <2>1. Bad \in SUBSET Nat
    OBVIOUS
  <2> HIDE DEF Bad
  <2> QED BY <2>1, LeastNatural
<1>4. k # 0
  BY <1>1, <1>2, <1>3 DEF CallRun
<1>5. k \in 1..n /\ k - 1 \in 0..n /\ k - 1 \notin Bad
  BY <1>3, <1>4
<1> DEFINE t == g[k - 1]
<1>6. At(k - 1, t)
  BY <1>5
<1>7. g[k] = Mutate(t, RedoCmd)
  BY <1>1, <1>5 DEF CallRun
<1> HIDE DEF t
<1>8. Len(t.redo) > 0
  BY <1>2, <1>5, <1>6
<1>9. t.redo # << >>
  BY <1>8
<1>10. At(k, g[k])
  <2>1. /\ Inv(g[k]) /\ Line(g[k], H)
        /\ Len(g[k].undo) = Len(t.undo) + 1 /\ Len(g[k].redo) = Len(t.redo) - 1
    BY <1>6, <1>7, <1>9, LineRedo
  <2> QED BY <1>2, <1>5, <1>6, <2>1
<1> QED
  BY <1>3, <1>10

(* So a store on a line returns to where it was, either way round.         *)
LEMMA RoundTrip ==
  ASSUME NEW s, Inv(s), NEW H, Line(s, H)
  PROVE  /\ Repeated(Repeated(s, UndoCmd, Len(s.undo)), RedoCmd, Len(s.undo)).records = s.records
         /\ Repeated(Repeated(s, RedoCmd, Len(s.redo)), UndoCmd, Len(s.redo)).records = s.records
<1> DEFINE n == Len(s.undo)
           m == Len(s.redo)
           d == Repeated(s, UndoCmd, n)
           u == Repeated(s, RedoCmd, m)
<1>1. n \in Nat /\ m \in Nat /\ H[n] = s.records /\ Len(s.undo) = n /\ Len(s.redo) = m
  BY DEF Inv, Line
<1> HIDE DEF n, m
<1>a. n <= Len(s.undo) /\ m <= Len(s.redo)
  BY <1>1
<1>2. Inv(d) /\ Line(d, H) /\ Len(d.undo) = n - n /\ Len(d.redo) = m + n
  BY <1>1, <1>a, LineUndone
<1>3. Inv(u) /\ Line(u, H) /\ Len(u.undo) = n + m /\ Len(u.redo) = m - m
  BY <1>1, <1>a, LineRedone
<1> HIDE DEF d, u
<1>4. Repeated(d, RedoCmd, n).records = s.records
  <2> DEFINE t == Repeated(d, RedoCmd, n)
  <2>1. n <= Len(d.redo)
    BY <1>1, <1>2
  <2>2. Line(t, H) /\ Len(t.undo) = Len(d.undo) + n
    BY <1>1, <1>2, <2>1, LineRedone
  <2> HIDE DEF t
  <2>3. Len(t.undo) = n /\ H[Len(t.undo)] = t.records
    BY <1>1, <1>2, <2>2 DEF Line
  <2> QED BY <1>1, <2>3 DEF t
<1>5. Repeated(u, UndoCmd, m).records = s.records
  <2> DEFINE t == Repeated(u, UndoCmd, m)
  <2>1. m <= Len(u.undo)
    BY <1>1, <1>3
  <2>2. Line(t, H) /\ Len(t.undo) = Len(u.undo) - m
    BY <1>1, <1>3, <2>1, LineUndone
  <2> HIDE DEF t
  <2>3. Len(t.undo) = n /\ H[Len(t.undo)] = t.records
    BY <1>1, <1>3, <2>2 DEF Line
  <2> QED BY <1>1, <2>3 DEF t
<1> QED BY <1>4, <1>5 DEF n, m, d, u

OnLine == Inv(store) /\ \E H : Line(store, H)

(* For drafts that are not born void, and provided only inserts, patches   *)
(* and voids are rejected: undoing everything and redoing it, or redoing   *)
(* everything and undoing it, gives back the same records, after any       *)
(* mixture of mutations, undos, redos, rejections, drains and restores.    *)
(* A draft that is already void, or a rejected undo, breaks the line: the  *)
(* void its undo applies does not name the flag it finds.                  *)
THEOREM UndoAndRedoAreInverse ==
  ASSUME \A d \in Drafts : d["is_void"] = FALSE,
         RejectedCmds \subseteq {"insert", "patch", "void"}
  PROVE  Spec => []UndoRedoRoundTrip
<1>1. Init => OnLine
  <2> SUFFICES ASSUME Init PROVE OnLine
    OBVIOUS
  <2>1. Inv(store) /\ store.undo = << >> /\ store.redo = << >>
    BY NewStoreInv DEF Init, NewStore
  <2> QED BY <2>1, LineFresh DEF OnLine
<1>2. OnLine /\ Inv(store)' /\ [Next]_vars => OnLine'
  <2> SUFFICES ASSUME OnLine, Inv(store'), [Next]_vars PROVE \E G : Line(store', G)
    BY DEF OnLine
  <2>0. Inv(store) /\ DOMAIN store = StoreFields
    BY InvNames DEF OnLine
  <2>1. PICK H : Line(store, H)
    BY DEF OnLine
  <2>2. ASSUME NEW d \in Drafts, InsertQso(d) PROVE \E G : Line(store', G)
    <3>1. d \in QsoRecord /\ d["is_void"] = FALSE /\ store' = Mutate(store, InsertCmd(d))
      BY <2>2, InputsAssumption DEF InsertQso, Perform
    <3> QED BY <2>0, <2>1, <3>1, LineInsert
  <2>3. ASSUME NEW m \in Mutations, m.cmd \in {"patch", "void"}, Perform(m)
        PROVE  \E G : Line(store', G)
    <3>1. m \in Mutation /\ Succeeds(store, m) /\ store' = Mutate(store, m)
      BY <2>3, MutationsAreMutation DEF Perform
    <3> QED BY <2>0, <2>1, <2>3, <3>1, LineChange
  <2>4. ASSUME NEW id \in Ids, NEW p \in Patches, PatchQso(id, p) PROVE \E G : Line(store', G)
    BY <2>3, <2>4 DEF PatchQso, PatchCmd, Mutations
  <2>5. ASSUME NEW id \in Ids, NEW p \in Patches, PatchMissing(id, p)
        PROVE  \E G : Line(store', G)
    <3>1. store'.records = store.records /\ store'.undo = store.undo /\ store'.redo = store.redo
      BY <2>0, <2>5 DEF PatchMissing, FailedStore, StoreFields
    <3> QED BY <2>1, <3>1, LineKept
  <2>6. ASSUME NEW id \in Ids, VoidQso(id) PROVE \E G : Line(store', G)
    BY <2>3, <2>6 DEF VoidQso, VoidCmd, Mutations
  <2>7. CASE UndoLast
    <3>1. store.undo # << >> /\ store' = Mutate(store, UndoCmd)
      BY <2>7 DEF UndoLast, Perform, Succeeds, UndoCmd
    <3>2. Line(store', H)
      BY <2>0, <2>1, <3>1, LineUndo
    <3> QED BY <3>2
  <2>8. CASE RedoLast
    <3>1. store.redo # << >> /\ store' = Mutate(store, RedoCmd)
      BY <2>8 DEF RedoLast, Perform, Succeeds, RedoCmd
    <3>2. Line(store', H)
      BY <2>0, <2>1, <3>1, LineRedo
    <3> QED BY <3>2
  <2>9. ASSUME NEW m \in Mutations, RejectMutation(m) PROVE \E G : Line(store', G)
    <3>1. /\ m \in Mutation /\ m.cmd \in {"insert", "patch", "void"} /\ Succeeds(store, m)
          /\ store' = Rejected(store, m)
      BY <2>9, MutationsAreMutation DEF RejectMutation
    <3>2. store'.records = store.records /\ store'.undo = store.undo /\ store'.redo = << >>
      <4>1. CASE m.cmd = "insert"
        <5>1. PICK d \in QsoRecord : m = InsertCmd(d)
          BY <3>1, <4>1 DEF Mutation, InsertCmd, PatchCmd, VoidCmd, UndoCmd, RedoCmd
        <5>2. Visible(store') = Visible(store) /\ store'.undo = store.undo /\ store'.redo = << >>
          BY <2>0, <3>1, <5>1, RejectedInsert
        <5> QED BY <5>2 DEF Visible
      <4>2. CASE m.cmd \in {"patch", "void"}
        BY <2>0, <3>1, <4>2, RejectedChange
      <4> QED BY <3>1, <4>1, <4>2
    <3> QED BY <2>0, <2>1, <3>2, LineCut
  <2>10. CASE DrainPendingOps
    <3>1. store'.records = store.records /\ store'.undo = store.undo /\ store'.redo = store.redo
      BY <2>0, <2>10, ClearFields DEF DrainPendingOps
    <3> QED BY <2>1, <3>1, LineKept
  <2>11. CASE SaveAndRestore
    <3>1. store'.undo = << >> /\ store'.redo = << >>
      BY <2>11, NewStoreFields DEF SaveAndRestore, FromSnapshot, NewStore
    <3> QED BY <3>1, LineFresh
  <2>12. CASE UNCHANGED vars
    BY <2>1, <2>12 DEF vars
  <2> QED
    BY <2>2, <2>4, <2>5, <2>6, <2>7, <2>8, <2>9, <2>10, <2>11, <2>12 DEF Next
<1>3. OnLine => UndoRedoRoundTrip
  <2> SUFFICES ASSUME OnLine PROVE UndoRedoRoundTrip
    OBVIOUS
  <2>1. PICK H : Line(store, H)
    BY DEF OnLine
  <2> QED BY <2>1, RoundTrip DEF OnLine, UndoRedoRoundTrip
<1> QED
  BY <1>1, <1>2, <1>3, StoreInvariant, PTL DEF Spec

==============================================================================
