------------------------------- MODULE QsoStore -------------------------------
(***************************************************************************)
(* The store component (core/store.rs) driven through its API: the five    *)
(* mutations, the mutation that the runtime rolls back because it could    *)
(* not be persisted, the draining of emitted operations into a journal,    *)
(* and the save/restore of a snapshot.  `replica` is a second store built  *)
(* only by replaying the journal, the way SqliteOpSink::load_store does.   *)
(***************************************************************************)
EXTENDS QsoStoreOps

CONSTANTS Drafts,        \* drafts a caller may insert
          Patches,       \* patches a caller may apply
          RejectedCmds,  \* kinds of mutation that may be rolled back
          MaxQsos,       \* bound: ids assigned
          MaxOps         \* bound: operation sequence numbers taken

ASSUME InputsAssumption == /\ Drafts \subseteq QsoRecord
                           /\ Patches \subseteq QsoPatch
ASSUME RejectedAssumption == RejectedCmds \subseteq {"insert", "patch", "void", "undo", "redo"}
ASSUME BoundsAssumption == MaxQsos \in Nat /\ MaxOps \in Nat

VARIABLES store,    \* the authoritative store
          replica   \* a store that only ever replayed drained operations

vars == <<store, replica>>

Init == /\ store = NewStore
        /\ replica = NewStore

------------------------------------------------------------------------------
Perform(m) == /\ store.next_op_seq <= MaxOps
              /\ Succeeds(store, m)
              /\ store' = Mutate(store, m)
              /\ UNCHANGED replica

InsertQso(draft) == /\ store.next_qso_id <= MaxQsos
                    /\ Perform(InsertCmd(draft))

PatchQso(id, patch) == Perform(PatchCmd(id, patch))

(* MissingQso: the error still costs a sequence number.                    *)
PatchMissing(id, patch) ==
  /\ store.next_op_seq <= MaxOps
  /\ ~Succeeds(store, PatchCmd(id, patch))
  /\ store' = FailedStore(store, PatchCmd(id, patch))
  /\ UNCHANGED replica

VoidQso(id) == Perform(VoidCmd(id))

UndoLast == Perform(UndoCmd)

RedoLast == Perform(RedoCmd)

RejectMutation(m) ==
  /\ m.cmd \in RejectedCmds
  /\ store.pending_ops = << >>
  /\ store.next_op_seq <= MaxOps
  /\ m.cmd = "insert" => store.next_qso_id <= MaxQsos
  /\ Succeeds(store, m)
  /\ store' = Rejected(store, m)
  /\ UNCHANGED replica

(* drain_pending_ops: the drained operations reach the journal, and the    *)
(* replica replays them.                                                   *)
DrainPendingOps ==
  /\ store.pending_ops # << >>
  /\ replica' = ReplayAll(replica, store.pending_ops)
  /\ store' = ClearPendingOps(store)

(* A snapshot is exported once the buffer is drained, and a new store is   *)
(* built from it.                                                          *)
SaveAndRestore ==
  /\ store.pending_ops = << >>
  /\ store' = FromSnapshot(ExportSnapshot(store))
  /\ UNCHANGED replica

Ids == 1..MaxQsos

Mutations ==
  {InsertCmd(d) : d \in Drafts} \cup {PatchCmd(id, p) : id \in Ids, p \in Patches}
    \cup {VoidCmd(id) : id \in Ids} \cup {UndoCmd, RedoCmd}

Next ==
  \/ \E d \in Drafts : InsertQso(d)
  \/ \E id \in Ids, p \in Patches : PatchQso(id, p)
  \/ \E id \in Ids, p \in Patches : PatchMissing(id, p)
  \/ \E id \in Ids : VoidQso(id)
  \/ UndoLast
  \/ RedoLast
  \/ \E m \in Mutations : RejectMutation(m)
  \/ DrainPendingOps
  \/ SaveAndRestore

Spec == Init /\ [][Next]_vars

------------------------------------------------------------------------------
(* Properties                                                              *)

(* Type invariant of the store struct (core/store.rs:47).  It also says    *)
(* that an Insert is never on a stack: undoing an insert voids the record. *)
TypeOK == StoreType(store)

(* `order`, `pos` and `records` describe the same set of QSOs, `pos` is    *)
(* the inverse of `order`, ids grow along the canonical order and the next *)
(* id is fresh, so insert never fails with AlreadyExists                   *)
(* (core/store.rs:324): after inserts that are rolled back (the pos        *)
(* renumbering of core/store.rs:543), snapshots and restores alike.        *)
OrderConsistent == OrderOK(store.records, store.order, store.pos, store.next_qso_id)

(* What debug_assert_indices_consistent (core/store.rs:498) asserts after  *)
(* a patch only, after every operation: an entry of by_call or by_contest  *)
(* lists exactly the records with that key, once each, in canonical order. *)
IndicesConsistent == /\ IndexOK(store.records, store.pos, store.by_call, "call")
                     /\ IndexOK(store.records, store.pos, store.by_contest, "contest")

(* Every operation waiting on the undo or redo stack names a record that   *)
(* still exists, so undo and redo (core/store.rs:168, 177) never pop an    *)
(* entry and then fail with MissingQso, although a rolled back insert      *)
(* takes its record away.                                                  *)
StacksApplicable == StacksOK(store)

(* Journal plus buffered operations determine the store: replaying them    *)
(* with apply_replayed_op (core/store.rs:188) gives the same records,      *)
(* order and indices that undo, redo, rollback and restore arrived at.     *)
JournalReproducesStore ==
  Visible(ReplayAll(replica, store.pending_ops)) = Visible(store)

(* The store after n calls of the mutation m.                              *)
Repeated(s, m, n) ==
  LET after[k \in 0..n] == IF k = 0 THEN s ELSE Mutate(after[k - 1], m)
  IN  after[n]

(* Undoing everything and redoing it, or redoing everything and undoing    *)
(* it, gives back the same records (tests/property_invariants.rs:147       *)
(* asserts the first half for drafts with default flags).                  *)
UndoRedoRoundTrip ==
  /\ LET n == Len(store.undo)
     IN  Repeated(Repeated(store, UndoCmd, n), RedoCmd, n).records = store.records
  /\ LET n == Len(store.redo)
     IN  Repeated(Repeated(store, RedoCmd, n), UndoCmd, n).records = store.records

(* Canonical order is insertion order and never reorders (README.md:25):   *)
(* no operation, a rolled back one included, moves or drops an id that was *)
(* in `order`, and ids assigned by the store never go back.                *)
CanonicalOrder ==
  [][ /\ Len(store.order) <= Len(store'.order)
      /\ \A i \in DOMAIN store.order : store'.order[i] = store.order[i]
      /\ store.next_qso_id <= store'.next_qso_id ]_vars

(* A rejected mutation leaves the visible log as it was                    *)
(* (tests/runtime_smoke.rs:192: "store should not retain mutations         *)
(* rejected by persistence queue").                                        *)
RejectionKeepsLog ==
  [][ (\E m \in Mutations : RejectMutation(m)) => Visible(store') = Visible(store) ]_vars

==============================================================================
