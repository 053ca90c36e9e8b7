------------------------------- MODULE Projector -------------------------------
(***************************************************************************)
(* The incremental projector (engine/projector.rs) over a store: after a   *)
(* mutation its stored operation is handed to apply_stored_op together     *)
(* with the store as it is by then, which may be further on.  The backlog  *)
(* of operations is the store's own pending_ops.                           *)
(*                                                                         *)
(* The contest engine (engine/traits.rs) is a parameter.  A HashMap from   *)
(* dependency keys to sets of ids is the relation of its <<key, id>>       *)
(* pairs; an Option is a set of at most one element.                       *)
(***************************************************************************)
EXTENDS QsoStoreOps

CONSTANTS
  new_state,                 \* trait ContestEngine: the empty state,
  EngineApply(_, _),         \* apply(state, qso): the new state and the result,
  EngineRetract(_, _, _),    \* retract(state, qso, applied): the new state,
  DiffInvalidation(_, _),    \* diff_invalidation(old, new): a set of keys
  Drafts, Patches,           \* inputs of insert and patch
  MaxQsos, MaxOps,           \* bounds: ids and sequence numbers
  MaxLag                     \* bound: operations the projector is behind

ASSUME ProjectorInputsAssumption ==
  /\ Drafts \subseteq QsoRecord /\ Patches \subseteq QsoPatch
  /\ {MaxQsos, MaxOps, MaxLag} \subseteq Nat

VARIABLES store,    \* the store, its pending_ops not projected yet
          proj,     \* the Projector
          shown,    \* history: the record each applied result was made from
          misled,   \* history: a retract was given another record
          lagged    \* history: an operation was projected late

vars == <<store, proj, shown, misled, lagged>>

NewProjector == [state |-> new_state, applied |-> EmptyMap, dep_index |-> {}]

Init == /\ store = NewStore
        /\ proj = NewProjector
        /\ shown = EmptyMap /\ misled = FALSE /\ lagged = FALSE

------------------------------------------------------------------------------
(* recompute_impacted                                                      *)

Links(id, deps) == {<<key, id>> : key \in deps}

(* The record a retract is given: for the changed QSO, in the first round, *)
(* the one rebuilt from the operation.                                     *)
RecordForRetract(s, id, changed, old) ==
  IF id = changed /\ old # {} THEN CHOOSE q \in old : TRUE ELSE s.records[id]

(* Mutant: the links of a retracted result stay.                           *)
RetractKeepsLinks(s, changed, old, p, id) ==
  [state     |-> EngineRetract(p.state, RecordForRetract(s, id, changed, old), p.applied[id]),
   applied   |-> MapRemove(p.applied, id),
   dep_index |-> p.dep_index]

RetractOne(s, changed, old, p, id) ==
  [state     |-> EngineRetract(p.state, RecordForRetract(s, id, changed, old), p.applied[id]),
   applied   |-> MapRemove(p.applied, id),
   dep_index |-> p.dep_index \ Links(id, p.applied[id].deps)]

ApplyOne(s, p, id) ==
  LET out == EngineApply(p.state, s.records[id])
  IN  [state     |-> out.state,
       applied   |-> MapInsert(p.applied, id, out.applied),
       dep_index |-> p.dep_index \cup Links(id, out.applied.deps)]

(* The two passes over ordered_ids: what is known of the impacted QSOs is  *)
(* retracted, then those that are not void are applied.                    *)
RetractImpacted(p, s, impacted, changed, old) ==
  LET upTo[i \in 0..Len(s.order)] ==
        IF i = 0 THEN p
        ELSE IF s.order[i] \in impacted \cap DOMAIN upTo[i - 1].applied
        THEN RetractOne(s, changed, old, upTo[i - 1], s.order[i])
        ELSE upTo[i - 1]
  IN  upTo[Len(s.order)]

ApplyImpacted(p, s, impacted) ==
  LET upTo[i \in 0..Len(s.order)] ==
        IF i = 0 THEN p
        ELSE IF s.order[i] \in impacted /\ ~s.records[s.order[i]]["is_void"]
        THEN ApplyOne(s, upTo[i - 1], s.order[i])
        ELSE upTo[i - 1]
  IN  upTo[Len(s.order)]

(* Mutant: a QSO that was not applied before touches no key.               *)
KeysChangedOfKnown(before, after, id) ==
  CASE id \in DOMAIN before /\ id \in DOMAIN after ->
         IF before[id] = after[id] THEN {} ELSE DiffInvalidation(before[id], after[id])
    [] id \in DOMAIN before /\ id \notin DOMAIN after -> before[id].deps
    [] OTHER -> {}

KeysChanged(before, after, id) ==
  CASE id \in DOMAIN before /\ id \in DOMAIN after ->
         IF before[id] = after[id] THEN {} ELSE DiffInvalidation(before[id], after[id])
    [] id \in DOMAIN before /\ id \notin DOMAIN after -> before[id].deps
    [] id \notin DOMAIN before /\ id \in DOMAIN after -> after[id].deps
    [] OTHER -> {}

------------------------------------------------------------------------------
(* incremental_reconcile                                                   *)

DependentsOf(p, keys) == {link[2] : link \in {l \in p.dep_index : l[1] \in keys}}

FirstImpacted(p, id) ==
  {id} \cup (IF id \in DOMAIN p.applied THEN DependentsOf(p, p.applied[id].deps) ELSE {})

(* One turn of the loop, until no new QSO is impacted.  The rebuilt record *)
(* is used in the first turn only.                                         *)
Round(s, changed, old, r, n) ==
  LET p    == ApplyImpacted(RetractImpacted(r.proj, s, r.impacted, changed, IF n = 1 THEN old ELSE {}),
                            s, r.impacted)
      keys == UNION {KeysChanged(r.proj.applied, p.applied, id) : id \in r.impacted}
      more == DependentsOf(p, keys) \ r.impacted
  IN  IF r.done THEN r
      ELSE [proj |-> p, impacted |-> r.impacted \cup more, done |-> more = {}]

(* Every turn but the last impacts a QSO more, so there are not more turns *)
(* than QSOs, and one.                                                     *)
IncrementalReconcile(p, s, changed, old) ==
  LET turn[n \in 0..(Len(s.order) + 1)] ==
        IF n = 0 THEN [proj |-> p, impacted |-> FirstImpacted(p, changed), done |-> FALSE]
        ELSE Round(s, changed, old, turn[n - 1], n)
  IN  turn[Len(s.order) + 1]

------------------------------------------------------------------------------
(* apply_stored_op                                                         *)

(* Mutant: the flag of a voided record is left as it is now.               *)
OldRecordVoided(s, op) ==
  CASE op.type = "Insert" -> {}
    [] op.type = "Patch"  -> {ApplyTo(op.prev, s.records[op.id])}
    [] op.type = "Void"   -> {s.records[op.id]}

(* The record as it was before the operation, if the store is not further  *)
(* on than the operation.                                                  *)
OldRecord(s, op) ==
  CASE op.type = "Insert" -> {}
    [] op.type = "Patch"  -> {ApplyTo(op.prev, s.records[op.id])}
    [] op.type = "Void"   -> {[s.records[op.id] EXCEPT !["is_void"] = op.prev_is_void]}

(* MissingQso otherwise.                                                   *)
Projectable(s, op) == op.type = "Insert" \/ op.id \in DOMAIN s.records

Project ==
  LET op   == Head(store.pending_ops).op
      old  == OldRecord(store, op)
      done == IncrementalReconcile(proj, store, op.id, old)
  IN
  /\ store.pending_ops # << >>
  /\ Projectable(store, op)
  /\ proj' = done.proj
  /\ store' = [store EXCEPT !.pending_ops = Tail(@)]
  /\ shown' = [id \in DOMAIN done.proj.applied |->
                 IF id \in done.impacted THEN store.records[id] ELSE shown[id]]
  /\ misled' = (misled \/ \E id \in DOMAIN proj.applied \cap done.impacted :
                   shown[id] # RecordForRetract(store, id, op.id, old))
  /\ lagged' = (lagged \/ Len(store.pending_ops) > 1)

Ids == 1..MaxQsos

Mutations ==
  {InsertCmd(d) : d \in Drafts} \cup {PatchCmd(id, p) : id \in Ids, p \in Patches}
    \cup {VoidCmd(id) : id \in Ids} \cup {UndoCmd, RedoCmd}

(* The store moves on, ahead of the projector.                             *)
MutateStore(m) ==
  /\ store.next_op_seq <= MaxOps
  /\ m.cmd = "insert" => store.next_qso_id <= MaxQsos
  /\ Len(store.pending_ops) <= MaxLag
  /\ Succeeds(store, m)
  /\ store' = Mutate(store, m)
  /\ UNCHANGED <<proj, shown, misled, lagged>>

Next == Project \/ \E m \in Mutations : MutateStore(m)

Spec == Init /\ [][Next]_vars

------------------------------------------------------------------------------
(* Properties                                                              *)

(* Type invariant of the Projector struct (engine/projector.rs:24): it     *)
(* knows only QSOs of the store, and no operation waiting to be projected  *)
(* will fail with MissingQso.                                              *)
TypeOK ==
  /\ DOMAIN proj.applied \subseteq DOMAIN store.records
  /\ DOMAIN shown = DOMAIN proj.applied
  /\ \A link \in proj.dep_index : link[2] \in DOMAIN proj.applied
  /\ \A i \in DOMAIN store.pending_ops : Projectable(store, store.pending_ops[i].op)

(* The whole store evaluated in canonical order, as the tests do it in     *)
(* full_recompute_projection.                                              *)
FullRecompute(s) ==
  LET upTo[i \in 0..Len(s.order)] ==
        IF i = 0 THEN NewProjector
        ELSE IF s.records[s.order[i]]["is_void"] THEN upTo[i - 1]
        ELSE ApplyOne(s, upTo[i - 1], s.order[i])
  IN  upTo[Len(s.order)]

(* Once no operation waits, the incremental results, the engine's state    *)
(* and the dependency links are those of evaluating the whole store again  *)
(* (tests/engine_incremental.rs:289), also when the store was ahead of the *)
(* operations while they were projected (engine/projector.rs:77).          *)
ProjectionMatchesRecompute == store.pending_ops = << >> => proj = FullRecompute(store)

(* A retract (engine/traits.rs:72, "Retracts one previously applied QSO    *)
(* from state") gets the record its result was made from, although the     *)
(* store does not keep it, as long as operations are projected at once.    *)
RetractsAsApplied == ~lagged => ~misled

==============================================================================
