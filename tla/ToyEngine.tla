------------------------------ MODULE ToyEngine -------------------------------
(***************************************************************************)
(* The contest engine of tests/engine_incremental.rs: a QSO is a duplicate *)
(* if an earlier one has the same call on the same band and mode, and a    *)
(* new multiplier if no earlier one has its prefix on that band.  Band and *)
(* mode are the model's `rest`.  The two count maps are one, as their keys *)
(* are never the same.                                                     *)
(***************************************************************************)
EXTENDS EngineLaws

CONSTANT Prefix    \* the first letter of each call

ToyKeys(qso) == {<<"dupe", qso["call"], qso["rest"]>>, <<"mult", Prefix[qso["call"]], qso["rest"]>>}

Count(state, key) == IF key \in DOMAIN state THEN state[key] ELSE 0

ToyApply(state, qso) ==
  LET keys  == ToyKeys(qso)
      seen(kind) == \E key \in keys : key[1] = kind /\ Count(state, key) > 0
  IN  [state   |-> [key \in DOMAIN state \cup keys |-> Count(state, key) + (IF key \in keys THEN 1 ELSE 0)],
       applied |-> [eval |-> [is_dupe |-> seen("dupe"), is_new_mult |-> ~seen("mult")],
                    deps |-> keys]]

ToyRetract(state, qso, applied) ==
  LET gone == {key \in applied.deps \cap DOMAIN state : state[key] <= 1}
  IN  [key \in DOMAIN state \ gone |-> state[key] - (IF key \in applied.deps THEN 1 ELSE 0)]

ToyDiff(old, new) ==
  (old.deps \ new.deps) \cup (new.deps \ old.deps)
    \cup (IF old.eval # new.eval THEN old.deps \cup new.deps ELSE {})

------------------------------------------------------------------------------
(* Why it is a lawful engine: the state counts the QSOs that hold a key,   *)
(* and a result tells of each of its keys whether any did.                 *)

ToyTally(h) == [key \in UNION {h[id] : id \in DOMAIN h} |-> Cardinality(Holders(h, key))]

ToyView(key, ids) == ids # {}

ToySeen(applied, key) ==
  IF key[1] = "dupe" THEN applied.eval.is_dupe ELSE ~applied.eval.is_new_mult

==============================================================================
