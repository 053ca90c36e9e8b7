------------------------------ MODULE EngineLaws ------------------------------
(***************************************************************************)
(* What a contest engine (engine/traits.rs:61) has to satisfy for the      *)
(* incremental projector to be right.  The trait states no laws; these say *)
(* that an engine's state is a tally of who holds which dependency key,    *)
(* and that a result is made up of what it has seen of each of its keys.   *)
(***************************************************************************)
EXTENDS Projector

CONSTANTS
  Tally(_),      \* the state when each id holds the keys that a map says
  Keys(_),       \* the keys that a QSO depends on
  View(_, _),    \* what there is to see of a key, given the ids that hold it
  Seen(_, _)     \* what a result has seen of a key

(* Who holds which keys.                                                   *)
Holding == UNION {[D -> {Keys(qso) : qso \in QsoRecord}] : D \in SUBSET Ids}

Holders(h, key) == {id \in DOMAIN h : key \in h[id]}

ResultsOf(qso) == {EngineApply(Tally(h), qso).applied : h \in Holding}

Results == UNION {ResultsOf(qso) : qso \in QsoRecord}

(* apply adds the keys of the QSO to the tally, and retract takes those of *)
(* the result away, whatever record it is given.                           *)
StateLaw ==
  /\ new_state = Tally(EmptyMap)
  /\ \A h \in Holding, qso \in QsoRecord : \A id \in Ids \ DOMAIN h :
       EngineApply(Tally(h), qso).state = Tally(MapInsert(h, id, Keys(qso)))
  /\ \A h \in Holding, qso \in QsoRecord : \A id \in DOMAIN h : \A a \in Results :
       a.deps = h[id] => EngineRetract(Tally(h), qso, a) = Tally(MapRemove(h, id))

(* A result depends on the keys of its QSO, and is determined by what it   *)
(* has seen of each of them.                                               *)
ResultLaw ==
  /\ \A h \in Holding, qso \in QsoRecord :
       LET applied == EngineApply(Tally(h), qso).applied
       IN  /\ applied.deps = Keys(qso)
           /\ \A key \in applied.deps : Seen(applied, key) = View(key, Holders(h, key))
  /\ \A qso \in QsoRecord : \A a, b \in ResultsOf(qso) :
       (\A key \in Keys(qso) : Seen(a, key) = Seen(b, key)) => a = b

(* diff_invalidation names the keys that only one of two results depends   *)
(* on and those of which they have seen different things.                  *)
DiffLaw ==
  \A a, b \in Results : \A key \in a.deps \cup b.deps :
    (key \in a.deps \cap b.deps => Seen(a, key) # Seen(b, key)) => key \in DiffInvalidation(a, b)

LawfulEngine == StateLaw /\ ResultLaw /\ DiffLaw

==============================================================================
