--------------------------- MODULE DurableLogProofs ---------------------------
(***************************************************************************)
(* What the abstract durable log guarantees, for every set of operations.  *)
(***************************************************************************)
EXTENDS DurableLog, SequenceTheorems, TLAPS

Inv ==
  /\ log \in Seq(Op) /\ upto \in Int
  /\ \A i \in DOMAIN log : log[i].seq \in Int
  /\ \A i, j \in DOMAIN log : i < j => log[i].seq < log[j].seq
  /\ NothingLost

(* ToSet of SequencesExt is the set of a sequence's elements.              *)
LEMMA ElementOf ==
  ASSUME NEW S, NEW s \in Seq(S), NEW e
  PROVE  e \in ToSet(s) <=> \E i \in 1..Len(s) : s[i] = e
BY DEF ToSet

(* An applied mutation adds its operation to the elements of the log.      *)
LEMMA ToSetAppend ==
  ASSUME NEW S, NEW s \in Seq(S), NEW e \in S
  PROVE  ToSet(Append(s, e)) = ToSet(s) \cup {e}
<1> DEFINE t == Append(s, e)
<1>1. t \in Seq(S) /\ Len(t) = Len(s) + 1 /\ t[Len(t)] = e
      /\ \A i \in 1..Len(s) : t[i] = s[i]
  OBVIOUS
<1>2. ASSUME NEW f PROVE f \in ToSet(t) <=> f \in ToSet(s) \cup {e}
  <2>1. f \in ToSet(t) <=> \E i \in 1..Len(t) : t[i] = f
    BY <1>1, ElementOf
  <2>2. f \in ToSet(s) <=> \E i \in 1..Len(s) : s[i] = f
    BY ElementOf
  <2> QED BY <2>1, <2>2, <1>1
<1> QED BY <1>2

(* Taking the last operation back leaves the other elements.               *)
LEMMA ToSetFront ==
  ASSUME NEW S, NEW s \in Seq(S), s # << >>
  PROVE  /\ Front(s) \in Seq(S)
         /\ ToSet(s) \subseteq ToSet(Front(s)) \cup {Last(s)}
         /\ ToSet(Front(s)) \subseteq ToSet(s)
         /\ Len(Front(s)) = Len(s) - 1
         /\ \A i \in DOMAIN Front(s) : i \in DOMAIN s /\ Front(s)[i] = s[i]
<1> DEFINE f == Front(s)
<1>1. Len(s) \in Nat \ {0} /\ Last(s) = s[Len(s)]
  BY DEF Last
<1>2. f \in Seq(S) /\ Len(f) = Len(s) - 1 /\ \A i \in 1..Len(f) : f[i] = s[i]
  <2> DEFINE n == Len(s) - 1
  <2>1. n \in Nat /\ \A i \in 1..n : s[i] \in S
    BY <1>1
  <2> HIDE DEF n
  <2>2. /\ SubSeq(s, 1, n) \in Seq(S)
        /\ Len(SubSeq(s, 1, n)) = IF 1 <= n THEN n - 1 + 1 ELSE 0
        /\ \A i \in 1..(n - 1 + 1) : SubSeq(s, 1, n)[i] = s[1 + i - 1]
    BY <2>1, SubSeqProperties
  <2>3. Len(SubSeq(s, 1, n)) = n /\ \A i \in 1..n : SubSeq(s, 1, n)[i] = s[i]
    BY <2>1, <2>2
  <2> QED BY <2>2, <2>3 DEF Front, n
<1>3. ASSUME NEW e PROVE /\ e \in ToSet(s) => e \in ToSet(f) \cup {Last(s)}
                         /\ e \in ToSet(f) => e \in ToSet(s)
  <2>1. e \in ToSet(f) <=> \E i \in 1..Len(f) : f[i] = e
    BY <1>2, ElementOf
  <2>2. e \in ToSet(s) <=> \E i \in 1..Len(s) : s[i] = e
    BY ElementOf
  <2> QED BY <2>1, <2>2, <1>2, <1>1
<1> QED BY <1>2, <1>1, <1>3

(* The invariant holds at the start and is kept by every step: a mutation  *)
(* goes on the way to disk, and each of the other steps takes operations   *)
(* off it only as saved, told or withdrawn.                                *)
LEMMA Inductive == Spec => []Inv
<1>1. Init => Inv
  BY DEF Init, Inv, NothingLost, ToSet
<1>2. Inv /\ [Next]_vars => Inv'
  <2> SUFFICES ASSUME Inv, [Next]_vars PROVE Inv'
    OBVIOUS
  <2> USE DEF Inv, NothingLost
  <2>1. CASE Add
    <3> DEFINE e == Last(log')
    <3>1. /\ e \in Op /\ log' = Append(log, e) /\ e.seq \in Int /\ e.seq > upto
          /\ \A i \in DOMAIN log : log[i].seq < e.seq
      BY <2>1 DEF Add, ToSet
    <3>2. pending' = pending \cup {e} /\ saved' = saved /\ told' = told /\ upto' = upto
      BY <2>1 DEF Add
    <3> HIDE DEF e
    <3>3. ToSet(log') = ToSet(log) \cup {e}
      BY <3>1, ToSetAppend
    <3>4. /\ log' \in Seq(Op) /\ \A i \in DOMAIN log' : log'[i].seq \in Int
          /\ \A i, j \in DOMAIN log' : i < j => log'[i].seq < log'[j].seq
      BY <3>1
    <3>5. \A o \in ToSet(log') : o.seq <= upto' => o \in saved' \cup told'
      BY <3>1, <3>3, <3>2
    <3> QED BY <3>3, <3>2, <3>4, <3>5
  <2>2. CASE Save
    BY <2>2 DEF Save
  <2>3. CASE Tell
    BY <2>3 DEF Tell
  <2>4. CASE Announce
    BY <2>4 DEF Announce
  <2>5. CASE Withdraw
    <3>1. /\ log' = Front(log) /\ log # << >> /\ Last(log) \notin saved
          /\ pending' = pending \ {Last(log)}
          /\ saved' = saved /\ told' = told /\ upto' = upto
      BY <2>5 DEF Withdraw
    <3>2. /\ log' \in Seq(Op)
          /\ ToSet(log) \subseteq ToSet(log') \cup {Last(log)}
          /\ ToSet(log') \subseteq ToSet(log)
          /\ Len(log') = Len(log) - 1
          /\ \A i \in DOMAIN log' : i \in DOMAIN log /\ log'[i] = log[i]
      BY <3>1, ToSetFront
    <3>3. \A o \in ToSet(log') : o \in ToSet(log) /\ (o.seq <= upto => o \in saved \cup told)
      BY <3>2
    <3>4. /\ saved \subseteq ToSet(log') /\ \A i \in DOMAIN log' : log'[i].seq \in Int
          /\ \A i, j \in DOMAIN log' : i < j => log'[i].seq < log'[j].seq
      BY <3>1, <3>2
    <3>5. Last(log) \notin ToSet(log')
      <4>1. ASSUME NEW i \in DOMAIN log' PROVE log'[i] # Last(log)
        <5>1. i \in DOMAIN log /\ log'[i] = log[i] /\ i < Len(log) /\ Last(log) = log[Len(log)]
              /\ Len(log) \in DOMAIN log
          BY <3>1, <3>2, ToSetFront DEF Last
        <5>2. log[i].seq < log[Len(log)].seq /\ log[i].seq \in Int /\ log[Len(log)].seq \in Int
          BY <5>1
        <5> QED BY <5>1, <5>2
      <4> QED BY <4>1 DEF ToSet
    <3>6. ToSet(log') \subseteq pending' \cup saved' \cup told'
      BY <3>1, <3>2, <3>5
    <3> QED BY <3>1, <3>2, <3>3, <3>4, <3>6
  <2>6. CASE Crash
    <3>1. /\ log' \in Seq(Op) /\ ToSet(log') = ToSet(log) \cap saved
          /\ upto' = 0 /\ saved' = saved
          /\ KeepsOrderOf(log', log)
      BY <2>6 DEF Crash
    <3>2. \A i \in DOMAIN log' : log'[i].seq \in Int
      BY <3>1 DEF ToSet
    <3>3. \A i, j \in DOMAIN log' : i < j => log'[i].seq < log'[j].seq
      BY <3>1 DEF KeepsOrderOf
    <3> QED BY <3>1, <3>2, <3>3
  <2>7. CASE UNCHANGED vars
    BY <2>7 DEF vars
  <2> QED BY <2>1, <2>2, <2>3, <2>4, <2>5, <2>6, <2>7 DEF Next
<1> QED BY <1>1, <1>2, PTL DEF Spec

(* Whatever implements DurableLog loses no operation without a word, keeps *)
(* on disk only what is in the log, and announces durability only for what *)
(* is saved or was told lost (README.md:57, runtime/events.rs:27).         *)
THEOREM NothingIsLost == Spec => []NothingLost
<1>1. Inv => NothingLost
  BY DEF Inv
<1> QED BY <1>1, Inductive, PTL

==============================================================================
