-------------------------- MODULE QsoStoreOpsProofs --------------------------
(***************************************************************************)
(* Lemmas about the operators of QsoStoreOps, for every set of calls,      *)
(* contests and other values: what each of them does to a store that       *)
(* satisfies the invariant Inv.  The proofs about QsoStore, QsoLog and     *)
(* Projector rest on them.                                                 *)
(***************************************************************************)
EXTENDS QsoStoreOps, SequenceTheorems, FiniteSetTheorems, WellFoundedInduction, TLAPS

------------------------------------------------------------------------------
(* Numbers and sequences                                                   *)

LessThan == {p \in Nat \X Nat : p[1] < p[2]}

(* Every nonempty set of naturals has a least element.                     *)
LEMMA LeastNatural ==
  ASSUME NEW T \in SUBSET Nat, T # {}
  PROVE  \E m \in T : \A n \in T : m <= n
<1>1. IsWellFoundedOn(LessThan, Nat)
  BY NatLessThanWellFounded, Zenon DEF OpToRel, LessThan
<1>2. PICK m \in T : \A n \in T : ~ (<<n, m>> \in LessThan)
  BY <1>1, WFMin
<1>3. \A n \in Nat : n < m => <<n, m>> \in LessThan
  BY DEF LessThan
<1>4. \A n \in T : ~ (n < m)
  BY <1>2, <1>3
<1>5. \A n \in T : m <= n
  BY <1>4
<1> QED
  BY <1>5

(* What Vec::remove(i) leaves.                                             *)
LEMMA RemoveAtProps ==
  ASSUME NEW S, NEW s \in Seq(S), NEW i \in 1..Len(s)
  PROVE  /\ RemoveAt(s, i) \in Seq(S)
         /\ Len(RemoveAt(s, i)) = Len(s) - 1
         /\ \A k \in 1..(Len(s) - 1) :
              RemoveAt(s, i)[k] = IF k < i THEN s[k] ELSE s[k + 1]
<1> DEFINE u == SubSeq(s, 1, i - 1)
           v == SubSeq(s, i + 1, Len(s))
<1>1. u \in Seq(S) /\ Len(u) = i - 1 /\ \A k \in 1..(i - 1) : u[k] = s[k]
  OBVIOUS
<1>2. v \in Seq(S) /\ Len(v) = Len(s) - i /\ \A k \in 1..(Len(s) - i) : v[k] = s[i + k]
  OBVIOUS
<1>3. RemoveAt(s, i) = u \o v
  BY DEF RemoveAt
<1> HIDE DEF u, v
<1>4. /\ u \o v \in Seq(S) /\ Len(u \o v) = Len(u) + Len(v)
      /\ \A k \in 1..Len(u) + Len(v) : (u \o v)[k] = IF k <= Len(u) THEN u[k] ELSE v[k - Len(u)]
  <2>1. u \in Seq(S) /\ v \in Seq(S)
    BY <1>1, <1>2
  <2> QED BY ONLY <2>1, ConcatProperties
<1>5. ASSUME NEW k \in 1..(Len(s) - 1)
      PROVE  (u \o v)[k] = IF k < i THEN s[k] ELSE s[k + 1]
  <2>1. CASE k < i
    BY <2>1, <1>1, <1>2, <1>4
  <2>2. CASE ~ (k < i)
    <3>1. k - Len(u) \in 1..(Len(s) - i) /\ i + (k - Len(u)) = k + 1
      BY <2>2, <1>1
    <3>2. v[k - Len(u)] = s[k + 1]
      BY <3>1, <1>2
    <3>3. k \in 1..Len(u) + Len(v) /\ ~ (k <= Len(u))
      BY <2>2, <1>1, <1>2
    <3>4. (u \o v)[k] = v[k - Len(u)]
      BY <3>3, <1>4
    <3> QED BY <3>2, <3>4, <2>2
  <2> QED BY <2>1, <2>2
<1> QED
  BY <1>1, <1>2, <1>3, <1>4, <1>5

(* What Vec::insert(i, e) gives.                                           *)
LEMMA InsertAtProps ==
  ASSUME NEW S, NEW s \in Seq(S), NEW i \in 1..(Len(s) + 1), NEW e \in S
  PROVE  /\ InsertAt(s, i, e) \in Seq(S)
         /\ Len(InsertAt(s, i, e)) = Len(s) + 1
         /\ \A k \in 1..(Len(s) + 1) :
              InsertAt(s, i, e)[k] = IF k < i THEN s[k] ELSE IF k = i THEN e ELSE s[k - 1]
<1> DEFINE u == SubSeq(s, 1, i - 1)
           v == SubSeq(s, i, Len(s))
<1>1. u \in Seq(S) /\ Len(u) = i - 1 /\ \A k \in 1..(i - 1) : u[k] = s[k]
  OBVIOUS
<1>2. v \in Seq(S) /\ Len(v) = Len(s) - i + 1 /\ \A k \in 1..(Len(s) - i + 1) : v[k] = s[i + k - 1]
  OBVIOUS
<1>3. <<e>> \in Seq(S) /\ Len(<<e>>) = 1 /\ <<e>>[1] = e
  OBVIOUS
<1>4. InsertAt(s, i, e) = (u \o <<e>>) \o v
  BY DEF InsertAt
<1> HIDE DEF u, v
<1>5. /\ u \o <<e>> \in Seq(S) /\ Len(u \o <<e>>) = i
      /\ \A k \in 1..i : (u \o <<e>>)[k] = IF k < i THEN u[k] ELSE e
  BY <1>1, <1>3
<1> QED
  BY <1>1, <1>2, <1>4, <1>5

------------------------------------------------------------------------------
(* Index entries                                                           *)

(* retain(|v| v != id) on an entry that lists no id twice drops id and     *)
(* keeps the rest in order.                                                *)
LEMMA RetainProps ==
  ASSUME NEW ids \in Seq(QsoId), NEW id,
         \A i, j \in DOMAIN ids : i < j => ids[i] # ids[j]
  PROVE  /\ Retain(ids, id) \in Seq(QsoId)
         /\ \A i \in DOMAIN ids :
              ids[i] # id => \E k \in DOMAIN Retain(ids, id) : Retain(ids, id)[k] = ids[i]
         /\ \A k \in DOMAIN Retain(ids, id) : Retain(ids, id)[k] # id
         /\ \A k \in DOMAIN Retain(ids, id) : \E i \in DOMAIN ids : Retain(ids, id)[k] = ids[i]
         /\ \A k, l \in DOMAIN Retain(ids, id) : k < l =>
              \E i, j \in DOMAIN ids : /\ i < j
                                       /\ Retain(ids, id)[k] = ids[i]
                                       /\ Retain(ids, id)[l] = ids[j]
<1>1. CASE \A i \in DOMAIN ids : ids[i] # id
  BY <1>1 DEF Retain
<1>2. CASE \E i \in DOMAIN ids : ids[i] = id
  <2> DEFINE n == CHOOSE i \in DOMAIN ids : ids[i] = id
             t == RemoveAt(ids, n)
  <2>1. n \in 1..Len(ids) /\ ids[n] = id
    BY <1>2
  <2>2. Retain(ids, id) = t
    BY <1>2 DEF Retain
  <2> HIDE DEF n
  <2>3. /\ t \in Seq(QsoId) /\ Len(t) = Len(ids) - 1
        /\ \A k \in 1..(Len(ids) - 1) : t[k] = IF k < n THEN ids[k] ELSE ids[k + 1]
    BY <2>1, RemoveAtProps
  <2> HIDE DEF t
  <2>4. \A i \in DOMAIN ids : ids[i] = id => i = n
    BY <2>1
  <2>5. ASSUME NEW i \in DOMAIN ids, ids[i] # id
        PROVE  \E k \in DOMAIN t : t[k] = ids[i]
    <3>1. CASE i < n
      BY <3>1, <2>1, <2>3
    <3>2. CASE i > n
      <4>1. i - 1 \in DOMAIN t /\ t[i - 1] = ids[i]
        BY <3>2, <2>1, <2>3
      <4> QED BY <4>1
    <3> QED BY <3>1, <3>2, <2>1, <2>5
  <2>6. ASSUME NEW k \in DOMAIN t PROVE \E i \in DOMAIN ids : i # n /\ t[k] = ids[i]
    <3>1. k \in 1..(Len(ids) - 1) /\ DOMAIN ids = 1..Len(ids) /\ Len(ids) \in Nat
      BY <2>3
    <3>2. CASE k < n
      <4>1. t[k] = ids[k]
        BY <2>3, <3>1, <3>2
      <4>2. k \in 1..Len(ids) /\ k # n
        BY <2>1, <3>1, <3>2
      <4> QED BY <3>1, <4>1, <4>2
    <3>3. CASE ~ (k < n)
      <4>1. t[k] = ids[k + 1]
        BY <2>3, <3>1, <3>3
      <4>2. k + 1 \in 1..Len(ids) /\ k + 1 # n
        BY <2>1, <3>1, <3>3
      <4> QED BY <3>1, <4>1, <4>2
    <3> QED BY <3>2, <3>3
  <2>7. ASSUME NEW k \in DOMAIN t, NEW l \in DOMAIN t, k < l
        PROVE  \E i, j \in DOMAIN ids : i < j /\ t[k] = ids[i] /\ t[l] = ids[j]
    <3> DEFINE up(m) == IF m < n THEN m ELSE m + 1
    <3>1. /\ up(k) \in DOMAIN ids /\ up(l) \in DOMAIN ids
          /\ up(k) < up(l) /\ t[k] = ids[up(k)] /\ t[l] = ids[up(l)]
      BY <2>1, <2>3, <2>7
    <3> QED BY <3>1
  <2>8. \A k \in DOMAIN t : t[k] # id /\ \E i \in DOMAIN ids : t[k] = ids[i]
    BY <2>4, <2>6
  <2> QED
    BY <2>2, <2>3, <2>5, <2>7, <2>8
<1> QED
  BY <1>1, <1>2

(* The slot InsertIdOrdered looks for exists in an entry sorted by         *)
(* position: binary search has an answer.                                  *)
LEMMA SlotExists ==
  ASSUME NEW ids \in Seq(QsoId), NEW pos, NEW id,
         pos[id] \in Nat, \A i \in DOMAIN ids : pos[ids[i]] \in Nat,
         \A i, j \in DOMAIN ids : i < j => pos[ids[i]] < pos[ids[j]]
  PROVE  \E k \in 1..(Len(ids) + 1) :
           \A i \in DOMAIN ids : (i < k) <=> (pos[ids[i]] < pos[id])
<1> DEFINE T == {i \in DOMAIN ids : ~ (pos[ids[i]] < pos[id])}
<1>1. CASE T = {}
  <2>1. \A i \in DOMAIN ids : (i < Len(ids) + 1) <=> (pos[ids[i]] < pos[id])
    BY <1>1
  <2> QED BY <2>1
<1>2. CASE T # {}
  <2>0. T \in SUBSET Nat
    OBVIOUS
  <2>1. PICK m \in T : \A n \in T : m <= n
    <3> HIDE DEF T
    <3> QED BY <2>0, <1>2, LeastNatural
  <2>2. m \in 1..(Len(ids) + 1)
    OBVIOUS
  <2>3. ASSUME NEW i \in DOMAIN ids
        PROVE  (i < m) <=> (pos[ids[i]] < pos[id])
    <3>1. CASE i < m
      BY <3>1, <2>1
    <3>2. CASE ~ (i < m)
      BY <3>2, <2>1
    <3> QED BY <3>1, <3>2
  <2> QED BY <2>2, <2>3
<1> QED
  BY <1>1, <1>2

(* insert_id_ordered adds id to a sorted entry and keeps it sorted.        *)
LEMMA InsertIdOrderedProps ==
  ASSUME NEW ids \in Seq(QsoId), NEW pos, NEW id \in QsoId,
         pos[id] \in Nat, \A i \in DOMAIN ids : pos[ids[i]] \in Nat,
         \A i, j \in DOMAIN ids : i < j => pos[ids[i]] < pos[ids[j]],
         \A i \in DOMAIN ids : pos[ids[i]] # pos[id]
  PROVE  LET t == InsertIdOrdered(ids, id, pos) IN
         /\ t \in Seq(QsoId)
         /\ \A k \in DOMAIN t : t[k] = id \/ \E i \in DOMAIN ids : t[k] = ids[i]
         /\ \E k \in DOMAIN t : t[k] = id
         /\ \A i \in DOMAIN ids : \E k \in DOMAIN t : t[k] = ids[i]
         /\ \A k, l \in DOMAIN t : k < l => pos[t[k]] < pos[t[l]]
<1> DEFINE Slot(k) == \A i \in DOMAIN ids : (i < k) <=> (pos[ids[i]] < pos[id])
           at == CHOOSE k \in 1..(Len(ids) + 1) : Slot(k)
           t == InsertAt(ids, at, id)
<1>1. at \in 1..(Len(ids) + 1) /\ Slot(at)
  BY SlotExists
<1>2. InsertIdOrdered(ids, id, pos) = t
  BY DEF InsertIdOrdered
<1> HIDE DEF at
<1>3. /\ t \in Seq(QsoId) /\ Len(t) = Len(ids) + 1
      /\ \A k \in 1..(Len(ids) + 1) :
           t[k] = IF k < at THEN ids[k] ELSE IF k = at THEN id ELSE ids[k - 1]
  BY <1>1, InsertAtProps
<1> HIDE DEF t
<1>4. at \in DOMAIN t /\ t[at] = id
  BY <1>1, <1>3
<1>5. ASSUME NEW k \in DOMAIN t
      PROVE  t[k] = id \/ \E i \in DOMAIN ids : t[k] = ids[i]
  <2>1. k < at => k \in DOMAIN ids /\ t[k] = ids[k]
    BY <1>1, <1>3
  <2>2. k > at => k - 1 \in DOMAIN ids /\ t[k] = ids[k - 1]
    BY <1>1, <1>3
  <2> QED BY <2>1, <2>2, <1>1, <1>3, <1>4
<1>6. ASSUME NEW i \in DOMAIN ids
      PROVE  \E k \in DOMAIN t : t[k] = ids[i]
  <2>1. i < at => i \in DOMAIN t /\ t[i] = ids[i]
    BY <1>1, <1>3
  <2>2. ~ (i < at) => i + 1 \in DOMAIN t /\ t[i + 1] = ids[i]
    BY <1>1, <1>3
  <2> QED BY <2>1, <2>2
<1>7. ASSUME NEW k \in DOMAIN t, NEW l \in DOMAIN t, k < l
      PROVE  pos[t[k]] < pos[t[l]]
  <2>0. DOMAIN t = 1..(Len(ids) + 1)
    BY <1>3
  <2>1. CASE l < at
    BY <2>0, <2>1, <1>1, <1>3, <1>7
  <2>2. CASE l = at
    BY <2>0, <2>2, <1>1, <1>3, <1>7
  <2>3. CASE k < at /\ at < l
    BY <2>0, <2>3, <1>1, <1>3, <1>7
  <2>4. CASE k = at
    <3>1. l - 1 \in DOMAIN ids /\ t[l] = ids[l - 1] /\ ~ (l - 1 < at)
      BY <2>0, <2>4, <1>1, <1>3, <1>7
    <3>2. ~ (pos[ids[l - 1]] < pos[id]) /\ pos[ids[l - 1]] # pos[id]
      BY <3>1, <1>1
    <3> QED BY <3>1, <3>2, <2>4, <1>4
  <2>5. CASE at < k
    <3>1. /\ k - 1 \in DOMAIN ids /\ t[k] = ids[k - 1]
          /\ l - 1 \in DOMAIN ids /\ t[l] = ids[l - 1] /\ k - 1 < l - 1
      BY <2>0, <2>5, <1>1, <1>3, <1>7
    <3> QED BY <3>1
  <2> QED BY <2>0, <2>1, <2>2, <2>3, <2>4, <2>5, <1>1, <1>7
<1> QED
  BY <1>2, <1>3, <1>4, <1>5, <1>6, <1>7

(* An entry whose key the replaced record neither gains nor loses.         *)
LEMMA EntryUntouched ==
  ASSUME NEW records, NEW r, NEW pos, NEW ids, NEW f, NEW key, NEW id,
         EntryOK(records, pos, ids, f, key),
         DOMAIN r = DOMAIN records,
         \A q \in DOMAIN records : q # id => r[q] = records[q],
         id \in DOMAIN records => (r[id][f] = key <=> records[id][f] = key)
  PROVE  EntryOK(r, pos, ids, f, key)
<1>1. \A q \in DOMAIN records : r[q][f] = key <=> records[q][f] = key
  OBVIOUS
<1> QED
  BY <1>1 DEF EntryOK

(* The entry of the key that the record loses.                             *)
LEMMA EntryWithout ==
  ASSUME NEW records, NEW r, NEW pos, NEW ids \in Seq(QsoId), NEW f, NEW key, NEW id,
         \A q \in DOMAIN records : pos[q] \in Nat,
         EntryOK(records, pos, ids, f, key),
         DOMAIN r = DOMAIN records,
         \A q \in DOMAIN records : q # id => r[q] = records[q],
         r[id][f] # key
  PROVE  /\ Retain(ids, id) \in Seq(QsoId)
         /\ EntryOK(r, pos, Retain(ids, id), f, key)
<1> DEFINE t == Retain(ids, id)
<1>1. /\ \A i \in DOMAIN ids : ids[i] \in DOMAIN records /\ records[ids[i]][f] = key
      /\ \A i, j \in DOMAIN ids : i < j => pos[ids[i]] < pos[ids[j]]
      /\ \A q \in DOMAIN records : records[q][f] = key => \E i \in DOMAIN ids : ids[i] = q
  BY DEF EntryOK
<1>2. \A i, j \in DOMAIN ids : i < j => ids[i] # ids[j]
  BY <1>1
<1>3. /\ t \in Seq(QsoId)
      /\ \A i \in DOMAIN ids : ids[i] # id => \E k \in DOMAIN t : t[k] = ids[i]
      /\ \A k \in DOMAIN t : t[k] # id
      /\ \A k \in DOMAIN t : \E i \in DOMAIN ids : t[k] = ids[i]
      /\ \A k, l \in DOMAIN t : k < l =>
           \E i, j \in DOMAIN ids : i < j /\ t[k] = ids[i] /\ t[l] = ids[j]
  BY <1>2, RetainProps
<1> HIDE DEF t
<1>4. ASSUME NEW k \in DOMAIN t PROVE t[k] \in DOMAIN r /\ r[t[k]][f] = key
  <2>1. PICK i \in DOMAIN ids : t[k] = ids[i]
    BY <1>3
  <2>2. ids[i] \in DOMAIN records /\ records[ids[i]][f] = key
    BY <1>1
  <2>3. ids[i] # id
    BY <2>1, <1>3
  <2> QED BY <2>1, <2>2, <2>3
<1>5. ASSUME NEW k \in DOMAIN t, NEW l \in DOMAIN t, k < l PROVE pos[t[k]] < pos[t[l]]
  <2>1. PICK i \in DOMAIN ids, j \in DOMAIN ids : i < j /\ t[k] = ids[i] /\ t[l] = ids[j]
    BY <1>3, <1>5
  <2> QED BY <2>1, <1>1
<1>6. ASSUME NEW q \in DOMAIN r, r[q][f] = key PROVE \E k \in DOMAIN t : t[k] = q
  <2>1. q # id /\ q \in DOMAIN records /\ records[q][f] = key
    BY <1>6
  <2> QED BY <2>1, <1>1, <1>3
<1> QED
  BY <1>3, <1>4, <1>5, <1>6 DEF EntryOK, t

(* The entry of the key that the record gains.                             *)
LEMMA EntryWith ==
  ASSUME NEW records, NEW r, NEW pos, NEW ids \in Seq(QsoId), NEW f, NEW key,
         NEW id \in DOMAIN records, id \in QsoId,
         \A q \in DOMAIN records : pos[q] \in Nat,
         \A q, w \in DOMAIN records : pos[q] = pos[w] => q = w,
         EntryOK(records, pos, ids, f, key),
         DOMAIN r = DOMAIN records,
         \A q \in DOMAIN records : q # id => r[q] = records[q],
         records[id][f] # key, r[id][f] = key
  PROVE  /\ InsertIdOrdered(ids, id, pos) \in Seq(QsoId)
         /\ EntryOK(r, pos, InsertIdOrdered(ids, id, pos), f, key)
<1> DEFINE t == InsertIdOrdered(ids, id, pos)
<1>1. /\ \A i \in DOMAIN ids : ids[i] \in DOMAIN records /\ records[ids[i]][f] = key
      /\ \A i, j \in DOMAIN ids : i < j => pos[ids[i]] < pos[ids[j]]
      /\ \A q \in DOMAIN records : records[q][f] = key => \E i \in DOMAIN ids : ids[i] = q
  BY DEF EntryOK
<1>2. /\ pos[id] \in Nat
      /\ \A i \in DOMAIN ids : pos[ids[i]] \in Nat
      /\ \A i \in DOMAIN ids : ids[i] # id
      /\ \A i \in DOMAIN ids : pos[ids[i]] # pos[id]
  BY <1>1
<1>3. /\ t \in Seq(QsoId)
      /\ \A k \in DOMAIN t : t[k] = id \/ \E i \in DOMAIN ids : t[k] = ids[i]
      /\ \E k \in DOMAIN t : t[k] = id
      /\ \A i \in DOMAIN ids : \E k \in DOMAIN t : t[k] = ids[i]
      /\ \A k, l \in DOMAIN t : k < l => pos[t[k]] < pos[t[l]]
  BY <1>1, <1>2, InsertIdOrderedProps
<1> HIDE DEF t
<1>4. ASSUME NEW k \in DOMAIN t PROVE t[k] \in DOMAIN r /\ r[t[k]][f] = key
  <2>1. CASE t[k] = id
    BY <2>1
  <2>2. CASE \E i \in DOMAIN ids : t[k] = ids[i]
    BY <2>2, <1>1, <1>2
  <2> QED BY <2>1, <2>2, <1>3
<1>5. ASSUME NEW q \in DOMAIN r, r[q][f] = key PROVE \E k \in DOMAIN t : t[k] = q
  <2>1. CASE q = id
    BY <2>1, <1>3
  <2>2. CASE q # id
    BY <2>2, <1>1, <1>3, <1>5
  <2> QED BY <2>1, <2>2
<1> QED
  BY <1>3, <1>4, <1>5 DEF EntryOK, t

(* update_call_index and update_contest_index keep an index right when the *)
(* record of id is replaced.                                               *)
LEMMA UpdateIndexOK ==
  ASSUME NEW K, NEW f, NEW records, NEW pos, NEW index \in [K -> Seq(QsoId)],
         NEW id \in DOMAIN records, NEW new,
         DOMAIN records \subseteq QsoId,
         \A q \in DOMAIN records : pos[q] \in Nat,
         \A q, w \in DOMAIN records : pos[q] = pos[w] => q = w,
         records[id][f] \in K, new[f] \in K,
         IndexOK(records, pos, index, f)
  PROVE  /\ UpdateIndex(index, id, records[id][f], new[f], pos) \in [K -> Seq(QsoId)]
         /\ IndexOK([records EXCEPT ![id] = new], pos,
                    UpdateIndex(index, id, records[id][f], new[f], pos), f)
<1> DEFINE old == records[id][f]
           r == [records EXCEPT ![id] = new]
           x == UpdateIndex(index, id, old, new[f], pos)
<1>1. /\ DOMAIN r = DOMAIN records /\ r[id] = new
      /\ \A q \in DOMAIN records : q # id => r[q] = records[q]
  OBVIOUS
<1>2. \A k \in K : EntryOK(records, pos, index[k], f, k)
  BY DEF IndexOK
<1>3. CASE old = new[f]
  <2>1. x = index
    BY <1>3 DEF UpdateIndex
  <2> HIDE DEF r
  <2>2. ASSUME NEW k \in K PROVE EntryOK(r, pos, index[k], f, k)
    BY <1>1, <1>2, <1>3, EntryUntouched
  <2> QED BY <2>1, <2>2 DEF IndexOK, r
<1>4. CASE old # new[f]
  <2> DEFINE from == Retain(index[old], id)
             to == InsertIdOrdered(index[new[f]], id, pos)
  <2>1. x = [index EXCEPT ![old] = Retain(@, id), ![new[f]] = InsertIdOrdered(@, id, pos)]
    BY <1>4 DEF UpdateIndex
  <2>2. /\ DOMAIN x = K /\ x[old] = from /\ x[new[f]] = to
        /\ \A k \in K \ {old, new[f]} : x[k] = index[k]
    BY <2>1, <1>4
  <2> HIDE DEF r
  <2>3. index[old] \in Seq(QsoId) /\ EntryOK(records, pos, index[old], f, old)
    BY <1>2
  <2>4. from \in Seq(QsoId) /\ EntryOK(r, pos, from, f, old)
    BY <2>3, <1>1, <1>4, EntryWithout
  <2>5. index[new[f]] \in Seq(QsoId) /\ EntryOK(records, pos, index[new[f]], f, new[f])
    BY <1>2
  <2>6. to \in Seq(QsoId) /\ EntryOK(r, pos, to, f, new[f])
    BY <2>5, <1>1, <1>4, EntryWith
  <2>7. \A k \in K \ {old, new[f]} : EntryOK(r, pos, index[k], f, k)
    BY <1>1, <1>2, EntryUntouched
  <2>8. x \in [K -> Seq(QsoId)]
    BY <2>1, <2>4, <2>6
  <2> HIDE DEF x, old, from, to
  <2>9. ASSUME NEW k \in K PROVE EntryOK(r, pos, x[k], f, k)
    BY <2>2, <2>4, <2>6, <2>7
  <2> QED BY <2>2, <2>8, <2>9 DEF IndexOK, x, r, old
<1> QED
  BY <1>3, <1>4

(* insert_indices: a new last record at the end of the entry of its key.   *)
LEMMA EntryAppend ==
  ASSUME NEW records, NEW r, NEW pos, NEW p, NEW ids \in Seq(QsoId), NEW f, NEW key, NEW id \in QsoId,
         EntryOK(records, pos, ids, f, key),
         id \notin DOMAIN records, DOMAIN r = DOMAIN records \cup {id},
         \A q \in DOMAIN records : r[q] = records[q] /\ p[q] = pos[q] /\ pos[q] < p[id]
  PROVE  /\ r[id][f] = key => EntryOK(r, p, Append(ids, id), f, key)
         /\ r[id][f] # key => EntryOK(r, p, ids, f, key)
<1>1. /\ \A i \in DOMAIN ids : ids[i] \in DOMAIN records /\ records[ids[i]][f] = key
      /\ \A i, j \in DOMAIN ids : i < j => pos[ids[i]] < pos[ids[j]]
      /\ \A q \in DOMAIN records : records[q][f] = key => \E i \in DOMAIN ids : ids[i] = q
  BY DEF EntryOK
<1>2. CASE r[id][f] = key
  <2> DEFINE t == Append(ids, id)
  <2>1. /\ DOMAIN t = 1..(Len(ids) + 1) /\ DOMAIN ids = 1..Len(ids) /\ Len(ids) \in Nat
        /\ \A i \in DOMAIN ids : t[i] = ids[i]
        /\ t[Len(ids) + 1] = id
    OBVIOUS
  <2> HIDE DEF t
  <2>2. ASSUME NEW i \in DOMAIN t PROVE t[i] \in DOMAIN r /\ r[t[i]][f] = key
    <3>1. CASE i = Len(ids) + 1
      BY <3>1, <2>1, <1>2
    <3>2. CASE i \in DOMAIN ids
      <4>1. ids[i] \in DOMAIN records /\ records[ids[i]][f] = key /\ t[i] = ids[i]
        BY <3>2, <2>1, <1>1
      <4> QED BY <4>1
    <3> QED BY <3>1, <3>2, <2>1
  <2>3. ASSUME NEW i \in DOMAIN t, NEW j \in DOMAIN t, i < j PROVE p[t[i]] < p[t[j]]
    <3>1. i \in DOMAIN ids /\ t[i] = ids[i] /\ ids[i] \in DOMAIN records
      BY <2>1, <2>3, <1>1
    <3>2. CASE j = Len(ids) + 1
      BY <3>1, <3>2, <2>1
    <3>3. CASE j \in DOMAIN ids
      <4>1. t[j] = ids[j] /\ ids[j] \in DOMAIN records /\ pos[ids[i]] < pos[ids[j]]
        BY <3>1, <3>3, <2>1, <2>3, <1>1
      <4> QED BY <3>1, <4>1
    <3> QED BY <3>2, <3>3, <2>1
  <2>4. ASSUME NEW q \in DOMAIN r, r[q][f] = key PROVE \E i \in DOMAIN t : t[i] = q
    <3>1. CASE q = id
      BY <3>1, <2>1
    <3>2. CASE q \in DOMAIN records
      <4>1. PICK i \in DOMAIN ids : ids[i] = q
        BY <3>2, <2>4, <1>1
      <4> QED BY <4>1, <2>1
    <3> QED BY <3>1, <3>2
  <2> QED BY <1>2, <2>2, <2>3, <2>4 DEF EntryOK, t
<1>3. CASE r[id][f] # key
  <2>1. \A i \in DOMAIN ids : ids[i] \in DOMAIN r /\ r[ids[i]][f] = key
    BY <1>1
  <2>2. ASSUME NEW i \in DOMAIN ids, NEW j \in DOMAIN ids, i < j PROVE p[ids[i]] < p[ids[j]]
    <3>1. ids[i] \in DOMAIN records /\ ids[j] \in DOMAIN records /\ pos[ids[i]] < pos[ids[j]]
      BY <1>1, <2>2
    <3> QED BY <3>1
  <2>3. ASSUME NEW q \in DOMAIN r, r[q][f] = key PROVE \E i \in DOMAIN ids : ids[i] = q
    <3>1. q \in DOMAIN records /\ records[q][f] = key
      BY <2>3, <1>3
    <3> QED BY <3>1, <1>1
  <2> QED BY <1>3, <2>1, <2>2, <2>3 DEF EntryOK
<1> QED
  BY <1>2, <1>3

------------------------------------------------------------------------------
(* Records and patches                                                     *)

(* The indexed fields of a record are keys of the indices.                 *)
LEMMA RecordFields ==
  ASSUME NEW rec \in QsoRecord
  PROVE  rec["call"] \in Call /\ rec["contest"] \in Contest /\ rec["is_void"] \in BOOLEAN
<1>1. \A f \in Field : rec[f] \in FieldValues(f)
  BY DEF QsoRecord
<1>2. FieldValues("call") = Call /\ FieldValues("contest") = Contest
        /\ FieldValues("is_void") = BOOLEAN
  BY DEF FieldValues
<1> QED
  BY <1>1, <1>2 DEF Field

(* Values of one field are values.                                         *)
LEMMA FieldValuesAny == \A f \in Field : FieldValues(f) \subseteq AnyValue
  BY DEF Field, FieldValues, AnyValue

(* A patched record is a record.                                           *)
LEMMA ApplyToType ==
  ASSUME NEW patch \in QsoPatch, NEW rec \in QsoRecord
  PROVE  ApplyTo(patch, rec) \in QsoRecord
<1>1. PICK F \in SUBSET Field : patch \in PatchOn(F)
  BY DEF QsoPatch
<1>2. DOMAIN patch = F /\ \A f \in F : patch[f] \in FieldValues(f)
  BY <1>1 DEF PatchOn
<1>3. \A f \in Field : rec[f] \in FieldValues(f)
  BY DEF QsoRecord
<1>4. \A f \in Field : ApplyTo(patch, rec)[f] \in FieldValues(f)
  BY <1>2, <1>3 DEF ApplyTo
<1>5. ApplyTo(patch, rec) \in [Field -> AnyValue]
  BY <1>4, FieldValuesAny DEF ApplyTo
<1> QED
  BY <1>4, <1>5 DEF QsoRecord

(* What apply_patch captures of a record is a patch.                       *)
LEMMA CaptureInverseType ==
  ASSUME NEW patch \in QsoPatch, NEW rec \in QsoRecord
  PROVE  CaptureInverseFor(patch, rec) \in QsoPatch
<1>1. PICK F \in SUBSET Field : patch \in PatchOn(F)
  BY DEF QsoPatch
<1>2. DOMAIN patch = F
  BY <1>1 DEF PatchOn
<1>3. \A f \in F : rec[f] \in FieldValues(f) /\ rec[f] \in AnyValue
  BY FieldValuesAny DEF QsoRecord
<1>4. CaptureInverseFor(patch, rec) \in PatchOn(F)
  BY <1>2, <1>3 DEF PatchOn, CaptureInverseFor
<1> QED
  BY <1>4 DEF QsoPatch

(* A record with another void flag is a record.                            *)
LEMMA SetVoidType ==
  ASSUME NEW rec \in QsoRecord, NEW v \in BOOLEAN
  PROVE  /\ [rec EXCEPT !["is_void"] = v] \in QsoRecord
         /\ [rec EXCEPT !["is_void"] = v]["call"] = rec["call"]
         /\ [rec EXCEPT !["is_void"] = v]["contest"] = rec["contest"]
<1> DEFINE new == [rec EXCEPT !["is_void"] = v]
<1>1. rec \in [Field -> AnyValue] /\ \A f \in Field : rec[f] \in FieldValues(f)
  BY DEF QsoRecord
<1>2. v \in AnyValue /\ FieldValues("is_void") = BOOLEAN
  BY DEF AnyValue, FieldValues
<1>3. /\ new \in [Field -> AnyValue] /\ new["is_void"] = v
      /\ \A f \in Field \ {"is_void"} : new[f] = rec[f]
  BY <1>1, <1>2 DEF Field
<1>4. "call" \in Field \ {"is_void"} /\ "contest" \in Field \ {"is_void"} /\ "is_void" \in Field
  BY DEF Field
<1> HIDE DEF new
<1>5. \A f \in Field : new[f] \in FieldValues(f)
  BY <1>1, <1>2, <1>3, <1>4
<1> QED
  BY <1>3, <1>4, <1>5 DEF QsoRecord, new

------------------------------------------------------------------------------
(* The records, their order and their indices                              *)

CoreOK(records, order, pos, by_call, by_contest, next_qso_id) ==
  /\ DOMAIN records \subseteq QsoId
  /\ records \in [DOMAIN records -> QsoRecord]
  /\ order \in Seq(QsoId)
  /\ pos \in [DOMAIN records -> Nat]
  /\ by_call \in [Call -> Seq(QsoId)]
  /\ by_contest \in [Contest -> Seq(QsoId)]
  /\ next_qso_id \in QsoId
  /\ OrderOK(records, order, pos, next_qso_id)
  /\ IndexOK(records, pos, by_call, "call")
  /\ IndexOK(records, pos, by_contest, "contest")

(* A new record, with the next id, at the end of the canonical order.      *)
LEMMA OrderInsert ==
  ASSUME NEW records, NEW order \in Seq(QsoId), NEW pos, NEW id \in QsoId, NEW qso,
         OrderOK(records, order, pos, id)
  PROVE  OrderOK(MapInsert(records, id, qso), Append(order, id),
                 MapInsert(pos, id, Len(order) + 1), id + 1)
<1> DEFINE r == MapInsert(records, id, qso)
           o == Append(order, id)
           p == MapInsert(pos, id, Len(order) + 1)
           n == Len(order)
<1>1. /\ DOMAIN pos = DOMAIN records
      /\ \A i \in DOMAIN order : order[i] \in DOMAIN records /\ pos[order[i]] = i
      /\ \A q \in DOMAIN records : pos[q] \in DOMAIN order /\ order[pos[q]] = q
      /\ \A i, j \in DOMAIN order : i < j => order[i] < order[j]
      /\ \A q \in DOMAIN records : q < id
  BY DEF OrderOK
<1>2. /\ DOMAIN r = DOMAIN records \cup {id} /\ DOMAIN p = DOMAIN records \cup {id}
      /\ p[id] = n + 1 /\ \A q \in DOMAIN records : q # id => p[q] = pos[q]
  BY <1>1 DEF MapInsert
<1>3. /\ DOMAIN order = 1..n /\ DOMAIN o = 1..(n + 1) /\ n \in Nat
      /\ o[n + 1] = id /\ \A i \in DOMAIN order : o[i] = order[i] /\ order[i] \in QsoId
  OBVIOUS
<1>4. id \notin DOMAIN records
  BY <1>1 DEF QsoId
<1> HIDE DEF r, o, p, n
<1>5. ASSUME NEW i \in DOMAIN o PROVE o[i] \in DOMAIN r /\ p[o[i]] = i
  <2>1. CASE i = n + 1
    BY <2>1, <1>2, <1>3
  <2>2. CASE i \in DOMAIN order
    <3>1. o[i] = order[i] /\ order[i] \in DOMAIN records /\ pos[order[i]] = i /\ order[i] # id
      BY <2>2, <1>1, <1>3, <1>4
    <3> QED BY <3>1, <1>2
  <2> QED BY <2>1, <2>2, <1>3
<1>6. ASSUME NEW q \in DOMAIN r PROVE p[q] \in DOMAIN o /\ o[p[q]] = q
  <2>1. CASE q = id
    BY <2>1, <1>2, <1>3
  <2>2. CASE q \in DOMAIN records
    <3>1. p[q] = pos[q] /\ pos[q] \in DOMAIN order /\ order[pos[q]] = q
      BY <2>2, <1>1, <1>2, <1>4
    <3> QED BY <3>1, <1>3
  <2> QED BY <2>1, <2>2, <1>2
<1>7. ASSUME NEW i \in DOMAIN o, NEW j \in DOMAIN o, i < j PROVE o[i] < o[j]
  <2>1. i \in DOMAIN order /\ o[i] = order[i] /\ order[i] < id
    BY <1>1, <1>3, <1>7
  <2>2. CASE j = n + 1
    BY <2>1, <2>2, <1>3
  <2>3. CASE j \in DOMAIN order
    BY <2>1, <2>3, <1>1, <1>3, <1>7
  <2> QED BY <2>2, <2>3, <1>3
<1>8. \A q \in DOMAIN r : q < id + 1
  <2>1. \A q \in DOMAIN records : q \in QsoId /\ q < id
    BY <1>1, <1>3
  <2> QED BY <2>1, <1>2 DEF QsoId
<1>9. DOMAIN p = DOMAIN r
  BY <1>2
<1> QED
  BY <1>5, <1>6, <1>7, <1>8, <1>9 DEF OrderOK, r, o, p, n

(* The same for one of the indices.                                        *)
LEMMA IndexInsert ==
  ASSUME NEW K, NEW f, NEW records, NEW order \in Seq(QsoId), NEW pos \in [DOMAIN records -> Nat],
         NEW id \in QsoId, NEW qso, NEW index \in [K -> Seq(QsoId)], qso[f] \in K,
         OrderOK(records, order, pos, id), IndexOK(records, pos, index, f)
  PROVE  /\ [index EXCEPT ![qso[f]] = Append(@, id)] \in [K -> Seq(QsoId)]
         /\ IndexOK(MapInsert(records, id, qso), MapInsert(pos, id, Len(order) + 1),
                    [index EXCEPT ![qso[f]] = Append(@, id)], f)
<1> DEFINE r == MapInsert(records, id, qso)
           p == MapInsert(pos, id, Len(order) + 1)
           x == [index EXCEPT ![qso[f]] = Append(@, id)]
<1>1. /\ \A q \in DOMAIN records : pos[q] \in DOMAIN order
      /\ \A q \in DOMAIN records : q < id
  BY DEF OrderOK
<1>2. id \notin DOMAIN records
  BY <1>1 DEF QsoId
<1>3. \A q \in DOMAIN records : pos[q] < Len(order) + 1
  BY <1>1
<1>4. /\ DOMAIN r = DOMAIN records \cup {id} /\ r[id] = qso
      /\ \A q \in DOMAIN records : r[q] = records[q] /\ p[q] = pos[q] /\ pos[q] < p[id]
  BY <1>2, <1>3 DEF MapInsert
<1>5. /\ x \in [K -> Seq(QsoId)]
      /\ x[qso[f]] = Append(index[qso[f]], id)
      /\ \A k \in K : k # qso[f] => x[k] = index[k]
  OBVIOUS
<1> HIDE DEF r, p, x
<1>6. ASSUME NEW k \in K PROVE EntryOK(r, p, x[k], f, k)
  <2>1. index[k] \in Seq(QsoId) /\ EntryOK(records, pos, index[k], f, k)
    BY DEF IndexOK
  <2> DEFINE ids == index[k]
  <2>2. ids \in Seq(QsoId) /\ EntryOK(records, pos, ids, f, k)
    BY <2>1
  <2> HIDE DEF ids
  <2>3. \A q \in DOMAIN records : r[q] = records[q] /\ p[q] = pos[q] /\ pos[q] < p[id]
    BY <1>4
  <2>4. DOMAIN r = DOMAIN records \cup {id}
    BY <1>4
  <2>5. /\ r[id][f] = k => EntryOK(r, p, Append(ids, id), f, k)
        /\ r[id][f] # k => EntryOK(r, p, ids, f, k)
    BY <1>2, <2>2, <2>3, <2>4, EntryAppend
  <2> QED BY <2>5, <1>4, <1>5 DEF ids
<1> QED
  BY <1>5, <1>6 DEF IndexOK, r, p, x

(* apply_insert_with_seq (core/store.rs:319) with the next free id keeps    *)
(* records, order, positions and both indices consistent.                  *)
LEMMA CoreInsert ==
  ASSUME NEW records, NEW order, NEW pos, NEW by_call, NEW by_contest, NEW id,
         CoreOK(records, order, pos, by_call, by_contest, id), NEW qso \in QsoRecord
  PROVE  CoreOK(MapInsert(records, id, qso), Append(order, id), MapInsert(pos, id, Len(order) + 1),
                [by_call EXCEPT ![qso["call"]] = Append(@, id)],
                [by_contest EXCEPT ![qso["contest"]] = Append(@, id)], id + 1)
<1> DEFINE r == MapInsert(records, id, qso)
           p == MapInsert(pos, id, Len(order) + 1)
<1>1. /\ DOMAIN records \subseteq QsoId /\ records \in [DOMAIN records -> QsoRecord]
      /\ order \in Seq(QsoId) /\ pos \in [DOMAIN records -> Nat] /\ id \in QsoId
      /\ by_call \in [Call -> Seq(QsoId)] /\ by_contest \in [Contest -> Seq(QsoId)]
      /\ OrderOK(records, order, pos, id)
      /\ IndexOK(records, pos, by_call, "call") /\ IndexOK(records, pos, by_contest, "contest")
  BY DEF CoreOK
<1>2. qso["call"] \in Call /\ qso["contest"] \in Contest
  BY RecordFields
<1>3. OrderOK(r, Append(order, id), p, id + 1)
  BY <1>1, OrderInsert
<1>4. /\ [by_call EXCEPT ![qso["call"]] = Append(@, id)] \in [Call -> Seq(QsoId)]
      /\ IndexOK(r, p, [by_call EXCEPT ![qso["call"]] = Append(@, id)], "call")
  BY <1>1, <1>2, IndexInsert, ZenonT(40)
<1>5. /\ [by_contest EXCEPT ![qso["contest"]] = Append(@, id)] \in [Contest -> Seq(QsoId)]
      /\ IndexOK(r, p, [by_contest EXCEPT ![qso["contest"]] = Append(@, id)], "contest")
  BY <1>1, <1>2, IndexInsert, ZenonT(40)
<1>6. /\ DOMAIN r \subseteq QsoId /\ r \in [DOMAIN r -> QsoRecord]
      /\ p \in [DOMAIN r -> Nat]
  BY <1>1 DEF MapInsert
<1>7. Append(order, id) \in Seq(QsoId) /\ id + 1 \in QsoId
  BY <1>1 DEF QsoId
<1> QED
  BY <1>3, <1>4, <1>5, <1>6, <1>7 DEF CoreOK

(* A record replaced in place and moved between its index entries.         *)
LEMMA CoreReplace ==
  ASSUME NEW records, NEW order, NEW pos, NEW by_call, NEW by_contest, NEW next,
         CoreOK(records, order, pos, by_call, by_contest, next),
         NEW id \in DOMAIN records, NEW new \in QsoRecord
  PROVE  CoreOK([records EXCEPT ![id] = new], order, pos,
                UpdateIndex(by_call, id, records[id]["call"], new["call"], pos),
                UpdateIndex(by_contest, id, records[id]["contest"], new["contest"], pos), next)
<1> DEFINE r == [records EXCEPT ![id] = new]
<1>1. /\ DOMAIN records \subseteq QsoId /\ records \in [DOMAIN records -> QsoRecord]
      /\ order \in Seq(QsoId) /\ pos \in [DOMAIN records -> Nat] /\ next \in QsoId
      /\ by_call \in [Call -> Seq(QsoId)] /\ by_contest \in [Contest -> Seq(QsoId)]
      /\ OrderOK(records, order, pos, next)
      /\ IndexOK(records, pos, by_call, "call") /\ IndexOK(records, pos, by_contest, "contest")
  BY DEF CoreOK
<1>2. /\ new["call"] \in Call /\ new["contest"] \in Contest
      /\ records[id]["call"] \in Call /\ records[id]["contest"] \in Contest
  BY <1>1, RecordFields
<1>3. /\ \A q \in DOMAIN records : pos[q] \in Nat
      /\ \A q, w \in DOMAIN records : pos[q] = pos[w] => q = w
  BY <1>1 DEF OrderOK
<1>4. /\ UpdateIndex(by_call, id, records[id]["call"], new["call"], pos) \in [Call -> Seq(QsoId)]
      /\ IndexOK(r, pos, UpdateIndex(by_call, id, records[id]["call"], new["call"], pos), "call")
  BY <1>1, <1>2, <1>3, UpdateIndexOK
<1>5. /\ UpdateIndex(by_contest, id, records[id]["contest"], new["contest"], pos)
           \in [Contest -> Seq(QsoId)]
      /\ IndexOK(r, pos, UpdateIndex(by_contest, id, records[id]["contest"], new["contest"], pos),
                 "contest")
  BY <1>1, <1>2, <1>3, UpdateIndexOK
<1>6. DOMAIN r = DOMAIN records /\ r \in [DOMAIN r -> QsoRecord]
  BY <1>1
<1>7. OrderOK(r, order, pos, next)
  BY <1>1, <1>6 DEF OrderOK
<1> QED
  BY <1>1, <1>4, <1>5, <1>6, <1>7 DEF CoreOK

------------------------------------------------------------------------------
(* Stores                                                                  *)

CoreOf(s) == CoreOK(s.records, s.order, s.pos, s.by_call, s.by_contest, s.next_qso_id)

(* The inductive invariant: type, order, indices and stacks together.      *)
Inv(s) ==
  /\ DOMAIN s = DOMAIN NewStore
  /\ CoreOf(s)
  /\ s.undo \in Seq(StackOp)
  /\ s.redo \in Seq(StackOp)
  /\ StacksOK(s)
  /\ s.next_op_seq \in OpSeq

StoreFields == {"records", "order", "pos", "by_call", "by_contest", "undo", "redo",
                "pending_ops", "next_op_seq", "next_qso_id"}

(* An empty store (core/store.rs:71) has exactly the fields of the struct.  *)
LEMMA NewStoreFields == DOMAIN NewStore = StoreFields
  BY DEF NewStore, StoreFields

(* The fields that replacing a record does not touch.                      *)
SameFrame(s, t) ==
  /\ DOMAIN t = DOMAIN s
  /\ DOMAIN t.records = DOMAIN s.records
  /\ t.order = s.order /\ t.pos = s.pos /\ t.next_qso_id = s.next_qso_id
  /\ t.undo = s.undo /\ t.redo = s.redo /\ t.pending_ops = s.pending_ops

(* Overwriting a record and moving it between index entries                *)
(* (core/store.rs:353, and its rollback at 550) keeps records, order,      *)
(* positions and indices consistent and leaves the other fields alone.     *)
LEMMA PatchInPlaceCore ==
  ASSUME NEW s, DOMAIN s = StoreFields, CoreOf(s), NEW id \in DOMAIN s.records, NEW patch \in QsoPatch
  PROVE  /\ CoreOf(PatchInPlace(s, id, patch))
         /\ SameFrame(s, PatchInPlace(s, id, patch))
         /\ PatchInPlace(s, id, patch).next_op_seq = s.next_op_seq
<1> DEFINE new == ApplyTo(patch, s.records[id])
           t == PatchInPlace(s, id, patch)
<1>1. s.records[id] \in QsoRecord
  BY DEF CoreOf, CoreOK
<1>2. new \in QsoRecord
  BY <1>1, ApplyToType
<1>3. /\ t.records = [s.records EXCEPT ![id] = new]
      /\ t.by_call = UpdateIndex(s.by_call, id, s.records[id]["call"], new["call"], s.pos)
      /\ t.by_contest = UpdateIndex(s.by_contest, id, s.records[id]["contest"], new["contest"], s.pos)
      /\ t.order = s.order /\ t.pos = s.pos /\ t.next_qso_id = s.next_qso_id
      /\ t.undo = s.undo /\ t.redo = s.redo /\ t.pending_ops = s.pending_ops
      /\ t.next_op_seq = s.next_op_seq /\ DOMAIN t = DOMAIN s
  BY DEF PatchInPlace, StoreFields
<1> HIDE DEF new, t
<1>4. CoreOK(t.records, t.order, t.pos, t.by_call, t.by_contest, t.next_qso_id)
  BY <1>2, <1>3, CoreReplace DEF CoreOf
<1> QED
  BY <1>3, <1>4 DEF CoreOf, SameFrame, t

(* Setting the void flag of a record (core/store.rs:411, and its rollback  *)
(* at 578) keeps records, order, positions and indices consistent and      *)
(* leaves the other fields alone.                                          *)
LEMMA SetVoidCore ==
  ASSUME NEW s, DOMAIN s = StoreFields, CoreOf(s), NEW id \in DOMAIN s.records, NEW v \in BOOLEAN
  PROVE  /\ CoreOf(SetVoid(s, id, v))
         /\ SameFrame(s, SetVoid(s, id, v))
         /\ SetVoid(s, id, v).next_op_seq = s.next_op_seq
<1> DEFINE new == [s.records[id] EXCEPT !["is_void"] = v]
           t == SetVoid(s, id, v)
<1>1. s.records[id] \in QsoRecord
  BY DEF CoreOf, CoreOK
<1>2. new \in QsoRecord /\ new["call"] = s.records[id]["call"] /\ new["contest"] = s.records[id]["contest"]
  BY <1>1, SetVoidType
<1>3. /\ t.records = [s.records EXCEPT ![id] = new]
      /\ t.by_call = s.by_call /\ t.by_contest = s.by_contest
      /\ t.order = s.order /\ t.pos = s.pos /\ t.next_qso_id = s.next_qso_id
      /\ t.undo = s.undo /\ t.redo = s.redo /\ t.pending_ops = s.pending_ops
      /\ t.next_op_seq = s.next_op_seq /\ DOMAIN t = DOMAIN s
  BY DEF SetVoid, StoreFields
<1> HIDE DEF new, t
<1>4. /\ s.by_call = UpdateIndex(s.by_call, id, s.records[id]["call"], new["call"], s.pos)
      /\ s.by_contest = UpdateIndex(s.by_contest, id, s.records[id]["contest"], new["contest"], s.pos)
  BY <1>2 DEF UpdateIndex
<1>5. CoreOK(t.records, t.order, t.pos, t.by_call, t.by_contest, t.next_qso_id)
  BY <1>2, <1>3, <1>4, CoreReplace DEF CoreOf
<1> QED
  BY <1>3, <1>5 DEF CoreOf, SameFrame, t

(* Changing only counters, stacks and the buffer of a store keeps its core. *)
LEMMA CoreFrame ==
  ASSUME NEW s, NEW t, CoreOf(s), t.records = s.records, t.order = s.order, t.pos = s.pos,
         t.by_call = s.by_call, t.by_contest = s.by_contest, t.next_qso_id = s.next_qso_id
  PROVE  CoreOf(t)
  BY DEF CoreOf

(* A patch or void operation applied to a record that exists.              *)
LEMMA ApplyOpCore ==
  ASSUME NEW s, DOMAIN s = StoreFields, CoreOf(s), s.next_op_seq \in OpSeq,
         NEW op, op.type \in {"Patch", "Void"}, op.id \in DOMAIN s.records,
         op.type = "Patch" => op.patch \in QsoPatch,
         op.type = "Void" => op.prev_is_void \in BOOLEAN
  PROVE  /\ CoreOf(ApplyOp(s, op)) /\ SameFrame(s, ApplyOp(s, op))
         /\ ApplyOp(s, op).next_op_seq = s.next_op_seq + 1
         /\ InverseOf(s, op) \in StackOp /\ InverseOf(s, op).id = op.id
<1> DEFINE u == [s EXCEPT !.next_op_seq = @ + 1]
           n == s.next_op_seq
<1>1. /\ DOMAIN u = StoreFields /\ u.records = s.records /\ u.order = s.order /\ u.pos = s.pos
      /\ u.by_call = s.by_call /\ u.by_contest = s.by_contest /\ u.next_qso_id = s.next_qso_id
      /\ u.undo = s.undo /\ u.redo = s.redo /\ u.pending_ops = s.pending_ops
      /\ u.next_op_seq = n + 1
  BY DEF StoreFields
<1>2. CoreOf(u)
  BY <1>1, CoreFrame
<1>3. n \in Nat /\ op.id \in QsoId /\ s.records[op.id] \in QsoRecord
  BY DEF OpSeq, CoreOf, CoreOK
<1> HIDE DEF u, n
<1>4. \A t : DOMAIN t = StoreFields /\ CoreOf(t) /\ SameFrame(u, t) /\ t.next_op_seq = n + 1 =>
        /\ CoreOf(BumpNextSeqFrom(t, n)) /\ SameFrame(s, BumpNextSeqFrom(t, n))
        /\ BumpNextSeqFrom(t, n).next_op_seq = n + 1
  <2> SUFFICES ASSUME NEW t, DOMAIN t = StoreFields, CoreOf(t), SameFrame(u, t), t.next_op_seq = n + 1
               PROVE  /\ CoreOf(BumpNextSeqFrom(t, n)) /\ SameFrame(s, BumpNextSeqFrom(t, n))
                      /\ BumpNextSeqFrom(t, n).next_op_seq = n + 1
    OBVIOUS
  <2> DEFINE b == BumpNextSeqFrom(t, n)
  <2>1. /\ DOMAIN b = DOMAIN t /\ b.records = t.records /\ b.order = t.order /\ b.pos = t.pos
        /\ b.by_call = t.by_call /\ b.by_contest = t.by_contest /\ b.next_qso_id = t.next_qso_id
        /\ b.undo = t.undo /\ b.redo = t.redo /\ b.pending_ops = t.pending_ops
        /\ b.next_op_seq = n + 1
    BY <1>3 DEF BumpNextSeqFrom, MaxOf, StoreFields
  <2>2. CoreOf(b)
    BY <2>1, CoreFrame
  <2>3. SameFrame(s, b)
    BY <2>1, <1>1 DEF SameFrame
  <2> QED BY <2>1, <2>2, <2>3
<1>5. CASE op.type = "Patch"
  <2> DEFINE t == PatchInPlace(u, op.id, op.patch)
  <2>1. ApplyOp(s, op) = BumpNextSeqFrom(t, n)
    BY <1>5 DEF ApplyOp, ApplyWithSeq, ApplyPatchWithSeq, u, n
  <2>2. CoreOf(t) /\ SameFrame(u, t) /\ t.next_op_seq = u.next_op_seq
    BY <1>1, <1>2, <1>5, PatchInPlaceCore
  <2>3. DOMAIN t = StoreFields
    BY <2>2, <1>1 DEF SameFrame
  <2>4. InverseOf(s, op) = PatchOp(op.id, CaptureInverseFor(op.patch, s.records[op.id]), op.patch)
    BY <1>5 DEF InverseOf
  <2>5. CaptureInverseFor(op.patch, s.records[op.id]) \in QsoPatch
    BY <1>3, <1>5, CaptureInverseType
  <2>6. InverseOf(s, op) \in StackOp /\ InverseOf(s, op).id = op.id
    BY <2>4, <2>5, <1>3, <1>5 DEF PatchOp, StackOp
  <2> HIDE DEF t
  <2> QED BY <2>1, <2>2, <2>3, <2>6, <1>1, <1>4 DEF n
<1>6. CASE op.type = "Void"
  <2> DEFINE t == SetVoid(u, op.id, ~op.prev_is_void)
  <2>1. ApplyOp(s, op) = BumpNextSeqFrom(t, n)
    BY <1>6 DEF ApplyOp, ApplyWithSeq, ApplyVoidWithSeq, u, n
  <2>2. CoreOf(t) /\ SameFrame(u, t) /\ t.next_op_seq = u.next_op_seq
    BY <1>1, <1>2, <1>6, SetVoidCore
  <2>3. DOMAIN t = StoreFields
    BY <2>2, <1>1 DEF SameFrame
  <2>4. InverseOf(s, op) = VoidOp(op.id, ~op.prev_is_void)
    BY <1>6 DEF InverseOf
  <2>5. InverseOf(s, op) \in StackOp /\ InverseOf(s, op).id = op.id
    BY <2>4, <1>3, <1>6 DEF VoidOp, StackOp
  <2> HIDE DEF t
  <2> QED BY <2>1, <2>2, <2>3, <2>5, <1>1, <1>4 DEF n
<1> QED
  BY <1>5, <1>6

------------------------------------------------------------------------------
(* Undo and redo stacks                                                    *)

Names(stack, D) == stack \in Seq(StackOp) /\ \A i \in DOMAIN stack : stack[i].id \in D

(* What the operations on a stack are.                                     *)
LEMMA StackOpFields ==
  ASSUME NEW op \in StackOp
  PROVE  /\ op.type \in {"Patch", "Void"} /\ op.id \in QsoId
         /\ op.type = "Patch" => op.patch \in QsoPatch
         /\ op.type = "Void" => op.prev_is_void \in BOOLEAN
<1>1. CASE op \in [type : {"Patch"}, id : QsoId, patch : QsoPatch, prev : QsoPatch]
  BY <1>1
<1>2. CASE op \in [type : {"Void"}, id : QsoId, prev_is_void : BOOLEAN]
  BY <1>2
<1> QED
  BY <1>1, <1>2 DEF StackOp

(* A push on a stack.                                                      *)
LEMMA StackPush ==
  ASSUME NEW D, NEW stack, Names(stack, D), NEW op \in StackOp, op.id \in D
  PROVE  Names(Append(stack, op), D)
<1>1. stack \in Seq(StackOp) /\ \A i \in DOMAIN stack : stack[i].id \in D
  BY DEF Names
<1>2. Append(stack, op) \in Seq(StackOp)
  BY <1>1
<1>3. ASSUME NEW i \in DOMAIN Append(stack, op) PROVE Append(stack, op)[i].id \in D
  <2>1. Append(stack, op)[i] = op \/ (i \in DOMAIN stack /\ Append(stack, op)[i] = stack[i])
    BY <1>1
  <2> QED BY <2>1, <1>1
<1> QED
  BY <1>2, <1>3 DEF Names

(* The first n entries of a stack.                                         *)
LEMMA StackPrefix ==
  ASSUME NEW D, NEW stack, Names(stack, D), NEW n \in Nat, n <= Len(stack)
  PROVE  Names(SubSeq(stack, 1, n), D)
<1>1. stack \in Seq(StackOp) /\ \A i \in DOMAIN stack : stack[i].id \in D
  BY DEF Names
<1>2. /\ SubSeq(stack, 1, n) \in Seq(StackOp) /\ Len(SubSeq(stack, 1, n)) = n
      /\ \A i \in 1..n : SubSeq(stack, 1, n)[i] = stack[i]
  BY <1>1
<1>3. ASSUME NEW i \in DOMAIN SubSeq(stack, 1, n) PROVE SubSeq(stack, 1, n)[i].id \in D
  <2>1. i \in 1..n /\ i \in DOMAIN stack
    BY <1>1, <1>2
  <2> QED BY <2>1, <1>1, <1>2
<1> QED
  BY <1>2, <1>3 DEF Names

(* A pop from a stack that is not empty.                                   *)
LEMMA StackPop ==
  ASSUME NEW D, NEW stack, Names(stack, D), stack # << >>
  PROVE  Names(Front(stack), D) /\ Last(stack) \in StackOp /\ Last(stack).id \in D
<1>1. stack \in Seq(StackOp) /\ \A i \in DOMAIN stack : stack[i].id \in D
  BY DEF Names
<1>2. Len(stack) \in Nat /\ Len(stack) > 0 /\ Len(stack) \in DOMAIN stack
  BY <1>1
<1>3. Front(stack) = SubSeq(stack, 1, Len(stack) - 1)
  BY DEF Front
<1>4. Names(SubSeq(stack, 1, Len(stack) - 1), D)
  BY <1>2, StackPrefix
<1>5. Last(stack) = stack[Len(stack)] /\ stack[Len(stack)] \in StackOp
  BY <1>1, <1>2 DEF Last
<1> QED
  BY <1>1, <1>2, <1>3, <1>4, <1>5

(* Vec::truncate on a stack.                                               *)
LEMMA StackTruncate ==
  ASSUME NEW D, NEW stack, Names(stack, D), NEW n \in Nat
  PROVE  Names(Truncate(stack, n), D)
<1>1. Len(stack) \in Nat
  BY DEF Names
<1>2. CASE Len(stack) <= n
  BY <1>2 DEF Truncate
<1>3. CASE ~ (Len(stack) <= n)
  <2>1. Names(SubSeq(stack, 1, n), D)
    BY <1>1, <1>3, StackPrefix
  <2> QED BY <2>1, <1>3 DEF Truncate
<1> QED
  BY <1>2, <1>3

(* The empty stack.                                                        *)
LEMMA StackEmpty == \A D : Names(<< >>, D)
  BY DEF Names

(* The invariant, with the two stacks stated as Names.                     *)
LEMMA InvNames ==
  ASSUME NEW s
  PROVE  Inv(s) <=> /\ DOMAIN s = StoreFields /\ CoreOf(s) /\ s.next_op_seq \in OpSeq
                    /\ Names(s.undo, DOMAIN s.records) /\ Names(s.redo, DOMAIN s.records)
  BY NewStoreFields DEF Inv, StacksOK, Names

------------------------------------------------------------------------------
(* Mutations                                                               *)

(* Any call of the mutating API, with any arguments.                       *)
Mutation ==
  {InsertCmd(d) : d \in QsoRecord} \cup {PatchCmd(id, p) : id \in QsoId, p \in QsoPatch}
    \cup {VoidCmd(id) : id \in QsoId} \cup {UndoCmd, RedoCmd}

(* The operation that patch, void, undo or redo is about to apply.         *)
LEMMA MutationOp ==
  ASSUME NEW s, Inv(s), NEW m \in Mutation, m.cmd # "insert", Succeeds(s, m)
  PROVE  /\ m.cmd \in {"patch", "void", "undo", "redo"}
         /\ OpFor(s, m).type \in {"Patch", "Void"} /\ OpFor(s, m).id \in DOMAIN s.records
         /\ OpFor(s, m).type = "Patch" => OpFor(s, m).patch \in QsoPatch
         /\ OpFor(s, m).type = "Void" => OpFor(s, m).prev_is_void \in BOOLEAN
<1>0. /\ CoreOf(s)
      /\ Names(s.undo, DOMAIN s.records) /\ Names(s.redo, DOMAIN s.records)
  BY InvNames
<1>1. CASE \E id \in QsoId, p \in QsoPatch : m = PatchCmd(id, p)
  <2>1. m.cmd = "patch" /\ m.patch \in QsoPatch
    BY <1>1 DEF PatchCmd
  <2>2. m.id \in DOMAIN s.records /\ OpFor(s, m) = PatchOp(m.id, m.patch, EmptyMap)
    BY <2>1 DEF Succeeds, OpFor
  <2> QED BY <2>1, <2>2 DEF PatchOp
<1>2. CASE \E id \in QsoId : m = VoidCmd(id)
  <2>1. m.cmd = "void"
    BY <1>2 DEF VoidCmd
  <2>2. m.id \in DOMAIN s.records /\ OpFor(s, m) = VoidOp(m.id, s.records[m.id]["is_void"])
    BY <2>1 DEF Succeeds, OpFor
  <2>3. s.records[m.id] \in QsoRecord
    BY <1>0, <2>2 DEF CoreOf, CoreOK
  <2>4. s.records[m.id]["is_void"] \in BOOLEAN
    BY <2>3, RecordFields
  <2> QED BY <2>1, <2>2, <2>4 DEF VoidOp
<1>3. CASE m = UndoCmd
  <2>1. m.cmd = "undo"
    BY <1>3 DEF UndoCmd
  <2>2. s.undo # << >> /\ OpFor(s, m) = Last(s.undo)
    BY <2>1 DEF Succeeds, OpFor
  <2>3. Last(s.undo) \in StackOp /\ Last(s.undo).id \in DOMAIN s.records
    BY <1>0, <2>2, StackPop
  <2> QED BY <2>1, <2>2, <2>3, StackOpFields
<1>4. CASE m = RedoCmd
  <2>1. m.cmd = "redo"
    BY <1>4 DEF RedoCmd
  <2>2. s.redo # << >> /\ OpFor(s, m) = Last(s.redo)
    BY <2>1 DEF Succeeds, OpFor
  <2>3. Last(s.redo) \in StackOp /\ Last(s.redo).id \in DOMAIN s.records
    BY <1>0, <2>2, StackPop
  <2> QED BY <2>1, <2>2, <2>3, StackOpFields
<1>5. CASE \E d \in QsoRecord : m = InsertCmd(d)
  BY <1>5 DEF InsertCmd
<1> QED
  BY <1>1, <1>2, <1>3, <1>4, <1>5 DEF Mutation

(* patch, void, undo and redo keep the invariant and the set of records.   *)
LEMMA MutateInv ==
  ASSUME NEW s, Inv(s), NEW m \in Mutation, m.cmd # "insert", Succeeds(s, m)
  PROVE  /\ Inv(Mutate(s, m)) /\ DOMAIN Mutate(s, m).records = DOMAIN s.records
         /\ Mutate(s, m).order = s.order
         /\ Mutate(s, m).next_qso_id = s.next_qso_id
<1> DEFINE op == OpFor(s, m)
           a == ApplyOp(s, op)
           t == Mutate(s, m)
           D == DOMAIN s.records
<1>0. /\ DOMAIN s = StoreFields /\ CoreOf(s) /\ s.next_op_seq \in OpSeq
      /\ Names(s.undo, D) /\ Names(s.redo, D)
  BY InvNames
<1>1. /\ m.cmd \in {"patch", "void", "undo", "redo"}
      /\ op.type \in {"Patch", "Void"} /\ op.id \in D
      /\ op.type = "Patch" => op.patch \in QsoPatch
      /\ op.type = "Void" => op.prev_is_void \in BOOLEAN
  BY MutationOp
<1> DEFINE inv == InverseOf(s, op)
<1> HIDE DEF op, D
<1>2. /\ CoreOf(a) /\ SameFrame(s, a) /\ a.next_op_seq = s.next_op_seq + 1
      /\ inv \in StackOp /\ inv.id = op.id
  BY <1>0, <1>1, ApplyOpCore DEF D
<1> HIDE DEF a, inv
<1>3. /\ DOMAIN a = StoreFields /\ DOMAIN a.records = D /\ a.undo = s.undo /\ a.redo = s.redo
      /\ a.order = s.order /\ a.next_qso_id = s.next_qso_id
  BY <1>0, <1>2 DEF SameFrame, D
<1>4. s.next_op_seq + 1 \in OpSeq
  BY <1>0 DEF OpSeq
<1>5. ASSUME NEW u, NEW r, NEW p, t = [a EXCEPT !.undo = u, !.redo = r, !.pending_ops = p],
             Names(u, D), Names(r, D)
      PROVE  Inv(t) /\ DOMAIN t.records = D /\ t.order = s.order /\ t.next_qso_id = s.next_qso_id
  <2> HIDE DEF t
  <2>1. /\ DOMAIN t = StoreFields /\ t.records = a.records /\ t.order = a.order /\ t.pos = a.pos
        /\ t.by_call = a.by_call /\ t.by_contest = a.by_contest /\ t.next_qso_id = a.next_qso_id
        /\ t.next_op_seq = a.next_op_seq /\ t.undo = u /\ t.redo = r
    BY <1>3, <1>5 DEF StoreFields
  <2>2. CoreOf(t)
    BY <2>1, <1>2, CoreFrame
  <2> QED BY <2>1, <2>2, <1>2, <1>3, <1>4, <1>5, InvNames
<1>6. CASE m.cmd \in {"patch", "void"}
  <2>1. t = [a EXCEPT !.undo = Append(s.undo, inv), !.redo = << >>,
                      !.pending_ops = Append(a.pending_ops, StoredFor(s, m))]
    BY <1>3, <1>6 DEF Mutate, PatchOrVoid, Commit, a, op, inv
  <2>2. Names(Append(s.undo, inv), D) /\ Names(<< >>, D)
    BY <1>0, <1>1, <1>2, StackPush, StackEmpty
  <2> QED BY <2>1, <2>2, <1>5 DEF D
<1>7. CASE m.cmd = "undo"
  <2>1. op = Last(s.undo) /\ s.undo # << >>
    BY <1>7 DEF op, OpFor, Succeeds
  <2>2. t = [a EXCEPT !.undo = Front(s.undo), !.redo = Append(s.redo, inv),
                      !.pending_ops = Append(a.pending_ops, StoredFor(s, UndoCmd))]
    BY <1>3, <1>7, <2>1 DEF Mutate, Undo, a, inv
  <2>3. Names(Front(s.undo), D) /\ Names(Append(s.redo, inv), D)
    BY <1>0, <1>1, <1>2, <2>1, StackPush, StackPop
  <2> QED BY <2>2, <2>3, <1>5 DEF D
<1>8. CASE m.cmd = "redo"
  <2>1. op = Last(s.redo) /\ s.redo # << >>
    BY <1>8 DEF op, OpFor, Succeeds
  <2>2. t = [a EXCEPT !.undo = Append(s.undo, inv), !.redo = Front(s.redo),
                      !.pending_ops = Append(a.pending_ops, StoredFor(s, RedoCmd))]
    <3>1. t = [a EXCEPT !.redo = Front(s.redo), !.undo = Append(s.undo, inv),
                        !.pending_ops = Append(a.pending_ops, StoredFor(s, RedoCmd))]
      BY <1>3, <1>8, <2>1 DEF Mutate, Redo, a, inv
    <3> HIDE DEF t
    <3> QED BY <3>1
  <2>3. Names(Front(s.redo), D) /\ Names(Append(s.undo, inv), D)
    BY <1>0, <1>1, <1>2, <2>1, StackPush, StackPop
  <2> QED BY <2>2, <2>3, <1>5 DEF D
<1> QED
  BY <1>1, <1>6, <1>7, <1>8

(* What insert does to each field of the store.                            *)
LEMMA InsertFields ==
  ASSUME NEW s, Inv(s), NEW draft \in QsoRecord
  PROVE  LET t   == Mutate(s, InsertCmd(draft))
             id  == s.next_qso_id
         IN  /\ DOMAIN t = StoreFields
             /\ t.records = MapInsert(s.records, id, draft)
             /\ t.order = Append(s.order, id)
             /\ t.pos = MapInsert(s.pos, id, Len(s.order) + 1)
             /\ t.by_call = [s.by_call EXCEPT ![draft["call"]] = Append(@, id)]
             /\ t.by_contest = [s.by_contest EXCEPT ![draft["contest"]] = Append(@, id)]
             /\ t.undo = Append(s.undo, VoidOp(id, FALSE)) /\ t.redo = << >>
             /\ t.next_op_seq = s.next_op_seq + 1 /\ t.next_qso_id = id + 1
<1> DEFINE m  == InsertCmd(draft)
           id == s.next_qso_id
           n  == s.next_op_seq
           op == InsertOp(id, draft)
           b  == [s EXCEPT !.next_qso_id = @ + 1]
           c  == [b EXCEPT !.next_op_seq = @ + 1]
           a  == ApplyInsertWithSeq(c, id, draft, n)
           t  == Mutate(s, m)
<1>0. DOMAIN s = StoreFields /\ id \in Nat /\ n \in Nat
  BY InvNames DEF CoreOf, CoreOK, QsoId, OpSeq
<1>1. OpFor(s, m) = op /\ m.cmd = "insert"
  BY DEF OpFor, InsertCmd
<1>2. op.type = "Insert" /\ op.id = id /\ op.qso = draft
  BY DEF InsertOp
<1>3. InverseOf(b, op) = VoidOp(id, FALSE)
  BY <1>2 DEF InverseOf
<1>4. /\ DOMAIN c = StoreFields /\ c.records = s.records /\ c.order = s.order /\ c.pos = s.pos
      /\ c.by_call = s.by_call /\ c.by_contest = s.by_contest /\ c.undo = s.undo
      /\ c.pending_ops = s.pending_ops /\ c.next_op_seq = n + 1 /\ c.next_qso_id = id + 1
  BY <1>0 DEF StoreFields
<1>5. b.next_op_seq = n
  BY <1>0 DEF StoreFields
<1>6. ApplyOp(b, op) = a
  BY <1>2, <1>5 DEF ApplyOp, ApplyWithSeq
<1>7. t = [a EXCEPT !.undo = Append(@, VoidOp(id, FALSE)), !.redo = << >>,
                    !.pending_ops = Append(@, StoredFor(s, m))]
  BY <1>1, <1>3, <1>6 DEF Mutate, Insert, Commit
<1> HIDE DEF b, c, id, n
<1>8. /\ DOMAIN a = StoreFields
      /\ a.records = MapInsert(s.records, id, draft) /\ a.order = Append(s.order, id)
      /\ a.pos = MapInsert(s.pos, id, Len(s.order) + 1)
      /\ a.by_call = [s.by_call EXCEPT ![draft["call"]] = Append(@, id)]
      /\ a.by_contest = [s.by_contest EXCEPT ![draft["contest"]] = Append(@, id)]
      /\ a.undo = s.undo /\ a.next_op_seq = n + 1 /\ a.next_qso_id = id + 1
  BY <1>0, <1>4 DEF ApplyInsertWithSeq, BumpNextSeqFrom, MaxOf, StoreFields
<1> HIDE DEF a, t
<1>9. /\ DOMAIN t = StoreFields /\ t.records = a.records /\ t.order = a.order /\ t.pos = a.pos
      /\ t.by_call = a.by_call /\ t.by_contest = a.by_contest
      /\ t.undo = Append(a.undo, VoidOp(id, FALSE)) /\ t.redo = << >>
      /\ t.next_op_seq = a.next_op_seq /\ t.next_qso_id = a.next_qso_id
  BY <1>7, <1>8 DEF StoreFields
<1> QED
  BY <1>8, <1>9 DEF t, id, n

(* A stack that names old records names records of a larger set.           *)
LEMMA StackWiden ==
  ASSUME NEW D, NEW E, D \subseteq E, NEW stack, Names(stack, D)
  PROVE  Names(stack, E)
  BY DEF Names

(* insert keeps the invariant.                                             *)
LEMMA InsertInv ==
  ASSUME NEW s, Inv(s), NEW draft \in QsoRecord
  PROVE  Inv(Mutate(s, InsertCmd(draft)))
<1> DEFINE t  == Mutate(s, InsertCmd(draft))
           id == s.next_qso_id
<1>1. /\ CoreOf(s) /\ Names(s.undo, DOMAIN s.records) /\ s.next_op_seq \in OpSeq
  BY InvNames
<1>2. /\ DOMAIN t = StoreFields
      /\ t.records = MapInsert(s.records, id, draft)
      /\ t.order = Append(s.order, id)
      /\ t.pos = MapInsert(s.pos, id, Len(s.order) + 1)
      /\ t.by_call = [s.by_call EXCEPT ![draft["call"]] = Append(@, id)]
      /\ t.by_contest = [s.by_contest EXCEPT ![draft["contest"]] = Append(@, id)]
      /\ t.undo = Append(s.undo, VoidOp(id, FALSE)) /\ t.redo = << >>
      /\ t.next_op_seq = s.next_op_seq + 1 /\ t.next_qso_id = id + 1
  BY InsertFields
<1> HIDE DEF t
<1>3. draft \in QsoRecord
  OBVIOUS
<1>4. CoreOf(t)
  <2>1. CoreOK(s.records, s.order, s.pos, s.by_call, s.by_contest, id)
    BY <1>1 DEF CoreOf
  <2>2. CoreOK(MapInsert(s.records, id, draft), Append(s.order, id),
               MapInsert(s.pos, id, Len(s.order) + 1),
               [s.by_call EXCEPT ![draft["call"]] = Append(@, id)],
               [s.by_contest EXCEPT ![draft["contest"]] = Append(@, id)], id + 1)
    <3> HIDE DEF id
    <3> QED BY <2>1, <1>3, CoreInsert
  <2>3. CoreOK(t.records, t.order, t.pos, t.by_call, t.by_contest, t.next_qso_id)
    BY <2>2, <1>2, Zenon
  <2> QED BY <2>3 DEF CoreOf
<1>5. DOMAIN t.records = DOMAIN s.records \cup {id}
  BY <1>2 DEF MapInsert
<1>6. VoidOp(id, FALSE) \in StackOp /\ VoidOp(id, FALSE).id = id
  BY <1>1 DEF CoreOf, CoreOK, VoidOp, StackOp
<1>7. Names(s.undo, DOMAIN t.records)
  BY <1>1, <1>5, StackWiden
<1>8. Names(t.undo, DOMAIN t.records) /\ Names(t.redo, DOMAIN t.records)
  <2>1. VoidOp(id, FALSE).id \in DOMAIN t.records
    BY <1>5, <1>6
  <2>2. Names(Append(s.undo, VoidOp(id, FALSE)), DOMAIN t.records)
    BY <2>1, <1>6, <1>7, StackPush
  <2> QED BY <2>2, <1>2, StackEmpty
<1>9. t.next_op_seq \in OpSeq
  BY <1>1, <1>2 DEF OpSeq
<1> QED
  BY <1>2, <1>4, <1>8, <1>9, InvNames DEF t

------------------------------------------------------------------------------
(* Rolled back mutations                                                   *)

(* Removing the last element of an entry by value.                         *)
LEMMA RetainAppend ==
  ASSUME NEW ids \in Seq(QsoId), NEW id \in QsoId, \A i \in DOMAIN ids : ids[i] # id
  PROVE  Retain(Append(ids, id), id) = ids
<1> DEFINE t == Append(ids, id)
           n == Len(ids) + 1
<1>1. /\ t \in Seq(QsoId) /\ Len(t) = n /\ t[n] = id /\ n \in 1..Len(t)
      /\ \A i \in 1..Len(ids) : t[i] = ids[i]
  OBVIOUS
<1>2. \A i \in DOMAIN t : t[i] = id <=> i = n
  BY <1>1
<1> HIDE DEF t
<1>3. (CHOOSE i \in DOMAIN t : t[i] = id) = n
  BY <1>1, <1>2
<1>4. Retain(t, id) = RemoveAt(t, n)
  BY <1>1, <1>3 DEF Retain
<1>5. /\ RemoveAt(t, n) \in Seq(QsoId) /\ Len(RemoveAt(t, n)) = Len(t) - 1
      /\ \A k \in 1..(Len(t) - 1) : RemoveAt(t, n)[k] = IF k < n THEN t[k] ELSE t[k + 1]
  BY <1>1, RemoveAtProps
<1>6. /\ Len(RemoveAt(t, n)) = Len(ids)
      /\ \A k \in 1..Len(ids) : RemoveAt(t, n)[k] = ids[k]
  BY <1>1, <1>5
<1>7. RemoveAt(t, n) = ids
  BY <1>5, <1>6, SeqEqual
<1> QED
  BY <1>4, <1>7 DEF t

(* Vec::remove of the last position undoes a push.                         *)
LEMMA RemoveAtAppend ==
  ASSUME NEW order \in Seq(QsoId), NEW id \in QsoId
  PROVE  RemoveAt(Append(order, id), Len(order) + 1) = order
<1> DEFINE t == Append(order, id)
           n == Len(order) + 1
<1>1. /\ t \in Seq(QsoId) /\ Len(t) = n /\ n \in 1..Len(t)
      /\ \A i \in 1..Len(order) : t[i] = order[i]
  OBVIOUS
<1> HIDE DEF t
<1>2. /\ RemoveAt(t, n) \in Seq(QsoId) /\ Len(RemoveAt(t, n)) = Len(t) - 1
      /\ \A k \in 1..(Len(t) - 1) : RemoveAt(t, n)[k] = IF k < n THEN t[k] ELSE t[k + 1]
  BY <1>1, RemoveAtProps
<1>3. /\ Len(RemoveAt(t, n)) = Len(order)
      /\ \A k \in 1..Len(order) : RemoveAt(t, n)[k] = order[k]
  BY <1>1, <1>2
<1> QED
  BY <1>2, <1>3, SeqEqual DEF t

(* Vec::truncate to the length before a push undoes the push.              *)
LEMMA TruncateAppend ==
  ASSUME NEW S, NEW stack \in Seq(S), NEW e \in S
  PROVE  Truncate(Append(stack, e), Len(stack)) = stack
<1> DEFINE t == Append(stack, e)
           n == Len(stack)
<1>1. /\ t \in Seq(S) /\ Len(t) = n + 1 /\ n \in Nat
      /\ \A i \in 1..n : t[i] = stack[i]
  OBVIOUS
<1> HIDE DEF t
<1>2. /\ SubSeq(t, 1, n) \in Seq(S) /\ Len(SubSeq(t, 1, n)) = n
      /\ \A i \in 1..n : SubSeq(t, 1, n)[i] = t[i]
  BY <1>1
<1>3. SubSeq(t, 1, n) = stack
  BY <1>1, <1>2, SeqEqual
<1>4. ~ (Len(t) <= n)
  BY <1>1
<1> QED
  BY <1>3, <1>4 DEF Truncate, t

(* Removing the entry just added to an index gives the index back.         *)
LEMMA IndexRollback ==
  ASSUME NEW K, NEW index \in [K -> Seq(QsoId)], NEW key \in K, NEW id \in QsoId,
         \A i \in DOMAIN index[key] : index[key][i] # id,
         NEW longer, longer = [index EXCEPT ![key] = Append(@, id)]
  PROVE  RemoveFromIndex(longer, key, id) = index
<1>1. Retain(Append(index[key], id), id) = index[key]
  BY RetainAppend
<1>2. longer[key] = Append(index[key], id)
  OBVIOUS
<1>3. [longer EXCEPT ![key] = index[key]] = index
  OBVIOUS
<1>4. RemoveFromIndex(longer, key, id) = [longer EXCEPT ![key] = Retain(longer[key], id)]
  BY DEF RemoveFromIndex
<1> QED
  BY <1>1, <1>2, <1>3, <1>4

(* What a rejected mutation does to each field, given the store r that     *)
(* rollback_op leaves.                                                     *)
LEMMA RejectedFields ==
  ASSUME NEW s, Inv(s), NEW m, DOMAIN Mutate(s, m) = StoreFields,
         NEW r, r = RollbackOp(ClearPendingOps(Mutate(s, m)), StoredFor(s, m).op),
         DOMAIN r = StoreFields
  PROVE  LET t == Rejected(s, m)
         IN  /\ DOMAIN t = StoreFields /\ t.records = r.records /\ t.order = r.order
             /\ t.pos = r.pos /\ t.by_call = r.by_call /\ t.by_contest = r.by_contest
             /\ t.undo = Truncate(r.undo, Len(s.undo)) /\ t.redo = Truncate(r.redo, Len(s.redo))
             /\ t.next_op_seq = s.next_op_seq /\ t.next_qso_id = s.next_qso_id
<1> DEFINE c == MutationCheckpoint(s)
           t == Rejected(s, m)
<1>1. t = [r EXCEPT !.next_op_seq = c.next_op_seq, !.next_qso_id = c.next_qso_id,
                    !.undo = Truncate(@, c.undo_len), !.redo = Truncate(@, c.redo_len),
                    !.pending_ops = Truncate(@, c.pending_ops_len)]
  BY DEF Rejected, RollbackMutation
<1>2. /\ c.next_op_seq = s.next_op_seq /\ c.next_qso_id = s.next_qso_id
      /\ c.undo_len = Len(s.undo) /\ c.redo_len = Len(s.redo)
  BY DEF MutationCheckpoint
<1> HIDE DEF c, t
<1>3. /\ DOMAIN t = StoreFields /\ t.records = r.records /\ t.order = r.order
      /\ t.pos = r.pos /\ t.by_call = r.by_call /\ t.by_contest = r.by_contest
      /\ t.undo = Truncate(r.undo, c.undo_len) /\ t.redo = Truncate(r.redo, c.redo_len)
      /\ t.next_op_seq = c.next_op_seq /\ t.next_qso_id = c.next_qso_id
  BY <1>1 DEF StoreFields
<1> QED
  BY <1>2, <1>3 DEF t

(* clear_pending_ops empties the buffer and nothing else.                  *)
LEMMA ClearFields ==
  ASSUME NEW s, DOMAIN s = StoreFields
  PROVE  LET t == ClearPendingOps(s)
         IN  /\ DOMAIN t = StoreFields /\ t.records = s.records /\ t.order = s.order
             /\ t.pos = s.pos /\ t.by_call = s.by_call /\ t.by_contest = s.by_contest
             /\ t.undo = s.undo /\ t.redo = s.redo
             /\ t.next_op_seq = s.next_op_seq /\ t.next_qso_id = s.next_qso_id
  BY DEF ClearPendingOps, StoreFields

(* A map gets back to what it was when a fresh key is added and removed.   *)
LEMMA MapInsertRemove ==
  ASSUME NEW f, f = [x \in DOMAIN f |-> f[x]], NEW k, k \notin DOMAIN f, NEW v
  PROVE  MapRemove(MapInsert(f, k, v), k) = f
<1> DEFINE g == MapInsert(f, k, v)
<1>1. DOMAIN g = DOMAIN f \cup {k} /\ \A x \in DOMAIN f : g[x] = f[x]
  BY DEF MapInsert
<1> HIDE DEF g
<1>2. DOMAIN g \ {k} = DOMAIN f
  BY <1>1
<1>3. MapRemove(g, k) = [x \in DOMAIN f |-> g[x]]
  BY <1>2 DEF MapRemove
<1>4. [x \in DOMAIN f |-> g[x]] = [x \in DOMAIN f |-> f[x]]
  BY <1>1
<1> QED
  BY <1>3, <1>4 DEF g

(* A rolled back insert leaves records, order, positions and indices       *)
(* exactly as they were before it.                                         *)
LEMMA RejectedInsert ==
  ASSUME NEW s, Inv(s), NEW draft \in QsoRecord
  PROVE  LET t == Rejected(s, InsertCmd(draft))
         IN  /\ DOMAIN t = StoreFields /\ Visible(t) = Visible(s)
             /\ t.undo = s.undo /\ t.redo = << >>
             /\ t.next_op_seq = s.next_op_seq /\ t.next_qso_id = s.next_qso_id
<1> DEFINE m  == InsertCmd(draft)
           id == s.next_qso_id
           u  == Mutate(s, m)
           c  == ClearPendingOps(u)
           r  == RollbackInsert(c, id)
           t  == Rejected(s, m)
<1>0. /\ DOMAIN s.records \subseteq QsoId /\ s.records \in [DOMAIN s.records -> QsoRecord]
      /\ s.order \in Seq(QsoId) /\ s.pos \in [DOMAIN s.records -> Nat] /\ id \in QsoId
      /\ s.by_call \in [Call -> Seq(QsoId)] /\ s.by_contest \in [Contest -> Seq(QsoId)]
      /\ OrderOK(s.records, s.order, s.pos, id)
      /\ IndexOK(s.records, s.pos, s.by_call, "call")
      /\ IndexOK(s.records, s.pos, s.by_contest, "contest")
      /\ Names(s.undo, DOMAIN s.records)
  BY InvNames DEF CoreOf, CoreOK
<1>1. /\ id \notin DOMAIN s.records /\ \A q \in DOMAIN s.records : s.pos[q] \in DOMAIN s.order
  <2>1. /\ \A q \in DOMAIN s.records : q < id
        /\ \A q \in DOMAIN s.records : s.pos[q] \in DOMAIN s.order
    BY <1>0 DEF OrderOK
  <2> QED BY <2>1, <1>0 DEF QsoId
<1>2. /\ DOMAIN u = StoreFields
      /\ u.records = MapInsert(s.records, id, draft)
      /\ u.order = Append(s.order, id)
      /\ u.pos = MapInsert(s.pos, id, Len(s.order) + 1)
      /\ u.by_call = [s.by_call EXCEPT ![draft["call"]] = Append(@, id)]
      /\ u.by_contest = [s.by_contest EXCEPT ![draft["contest"]] = Append(@, id)]
      /\ u.undo = Append(s.undo, VoidOp(id, FALSE)) /\ u.redo = << >>
  BY InsertFields
<1> HIDE DEF u
<1>3. /\ DOMAIN c = StoreFields /\ c.records = u.records /\ c.order = u.order /\ c.pos = u.pos
      /\ c.by_call = u.by_call /\ c.by_contest = u.by_contest /\ c.undo = u.undo /\ c.redo = u.redo
  BY <1>2, ClearFields
<1>4. StoredFor(s, m).op = InsertOp(id, draft)
  BY DEF StoredFor, StoredOp, Emitted, OpFor, InsertCmd, InsertOp
<1>5. RollbackOp(c, InsertOp(id, draft)) = r
  BY DEF RollbackOp, InsertOp
<1> HIDE DEF c
<1>6. /\ DOMAIN r = StoreFields
      /\ r.records = MapRemove(c.records, id) /\ r.order = RemoveAt(c.order, c.pos[id])
      /\ r.by_call = RemoveFromIndex(c.by_call, c.records[id]["call"], id)
      /\ r.by_contest = RemoveFromIndex(c.by_contest, c.records[id]["contest"], id)
      /\ r.pos = [q \in DOMAIN c.pos \ {id} |->
                    IF c.pos[q] > c.pos[id] THEN c.pos[q] - 1 ELSE c.pos[q]]
      /\ r.undo = c.undo /\ r.redo = c.redo
  BY <1>3 DEF RollbackInsert, StoreFields
<1> HIDE DEF r
<1>7. r.records = s.records
  <2>1. s.records = [x \in DOMAIN s.records |-> s.records[x]]
    BY <1>0
  <2> QED BY <2>1, <1>1, <1>2, <1>3, <1>6, MapInsertRemove
<1>8. c.records[id] = draft /\ c.pos[id] = Len(s.order) + 1
  BY <1>2, <1>3 DEF MapInsert
<1>9. r.order = s.order
  BY <1>0, <1>2, <1>3, <1>6, <1>8, RemoveAtAppend
<1>10. r.pos = s.pos
  <2>1. DOMAIN c.pos \ {id} = DOMAIN s.records /\ \A q \in DOMAIN s.records : c.pos[q] = s.pos[q]
    BY <1>0, <1>1, <1>2, <1>3 DEF MapInsert
  <2>2. \A q \in DOMAIN s.records : ~ (c.pos[q] > c.pos[id])
    BY <2>1, <1>0, <1>1, <1>8
  <2>3. r.pos = [q \in DOMAIN s.records |-> s.pos[q]]
    BY <2>1, <2>2, <1>6
  <2> QED BY <2>3, <1>0
<1>11. draft["call"] \in Call /\ draft["contest"] \in Contest
  BY RecordFields
<1>12. r.by_call = s.by_call
  <2>1. r.by_call = RemoveFromIndex(c.by_call, draft["call"], id)
    BY <1>6, <1>8
  <2> DEFINE x == s.by_call
             key == draft["call"]
  <2>2. EntryOK(s.records, s.pos, x[key], "call", key)
    BY <1>0, <1>11 DEF IndexOK
  <2>3. \A i \in DOMAIN x[key] : x[key][i] # id
    BY <2>2, <1>1 DEF EntryOK
  <2>4. x \in [Call -> Seq(QsoId)] /\ key \in Call /\ id \in QsoId
    BY <1>0, <1>11
  <2>5. c.by_call = [x EXCEPT ![key] = Append(@, id)]
    BY <1>2, <1>3
  <2> HIDE DEF id, x, key
  <2>6. RemoveFromIndex(c.by_call, key, id) = x
    BY <2>3, <2>4, <2>5, IndexRollback
  <2> QED BY <2>1, <2>6 DEF x, key
<1>13. r.by_contest = s.by_contest
  <2>1. r.by_contest = RemoveFromIndex(c.by_contest, draft["contest"], id)
    BY <1>6, <1>8
  <2> DEFINE x == s.by_contest
             key == draft["contest"]
  <2>2. EntryOK(s.records, s.pos, x[key], "contest", key)
    BY <1>0, <1>11 DEF IndexOK
  <2>3. \A i \in DOMAIN x[key] : x[key][i] # id
    BY <2>2, <1>1 DEF EntryOK
  <2>4. x \in [Contest -> Seq(QsoId)] /\ key \in Contest /\ id \in QsoId
    BY <1>0, <1>11
  <2>5. c.by_contest = [x EXCEPT ![key] = Append(@, id)]
    BY <1>2, <1>3
  <2> HIDE DEF id, x, key
  <2>6. RemoveFromIndex(c.by_contest, key, id) = x
    BY <2>3, <2>4, <2>5, IndexRollback
  <2> QED BY <2>1, <2>6 DEF x, key
<1>14. /\ DOMAIN t = StoreFields /\ t.records = r.records /\ t.order = r.order
       /\ t.pos = r.pos /\ t.by_call = r.by_call /\ t.by_contest = r.by_contest
       /\ t.undo = Truncate(r.undo, Len(s.undo)) /\ t.redo = Truncate(r.redo, Len(s.redo))
       /\ t.next_op_seq = s.next_op_seq /\ t.next_qso_id = s.next_qso_id
  <2>1. r = RollbackOp(ClearPendingOps(Mutate(s, m)), StoredFor(s, m).op)
    BY <1>4, <1>5 DEF c, u
  <2>2. DOMAIN Mutate(s, m) = StoreFields
    BY <1>2 DEF u
  <2> HIDE DEF m, t
  <2>3. LET w == Rejected(s, m)
         IN  /\ DOMAIN w = StoreFields /\ w.records = r.records /\ w.order = r.order
             /\ w.pos = r.pos /\ w.by_call = r.by_call /\ w.by_contest = r.by_contest
             /\ w.undo = Truncate(r.undo, Len(s.undo)) /\ w.redo = Truncate(r.redo, Len(s.redo))
             /\ w.next_op_seq = s.next_op_seq /\ w.next_qso_id = s.next_qso_id
    BY <2>1, <2>2, <1>6, RejectedFields
  <2> QED BY <2>3 DEF t
<1> HIDE DEF t, m
<1>15. Truncate(r.undo, Len(s.undo)) = s.undo
  <2>1. s.undo \in Seq(StackOp) /\ VoidOp(id, FALSE) \in StackOp
    BY <1>0 DEF Names, VoidOp, StackOp
  <2>2. r.undo = Append(s.undo, VoidOp(id, FALSE))
    BY <1>2, <1>3, <1>6
  <2> QED BY <2>1, <2>2, TruncateAppend
<1>16. Truncate(r.redo, Len(s.redo)) = << >>
  BY <1>2, <1>3, <1>6 DEF Truncate
<1>17. Visible(t) = Visible(s)
  BY <1>7, <1>9, <1>10, <1>12, <1>13, <1>14 DEF Visible
<1> QED
  BY <1>14, <1>15, <1>16, <1>17 DEF t, m

(* A rolled back patch, void, undo or redo keeps the invariant.            *)
LEMMA RejectedInv ==
  ASSUME NEW s, Inv(s), NEW m \in Mutation, m.cmd # "insert", Succeeds(s, m)
  PROVE  /\ Inv(Rejected(s, m))
         /\ Rejected(s, m).order = s.order
         /\ Rejected(s, m).next_qso_id = s.next_qso_id
<1> DEFINE D  == DOMAIN s.records
           op == OpFor(s, m)
           e  == StoredFor(s, m).op
           u  == Mutate(s, m)
           c  == ClearPendingOps(u)
           r  == RollbackOp(c, e)
           t  == Rejected(s, m)
<1>0. CoreOf(s) /\ s.next_op_seq \in OpSeq /\ s.undo \in Seq(StackOp) /\ s.redo \in Seq(StackOp)
  BY InvNames DEF Names
<1>1. Inv(u) /\ DOMAIN u.records = D /\ u.order = s.order /\ u.next_qso_id = s.next_qso_id
  BY MutateInv
<1>2. /\ DOMAIN u = StoreFields /\ CoreOf(u)
      /\ Names(u.undo, D) /\ Names(u.redo, D)
  BY <1>1, InvNames
<1>3. /\ op.type \in {"Patch", "Void"} /\ op.id \in D
      /\ op.type = "Patch" => op.patch \in QsoPatch
      /\ op.type = "Void" => op.prev_is_void \in BOOLEAN
  BY MutationOp
<1>4. e = Emitted(s, op)
  BY DEF StoredFor, StoredOp
<1> HIDE DEF op, e, u
<1>5. /\ DOMAIN c = StoreFields /\ c.records = u.records /\ c.order = u.order /\ c.pos = u.pos
      /\ c.by_call = u.by_call /\ c.by_contest = u.by_contest /\ c.undo = u.undo /\ c.redo = u.redo
      /\ c.next_qso_id = u.next_qso_id
  BY <1>2, ClearFields
<1> HIDE DEF c
<1>6. CoreOf(c)
  BY <1>2, <1>5, CoreFrame
<1>7. s.records[op.id] \in QsoRecord
  BY <1>0, <1>3 DEF CoreOf, CoreOK
<1>8. CoreOf(r) /\ SameFrame(c, r)
  <2>1. CASE op.type = "Patch"
    <3>1. e = PatchOp(op.id, op.patch, CaptureInverseFor(op.patch, s.records[op.id]))
      BY <1>4, <2>1 DEF Emitted
    <3>2. CaptureInverseFor(op.patch, s.records[op.id]) \in QsoPatch
      BY <1>3, <1>7, <2>1, CaptureInverseType
    <3>3. e.type = "Patch" /\ e.id = op.id /\ e.prev \in QsoPatch
      BY <3>1, <3>2 DEF PatchOp
    <3>4. r = PatchInPlace(c, op.id, e.prev)
      BY <3>3 DEF RollbackOp
    <3>5. op.id \in DOMAIN c.records
      BY <1>1, <1>3, <1>5
    <3> QED BY <3>3, <3>4, <3>5, <1>5, <1>6, PatchInPlaceCore
  <2>2. CASE op.type = "Void"
    <3>1. e = op
      BY <1>4, <2>2 DEF Emitted
    <3>2. r = SetVoid(c, op.id, op.prev_is_void)
      BY <3>1, <2>2 DEF RollbackOp
    <3>3. op.id \in DOMAIN c.records
      BY <1>1, <1>3, <1>5
    <3> QED BY <3>2, <3>3, <2>2, <1>3, <1>5, <1>6, SetVoidCore
  <2> QED BY <2>1, <2>2, <1>3
<1>9. r = RollbackOp(ClearPendingOps(Mutate(s, m)), StoredFor(s, m).op)
  BY DEF c, u, e
<1> HIDE DEF r
<1>10. /\ DOMAIN r = StoreFields /\ DOMAIN r.records = D /\ r.order = s.order
       /\ r.undo = u.undo /\ r.redo = u.redo /\ r.next_qso_id = s.next_qso_id
  BY <1>1, <1>5, <1>8 DEF SameFrame
<1>11. /\ DOMAIN t = StoreFields /\ t.records = r.records /\ t.order = r.order
       /\ t.pos = r.pos /\ t.by_call = r.by_call /\ t.by_contest = r.by_contest
       /\ t.undo = Truncate(r.undo, Len(s.undo)) /\ t.redo = Truncate(r.redo, Len(s.redo))
       /\ t.next_op_seq = s.next_op_seq /\ t.next_qso_id = s.next_qso_id
  <2>1. DOMAIN Mutate(s, m) = StoreFields
    BY <1>2 DEF u
  <2> QED BY <2>1, <1>9, <1>10, RejectedFields
<1> HIDE DEF t
<1>12. CoreOf(t)
  BY <1>8, <1>10, <1>11, CoreFrame
<1>13. Names(t.undo, DOMAIN t.records) /\ Names(t.redo, DOMAIN t.records)
  <2>1. Len(s.undo) \in Nat /\ Len(s.redo) \in Nat
    BY <1>0
  <2>2. Names(Truncate(u.undo, Len(s.undo)), D) /\ Names(Truncate(u.redo, Len(s.redo)), D)
    BY <2>1, <1>2, StackTruncate
  <2> QED BY <2>2, <1>10, <1>11
<1>14. Inv(t)
  BY <1>0, <1>11, <1>12, <1>13, InvNames
<1> QED
  BY <1>10, <1>11, <1>14 DEF t

------------------------------------------------------------------------------
(* Snapshot and restore                                                    *)

(* Ascending(P) is what it says once some increasing enumeration exists.   *)
LEMMA AscendingProps ==
  ASSUME NEW P \in SUBSET Nat, NEW n \in Nat, NEW w \in [1..n -> P],
         \A p \in P : \E k \in 1..n : w[k] = p,
         \A k, l \in 1..n : k < l => w[k] < w[l]
  PROVE  /\ Ascending(P) \in [1..n -> P]
         /\ \A p \in P : \E k \in 1..n : Ascending(P)[k] = p
         /\ \A k, l \in 1..n : k < l => Ascending(P)[k] < Ascending(P)[l]
<1>1. \A k, l \in 1..n : w[k] = w[l] => k = l
  <2> SUFFICES ASSUME NEW k \in 1..n, NEW l \in 1..n, w[k] = w[l], k # l PROVE FALSE
    OBVIOUS
  <2>1. w[k] \in Nat /\ w[l] \in Nat
    OBVIOUS
  <2>2. k < l \/ l < k
    OBVIOUS
  <2> QED BY <2>1, <2>2
<1>2. w \in Bijection(1..n, P)
  <2>1. w \in Injection(1..n, P)
    BY <1>1 DEF Injection, IsInjective
  <2>2. w \in Surjection(1..n, P)
    BY DEF Surjection
  <2> QED BY <2>1, <2>2 DEF Bijection
<1>3. ExistsBijection(1..n, P)
  BY <1>2 DEF ExistsBijection
<1>4. Cardinality(P) = n
  BY <1>3, FS_CountingElements
<1>5. Ascending(P) = CHOOSE at \in [1..n -> P] :
                       /\ \A p \in P : \E k \in DOMAIN at : at[k] = p
                       /\ \A k, l \in DOMAIN at : k < l => at[k] < at[l]
  BY <1>4 DEF Ascending
<1> DEFINE Good(at) == /\ \A p \in P : \E k \in DOMAIN at : at[k] = p
                       /\ \A k, l \in DOMAIN at : k < l => at[k] < at[l]
<1>6. DOMAIN w = 1..n
  OBVIOUS
<1>7. Good(w)
  BY <1>6
<1>8. Ascending(P) \in [1..n -> P] /\ Good(Ascending(P))
  <2>1. \E at \in [1..n -> P] : Good(at)
    BY <1>7
  <2>2. Ascending(P) = CHOOSE at \in [1..n -> P] : Good(at)
    BY <1>5
  <2> HIDE DEF Good
  <2> QED BY <2>1, <2>2
<1>9. DOMAIN Ascending(P) = 1..n
  BY <1>8
<1> QED
  BY <1>8, <1>9

(* An index entry rebuilt from a snapshot is right.                        *)
LEMMA IndexOfOK ==
  ASSUME NEW f, NEW key, NEW records, NEW order \in Seq(QsoId), NEW pos, NEW next, NEW ids \in Seq(QsoId),
         OrderOK(records, order, pos, next), EntryOK(records, pos, ids, f, key),
         NEW recs, recs = [i \in DOMAIN order |-> [id |-> order[i], qso |-> records[order[i]]]]
  PROVE  /\ IndexOf(recs, f, key) \in Seq(QsoId)
         /\ EntryOK(records, pos, IndexOf(recs, f, key), f, key)
<1> DEFINE P == {i \in DOMAIN recs : recs[i].qso[f] = key}
           n == Len(ids)
           w == [k \in 1..n |-> pos[ids[k]]]
           at == Ascending(P)
           t == IndexOf(recs, f, key)
<1>1. /\ \A i \in DOMAIN order : order[i] \in DOMAIN records /\ pos[order[i]] = i
      /\ \A q \in DOMAIN records : pos[q] \in DOMAIN order /\ order[pos[q]] = q
  BY DEF OrderOK
<1>2. /\ \A i \in DOMAIN ids : ids[i] \in DOMAIN records /\ records[ids[i]][f] = key
      /\ \A i, j \in DOMAIN ids : i < j => pos[ids[i]] < pos[ids[j]]
      /\ \A q \in DOMAIN records : records[q][f] = key => \E i \in DOMAIN ids : ids[i] = q
  BY DEF EntryOK
<1>3. DOMAIN ids = 1..n /\ n \in Nat /\ DOMAIN order = 1..Len(order) /\ Len(order) \in Nat
  OBVIOUS
<1>4. /\ DOMAIN recs = DOMAIN order
      /\ \A i \in DOMAIN order : recs[i].id = order[i] /\ recs[i].qso = records[order[i]]
  OBVIOUS
<1>5. P = {i \in DOMAIN order : records[order[i]][f] = key}
  BY <1>4
<1>6. P \in SUBSET Nat
  BY <1>3, <1>5
<1> HIDE DEF P, n
<1>7. w \in [1..n -> P]
  <2>1. ASSUME NEW k \in 1..n PROVE pos[ids[k]] \in P
    BY <1>1, <1>2, <1>3, <1>5
  <2> QED BY <2>1
<1>8. ASSUME NEW p \in P PROVE \E k \in 1..n : w[k] = p
  <2>1. p \in DOMAIN order /\ records[order[p]][f] = key
    BY <1>5
  <2>2. PICK k \in 1..n : ids[k] = order[p]
    BY <2>1, <1>1, <1>2, <1>3
  <2>3. w[k] = p
    BY <2>1, <2>2, <1>1
  <2> QED BY <2>3
<1>9. \A k, l \in 1..n : k < l => w[k] < w[l]
  BY <1>2, <1>3
<1> HIDE DEF w
<1>10. /\ at \in [1..n -> P]
       /\ \A p \in P : \E k \in 1..n : at[k] = p
       /\ \A k, l \in 1..n : k < l => at[k] < at[l]
  BY <1>3, <1>6, <1>7, <1>8, <1>9, AscendingProps
<1>11. t = [k \in DOMAIN at |-> recs[at[k]].id]
  BY DEF IndexOf, P
<1> HIDE DEF at, t
<1>12. \A k \in 1..n : at[k] \in P /\ at[k] \in DOMAIN order /\ records[order[at[k]]][f] = key
  BY <1>5, <1>10
<1>13. DOMAIN t = 1..n /\ \A k \in 1..n : t[k] = order[at[k]]
  BY <1>4, <1>10, <1>11, <1>12
<1>14. t \in Seq(QsoId)
  <2>1. \A k \in 1..n : t[k] \in QsoId
    BY <1>12, <1>13
  <2>2. t \in [1..n -> QsoId]
    BY <2>1, <1>11, <1>13
  <2> QED BY <2>2, <1>3
<1>15. ASSUME NEW q \in DOMAIN records, records[q][f] = key PROVE \E k \in DOMAIN t : t[k] = q
  <2>1. pos[q] \in P
    BY <1>1, <1>5, <1>15
  <2>2. PICK k \in 1..n : at[k] = pos[q]
    BY <2>1, <1>10
  <2> QED BY <2>2, <1>1, <1>13
<1>16. ASSUME NEW k \in DOMAIN t PROVE t[k] \in DOMAIN records /\ records[t[k]][f] = key
  <2>1. t[k] = order[at[k]] /\ at[k] \in DOMAIN order /\ records[order[at[k]]][f] = key
    BY <1>12, <1>13
  <2> QED BY <1>1, <2>1
<1>17. ASSUME NEW k \in DOMAIN t, NEW l \in DOMAIN t, k < l PROVE pos[t[k]] < pos[t[l]]
  <2>1. pos[t[k]] = at[k] /\ pos[t[l]] = at[l]
    BY <1>1, <1>12, <1>13
  <2> QED BY <2>1, <1>10, <1>13, <1>17
<1> QED
  BY <1>14, <1>15, <1>16, <1>17 DEF EntryOK, t

(* Restoring a store from its own snapshot gives back records, order,      *)
(* positions and counters, right indices, and empty stacks.                *)
LEMMA RestoreInv ==
  ASSUME NEW s, Inv(s)
  PROVE  /\ Inv(FromSnapshot(ExportSnapshot(s)))
         /\ FromSnapshot(ExportSnapshot(s)).records = s.records
         /\ FromSnapshot(ExportSnapshot(s)).order = s.order
         /\ FromSnapshot(ExportSnapshot(s)).next_qso_id = s.next_qso_id
         /\ FromSnapshot(ExportSnapshot(s)).next_op_seq = s.next_op_seq
         /\ FromSnapshot(ExportSnapshot(s)).pending_ops = << >>
<1> DEFINE snap == ExportSnapshot(s)
           recs == snap.records
           t == FromSnapshot(snap)
<1>0. /\ DOMAIN s.records \subseteq QsoId /\ s.records \in [DOMAIN s.records -> QsoRecord]
      /\ s.order \in Seq(QsoId) /\ s.pos \in [DOMAIN s.records -> Nat] /\ s.next_qso_id \in QsoId
      /\ s.by_call \in [Call -> Seq(QsoId)] /\ s.by_contest \in [Contest -> Seq(QsoId)]
      /\ OrderOK(s.records, s.order, s.pos, s.next_qso_id)
      /\ IndexOK(s.records, s.pos, s.by_call, "call")
      /\ IndexOK(s.records, s.pos, s.by_contest, "contest")
      /\ s.next_op_seq \in OpSeq
  BY InvNames DEF CoreOf, CoreOK
<1>1. /\ \A i \in DOMAIN s.order : s.order[i] \in DOMAIN s.records /\ s.pos[s.order[i]] = i
      /\ \A q \in DOMAIN s.records : s.pos[q] \in DOMAIN s.order /\ s.order[s.pos[q]] = q
  BY <1>0 DEF OrderOK
<1>2. /\ snap.next_qso_id = s.next_qso_id /\ snap.next_op_seq = s.next_op_seq
      /\ snap.order = s.order
      /\ recs = [i \in DOMAIN s.order |-> [id |-> s.order[i], qso |-> s.records[s.order[i]]]]
  BY DEF ExportSnapshot
<1> HIDE DEF snap
<1>3. /\ DOMAIN recs = DOMAIN s.order
      /\ \A i \in DOMAIN s.order : recs[i].id = s.order[i] /\ recs[i].qso = s.records[s.order[i]]
  BY <1>2
<1> DEFINE idsOf == {snap.records[i].id : i \in DOMAIN snap.records}
           P == [id \in ToSet(snap.order) |-> CHOOSE i \in DOMAIN snap.order : snap.order[i] = id]
           R == [id \in idsOf |-> snap.records[CHOOSE i \in DOMAIN snap.records :
                                                 snap.records[i].id = id].qso]
           C == [c \in Call |-> IndexOf(snap.records, "call", c)]
           N == [c \in Contest |-> IndexOf(snap.records, "contest", c)]
<1>4. t = [NewStore EXCEPT !.next_qso_id = snap.next_qso_id, !.next_op_seq = snap.next_op_seq,
             !.order = snap.order, !.pos = P, !.records = R, !.by_call = C, !.by_contest = N]
  BY DEF FromSnapshot
<1> HIDE DEF P, R, C, N, t
<1>5. /\ DOMAIN t = StoreFields /\ t.next_qso_id = s.next_qso_id /\ t.next_op_seq = s.next_op_seq
      /\ t.order = s.order /\ t.pos = P /\ t.records = R /\ t.by_call = C /\ t.by_contest = N
      /\ t.undo = << >> /\ t.redo = << >> /\ t.pending_ops = << >>
  BY <1>2, <1>4 DEF NewStore, StoreFields
<1>6. P = s.pos
  <2>1. ToSet(snap.order) = DOMAIN s.records
    BY <1>1, <1>2 DEF ToSet
  <2>2. ASSUME NEW id \in DOMAIN s.records
        PROVE  (CHOOSE i \in DOMAIN snap.order : snap.order[i] = id) = s.pos[id]
    <3>1. \A i \in DOMAIN snap.order : snap.order[i] = id <=> i = s.pos[id]
      BY <1>1, <1>2
    <3>2. s.pos[id] \in DOMAIN snap.order
      BY <1>1, <1>2
    <3> QED BY <3>1, <3>2
  <2>3. P = [id \in DOMAIN s.records |-> s.pos[id]]
    BY <2>1, <2>2 DEF P
  <2> QED BY <2>3, <1>0
<1>7. R = s.records
  <2>1. idsOf = DOMAIN s.records
    BY <1>1, <1>3
  <2>2. ASSUME NEW id \in DOMAIN s.records
        PROVE  recs[CHOOSE i \in DOMAIN recs : recs[i].id = id].qso = s.records[id]
    <3>1. \A i \in DOMAIN recs : recs[i].id = id <=> i = s.pos[id]
      BY <1>1, <1>3
    <3>2. s.pos[id] \in DOMAIN recs
      BY <1>1, <1>3
    <3>3. (CHOOSE i \in DOMAIN recs : recs[i].id = id) = s.pos[id]
      BY <3>1, <3>2
    <3> QED BY <3>2, <3>3, <1>1, <1>3
  <2>3. R = [id \in DOMAIN s.records |-> s.records[id]]
    <3> DEFINE E(id) == recs[CHOOSE i \in DOMAIN recs : recs[i].id = id].qso
    <3>1. R = [id \in DOMAIN s.records |-> E(id)]
      BY <2>1 DEF R
    <3>2. \A id \in DOMAIN s.records : E(id) = s.records[id]
      BY <2>2
    <3> HIDE DEF E
    <3> QED BY <3>1, <3>2
  <2> QED BY <2>3, <1>0
<1> HIDE DEF recs
<1>8. C \in [Call -> Seq(QsoId)] /\ IndexOK(s.records, s.pos, C, "call")
  <2>1. ASSUME NEW c \in Call
        PROVE  /\ IndexOf(recs, "call", c) \in Seq(QsoId)
               /\ EntryOK(s.records, s.pos, IndexOf(recs, "call", c), "call", c)
    <3>1. s.by_call[c] \in Seq(QsoId) /\ EntryOK(s.records, s.pos, s.by_call[c], "call", c)
      BY <1>0 DEF IndexOK
    <3> QED BY <3>1, <1>0, <1>2, IndexOfOK
  <2>2. C = [c \in Call |-> IndexOf(recs, "call", c)]
    BY DEF C, recs
  <2> QED BY <2>1, <2>2 DEF IndexOK
<1>9. N \in [Contest -> Seq(QsoId)] /\ IndexOK(s.records, s.pos, N, "contest")
  <2>1. ASSUME NEW c \in Contest
        PROVE  /\ IndexOf(recs, "contest", c) \in Seq(QsoId)
               /\ EntryOK(s.records, s.pos, IndexOf(recs, "contest", c), "contest", c)
    <3>1. s.by_contest[c] \in Seq(QsoId) /\ EntryOK(s.records, s.pos, s.by_contest[c], "contest", c)
      BY <1>0 DEF IndexOK
    <3> QED BY <3>1, <1>0, <1>2, IndexOfOK
  <2>2. N = [c \in Contest |-> IndexOf(recs, "contest", c)]
    BY DEF N, recs
  <2> QED BY <2>1, <2>2 DEF IndexOK
<1>10. CoreOK(s.records, s.order, s.pos, C, N, s.next_qso_id)
  BY <1>0, <1>8, <1>9 DEF CoreOK
<1>11. CoreOf(t)
  BY <1>5, <1>6, <1>7, <1>10 DEF CoreOf
<1>12. Names(t.undo, DOMAIN t.records) /\ Names(t.redo, DOMAIN t.records)
  BY <1>5, StackEmpty
<1>13. Inv(t)
  BY <1>0, <1>5, <1>11, <1>12, InvNames
<1> QED
  BY <1>5, <1>7, <1>13 DEF t, snap

------------------------------------------------------------------------------
(* The remaining store calls                                               *)

(* The empty store satisfies the invariant.                                *)
LEMMA NewStoreInv == Inv(NewStore)
<1> DEFINE s == NewStore
<1>1. /\ s.records = EmptyMap /\ s.order = << >> /\ s.pos = EmptyMap
      /\ s.by_call = [c \in Call |-> << >>] /\ s.by_contest = [c \in Contest |-> << >>]
      /\ s.undo = << >> /\ s.redo = << >> /\ s.next_op_seq = 1 /\ s.next_qso_id = 1
  BY DEF NewStore
<1>2. DOMAIN s = StoreFields
  BY NewStoreFields
<1> HIDE DEF s
<1>3. DOMAIN EmptyMap = {} /\ EmptyMap \in [{} -> QsoRecord] /\ EmptyMap \in [{} -> Nat]
  BY DEF EmptyMap
<1>4. << >> \in Seq(QsoId) /\ DOMAIN << >> = {} /\ 1 \in QsoId /\ 1 \in OpSeq
  BY DEF QsoId, OpSeq
<1>5. OrderOK(EmptyMap, << >>, EmptyMap, 1)
  BY <1>3, <1>4 DEF OrderOK
<1>6. \A f, key : EntryOK(EmptyMap, EmptyMap, << >>, f, key)
  BY <1>3, <1>4 DEF EntryOK
<1>7. /\ IndexOK(EmptyMap, EmptyMap, s.by_call, "call")
      /\ IndexOK(EmptyMap, EmptyMap, s.by_contest, "contest")
  BY <1>1, <1>6 DEF IndexOK
<1>8. s.by_call \in [Call -> Seq(QsoId)] /\ s.by_contest \in [Contest -> Seq(QsoId)]
  BY <1>1, <1>4
<1>9. CoreOf(s)
  BY <1>1, <1>3, <1>4, <1>5, <1>7, <1>8 DEF CoreOf, CoreOK
<1> QED
  BY <1>1, <1>2, <1>4, <1>9, StackEmpty, InvNames DEF s

(* A mutation that succeeds, an insert included.                           *)
LEMMA AnyMutation ==
  ASSUME NEW s, Inv(s), NEW m \in Mutation, Succeeds(s, m)
  PROVE  Inv(Mutate(s, m)) /\ Inv(Rejected(s, m))
<1>1. CASE m.cmd # "insert"
  BY <1>1, MutateInv, RejectedInv
<1>2. CASE m.cmd = "insert"
  <2>1. PICK d \in QsoRecord : m = InsertCmd(d)
    BY <1>2 DEF Mutation, InsertCmd, PatchCmd, VoidCmd, UndoCmd, RedoCmd
  <2>2. Inv(Mutate(s, m))
    BY <2>1, InsertInv
  <2> DEFINE t == Rejected(s, m)
  <2>3. /\ DOMAIN t = StoreFields /\ Visible(t) = Visible(s)
        /\ t.undo = s.undo /\ t.redo = << >>
        /\ t.next_op_seq = s.next_op_seq /\ t.next_qso_id = s.next_qso_id
    BY <2>1, RejectedInsert
  <2> HIDE DEF t
  <2>4. /\ t.records = s.records /\ t.order = s.order /\ t.pos = s.pos
        /\ t.by_call = s.by_call /\ t.by_contest = s.by_contest
    BY <2>3 DEF Visible
  <2>5. CoreOf(s) /\ s.next_op_seq \in OpSeq /\ Names(s.undo, DOMAIN s.records)
    BY InvNames
  <2>6. CoreOf(t)
    BY <2>3, <2>4, <2>5, CoreFrame
  <2>7. Inv(t)
    BY <2>3, <2>4, <2>5, <2>6, StackEmpty, InvNames
  <2> QED BY <2>2, <2>7 DEF t
<1> QED
  BY <1>1, <1>2

(* A patch of a missing id only takes a sequence number.                   *)
LEMMA FailedInv ==
  ASSUME NEW s, Inv(s), NEW m
  PROVE  Inv(FailedStore(s, m))
<1> DEFINE t == [s EXCEPT !.next_op_seq = @ + 1]
<1>0. /\ DOMAIN s = StoreFields /\ CoreOf(s) /\ s.next_op_seq \in OpSeq
      /\ Names(s.undo, DOMAIN s.records) /\ Names(s.redo, DOMAIN s.records)
  BY InvNames
<1>1. /\ DOMAIN t = StoreFields /\ t.records = s.records /\ t.order = s.order /\ t.pos = s.pos
      /\ t.by_call = s.by_call /\ t.by_contest = s.by_contest /\ t.next_qso_id = s.next_qso_id
      /\ t.undo = s.undo /\ t.redo = s.redo /\ t.next_op_seq = s.next_op_seq + 1
  BY <1>0 DEF StoreFields
<1>2. FailedStore(s, m) = s \/ FailedStore(s, m) = t
  BY DEF FailedStore
<1> HIDE DEF t
<1>3. CoreOf(t)
  BY <1>0, <1>1, CoreFrame
<1>4. t.next_op_seq \in OpSeq
  BY <1>0, <1>1 DEF OpSeq
<1>5. Inv(t)
  BY <1>0, <1>1, <1>3, <1>4, InvNames
<1> QED
  BY <1>2, <1>5

(* Draining the buffer.                                                    *)
LEMMA ClearInv ==
  ASSUME NEW s, Inv(s)
  PROVE  Inv(ClearPendingOps(s))
<1> DEFINE t == ClearPendingOps(s)
<1>0. /\ DOMAIN s = StoreFields /\ CoreOf(s) /\ s.next_op_seq \in OpSeq
      /\ Names(s.undo, DOMAIN s.records) /\ Names(s.redo, DOMAIN s.records)
  BY InvNames
<1>1. /\ DOMAIN t = StoreFields /\ t.records = s.records /\ t.order = s.order /\ t.pos = s.pos
      /\ t.by_call = s.by_call /\ t.by_contest = s.by_contest /\ t.next_qso_id = s.next_qso_id
      /\ t.undo = s.undo /\ t.redo = s.redo /\ t.next_op_seq = s.next_op_seq
  BY <1>0, ClearFields
<1> HIDE DEF t
<1>2. CoreOf(t)
  BY <1>0, <1>1, CoreFrame
<1> QED
  BY <1>0, <1>1, <1>2, InvNames DEF t

Extends(s, t) == /\ Len(s.order) <= Len(t.order)
                 /\ \A i \in DOMAIN s.order : t.order[i] = s.order[i]
                 /\ s.next_qso_id <= t.next_qso_id

(* A step that keeps `order` and the id counter extends the log.           *)
LEMMA SameOrderExtends ==
  ASSUME NEW s, Inv(s), NEW t, t.order = s.order, t.next_qso_id = s.next_qso_id
  PROVE  Extends(s, t)
<1>1. s.order \in Seq(QsoId) /\ s.next_qso_id \in QsoId
  BY InvNames DEF CoreOf, CoreOK
<1>2. Len(s.order) \in Nat /\ s.next_qso_id \in Nat
  BY <1>1 DEF QsoId
<1> QED
  BY <1>2 DEF Extends

(* insert puts its id at the end.                                          *)
LEMMA InsertExtends ==
  ASSUME NEW s, Inv(s), NEW d \in QsoRecord
  PROVE  Extends(s, Mutate(s, InsertCmd(d)))
<1> DEFINE t == Mutate(s, InsertCmd(d))
<1>1. s.order \in Seq(QsoId) /\ s.next_qso_id \in QsoId
  BY InvNames DEF CoreOf, CoreOK
<1>2. t.order = Append(s.order, s.next_qso_id) /\ t.next_qso_id = s.next_qso_id + 1
  BY InsertFields
<1> HIDE DEF t
<1>3. Len(s.order) <= Len(t.order) /\ \A i \in DOMAIN s.order : t.order[i] = s.order[i]
  BY <1>1, <1>2
<1>4. s.next_qso_id <= t.next_qso_id
  BY <1>1, <1>2 DEF QsoId
<1> QED
  BY <1>3, <1>4 DEF Extends, t

------------------------------------------------------------------------------
(* A rejected insert, patch or void leaves the log as it was               *)

(* Two right entries for one key agree wherever the first is defined.      *)
LEMMA EntryPrefix ==
  ASSUME NEW records, NEW pos, NEW f, NEW key, NEW a \in Seq(QsoId), NEW b \in Seq(QsoId),
         \A q \in DOMAIN records : pos[q] \in Nat,
         EntryOK(records, pos, a, f, key), EntryOK(records, pos, b, f, key)
  PROVE  \A k \in DOMAIN a : k \in DOMAIN b /\ b[k] = a[k]
<1> DEFINE T == {k \in DOMAIN a : ~ (k \in DOMAIN b /\ b[k] = a[k])}
<1>1. /\ \A i \in DOMAIN a : a[i] \in DOMAIN records /\ records[a[i]][f] = key
      /\ \A i, j \in DOMAIN a : i < j => pos[a[i]] < pos[a[j]]
      /\ \A q \in DOMAIN records : records[q][f] = key => \E i \in DOMAIN a : a[i] = q
  BY DEF EntryOK
<1>2. /\ \A i \in DOMAIN b : b[i] \in DOMAIN records /\ records[b[i]][f] = key
      /\ \A i, j \in DOMAIN b : i < j => pos[b[i]] < pos[b[j]]
      /\ \A q \in DOMAIN records : records[q][f] = key => \E i \in DOMAIN b : b[i] = q
  BY DEF EntryOK
<1>3. /\ DOMAIN a = 1..Len(a) /\ Len(a) \in Nat /\ DOMAIN b = 1..Len(b) /\ Len(b) \in Nat
      /\ \A i \in DOMAIN a : pos[a[i]] \in Nat
      /\ \A i \in DOMAIN b : pos[b[i]] \in Nat
  BY <1>1, <1>2
<1>4. SUFFICES ASSUME T # {} PROVE FALSE
  OBVIOUS
<1>5. T \in SUBSET Nat
  BY <1>3
<1>6. PICK m \in T : \A n \in T : m <= n
  <2> HIDE DEF T
  <2> QED BY <1>4, <1>5, LeastNatural
<1>7. /\ m \in DOMAIN a /\ ~ (m \in DOMAIN b /\ b[m] = a[m])
      /\ \A j \in DOMAIN a : j < m => j \in DOMAIN b /\ b[j] = a[j]
  <2>1. \A j \in DOMAIN a : j < m => j \notin T
    BY <1>3, <1>6
  <2> QED BY <2>1
<1>8. PICK i \in DOMAIN b : b[i] = a[m]
  BY <1>1, <1>2, <1>7
<1>9. m \in DOMAIN b /\ m < i
  <2>1. ~ (i < m)
    <3> SUFFICES ASSUME i < m PROVE FALSE
      OBVIOUS
    <3>1. i \in DOMAIN a
      BY <1>3, <1>7
    <3>2. a[i] = a[m]
      BY <3>1, <1>7, <1>8
    <3>3. pos[a[i]] < pos[a[m]]
      BY <3>1, <1>1, <1>7
    <3> QED BY <3>2, <3>3, <1>3, <1>7
  <2>2. m \in DOMAIN b
    BY <2>1, <1>3, <1>7
  <2> QED BY <2>1, <2>2, <1>3, <1>7, <1>8
<1>10. pos[b[m]] < pos[a[m]]
  BY <1>2, <1>8, <1>9
<1>11. PICK j \in DOMAIN a : a[j] = b[m]
  BY <1>1, <1>2, <1>9
<1>12. j < m
  <2>1. j # m
    BY <1>7, <1>9, <1>11
  <2>2. ~ (m < j)
    <3> SUFFICES ASSUME m < j PROVE FALSE
      OBVIOUS
    <3>1. pos[a[m]] < pos[a[j]]
      BY <1>1, <1>7
    <3> QED BY <3>1, <1>3, <1>7, <1>10, <1>11
  <2> QED BY <2>1, <2>2, <1>3, <1>7
<1>13. j \in DOMAIN b /\ b[j] = b[m]
  BY <1>7, <1>11, <1>12
<1>14. pos[b[j]] < pos[b[m]]
  BY <1>2, <1>9, <1>12, <1>13
<1> QED
  BY <1>3, <1>9, <1>13, <1>14

(* The records and their positions determine the indices.                  *)
LEMMA IndexUnique ==
  ASSUME NEW K, NEW f, NEW records, NEW pos, \A q \in DOMAIN records : pos[q] \in Nat,
         NEW x \in [K -> Seq(QsoId)], IndexOK(records, pos, x, f),
         NEW y \in [K -> Seq(QsoId)], IndexOK(records, pos, y, f)
  PROVE  x = y
<1>1. ASSUME NEW k \in K PROVE x[k] = y[k]
  <2> DEFINE a == x[k]
             b == y[k]
  <2>1. a \in Seq(QsoId) /\ b \in Seq(QsoId)
    OBVIOUS
  <2>2. EntryOK(records, pos, a, f, k) /\ EntryOK(records, pos, b, f, k)
    BY DEF IndexOK
  <2> HIDE DEF a, b
  <2>3. /\ \A i \in DOMAIN a : i \in DOMAIN b /\ b[i] = a[i]
        /\ \A i \in DOMAIN b : i \in DOMAIN a /\ a[i] = b[i]
    BY <2>1, <2>2, EntryPrefix
  <2>4. Len(a) = Len(b)
    BY <2>1, <2>3
  <2>5. a = b
    BY <2>1, <2>3, <2>4, SeqEqual
  <2> QED BY <2>5 DEF a, b
<1> QED
  BY <1>1

(* A patch and then its captured inverse give the record back.             *)
LEMMA InverseRestores ==
  ASSUME NEW rec \in QsoRecord, NEW patch \in QsoPatch
  PROVE  ApplyTo(CaptureInverseFor(patch, rec), ApplyTo(patch, rec)) = rec
<1>1. rec = [f \in Field |-> rec[f]]
  BY DEF QsoRecord
<1> DEFINE prev == CaptureInverseFor(patch, rec)
           new == ApplyTo(patch, rec)
<1>2. DOMAIN prev = DOMAIN patch /\ \A f \in DOMAIN patch : prev[f] = rec[f]
  BY DEF CaptureInverseFor
<1>3. \A f \in Field : f \notin DOMAIN patch => new[f] = rec[f]
  BY DEF ApplyTo
<1> HIDE DEF prev, new
<1>4. ApplyTo(prev, new) = [f \in Field |-> rec[f]]
  BY <1>2, <1>3 DEF ApplyTo
<1> QED
  BY <1>1, <1>4 DEF prev, new

(* The records after a mutation other than an insert.                      *)
LEMMA ChangedRecords ==
  ASSUME NEW s, Inv(s), NEW m \in Mutation, m.cmd # "insert", Succeeds(s, m)
  PROVE  LET op == OpFor(s, m)
         IN  /\ op.type = "Patch" => Mutate(s, m).records = PatchInPlace(s, op.id, op.patch).records
             /\ op.type = "Void" => Mutate(s, m).records = SetVoid(s, op.id, ~op.prev_is_void).records
<1> DEFINE op == OpFor(s, m)
           a  == ApplyOp(s, op)
           u  == [s EXCEPT !.next_op_seq = @ + 1]
           n  == s.next_op_seq
           t  == Mutate(s, m)
<1>0. DOMAIN s = StoreFields
  BY InvNames
<1>1. m.cmd \in {"patch", "void", "undo", "redo"} /\ op.type \in {"Patch", "Void"}
  BY MutationOp
<1>2. u.records = s.records /\ DOMAIN u = StoreFields
  BY <1>0 DEF StoreFields
<1>3. DOMAIN a = StoreFields => t.records = a.records
  <2>1. CASE m.cmd \in {"patch", "void"}
    BY <2>1 DEF Mutate, PatchOrVoid, Commit, StoreFields
  <2>2. CASE m.cmd = "undo"
    BY <2>2 DEF Mutate, Undo, OpFor, StoreFields
  <2>3. CASE m.cmd = "redo"
    BY <2>3 DEF Mutate, Redo, OpFor, StoreFields
  <2> QED BY <1>1, <2>1, <2>2, <2>3
<1> HIDE DEF op, t, a
<1>4. CASE op.type = "Patch"
  <2> DEFINE w == PatchInPlace(u, op.id, op.patch)
  <2>1. a = BumpNextSeqFrom(w, n)
    BY <1>4 DEF ApplyOp, ApplyWithSeq, ApplyPatchWithSeq, a
  <2> HIDE DEF u
  <2>2. w.records = PatchInPlace(s, op.id, op.patch).records /\ DOMAIN w = StoreFields
    BY <1>0, <1>2 DEF PatchInPlace, StoreFields
  <2> HIDE DEF w
  <2>3. a.records = w.records /\ DOMAIN a = StoreFields
    BY <2>1, <2>2 DEF BumpNextSeqFrom, StoreFields
  <2> QED BY <1>3, <1>4, <2>2, <2>3 DEF t, op
<1>5. CASE op.type = "Void"
  <2> DEFINE w == SetVoid(u, op.id, ~op.prev_is_void)
  <2>1. a = BumpNextSeqFrom(w, n)
    BY <1>5 DEF ApplyOp, ApplyWithSeq, ApplyVoidWithSeq, a
  <2> HIDE DEF u
  <2>2. w.records = SetVoid(s, op.id, ~op.prev_is_void).records /\ DOMAIN w = StoreFields
    BY <1>0, <1>2 DEF SetVoid, StoreFields
  <2> HIDE DEF w
  <2>3. a.records = w.records /\ DOMAIN a = StoreFields
    BY <2>1, <2>2 DEF BumpNextSeqFrom, StoreFields
  <2> QED BY <1>3, <1>5, <2>2, <2>3 DEF t, op
<1> QED
  BY <1>1, <1>4, <1>5 DEF t, op

(* What a change does to the stacks.                                       *)
LEMMA ChangedStacks ==
  ASSUME NEW s, Inv(s), NEW m \in Mutation, m.cmd # "insert", Succeeds(s, m)
  PROVE  LET t == Mutate(s, m)
             inv == InverseOf(s, OpFor(s, m))
         IN  /\ m.cmd \in {"patch", "void"} => t.undo = Append(s.undo, inv) /\ t.redo = << >>
             /\ m.cmd = "undo" => t.undo = Front(s.undo) /\ t.redo = Append(s.redo, inv)
             /\ m.cmd = "redo" => t.undo = Append(s.undo, inv) /\ t.redo = Front(s.redo)
<1> DEFINE op == OpFor(s, m)
           a == ApplyOp(s, op)
<1>1. /\ DOMAIN s = StoreFields /\ CoreOf(s) /\ s.next_op_seq \in OpSeq
  BY InvNames
<1>2. /\ m.cmd \in {"patch", "void", "undo", "redo"}
      /\ op.type \in {"Patch", "Void"} /\ op.id \in DOMAIN s.records
      /\ op.type = "Patch" => op.patch \in QsoPatch
      /\ op.type = "Void" => op.prev_is_void \in BOOLEAN
  BY MutationOp
<1>3. DOMAIN a = StoreFields /\ a.undo = s.undo /\ a.redo = s.redo
  <2> HIDE DEF op
  <2>1. SameFrame(s, a)
    BY <1>1, <1>2, ApplyOpCore
  <2> QED BY <1>1, <2>1 DEF SameFrame
<1>4. CASE m.cmd \in {"patch", "void"}
  BY <1>3, <1>4 DEF Mutate, PatchOrVoid, Commit, StoreFields
<1>5. CASE m.cmd = "undo"
  BY <1>3, <1>5 DEF Mutate, Undo, OpFor, StoreFields
<1>6. CASE m.cmd = "redo"
  BY <1>3, <1>6 DEF Mutate, Redo, OpFor, StoreFields
<1> QED BY <1>2, <1>4, <1>5, <1>6

(* The operation m applies to s, if it sets the void flag, names the flag  *)
(* that it overwrites.                                                     *)
NamesFlag(s, op) == op.type = "Void" => op.prev_is_void = s.records[op.id]["is_void"]

(* A change that is rolled back gives the records back, if the operation   *)
(* names the void flag it overwrites.                                      *)
LEMMA RejectedRecords ==
  ASSUME NEW s, Inv(s), NEW m \in Mutation, m.cmd # "insert", Succeeds(s, m), NamesFlag(s, OpFor(s, m))
  PROVE  Rejected(s, m).records = s.records
<1> DEFINE op == OpFor(s, m)
           id == op.id
           rec == s.records[id]
           u == Mutate(s, m)
           c == ClearPendingOps(u)
           e == StoredFor(s, m).op
           r == RollbackOp(c, e)
           t == Rejected(s, m)
<1>0. CoreOf(s) /\ DOMAIN s = StoreFields
  BY InvNames
<1>a. /\ op.type \in {"Patch", "Void"} /\ id \in DOMAIN s.records
      /\ op.type = "Patch" => op.patch \in QsoPatch
  BY MutationOp
<1>1. rec \in QsoRecord /\ s.records = [q \in DOMAIN s.records |-> s.records[q]]
  BY <1>0, <1>a DEF CoreOf, CoreOK
<1>2. Inv(u)
  BY MutateInv
<1>3. DOMAIN u = StoreFields
  BY <1>2, InvNames
<1>b. e = Emitted(s, op)
  BY DEF StoredFor, StoredOp
<1>c. /\ op.type = "Patch" => u.records = PatchInPlace(s, id, op.patch).records
      /\ op.type = "Void" => u.records = SetVoid(s, id, ~op.prev_is_void).records
  BY ChangedRecords
<1>d. NamesFlag(s, op)
  OBVIOUS
<1> HIDE DEF u, op
<1>4. DOMAIN c = StoreFields /\ c.records = u.records
  BY <1>3, ClearFields
<1> HIDE DEF c, rec
<1>5. CASE op.type = "Patch"
  <2> DEFINE new == ApplyTo(op.patch, rec)
             prev == CaptureInverseFor(op.patch, rec)
  <2>1. op.patch \in QsoPatch
    BY <1>a, <1>5
  <2>3. e = PatchOp(id, op.patch, prev)
    BY <1>b, <1>5 DEF Emitted, rec
  <2>4. u.records = PatchInPlace(s, id, op.patch).records
    BY <1>5, <1>c
  <2>5. u.records = [s.records EXCEPT ![id] = new]
    BY <2>4, <1>0 DEF PatchInPlace, StoreFields, rec
  <2>6. r = PatchInPlace(c, id, prev)
    BY <2>3 DEF RollbackOp, PatchOp
  <2> HIDE DEF e, r
  <2>7. c.records[id] = new /\ DOMAIN c.records = DOMAIN s.records
    BY <1>a, <1>1, <1>4, <2>5
  <2>8. DOMAIN r = StoreFields /\ r.records = [c.records EXCEPT ![id] = ApplyTo(prev, c.records[id])]
    BY <1>4, <2>6 DEF PatchInPlace, StoreFields
  <2>9. ApplyTo(prev, new) = rec
    BY <1>1, <2>1, InverseRestores
  <2> HIDE DEF new, prev
  <2>10. r.records = [[s.records EXCEPT ![id] = new] EXCEPT ![id] = rec]
    BY <1>4, <2>5, <2>7, <2>8, <2>9
  <2>11. r.records = s.records
    BY <1>a, <1>1, <2>10 DEF rec
  <2>12. t.records = r.records
    BY <1>3, <2>8, RejectedFields DEF r, c, u, e
  <2> QED BY <2>11, <2>12
<1>6. CASE op.type = "Void"
  <2> DEFINE v == rec["is_void"]
  <2>1. v \in BOOLEAN /\ rec = [f \in Field |-> rec[f]] /\ "is_void" \in Field
    BY <1>1, RecordFields DEF QsoRecord, Field
  <2>2. op.prev_is_void = v
    BY <1>6, <1>d DEF NamesFlag, rec
  <2>3. e = op
    BY <1>b, <1>6 DEF Emitted
  <2>4. u.records = SetVoid(s, id, ~v).records
    BY <1>6, <1>c, <2>2
  <2>5. u.records = [s.records EXCEPT ![id] = [rec EXCEPT !["is_void"] = ~v]]
    BY <2>4, <1>0 DEF SetVoid, StoreFields, rec
  <2>6. r = SetVoid(c, id, v)
    BY <1>6, <2>2, <2>3 DEF RollbackOp
  <2> HIDE DEF e, r
  <2>7. DOMAIN r = StoreFields /\ r.records = [c.records EXCEPT ![id] = [c.records[id] EXCEPT !["is_void"] = v]]
    BY <1>4, <2>6 DEF SetVoid, StoreFields
  <2>8. c.records[id] = [rec EXCEPT !["is_void"] = ~v]
    BY <1>a, <1>1, <1>4, <2>5
  <2>9. [c.records[id] EXCEPT !["is_void"] = v] = rec
    BY <2>1, <2>8
  <2>10. r.records = [[s.records EXCEPT ![id] = c.records[id]] EXCEPT ![id] = rec]
    BY <1>4, <2>5, <2>7, <2>8, <2>9
  <2>11. r.records = s.records
    BY <1>a, <1>1, <2>10 DEF rec
  <2>12. t.records = r.records
    BY <1>3, <2>7, RejectedFields DEF r, c, u, e
  <2> QED BY <2>11, <2>12
<1> QED
  BY <1>a, <1>5, <1>6

(* The records and their order determine everything else the reads see.    *)
LEMMA VisibleUnique ==
  ASSUME NEW s, Inv(s), NEW t, Inv(t), t.order = s.order, t.records = s.records
  PROVE  Visible(t) = Visible(s)
<1>1. Inv(t) /\ t.order = s.order /\ t.records = s.records
  OBVIOUS
<1>2. CoreOf(t) /\ CoreOf(s)
  BY <1>1, InvNames
<1>3. /\ t.pos \in [DOMAIN s.records -> Nat] /\ s.pos \in [DOMAIN s.records -> Nat]
      /\ OrderOK(s.records, s.order, t.pos, t.next_qso_id)
      /\ OrderOK(s.records, s.order, s.pos, s.next_qso_id)
  BY <1>1, <1>2 DEF CoreOf, CoreOK
<1>4. \A q \in DOMAIN s.records : t.pos[q] = s.pos[q]
  <2>1. \A q \in DOMAIN s.records : t.pos[q] \in DOMAIN s.order /\ s.order[t.pos[q]] = q
    BY <1>3 DEF OrderOK
  <2>2. \A i \in DOMAIN s.order : s.pos[s.order[i]] = i
    BY <1>3 DEF OrderOK
  <2> QED BY <2>1, <2>2
<1>5. t.pos = s.pos
  BY <1>3, <1>4
<1>6. /\ \A q \in DOMAIN s.records : s.pos[q] \in Nat
      /\ t.by_call \in [Call -> Seq(QsoId)] /\ IndexOK(s.records, s.pos, t.by_call, "call")
      /\ s.by_call \in [Call -> Seq(QsoId)] /\ IndexOK(s.records, s.pos, s.by_call, "call")
      /\ t.by_contest \in [Contest -> Seq(QsoId)]
      /\ IndexOK(s.records, s.pos, t.by_contest, "contest")
      /\ s.by_contest \in [Contest -> Seq(QsoId)]
      /\ IndexOK(s.records, s.pos, s.by_contest, "contest")
  BY <1>1, <1>2, <1>3, <1>5 DEF CoreOf, CoreOK
<1>7. t.by_call = s.by_call
  <2> DEFINE x == t.by_call
             y == s.by_call
             R == s.records
             P == s.pos
  <2>1. /\ \A q \in DOMAIN R : P[q] \in Nat
        /\ x \in [Call -> Seq(QsoId)] /\ IndexOK(R, P, x, "call")
        /\ y \in [Call -> Seq(QsoId)] /\ IndexOK(R, P, y, "call")
    BY <1>6
  <2> HIDE DEF x, y, R, P
  <2>2. x = y
    BY <2>1, IndexUnique
  <2> QED BY <2>2 DEF x, y
<1>8. t.by_contest = s.by_contest
  <2> DEFINE x == t.by_contest
             y == s.by_contest
             R == s.records
             P == s.pos
  <2>1. /\ \A q \in DOMAIN R : P[q] \in Nat
        /\ x \in [Contest -> Seq(QsoId)] /\ IndexOK(R, P, x, "contest")
        /\ y \in [Contest -> Seq(QsoId)] /\ IndexOK(R, P, y, "contest")
    BY <1>6
  <2> HIDE DEF x, y, R, P
  <2>2. x = y
    BY <2>1, IndexUnique
  <2> QED BY <2>2 DEF x, y
<1> QED
  BY <1>1, <1>5, <1>7, <1>8 DEF Visible

(* So a change that is rolled back gives all of it back, as the operation  *)
(* of void() always names the flag.                                        *)
LEMMA ChangeVisible ==
  ASSUME NEW s, Inv(s), NEW m \in Mutation, m.cmd # "insert", Succeeds(s, m), NamesFlag(s, OpFor(s, m))
  PROVE  Visible(Rejected(s, m)) = Visible(s)
  BY RejectedInv, RejectedRecords, VisibleUnique

LEMMA RejectedVisible ==
  ASSUME NEW s, Inv(s), NEW m \in Mutation, m.cmd \in {"patch", "void"}, Succeeds(s, m)
  PROVE  Visible(Rejected(s, m)) = Visible(s)
<1>1. NamesFlag(s, OpFor(s, m))
  BY DEF NamesFlag, OpFor, PatchOp, VoidOp
<1> QED BY <1>1, ChangeVisible

(* And so does a restore from a snapshot.                                  *)
LEMMA RestoreVisible ==
  ASSUME NEW s, Inv(s)
  PROVE  Visible(FromSnapshot(ExportSnapshot(s))) = Visible(s)
  BY RestoreInv, VisibleUnique

------------------------------------------------------------------------------
(* Replay                                                                  *)

(* g lists the stores a replay of the first n operations goes through.     *)
ReplayRun(g, s, stored, n) ==
  /\ DOMAIN g = 0..n
  /\ g[0] = s
  /\ \A i \in 1..n : g[i] = ApplyReplayedOp(g[i - 1], stored[i])

(* There is such a list: the shortest replay without one would extend the  *)
(* list of the replay one shorter.                                         *)
LEMMA ReplayRunExists ==
  ASSUME NEW s, NEW stored, NEW N \in Nat
  PROVE  \E g : ReplayRun(g, s, stored, N)
<1> DEFINE Bad == {n \in Nat : ~ \E g : ReplayRun(g, s, stored, n)}
<1> SUFFICES Bad = {}
  OBVIOUS
<1> SUFFICES ASSUME Bad # {} PROVE FALSE
  OBVIOUS
<1>1. PICK n \in Bad : \A m \in Bad : n <= m
  <2>1. Bad \in SUBSET Nat
    OBVIOUS
  <2> HIDE DEF Bad
  <2> QED BY <2>1, LeastNatural
<1>2. CASE n = 0
  <2>1. ReplayRun([i \in 0..0 |-> s], s, stored, 0)
    BY DEF ReplayRun
  <2> QED BY <1>2, <2>1
<1>3. CASE n # 0
  <2>1. n - 1 \in Nat /\ n - 1 \notin Bad
    BY <1>1, <1>3
  <2>2. PICK g : ReplayRun(g, s, stored, n - 1)
    BY <2>1
  <2> DEFINE h == [i \in 0..n |-> IF i < n THEN g[i] ELSE ApplyReplayedOp(g[n - 1], stored[n])]
  <2>3. DOMAIN h = 0..n /\ h[0] = s
    BY <1>1, <1>3, <2>2 DEF ReplayRun
  <2>4. \A i \in 1..n : h[i] = ApplyReplayedOp(h[i - 1], stored[i])
    <3> TAKE i \in 1..n
    <3>1. i \in 0..n /\ i - 1 \in 0..n /\ i - 1 < n
      BY <1>1
    <3>2. h[i - 1] = g[i - 1]
      BY <3>1
    <3>3. CASE i < n
      <4>1. i \in 1..(n - 1)
        BY <1>1, <3>3
      <4>2. g[i] = ApplyReplayedOp(g[i - 1], stored[i])
        BY <2>2, <4>1 DEF ReplayRun
      <4> QED BY <3>1, <3>2, <3>3, <4>2
    <3>4. CASE i = n
      BY <3>1, <3>2, <3>4
    <3> QED BY <1>1, <3>3, <3>4
  <2> HIDE DEF h
  <2>5. ReplayRun(h, s, stored, n)
    BY <2>3, <2>4 DEF ReplayRun
  <2> QED BY <1>1, <2>5
<1> QED
  BY <1>2, <1>3

(* Two replays of operations that begin alike go through the same stores.  *)
LEMMA ReplayRunUnique ==
  ASSUME NEW s, NEW a, NEW b, NEW N \in Nat, NEW m \in Nat, N <= m,
         NEW g, NEW h, ReplayRun(g, s, a, N), ReplayRun(h, s, b, m),
         \A i \in 1..N : a[i] = b[i]
  PROVE  \A i \in 0..N : g[i] = h[i]
<1> DEFINE Bad == {i \in 0..N : g[i] # h[i]}
<1> SUFFICES ASSUME Bad # {} PROVE FALSE
  OBVIOUS
<1>1. PICK i \in Bad : \A j \in Bad : i <= j
  <2>1. Bad \in SUBSET Nat
    OBVIOUS
  <2> HIDE DEF Bad
  <2> QED BY <2>1, LeastNatural
<1>2. i # 0
  BY <1>1 DEF ReplayRun
<1>3. i \in 1..N /\ i - 1 \in 0..N /\ i - 1 \notin Bad
  BY <1>1, <1>2
<1>4. g[i - 1] = h[i - 1] /\ a[i] = b[i]
  BY <1>3
<1>5. g[i] = ApplyReplayedOp(g[i - 1], a[i]) /\ h[i] = ApplyReplayedOp(h[i - 1], b[i])
  BY <1>3 DEF ReplayRun
<1> QED
  BY <1>1, <1>4, <1>5

(* ReplayAll gives the last store of the list.                             *)
LEMMA ReplayAllRun ==
  ASSUME NEW s, NEW stored, Len(stored) \in Nat
  PROVE  \E g : ReplayRun(g, s, stored, Len(stored)) /\ ReplayAll(s, stored) = g[Len(stored)]
<1> DEFINE N == Len(stored)
           Eq(g) == g = [n \in 0..N |-> IF n = 0 THEN s ELSE ApplyReplayedOp(g[n - 1], stored[n])]
<1>1. ReplayAll(s, stored) = (CHOOSE g : Eq(g))[N]
  BY DEF ReplayAll
<1>2. PICK h : ReplayRun(h, s, stored, N)
  BY ReplayRunExists
<1>3. \E g : Eq(g)
  <2> DEFINE f == [n \in 0..N |-> h[n]]
  <2>1. ASSUME NEW n \in 0..N
        PROVE  f[n] = IF n = 0 THEN s ELSE ApplyReplayedOp(f[n - 1], stored[n])
    <3>1. CASE n = 0
      BY <3>1, <1>2 DEF ReplayRun
    <3>2. CASE n # 0
      <4>1. n \in 1..N /\ n - 1 \in 0..N
        BY <3>2
      <4>2. h[n] = ApplyReplayedOp(h[n - 1], stored[n])
        BY <1>2, <4>1 DEF ReplayRun
      <4> QED BY <3>2, <4>1, <4>2
    <3> QED BY <3>1, <3>2
  <2>2. f = [n \in 0..N |-> IF n = 0 THEN s ELSE ApplyReplayedOp(f[n - 1], stored[n])]
    <3>1. DOMAIN f = 0..N /\ f = [n \in 0..N |-> f[n]]
      OBVIOUS
    <3> HIDE DEF f
    <3> QED BY <2>1, <3>1
  <2>3. Eq(f)
    BY <2>2
  <2> HIDE DEF f, Eq
  <2> QED BY <2>3
<1> DEFINE g == CHOOSE k : Eq(k)
<1>4. Eq(g)
  <2> HIDE DEF Eq
  <2> QED BY <1>3
<1> HIDE DEF g
<1>5. ReplayRun(g, s, stored, N)
  <2>1. g = [n \in 0..N |-> IF n = 0 THEN s ELSE ApplyReplayedOp(g[n - 1], stored[n])]
    BY <1>4
  <2>2. DOMAIN g = 0..N
    BY <2>1
  <2>3. \A n \in 0..N : g[n] = IF n = 0 THEN s ELSE ApplyReplayedOp(g[n - 1], stored[n])
    BY <2>1
  <2> QED BY <2>2, <2>3 DEF ReplayRun
<1> QED
  BY <1>1, <1>5 DEF g

(* Replaying one operation more.                                           *)
LEMMA ReplayAppend ==
  ASSUME NEW s, NEW S, NEW q \in Seq(S), NEW e \in S
  PROVE  ReplayAll(s, Append(q, e)) = ApplyReplayedOp(ReplayAll(s, q), e)
<1> DEFINE r == Append(q, e)
           N == Len(q)
<1>1. /\ N \in Nat /\ Len(r) = N + 1 /\ r[N + 1] = e /\ \A i \in 1..N : r[i] = q[i]
  OBVIOUS
<1> HIDE DEF r
<1>2. PICK g : ReplayRun(g, s, q, N) /\ ReplayAll(s, q) = g[N]
  BY <1>1, ReplayAllRun
<1>3. PICK h : ReplayRun(h, s, r, N + 1) /\ ReplayAll(s, r) = h[N + 1]
  BY <1>1, ReplayAllRun
<1>4. \A i \in 0..N : g[i] = h[i]
  <2> DEFINE M == N + 1
  <2>1. M \in Nat /\ N <= M /\ ReplayRun(h, s, r, M) /\ \A i \in 1..N : q[i] = r[i]
    BY <1>1, <1>3
  <2>2. N \in Nat /\ ReplayRun(g, s, q, N)
    BY <1>1, <1>2
  <2> HIDE DEF N, M
  <2> QED BY ONLY <2>1, <2>2, ReplayRunUnique
<1>5. h[N + 1] = ApplyReplayedOp(h[N], r[N + 1])
  <2> HIDE DEF N
  <2>1. PICK k \in 1..(N + 1) : k = N + 1 /\ k - 1 = N
    BY <1>1
  <2>2. h[k] = ApplyReplayedOp(h[k - 1], r[k])
    BY <1>3 DEF ReplayRun
  <2> QED BY <2>1, <2>2
<1> QED
  BY <1>1, <1>2, <1>3, <1>4, <1>5 DEF r

(* Replaying nothing.                                                      *)
LEMMA ReplayNone ==
  ASSUME NEW s
  PROVE  ReplayAll(s, << >>) = s
<1> DEFINE q == << >>
<1>1. Len(q) = 0
  OBVIOUS
<1> HIDE DEF q
<1>2. PICK g : ReplayRun(g, s, q, 0) /\ ReplayAll(s, q) = g[0]
  BY <1>1, ReplayAllRun
<1>3. ReplayAll(s, q) = s
  BY <1>2 DEF ReplayRun
<1> QED
  BY <1>3 DEF q

------------------------------------------------------------------------------
(* What an operation does to the visible part of a store depends only on   *)
(* the visible part of the store                                           *)

SameEffect(op, op2) ==
  /\ op.type \in {"Insert", "Patch", "Void"} /\ op2.type = op.type /\ op2.id = op.id
  /\ op.type = "Insert" => op2.qso = op.qso
  /\ op.type = "Patch" => op2.patch = op.patch
  /\ op.type = "Void" => op2.prev_is_void = op.prev_is_void

(* Two stores that read alike still do after the same operation, whatever  *)
(* their counters, stacks and buffers and whatever sequence number it has. *)
LEMMA ApplyVisible ==
  ASSUME NEW s, NEW t, DOMAIN s = StoreFields, DOMAIN t = StoreFields, Visible(s) = Visible(t),
         NEW op, NEW op2, SameEffect(op, op2), NEW n, NEW k
  PROVE  /\ Visible(ApplyWithSeq(s, op, n)) = Visible(ApplyWithSeq(t, op2, k))
         /\ DOMAIN ApplyWithSeq(s, op, n) = StoreFields
         /\ DOMAIN ApplyWithSeq(t, op2, k) = StoreFields
<1>1. /\ t.records = s.records /\ t.order = s.order /\ t.pos = s.pos
      /\ t.by_call = s.by_call /\ t.by_contest = s.by_contest
  BY DEF Visible
<1>2. /\ op.type \in {"Insert", "Patch", "Void"} /\ op2.type = op.type /\ op2.id = op.id
      /\ op.type = "Insert" => op2.qso = op.qso
      /\ op.type = "Patch" => op2.patch = op.patch
      /\ op.type = "Void" => op2.prev_is_void = op.prev_is_void
  BY DEF SameEffect
<1>3. ASSUME NEW a, NEW b, DOMAIN a = StoreFields, DOMAIN b = StoreFields,
             a.records = b.records, a.order = b.order, a.pos = b.pos, a.by_call = b.by_call,
             a.by_contest = b.by_contest
      PROVE  /\ Visible(BumpNextSeqFrom(a, n)) = Visible(BumpNextSeqFrom(b, k))
             /\ DOMAIN BumpNextSeqFrom(a, n) = StoreFields
             /\ DOMAIN BumpNextSeqFrom(b, k) = StoreFields
  BY <1>3 DEF BumpNextSeqFrom, StoreFields, Visible
<1>4. CASE op.type = "Insert"
  <2> DEFINE A(x, y) == [x EXCEPT !.next_qso_id           = MaxOf(@, op.id + 1),
                               !.by_call[op.qso["call"]]       = Append(@, op.id),
                               !.by_contest[op.qso["contest"]] = Append(@, op.id),
                               !.pos     = MapInsert(@, op.id, Len(y.order) + 1),
                               !.order   = Append(@, op.id),
                               !.records = MapInsert(@, op.id, op.qso)]
             a == A(s, s)
             b == A(t, t)
  <2>1. /\ ApplyWithSeq(s, op, n) = BumpNextSeqFrom(a, n)
        /\ ApplyWithSeq(t, op2, k) = BumpNextSeqFrom(b, k)
    BY <1>2, <1>4 DEF ApplyWithSeq, ApplyInsertWithSeq
  <2>2. /\ DOMAIN a = StoreFields /\ DOMAIN b = StoreFields
        /\ a.records = b.records /\ a.order = b.order /\ a.pos = b.pos /\ a.by_call = b.by_call
        /\ a.by_contest = b.by_contest
    BY <1>1 DEF StoreFields
  <2> HIDE DEF a, b
  <2> QED BY <2>1, <2>2, <1>3
<1>5. CASE op.type = "Patch"
  <2> DEFINE a == PatchInPlace(s, op.id, op.patch)
             b == PatchInPlace(t, op.id, op.patch)
  <2>1. /\ ApplyWithSeq(s, op, n) = BumpNextSeqFrom(a, n)
        /\ ApplyWithSeq(t, op2, k) = BumpNextSeqFrom(b, k)
    BY <1>2, <1>5 DEF ApplyWithSeq, ApplyPatchWithSeq
  <2>2. /\ DOMAIN a = StoreFields /\ DOMAIN b = StoreFields
        /\ a.records = b.records /\ a.order = b.order /\ a.pos = b.pos /\ a.by_call = b.by_call
        /\ a.by_contest = b.by_contest
    BY <1>1 DEF StoreFields, PatchInPlace
  <2> HIDE DEF a, b
  <2> QED BY <2>1, <2>2, <1>3
<1>6. CASE op.type = "Void"
  <2> DEFINE a == SetVoid(s, op.id, ~op.prev_is_void)
             b == SetVoid(t, op.id, ~op.prev_is_void)
  <2>1. /\ ApplyWithSeq(s, op, n) = BumpNextSeqFrom(a, n)
        /\ ApplyWithSeq(t, op2, k) = BumpNextSeqFrom(b, k)
    BY <1>2, <1>6 DEF ApplyWithSeq, ApplyVoidWithSeq
  <2>2. /\ DOMAIN a = StoreFields /\ DOMAIN b = StoreFields
        /\ a.records = b.records /\ a.order = b.order /\ a.pos = b.pos /\ a.by_call = b.by_call
        /\ a.by_contest = b.by_contest
    BY <1>1 DEF StoreFields, SetVoid
  <2> HIDE DEF a, b
  <2> QED BY <2>1, <2>2, <1>3
<1> QED
  BY <1>2, <1>4, <1>5, <1>6

(* The operation a mutation emits has the effect of the one it applies.    *)
LEMMA EmittedEffect ==
  ASSUME NEW s, Inv(s), NEW m \in Mutation, Succeeds(s, m)
  PROVE  /\ SameEffect(OpFor(s, m), StoredFor(s, m).op)
         /\ m.cmd # "insert" => OpFor(s, m).type \in {"Patch", "Void"}
         /\ StoredFor(s, m).seq = s.next_op_seq
<1> DEFINE op == OpFor(s, m)
           e  == StoredFor(s, m).op
<1>1. StoredFor(s, m).seq = s.next_op_seq /\ e = Emitted(s, op)
  BY DEF StoredFor, StoredOp
<1>2. CASE m.cmd = "insert"
  <2>1. op.type = "Insert"
    BY <1>2 DEF OpFor, InsertOp
  <2> HIDE DEF op
  <2>2. e = op
    BY <1>1, <2>1 DEF Emitted
  <2> QED BY <1>1, <1>2, <2>1, <2>2 DEF SameEffect, op
<1>3. CASE m.cmd # "insert"
  <2>1. op.type \in {"Patch", "Void"}
    BY <1>3, MutationOp
  <2> HIDE DEF op
  <2>2. e.type = op.type /\ e.id = op.id
    BY <1>1, <2>1 DEF Emitted, PatchOp
  <2>3. op.type = "Patch" => e.patch = op.patch
    BY <1>1, <2>1 DEF Emitted, PatchOp
  <2>4. op.type = "Void" => e.prev_is_void = op.prev_is_void
    BY <1>1, <2>1 DEF Emitted
  <2> HIDE DEF e
  <2>5. SameEffect(op, e)
    BY <2>1, <2>2, <2>3, <2>4 DEF SameEffect
  <2> QED BY <1>1, <2>1, <2>5 DEF op, e
<1> QED
  BY <1>2, <1>3

(* Replaying the emitted operation on a store that reads like the one it   *)
(* was made on gives a store that reads like the mutated one, and the      *)
(* mutation appends just that operation to the buffer.                     *)
LEMMA MutateVisible ==
  ASSUME NEW s, Inv(s), NEW m \in Mutation, Succeeds(s, m),
         NEW t, DOMAIN t = StoreFields, Visible(t) = Visible(s)
  PROVE  /\ Visible(ApplyReplayedOp(t, StoredFor(s, m))) = Visible(Mutate(s, m))
         /\ DOMAIN ApplyReplayedOp(t, StoredFor(s, m)) = StoreFields
         /\ Mutate(s, m).pending_ops = Append(s.pending_ops, StoredFor(s, m))
<1> DEFINE op == OpFor(s, m)
           st == StoredFor(s, m)
           e  == st.op
           b  == IF m.cmd = "insert" THEN [s EXCEPT !.next_qso_id = @ + 1] ELSE s
           c  == [b EXCEPT !.next_op_seq = @ + 1]
           a  == ApplyWithSeq(c, op, s.next_op_seq)
           r  == ApplyWithSeq(t, e, st.seq)
           u  == Mutate(s, m)
<1>0. DOMAIN s = StoreFields
  BY InvNames
<1>1. SameEffect(op, e) /\ (m.cmd # "insert" => op.type \in {"Patch", "Void"})
  BY EmittedEffect
<1>2. DOMAIN b = StoreFields /\ Visible(b) = Visible(s) /\ b.next_op_seq = s.next_op_seq
      /\ b.pending_ops = s.pending_ops
  BY <1>0 DEF StoreFields, Visible
<1>3. /\ DOMAIN c = StoreFields /\ Visible(c) = Visible(t) /\ c.pending_ops = s.pending_ops
  <2> HIDE DEF b
  <2> QED BY <1>2 DEF StoreFields, Visible
<1> HIDE DEF op, e, st
<1>4. ApplyOp(b, op) = a
  BY <1>2 DEF ApplyOp
<1> HIDE DEF c
<1>5. Visible(a) = Visible(r) /\ DOMAIN a = StoreFields /\ DOMAIN r = StoreFields
  BY <1>1, <1>3, ApplyVisible
<1>6. a.pending_ops = s.pending_ops
  BY <1>1, <1>3 DEF SameEffect, ApplyWithSeq, ApplyInsertWithSeq, ApplyPatchWithSeq,
     ApplyVoidWithSeq, PatchInPlace, SetVoid, BumpNextSeqFrom, StoreFields
<1> HIDE DEF a, r
<1>8. Visible(u) = Visible(a) /\ u.pending_ops = Append(s.pending_ops, st)
  <2>1. CASE m.cmd = "insert"
    <3>1. b = [s EXCEPT !.next_qso_id = @ + 1]
      BY <2>1
    <3>2. u = [ApplyOp(b, op) EXCEPT !.undo = Append(@, InverseOf(b, op)), !.redo = << >>,
                                     !.pending_ops = Append(@, st)]
      BY <2>1, <3>1 DEF Mutate, Insert, Commit, op, st
    <3>3. u = [a EXCEPT !.undo = Append(a.undo, InverseOf(b, op)), !.redo = << >>,
                        !.pending_ops = Append(a.pending_ops, st)]
      BY <1>4, <1>5, <3>2 DEF StoreFields
    <3> HIDE DEF u, b
    <3> QED BY <1>5, <1>6, <3>3 DEF Visible, StoreFields
  <2>2. CASE m.cmd \in {"patch", "void"}
    <3>1. b = s
      BY <2>2
    <3>2. u = [ApplyOp(b, op) EXCEPT !.undo = Append(@, InverseOf(s, op)), !.redo = << >>,
                                     !.pending_ops = Append(@, st)]
      BY <2>2, <3>1 DEF Mutate, PatchOrVoid, Commit, op, st
    <3>3. u = [a EXCEPT !.undo = Append(a.undo, InverseOf(s, op)), !.redo = << >>,
                        !.pending_ops = Append(a.pending_ops, st)]
      BY <1>4, <1>5, <3>2 DEF StoreFields
    <3> HIDE DEF u, b
    <3> QED BY <1>5, <1>6, <3>3 DEF Visible, StoreFields
  <2>3. CASE m = UndoCmd
    <3>1. m.cmd = "undo" /\ op = Last(s.undo) /\ b = s
      BY <2>3 DEF UndoCmd, op, OpFor
    <3>2. u = [ApplyOp(b, op) EXCEPT !.undo = Front(@), !.redo = Append(@, InverseOf(s, op)),
                                     !.pending_ops = Append(@, st)]
      BY <2>3, <3>1 DEF Mutate, Undo, st
    <3>3. u = [a EXCEPT !.undo = Front(a.undo), !.redo = Append(a.redo, InverseOf(s, op)),
                        !.pending_ops = Append(a.pending_ops, st)]
      BY <1>4, <1>5, <3>2 DEF StoreFields
    <3> HIDE DEF u, b
    <3> QED BY <1>5, <1>6, <3>3 DEF Visible, StoreFields
  <2>4. CASE m = RedoCmd
    <3>1. m.cmd = "redo" /\ op = Last(s.redo) /\ b = s
      BY <2>4 DEF RedoCmd, op, OpFor
    <3>2. u = [ApplyOp(b, op) EXCEPT !.redo = Front(@), !.undo = Append(@, InverseOf(s, op)),
                                     !.pending_ops = Append(@, st)]
      BY <2>4, <3>1 DEF Mutate, Redo, st
    <3>3. u = [a EXCEPT !.undo = Append(a.undo, InverseOf(s, op)), !.redo = Front(a.redo),
                        !.pending_ops = Append(a.pending_ops, st)]
      BY <1>4, <1>5, <3>2 DEF StoreFields
    <3> HIDE DEF u, b
    <3> QED BY <1>5, <1>6, <3>3 DEF Visible, StoreFields
  <2> QED
    BY <2>1, <2>2, <2>3, <2>4 DEF Mutation, InsertCmd, PatchCmd, VoidCmd
<1> HIDE DEF u
<1>9. /\ Visible(ApplyReplayedOp(t, st)) = Visible(r)
      /\ DOMAIN ApplyReplayedOp(t, st) = StoreFields
  BY <1>5 DEF ApplyReplayedOp, Visible, StoreFields, r, e
<1> QED
  BY <1>5, <1>8, <1>9 DEF u, st

(* A rolled back mutation leaves an empty buffer empty.                    *)
LEMMA RejectedPending ==
  ASSUME NEW s, Inv(s), s.pending_ops = << >>, NEW m \in Mutation, Succeeds(s, m)
  PROVE  Rejected(s, m).pending_ops = << >> /\ DOMAIN Rejected(s, m) = StoreFields
<1> DEFINE u == Mutate(s, m)
           c == ClearPendingOps(u)
           e == StoredFor(s, m).op
           r == RollbackOp(c, e)
           k == MutationCheckpoint(s)
           t == Rejected(s, m)
<1>1. DOMAIN u = StoreFields
  BY AnyMutation, InvNames
<1> HIDE DEF u
<1>2. DOMAIN c = StoreFields /\ c.pending_ops = << >>
  BY <1>1 DEF ClearPendingOps, StoreFields
<1>3. e.type \in {"Insert", "Patch", "Void"}
  BY EmittedEffect DEF SameEffect
<1> HIDE DEF c, e
<1>4. DOMAIN r = StoreFields /\ r.pending_ops = << >>
  BY <1>2, <1>3 DEF RollbackOp, RollbackInsert, PatchInPlace, SetVoid, StoreFields
<1>5. t = [r EXCEPT !.next_op_seq = k.next_op_seq, !.next_qso_id = k.next_qso_id,
                    !.undo = Truncate(@, k.undo_len), !.redo = Truncate(@, k.redo_len),
                    !.pending_ops = Truncate(@, k.pending_ops_len)]
  BY DEF Rejected, RollbackMutation, c, u, e
<1>6. k.pending_ops_len = 0
  BY DEF MutationCheckpoint
<1> HIDE DEF r, k, t
<1>7. DOMAIN t = StoreFields /\ t.pending_ops = Truncate(<< >>, 0)
  BY <1>4, <1>5, <1>6 DEF StoreFields
<1> QED
  BY <1>7 DEF Truncate, t

------------------------------------------------------------------------------
(* Undo and redo walk back and forth along one line of records             *)

(* The records after op is applied to the records A.                       *)
Effect(op, A) ==
  [A EXCEPT ![op.id] = IF op.type = "Patch" THEN ApplyTo(op.patch, A[op.id])
                       ELSE [A[op.id] EXCEPT !["is_void"] = ~op.prev_is_void]]

(* op applies to A, and can be taken back: a Void, whose effect does not   *)
(* look at the flag it finds, names the flag that it overwrites.         *)
Reversible(op, A) ==
  /\ op.type \in {"Patch", "Void"} /\ op.id \in DOMAIN A
  /\ op.type = "Patch" => op.patch \in QsoPatch
  /\ op.type = "Void" => op.prev_is_void \in BOOLEAN /\ op.prev_is_void = A[op.id]["is_void"]

Leads(op, A, B) == Reversible(op, A) /\ B = Effect(op, A)

LEMMA EffectType ==
  ASSUME NEW D, NEW A \in [D -> QsoRecord], NEW op, Reversible(op, A)
  PROVE  Effect(op, A) \in [D -> QsoRecord]
<1> DEFINE rec == A[op.id]
<1>1. op.id \in D /\ rec \in QsoRecord
  BY DEF Reversible
<1>2. CASE op.type = "Patch"
  <2>1. ApplyTo(op.patch, rec) \in QsoRecord
    BY <1>1, <1>2, ApplyToType DEF Reversible
  <2> QED BY <1>1, <1>2, <2>1 DEF Effect
<1>3. CASE op.type = "Void"
  <2>1. [rec EXCEPT !["is_void"] = ~op.prev_is_void] \in QsoRecord
    BY <1>1, <1>3, SetVoidType DEF Reversible
  <2> QED BY <1>1, <1>3, <2>1 DEF Effect
<1> QED BY <1>2, <1>3 DEF Reversible

(* The compensating operation that a store computes before it applies op   *)
(* leads back, and can itself be taken back.                               *)
LEMMA InverseLeadsBack ==
  ASSUME NEW s, NEW D, s.records \in [D -> QsoRecord], NEW op, Reversible(op, s.records)
  PROVE  Leads(InverseOf(s, op), Effect(op, s.records), s.records)
<1> DEFINE A == s.records
           B == Effect(op, A)
           inv == InverseOf(s, op)
           rec == A[op.id]
<1>1. op.id \in D /\ rec \in QsoRecord /\ DOMAIN A = D
  BY DEF Reversible
<1>2. DOMAIN B = D
  BY EffectType
<1>3. CASE op.type = "Patch"
  <2> DEFINE back == CaptureInverseFor(op.patch, rec)
             new  == ApplyTo(op.patch, rec)
  <2>1. inv.type = "Patch" /\ inv.id = op.id /\ inv.patch = back
    BY <1>3 DEF InverseOf, PatchOp
  <2>2. back \in QsoPatch /\ ApplyTo(back, new) = rec
    BY <1>1, <1>3, CaptureInverseType, InverseRestores DEF Reversible
  <2> HIDE DEF back, new, inv
  <2>3. B = [A EXCEPT ![op.id] = new]
    BY <1>3 DEF Effect, new
  <2>4. B[op.id] = new
    BY <1>1, <2>3
  <2>5. Effect(inv, B) = [B EXCEPT ![op.id] = rec]
    BY <2>1, <2>2, <2>4 DEF Effect
  <2>6. [B EXCEPT ![op.id] = rec] = A
    BY <1>1, <2>3
  <2>7. Reversible(inv, B)
    BY <1>1, <1>2, <2>1, <2>2 DEF Reversible
  <2> QED BY <2>5, <2>6, <2>7 DEF Leads, inv
<1>4. CASE op.type = "Void"
  <2> DEFINE v   == op.prev_is_void
             new == [rec EXCEPT !["is_void"] = ~v]
  <2>1. inv.type = "Void" /\ inv.id = op.id /\ inv.prev_is_void = ~v
    BY <1>4 DEF InverseOf, VoidOp
  <2>2. v \in BOOLEAN /\ rec["is_void"] = v
    BY <1>4 DEF Reversible
  <2>3. rec \in [Field -> AnyValue] /\ "is_void" \in Field
    BY <1>1 DEF QsoRecord, Field
  <2>4. new["is_void"] = ~v /\ [new EXCEPT !["is_void"] = v] = rec
    BY <2>2, <2>3
  <2> HIDE DEF new, inv
  <2>5. B = [A EXCEPT ![op.id] = new]
    BY <1>4 DEF Effect, new
  <2>6. B[op.id] = new
    BY <1>1, <2>5
  <2>7. (~inv.prev_is_void) = v
    BY <2>1, <2>2
  <2>8. Effect(inv, B) = [B EXCEPT ![op.id] = rec]
    <3> DEFINE w == ~inv.prev_is_void
    <3>1. w = v
      BY <2>7
    <3>2. inv.type # "Patch" /\ B[inv.id] = new
      BY <2>1, <2>6
    <3> HIDE DEF w, v
    <3>3. [B[inv.id] EXCEPT !["is_void"] = w] = rec
      BY <2>4, <3>1, <3>2
    <3> QED BY <2>1, <3>2, <3>3 DEF Effect, w
  <2>9. [B EXCEPT ![op.id] = rec] = A
    BY <1>1, <2>5
  <2>10. Reversible(inv, B)
    BY <1>1, <1>2, <2>1, <2>2, <2>4, <2>6 DEF Reversible
  <2> QED BY <2>8, <2>9, <2>10 DEF Leads, inv
<1> QED BY <1>3, <1>4 DEF Reversible

(* What a mutation other than an insert does to the records.               *)
LEMMA MutateEffect ==
  ASSUME NEW s, Inv(s), NEW m \in Mutation, m.cmd # "insert", Succeeds(s, m)
  PROVE  Mutate(s, m).records = Effect(OpFor(s, m), s.records)
<1> DEFINE op == OpFor(s, m)
           t  == Mutate(s, m)
<1>1. DOMAIN s = StoreFields
  BY InvNames
<1>2. op.type \in {"Patch", "Void"}
  BY MutationOp
<1>3. /\ op.type = "Patch" => t.records = PatchInPlace(s, op.id, op.patch).records
      /\ op.type = "Void" => t.records = SetVoid(s, op.id, ~op.prev_is_void).records
  BY ChangedRecords
<1> HIDE DEF op, t
<1>4. CASE op.type = "Patch"
  <2>1. PatchInPlace(s, op.id, op.patch).records = Effect(op, s.records)
    BY <1>1, <1>4 DEF PatchInPlace, Effect, StoreFields
  <2> QED BY <1>3, <1>4, <2>1 DEF op, t
<1>5. CASE op.type = "Void"
  <2>1. SetVoid(s, op.id, ~op.prev_is_void).records = Effect(op, s.records)
    BY <1>1, <1>5 DEF SetVoid, Effect, StoreFields
  <2> QED BY <1>3, <1>5, <2>1 DEF op, t
<1> QED BY <1>2, <1>4, <1>5

(* The records the store went through and can still return to: H[n] are    *)
(* the records now, where n operations stand on the undo stack; popping    *)
(* the undo stack leads one step down, popping the redo stack one step up. *)
Line(s, H) ==
  LET n == Len(s.undo)
      m == Len(s.redo)
  IN  /\ H \in [0..(n + m) -> [DOMAIN s.records -> QsoRecord]]
      /\ H[n] = s.records
      /\ \A i \in 1..n : Leads(s.undo[i], H[i], H[i - 1])
      /\ \A j \in 1..m : Leads(s.redo[j], H[n + m - j], H[n + m - j + 1])

LEMMA Pushed ==
  ASSUME NEW S, NEW q \in Seq(S), NEW e
  PROVE  /\ Len(Append(q, e)) = Len(q) + 1 /\ Len(q) \in Nat
         /\ \A i \in 1..Len(q) : Append(q, e)[i] = q[i]
         /\ Append(q, e)[Len(q) + 1] = e
<1>1. q \in Seq(S \cup {e}) /\ e \in S \cup {e}
  OBVIOUS
<1> QED BY <1>1

LEMMA Popped ==
  ASSUME NEW S, NEW q \in Seq(S), q # << >>
  PROVE  /\ Len(Front(q)) = Len(q) - 1 /\ Len(q) \in Nat \ {0}
         /\ \A i \in 1..(Len(q) - 1) : Front(q)[i] = q[i]
         /\ Last(q) = q[Len(q)]
<1>1. Len(q) \in Nat /\ Len(q) # 0 /\ q = [i \in 1..Len(q) |-> q[i]]
  OBVIOUS
<1>2. /\ Len(SubSeq(q, 1, Len(q) - 1)) = Len(q) - 1
      /\ \A i \in 1..(Len(q) - 1) : SubSeq(q, 1, Len(q) - 1)[i] = q[i]
  BY <1>1
<1> QED BY <1>1, <1>2 DEF Front, Last

(* undo takes one step down the line, redo one step up.                    *)
LEMMA LineUndo ==
  ASSUME NEW s, Inv(s), NEW H, Line(s, H), s.undo # << >>
  PROVE  LET t == Mutate(s, UndoCmd)
         IN  /\ Inv(t) /\ Line(t, H)
             /\ Len(t.undo) = Len(s.undo) - 1 /\ Len(t.redo) = Len(s.redo) + 1
<1> DEFINE t   == Mutate(s, UndoCmd)
           n   == Len(s.undo)
           m   == Len(s.redo)
           op  == OpFor(s, UndoCmd)
           inv == InverseOf(s, op)
           R   == [DOMAIN s.records -> QsoRecord]
<1>1. UndoCmd \in Mutation /\ UndoCmd.cmd = "undo" /\ Succeeds(s, UndoCmd)
  BY DEF Mutation, UndoCmd, Succeeds
<1>2. /\ Inv(t) /\ DOMAIN t.records = DOMAIN s.records
      /\ t.records = Effect(op, s.records)
      /\ t.undo = Front(s.undo) /\ t.redo = Append(s.redo, inv)
  BY <1>1, MutateInv, MutateEffect, ChangedStacks
<1>3. s.undo \in Seq(StackOp) /\ s.redo \in Seq(StackOp) /\ op = Last(s.undo)
  BY DEF Inv, OpFor, UndoCmd
<1> HIDE DEF t, op, inv
<1>4. /\ Len(t.undo) = n - 1 /\ n \in Nat \ {0} /\ op = s.undo[n]
      /\ \A i \in 1..(n - 1) : t.undo[i] = s.undo[i]
  BY <1>2, <1>3, Popped
<1>5. /\ Len(t.redo) = m + 1 /\ m \in Nat /\ t.redo[m + 1] = inv
      /\ \A j \in 1..m : t.redo[j] = s.redo[j]
  BY <1>2, <1>3, Pushed
<1> HIDE DEF n, m
<1>6. /\ H \in [0..(n + m) -> R] /\ H[n] = s.records
      /\ \A i \in 1..n : Leads(s.undo[i], H[i], H[i - 1])
      /\ \A j \in 1..m : Leads(s.redo[j], H[n + m - j], H[n + m - j + 1])
  BY DEF Line, n, m
<1>7. n \in 1..n
  BY <1>4
<1>8. Leads(op, s.records, H[n - 1])
  BY <1>4, <1>6, <1>7
<1>9. t.records = H[n - 1] /\ Reversible(op, s.records) /\ s.records \in R
  <2>1. n \in 0..(n + m)
    BY <1>4, <1>5
  <2> QED BY <1>2, <1>6, <1>8, <2>1 DEF Leads
<1>10. Leads(inv, H[n - 1], H[n])
  BY <1>2, <1>6, <1>9, InverseLeadsBack DEF inv
<1>11. \A i \in 1..(n - 1) : Leads(t.undo[i], H[i], H[i - 1])
  <2> TAKE i \in 1..(n - 1)
  <2>1. i \in 1..n
    BY <1>4
  <2> QED BY <1>4, <1>6, <2>1
<1>12. \A j \in 1..(m + 1) : Leads(t.redo[j], H[(n - 1) + (m + 1) - j], H[(n - 1) + (m + 1) - j + 1])
  <2> TAKE j \in 1..(m + 1)
  <2>1. CASE j \in 1..m
    <3>0. n \in Int /\ m \in Int /\ j \in Int
      BY <1>4, <1>5
    <3>1. (n - 1) + (m + 1) - j = n + m - j /\ (n - 1) + (m + 1) - j + 1 = n + m - j + 1
      BY <3>0
    <3> QED BY <1>5, <1>6, <2>1, <3>1
  <2>2. CASE j = m + 1
    <3>1. (n - 1) + (m + 1) - j = n - 1 /\ (n - 1) + (m + 1) - j + 1 = n
      BY <1>4, <1>5, <2>2
    <3> QED BY <1>5, <1>10, <2>2, <3>1
  <2> QED BY <1>5, <2>1, <2>2
<1>13. (n - 1) + (m + 1) = n + m
  BY <1>4, <1>5
<1>14. H \in [0..((n - 1) + (m + 1)) -> [DOMAIN t.records -> QsoRecord]]
  BY <1>2, <1>6, <1>13
<1>15. Line(t, H)
  BY <1>4, <1>5, <1>9, <1>11, <1>12, <1>14 DEF Line
<1> QED BY <1>2, <1>4, <1>5, <1>15 DEF t, n, m

LEMMA LineRedo ==
  ASSUME NEW s, Inv(s), NEW H, Line(s, H), s.redo # << >>
  PROVE  LET t == Mutate(s, RedoCmd)
         IN  /\ Inv(t) /\ Line(t, H)
             /\ Len(t.undo) = Len(s.undo) + 1 /\ Len(t.redo) = Len(s.redo) - 1
<1> DEFINE t   == Mutate(s, RedoCmd)
           n   == Len(s.undo)
           m   == Len(s.redo)
           op  == OpFor(s, RedoCmd)
           inv == InverseOf(s, op)
           R   == [DOMAIN s.records -> QsoRecord]
<1>1. RedoCmd \in Mutation /\ RedoCmd.cmd = "redo" /\ Succeeds(s, RedoCmd)
  BY DEF Mutation, RedoCmd, Succeeds
<1>2. /\ Inv(t) /\ DOMAIN t.records = DOMAIN s.records
      /\ t.records = Effect(op, s.records)
      /\ t.undo = Append(s.undo, inv) /\ t.redo = Front(s.redo)
  BY <1>1, MutateInv, MutateEffect, ChangedStacks
<1>3. s.undo \in Seq(StackOp) /\ s.redo \in Seq(StackOp) /\ op = Last(s.redo)
  BY DEF Inv, OpFor, RedoCmd
<1> HIDE DEF t, op, inv
<1>4. /\ Len(t.redo) = m - 1 /\ m \in Nat \ {0} /\ op = s.redo[m]
      /\ \A j \in 1..(m - 1) : t.redo[j] = s.redo[j]
  BY <1>2, <1>3, Popped
<1>5. /\ Len(t.undo) = n + 1 /\ n \in Nat /\ t.undo[n + 1] = inv
      /\ \A i \in 1..n : t.undo[i] = s.undo[i]
  BY <1>2, <1>3, Pushed
<1> HIDE DEF n, m
<1>6. /\ H \in [0..(n + m) -> R] /\ H[n] = s.records
      /\ \A i \in 1..n : Leads(s.undo[i], H[i], H[i - 1])
      /\ \A j \in 1..m : Leads(s.redo[j], H[n + m - j], H[n + m - j + 1])
  BY DEF Line, n, m
<1>7. m \in 1..m /\ n + m - m = n
  BY <1>4, <1>5
<1>8. Leads(op, s.records, H[n + 1])
  BY <1>4, <1>6, <1>7
<1>9. t.records = H[n + 1] /\ Reversible(op, s.records) /\ s.records \in R
  <2>1. n \in 0..(n + m)
    BY <1>4, <1>5
  <2> QED BY <1>2, <1>6, <1>8, <2>1 DEF Leads
<1>10. Leads(inv, H[n + 1], H[n])
  BY <1>2, <1>6, <1>9, InverseLeadsBack DEF inv
<1>11. \A i \in 1..(n + 1) : Leads(t.undo[i], H[i], H[i - 1])
  <2> TAKE i \in 1..(n + 1)
  <2>1. CASE i \in 1..n
    BY <1>5, <1>6, <2>1
  <2>2. CASE i = n + 1
    <3>1. i - 1 = n
      BY <1>5, <2>2
    <3> QED BY <1>5, <1>10, <2>2, <3>1
  <2> QED BY <1>5, <2>1, <2>2
<1>12. \A j \in 1..(m - 1) : Leads(t.redo[j], H[(n + 1) + (m - 1) - j], H[(n + 1) + (m - 1) - j + 1])
  <2> TAKE j \in 1..(m - 1)
  <2>1. /\ j \in 1..m /\ (n + 1) + (m - 1) - j = n + m - j
        /\ (n + 1) + (m - 1) - j + 1 = n + m - j + 1
    BY <1>4, <1>5
  <2> QED BY <1>4, <1>6, <2>1
<1>13. (n + 1) + (m - 1) = n + m
  BY <1>4, <1>5
<1>14. H \in [0..((n + 1) + (m - 1)) -> [DOMAIN t.records -> QsoRecord]]
  BY <1>2, <1>6, <1>13
<1>15. Line(t, H)
  BY <1>4, <1>5, <1>9, <1>11, <1>12, <1>14 DEF Line
<1> QED BY <1>2, <1>4, <1>5, <1>15 DEF t, n, m

(* The same records and stacks are on the same line, and a store that only *)
(* forgot what it could redo, or everything, is on what is left of it.     *)
LEMMA LineKept ==
  ASSUME NEW s, NEW H, Line(s, H), NEW t, t.records = s.records, t.undo = s.undo, t.redo = s.redo
  PROVE  Line(t, H)
  BY DEF Line

LEMMA LineCut ==
  ASSUME NEW s, Inv(s), NEW H, Line(s, H), NEW t,
         t.records = s.records, t.undo = s.undo, t.redo = << >>
  PROVE  \E G : Line(t, G)
<1> DEFINE n == Len(s.undo)
           m == Len(s.redo)
           R == [DOMAIN s.records -> QsoRecord]
           G == [i \in 0..n |-> H[i]]
<1>1. n \in Nat /\ m \in Nat
  BY DEF Inv
<1>2. Len(t.redo) = 0 /\ Len(t.undo) = n /\ n + 0 = n
  BY <1>1
<1> HIDE DEF n, m
<1>3. /\ H \in [0..(n + m) -> R] /\ H[n] = s.records
      /\ \A i \in 1..n : Leads(s.undo[i], H[i], H[i - 1])
  BY DEF Line, n, m
<1>4. \A i \in 0..n : i \in 0..(n + m) /\ H[i] \in R
  BY <1>1, <1>3
<1>5. G \in [0..n -> R] /\ G[n] = t.records
  BY <1>1, <1>3, <1>4
<1>6. \A i \in 1..n : Leads(t.undo[i], G[i], G[i - 1])
  <2> TAKE i \in 1..n
  <2>1. i \in 0..n /\ i - 1 \in 0..n
    BY <1>1
  <2>2. G[i] = H[i] /\ G[i - 1] = H[i - 1]
    BY <2>1
  <2> HIDE DEF G
  <2> QED BY <1>3, <2>2
<1> HIDE DEF G
<1>7. \A j \in 1..0 : Leads(t.redo[j], G[n + 0 - j], G[n + 0 - j + 1])
  OBVIOUS
<1>8. Line(t, G)
  BY <1>2, <1>5, <1>6, <1>7 DEF Line
<1> QED BY <1>8

LEMMA LineFresh ==
  ASSUME NEW t, Inv(t), t.undo = << >>, t.redo = << >>
  PROVE  \E G : Line(t, G)
<1> DEFINE G == [i \in 0..0 |-> t.records]
<1>1. t.records \in [DOMAIN t.records -> QsoRecord]
  BY DEF Inv, CoreOf, CoreOK
<1>2. Len(t.undo) = 0 /\ Len(t.redo) = 0 /\ 0 + 0 = 0
  OBVIOUS
<1>3. G \in [0..0 -> [DOMAIN t.records -> QsoRecord]] /\ G[0] = t.records
  BY <1>1
<1> HIDE DEF G
<1>4. Line(t, G)
  BY <1>2, <1>3 DEF Line
<1> QED BY <1>4

(* A patch or a void takes the records it finds as the last of the line    *)
(* below, and puts its own on top.                                         *)
LEMMA LinePush ==
  ASSUME NEW s, Inv(s), NEW H, Line(s, H), NEW t, DOMAIN t.records = DOMAIN s.records,
         t.records \in [DOMAIN s.records -> QsoRecord], t.redo = << >>,
         NEW inv, t.undo = Append(s.undo, inv), Leads(inv, t.records, s.records)
  PROVE  \E G : Line(t, G)
<1> DEFINE n == Len(s.undo)
           m == Len(s.redo)
           R == [DOMAIN s.records -> QsoRecord]
           G == [i \in 0..(n + 1) |-> IF i <= n THEN H[i] ELSE t.records]
<1>0. s.undo \in Seq(StackOp) /\ s.redo \in Seq(StackOp)
  BY DEF Inv
<1>1. n \in Nat /\ m \in Nat
  BY <1>0
<1>2. /\ Len(t.undo) = n + 1 /\ t.undo[n + 1] = inv
      /\ \A i \in 1..n : t.undo[i] = s.undo[i]
  BY <1>0, Pushed
<1>3. Len(t.redo) = 0 /\ (n + 1) + 0 = n + 1
  BY <1>1
<1> HIDE DEF n, m
<1>4. /\ H \in [0..(n + m) -> R] /\ H[n] = s.records
      /\ \A i \in 1..n : Leads(s.undo[i], H[i], H[i - 1])
  BY DEF Line, n, m
<1>b. \A i \in 0..n : H[i] \in R
  BY <1>1, <1>4
<1>5. \A i \in 0..n : G[i] = H[i]
  BY <1>1
<1>6. G[n + 1] = t.records
  BY <1>1
<1>7. G \in [0..(n + 1) -> R]
  <2>1. ASSUME NEW i \in 0..(n + 1) PROVE (IF i <= n THEN H[i] ELSE t.records) \in R
    BY <1>1, <1>b
  <2> QED BY <2>1
<1> HIDE DEF G
<1>8. \A i \in 1..(n + 1) : Leads(t.undo[i], G[i], G[i - 1])
  <2> TAKE i \in 1..(n + 1)
  <2>1. CASE i \in 1..n
    <3>1. i \in 0..n /\ i - 1 \in 0..n
      BY <1>1, <2>1
    <3> QED BY <1>2, <1>4, <1>5, <2>1, <3>1
  <2>2. CASE i = n + 1
    <3>1. i - 1 = n /\ n \in 0..n
      BY <1>1, <2>2
    <3>2. G[i - 1] = s.records
      BY <1>4, <1>5, <3>1
    <3> QED BY <1>2, <1>6, <2>2, <3>2
  <2>3. i \in 1..n \/ i = n + 1
    BY <1>1
  <2> QED BY <2>1, <2>2, <2>3
<1>9. \A j \in 1..0 : Leads(t.redo[j], G[(n + 1) + 0 - j], G[(n + 1) + 0 - j + 1])
  OBVIOUS
<1>10. Line(t, G)
  BY <1>2, <1>3, <1>6, <1>7, <1>8, <1>9 DEF Line
<1> QED BY <1>10

(* An operation on other records goes the same way when one more record,   *)
(* which it does not name, is there.                                       *)
LEMMA LeadsWiden ==
  ASSUME NEW D, NEW A \in [D -> QsoRecord], NEW B \in [D -> QsoRecord], NEW op, Leads(op, A, B),
         NEW id, id \notin D, NEW rec
  PROVE  Leads(op, MapInsert(A, id, rec), MapInsert(B, id, rec))
<1> DEFINE X == MapInsert(A, id, rec)
           Y == MapInsert(B, id, rec)
           v == IF op.type = "Patch" THEN ApplyTo(op.patch, A[op.id])
                ELSE [A[op.id] EXCEPT !["is_void"] = ~op.prev_is_void]
<1>1. op.id \in D /\ Reversible(op, A) /\ B = [A EXCEPT ![op.id] = v]
  BY DEF Leads, Effect, Reversible
<1>2. X[op.id] = A[op.id] /\ op.id \in DOMAIN X
  BY <1>1 DEF MapInsert
<1>3. Reversible(op, X)
  BY <1>1, <1>2 DEF Reversible
<1>4. Effect(op, X) = [X EXCEPT ![op.id] = v]
  BY <1>2 DEF Effect
<1> HIDE DEF v
<1>5. [X EXCEPT ![op.id] = v] = Y
  BY <1>1 DEF MapInsert
<1> QED BY <1>3, <1>4, <1>5 DEF Leads

(* An insert adds its record, voided, all along the line below, and the    *)
(* record as it is on top: undoing the insert voids the record.            *)
LEMMA LineInsert ==
  ASSUME NEW s, Inv(s), NEW H, Line(s, H), NEW draft \in QsoRecord, draft["is_void"] = FALSE
  PROVE  \E G : Line(Mutate(s, InsertCmd(draft)), G)
<1> DEFINE t  == Mutate(s, InsertCmd(draft))
           id == s.next_qso_id
           D  == DOMAIN s.records
           n  == Len(s.undo)
           m  == Len(s.redo)
           R  == [D -> QsoRecord]
           W  == [D \cup {id} -> QsoRecord]
           gone == [draft EXCEPT !["is_void"] = TRUE]
           op == VoidOp(id, FALSE)
           G  == [i \in 0..(n + 1) |-> IF i <= n THEN MapInsert(H[i], id, gone) ELSE t.records]
<1>0. s.undo \in Seq(StackOp) /\ s.redo \in Seq(StackOp)
  BY DEF Inv
<1>1. n \in Nat /\ m \in Nat
  BY <1>0
<1>a. id \notin D
  <2>1. D \subseteq QsoId /\ \A q \in D : q < id
    BY DEF Inv, CoreOf, CoreOK, OrderOK
  <2>2. ASSUME id \in D PROVE FALSE
    BY <2>1, <2>2 DEF QsoId
  <2> QED BY <2>2
<1>2. t.records = MapInsert(s.records, id, draft) /\ t.undo = Append(s.undo, op) /\ t.redo = << >>
  BY InsertFields
<1> HIDE DEF t, op, id
<1>3. /\ Len(t.undo) = n + 1 /\ t.undo[n + 1] = op
      /\ \A i \in 1..n : t.undo[i] = s.undo[i]
  BY <1>0, <1>2, Pushed
<1>4. Len(t.redo) = 0 /\ (n + 1) + 0 = n + 1
  BY <1>1, <1>2
<1>b. gone \in QsoRecord
  BY SetVoidType
<1> HIDE DEF n, m
<1>5. /\ H \in [0..(n + m) -> R] /\ H[n] = s.records
      /\ \A i \in 1..n : Leads(s.undo[i], H[i], H[i - 1])
  BY DEF Line, n, m
<1>c. \A i \in 0..n : H[i] \in R
  BY <1>1, <1>5
<1>6. \A i \in 0..n : G[i] = MapInsert(H[i], id, gone)
  BY <1>1
<1>7. G[n + 1] = t.records
  BY <1>1
<1>8. \A A \in R, rec \in QsoRecord : MapInsert(A, id, rec) \in W
  BY DEF MapInsert
<1>9. s.records \in R /\ t.records \in W /\ DOMAIN t.records = D \cup {id}
  <2>1. n \in 0..n
    BY <1>1
  <2>2. s.records \in R
    BY <1>5, <1>c, <2>1
  <2> QED BY <1>2, <1>8, <2>2
<1> HIDE DEF gone
<1>10. G \in [0..(n + 1) -> W]
  <2>1. ASSUME NEW i \in 0..(n + 1)
        PROVE  (IF i <= n THEN MapInsert(H[i], id, gone) ELSE t.records) \in W
    <3>1. CASE i <= n
      <4>1. H[i] \in R
        BY <1>1, <1>c, <3>1
      <4>2. MapInsert(H[i], id, gone) \in W
        BY <1>8, <1>b, <4>1
      <4> QED BY <3>1, <4>2
    <3>2. CASE ~(i <= n)
      BY <1>9, <3>2
    <3> QED BY <3>1, <3>2
  <2> QED BY <2>1
<1> HIDE DEF G
<1>11. Leads(op, t.records, MapInsert(s.records, id, gone))
  <2>1. op.type = "Void" /\ op.id = id /\ op.prev_is_void = FALSE
    BY DEF op, VoidOp
  <2> HIDE DEF op
  <2>2. t.records[id] = draft /\ id \in DOMAIN t.records
    BY <1>2, <1>9 DEF MapInsert
  <2>3. Reversible(op, t.records)
    BY <2>1, <2>2 DEF Reversible
  <2>4. Effect(op, t.records) = [t.records EXCEPT ![id] = gone]
    BY <2>1, <2>2 DEF Effect, gone
  <2>5. [t.records EXCEPT ![id] = gone] = MapInsert(s.records, id, gone)
    BY <1>2, <1>9 DEF MapInsert
  <2> QED BY <2>3, <2>4, <2>5 DEF Leads
<1>12. \A i \in 1..(n + 1) : Leads(t.undo[i], G[i], G[i - 1])
  <2> TAKE i \in 1..(n + 1)
  <2>1. CASE i \in 1..n
    <3>1. i \in 0..n /\ i - 1 \in 0..n
      BY <1>1, <2>1
    <3>2. H[i] \in R /\ H[i - 1] \in R /\ Leads(s.undo[i], H[i], H[i - 1])
      BY <1>5, <1>c, <2>1, <3>1
    <3>3. Leads(s.undo[i], MapInsert(H[i], id, gone), MapInsert(H[i - 1], id, gone))
      BY <1>a, <3>2, LeadsWiden
    <3> QED BY <1>3, <1>6, <2>1, <3>1, <3>3
  <2>2. CASE i = n + 1
    <3>1. i - 1 = n /\ n \in 0..n
      BY <1>1, <2>2
    <3>2. G[i - 1] = MapInsert(s.records, id, gone)
      BY <1>5, <1>6, <3>1
    <3> QED BY <1>3, <1>7, <1>11, <2>2, <3>2
  <2>3. i \in 1..n \/ i = n + 1
    BY <1>1
  <2> QED BY <2>1, <2>2, <2>3
<1>13. \A j \in 1..0 : Leads(t.redo[j], G[(n + 1) + 0 - j], G[(n + 1) + 0 - j + 1])
  OBVIOUS
<1>14. Line(t, G)
  BY <1>3, <1>4, <1>7, <1>9, <1>10, <1>12, <1>13 DEF Line
<1> QED BY <1>14 DEF t

LEMMA LineChange ==
  ASSUME NEW s, Inv(s), NEW H, Line(s, H), NEW m \in Mutation, m.cmd \in {"patch", "void"},
         Succeeds(s, m)
  PROVE  \E G : Line(Mutate(s, m), G)
<1> DEFINE t   == Mutate(s, m)
           op  == OpFor(s, m)
           inv == InverseOf(s, op)
           R   == [DOMAIN s.records -> QsoRecord]
<1>0. m.cmd # "insert"
  OBVIOUS
<1>1. s.records \in R
  BY DEF Inv, CoreOf, CoreOK
<1>2. t.records = Effect(op, s.records) /\ DOMAIN t.records = DOMAIN s.records
  BY <1>0, MutateInv, MutateEffect
<1>3. t.undo = Append(s.undo, inv) /\ t.redo = << >>
  BY <1>0, ChangedStacks
<1>4. Reversible(op, s.records)
  <2>1. /\ op.type \in {"Patch", "Void"} /\ op.id \in DOMAIN s.records
        /\ op.type = "Patch" => op.patch \in QsoPatch
        /\ op.type = "Void" => op.prev_is_void \in BOOLEAN
    BY <1>0, MutationOp
  <2>2. op.type = "Void" => op.prev_is_void = s.records[op.id]["is_void"]
    BY DEF OpFor, PatchOp, VoidOp
  <2> HIDE DEF op
  <2> QED BY <2>1, <2>2 DEF Reversible
<1> HIDE DEF t, op
<1>5. t.records \in R
  BY <1>1, <1>2, <1>4, EffectType
<1>6. Leads(inv, t.records, s.records)
  BY <1>1, <1>2, <1>4, InverseLeadsBack
<1> HIDE DEF inv
<1> QED BY <1>2, <1>3, <1>5, <1>6, LinePush DEF t

(* Rejecting a patch or a void gives back the records and the undo stack,  *)
(* not the redo stack that the mutation had cleared.                       *)
LEMMA RejectedChange ==
  ASSUME NEW s, Inv(s), NEW m \in Mutation, m.cmd \in {"patch", "void"}, Succeeds(s, m)
  PROVE  LET t == Rejected(s, m)
         IN  t.records = s.records /\ t.undo = s.undo /\ t.redo = << >>
<1> DEFINE t == Rejected(s, m)
           u == Mutate(s, m)
           c == ClearPendingOps(u)
           e == StoredFor(s, m).op
           r == RollbackOp(c, e)
           inv == InverseOf(s, OpFor(s, m))
<1>0. m.cmd # "insert"
  OBVIOUS
<1>1. Visible(t) = Visible(s)
  BY RejectedVisible
<1>2. Inv(u)
  BY <1>0, MutateInv
<1>3. DOMAIN u = StoreFields
  BY <1>2, InvNames
<1>4. u.undo = Append(s.undo, inv) /\ u.redo = << >>
  BY <1>0, ChangedStacks
<1>5. DOMAIN c = StoreFields /\ c.undo = u.undo /\ c.redo = u.redo
  BY <1>3, ClearFields
<1>6. e.type \in {"Patch", "Void"}
  BY <1>0, EmittedEffect DEF SameEffect
<1>7. DOMAIN r = StoreFields /\ r.undo = c.undo /\ r.redo = c.redo
  <2> HIDE DEF c, e
  <2> QED BY <1>5, <1>6 DEF RollbackOp, PatchInPlace, SetVoid, StoreFields
<1>8. t.undo = Truncate(r.undo, Len(s.undo)) /\ t.redo = Truncate(r.redo, Len(s.redo))
  BY <1>3, <1>7, RejectedFields
<1>9. t.records = s.records
  <2> HIDE DEF t
  <2> QED BY <1>1 DEF Visible
<1> HIDE DEF t, u, c, e, r, inv
<1>10. s.undo \in Seq(StackOp) /\ s.redo \in Seq(StackOp)
  BY DEF Inv
<1>11. Truncate(Append(s.undo, inv), Len(s.undo)) = s.undo
  <2>1. s.undo \in Seq(StackOp \cup {inv}) /\ inv \in StackOp \cup {inv}
    BY <1>10
  <2> QED BY <2>1, TruncateAppend
<1>12. Truncate(<< >>, Len(s.redo)) = << >>
  BY <1>10 DEF Truncate
<1> QED BY <1>4, <1>5, <1>7, <1>8, <1>9, <1>11, <1>12 DEF t

==============================================================================
