---------------------------- MODULE ProjectorProofs ----------------------------
(***************************************************************************)
(* Proofs about Projector, for every set of drafts and patches and every   *)
(* bound: first for every contest engine, then, for one that satisfies     *)
(* LawfulEngine, that the incremental results are those of a full          *)
(* evaluation.                                                             *)
(***************************************************************************)
EXTENDS EngineLaws, QsoStoreOpsProofs

------------------------------------------------------------------------------
(* Retracting and applying one QSO                                         *)

(* The projector knows only ids of D, and its links are those of results   *)
(* that it holds.                                                          *)
ProjOK(p, D) ==
  /\ DOMAIN p.applied \subseteq D
  /\ \A l \in p.dep_index : /\ l = <<l[1], l[2]>>
                            /\ l[2] \in DOMAIN p.applied /\ l[1] \in p.applied[l[2]].deps

LEMMA RetractOneOK ==
  ASSUME NEW p, NEW D, ProjOK(p, D), NEW s, NEW changed, NEW old, NEW id \in DOMAIN p.applied
  PROVE  LET q == RetractOne(s, changed, old, p, id)
         IN  ProjOK(q, D) /\ DOMAIN q.applied = DOMAIN p.applied \ {id}
<1> DEFINE q == RetractOne(s, changed, old, p, id)
           L == Links(id, p.applied[id].deps)
<1>1. /\ DOMAIN q.applied = DOMAIN p.applied \ {id}
      /\ \A x \in DOMAIN q.applied : q.applied[x] = p.applied[x]
      /\ q.dep_index = p.dep_index \ L
  BY DEF RetractOne, MapRemove
<1> HIDE DEF q
<1>2. ASSUME NEW l \in q.dep_index
      PROVE  /\ l = <<l[1], l[2]>>
             /\ l[2] \in DOMAIN q.applied /\ l[1] \in q.applied[l[2]].deps
  <2>1. /\ l \in p.dep_index /\ l \notin L /\ l = <<l[1], l[2]>>
        /\ l[2] \in DOMAIN p.applied /\ l[1] \in p.applied[l[2]].deps
    BY <1>1, <1>2 DEF ProjOK
  <2>2. l[2] # id
    BY <2>1 DEF Links
  <2> QED BY <1>1, <2>1, <2>2
<1>3. DOMAIN q.applied \subseteq D
  BY <1>1 DEF ProjOK
<1> QED BY <1>1, <1>2, <1>3 DEF ProjOK, q

LEMMA ApplyOneOK ==
  ASSUME NEW p, NEW D, ProjOK(p, D), NEW s, NEW id \in D, id \notin DOMAIN p.applied
  PROVE  LET q == ApplyOne(s, p, id)
         IN  ProjOK(q, D) /\ DOMAIN q.applied = DOMAIN p.applied \cup {id}
<1> DEFINE out == EngineApply(p.state, s.records[id])
           q == ApplyOne(s, p, id)
<1>1. /\ DOMAIN q.applied = DOMAIN p.applied \cup {id}
      /\ \A x \in DOMAIN p.applied : q.applied[x] = p.applied[x]
      /\ q.applied[id] = out.applied
      /\ q.dep_index = p.dep_index \cup Links(id, out.applied.deps)
  BY DEF ApplyOne, MapInsert
<1> HIDE DEF q, out
<1>2. ASSUME NEW l \in q.dep_index
      PROVE  /\ l = <<l[1], l[2]>>
             /\ l[2] \in DOMAIN q.applied /\ l[1] \in q.applied[l[2]].deps
  <2>1. CASE l \in p.dep_index
    <3>1. /\ l = <<l[1], l[2]>>
          /\ l[2] \in DOMAIN p.applied /\ l[1] \in p.applied[l[2]].deps
      BY <2>1 DEF ProjOK
    <3> QED BY <1>1, <3>1
  <2>2. CASE l \in Links(id, out.applied.deps)
    <3>1. PICK key \in out.applied.deps : l = <<key, id>>
      BY <2>2 DEF Links
    <3>2. l[1] = key /\ l[2] = id
      BY <3>1
    <3> QED BY <1>1, <3>1, <3>2
  <2> QED BY <1>1, <1>2, <2>1, <2>2
<1>3. DOMAIN q.applied \subseteq D
  BY <1>1 DEF ProjOK
<1> QED BY <1>1, <1>2, <1>3 DEF ProjOK, q

------------------------------------------------------------------------------
(* The two passes                                                          *)

(* What a pass does at one id of `order`.                                  *)
RetractAt(q, s, impacted, changed, old, id) ==
  IF id \in impacted \cap DOMAIN q.applied THEN RetractOne(s, changed, old, q, id) ELSE q

ApplyAt(q, s, impacted, id) ==
  IF id \in impacted /\ ~s.records[id]["is_void"] THEN ApplyOne(s, q, id) ELSE q

(* g lists the projectors that the first n ids of a retracting pass give.  *)
RetractRun(g, p, s, impacted, changed, old, n) ==
  /\ DOMAIN g = 0..n
  /\ g[0] = p
  /\ \A i \in 1..n : g[i] = RetractAt(g[i - 1], s, impacted, changed, old, s.order[i])

LEMMA RetractRunExists ==
  ASSUME NEW p, NEW s, NEW impacted, NEW changed, NEW old, NEW N \in Nat
  PROVE  \E g : RetractRun(g, p, s, impacted, changed, old, N)
<1> DEFINE Bad == {n \in Nat : ~ \E g : RetractRun(g, p, s, impacted, changed, old, n)}
<1> SUFFICES ASSUME Bad # {} PROVE FALSE
  OBVIOUS
<1>1. PICK n \in Bad : \A k \in Bad : n <= k
  <2>1. Bad \in SUBSET Nat
    OBVIOUS
  <2> HIDE DEF Bad
  <2> QED BY <2>1, LeastNatural
<1>2. CASE n = 0
  <2>1. RetractRun([i \in 0..0 |-> p], p, s, impacted, changed, old, 0)
    BY DEF RetractRun
  <2> QED BY <1>2, <2>1
<1>3. CASE n # 0
  <2>1. n - 1 \in Nat /\ n - 1 \notin Bad
    BY <1>1, <1>3
  <2>2. PICK g : RetractRun(g, p, s, impacted, changed, old, n - 1)
    BY <2>1
  <2> DEFINE h == [i \in 0..n |-> IF i < n THEN g[i] ELSE RetractAt(g[n - 1], s, impacted, changed, old, s.order[n])]
  <2>3. DOMAIN h = 0..n /\ h[0] = p
    BY <1>1, <1>3, <2>2 DEF RetractRun
  <2>4. \A i \in 1..n : h[i] = RetractAt(h[i - 1], s, impacted, changed, old, s.order[i])
    <3> TAKE i \in 1..n
    <3>1. i \in 0..n /\ i - 1 \in 0..n /\ i - 1 < n
      BY <1>1
    <3>2. h[i - 1] = g[i - 1]
      BY <3>1
    <3>3. CASE i < n
      <4>1. i \in 1..(n - 1)
        BY <1>1, <3>3
      <4>2. g[i] = RetractAt(g[i - 1], s, impacted, changed, old, s.order[i])
        BY <2>2, <4>1 DEF RetractRun
      <4> QED BY <3>1, <3>2, <3>3, <4>2
    <3>4. CASE i = n
      BY <3>1, <3>2, <3>4
    <3> QED BY <1>1, <3>3, <3>4
  <2> HIDE DEF h
  <2>5. RetractRun(h, p, s, impacted, changed, old, n)
    BY <2>3, <2>4 DEF RetractRun
  <2> QED BY <1>1, <2>5
<1> QED
  BY <1>2, <1>3

LEMMA RetractImpactedRun ==
  ASSUME NEW p, NEW s, NEW impacted, NEW changed, NEW old, Len(s.order) \in Nat
  PROVE  LET N == Len(s.order)
         IN  \E g : RetractRun(g, p, s, impacted, changed, old, N) /\ RetractImpacted(p, s, impacted, changed, old) = g[N]
<1> DEFINE N == Len(s.order)
           Eq(g) == g = [k \in 0..N |-> IF k = 0 THEN p ELSE RetractAt(g[k - 1], s, impacted, changed, old, s.order[k])]
<1>0. N \in Nat
  OBVIOUS
<1>1. RetractImpacted(p, s, impacted, changed, old) = (CHOOSE g : Eq(g))[N]
  BY DEF RetractImpacted, RetractAt
<1> HIDE DEF N
<1>2. PICK h : RetractRun(h, p, s, impacted, changed, old, N)
  BY <1>0, RetractRunExists
<1>3. \E g : Eq(g)
  <2> DEFINE f == [k \in 0..N |-> h[k]]
  <2>1. ASSUME NEW k \in 0..N
        PROVE  f[k] = IF k = 0 THEN p ELSE RetractAt(f[k - 1], s, impacted, changed, old, s.order[k])
    <3>1. CASE k = 0
      BY <3>1, <1>2 DEF RetractRun
    <3>2. CASE k # 0
      <4>1. k \in 1..N /\ k - 1 \in 0..N
        BY <1>0, <3>2
      <4>2. h[k] = RetractAt(h[k - 1], s, impacted, changed, old, s.order[k])
        BY <1>2, <4>1 DEF RetractRun
      <4> QED BY <3>2, <4>1, <4>2
    <3> QED BY <3>1, <3>2
  <2>2. f = [k \in 0..N |-> IF k = 0 THEN p ELSE RetractAt(f[k - 1], s, impacted, changed, old, s.order[k])]
    <3>1. DOMAIN f = 0..N /\ f = [k \in 0..N |-> f[k]]
      OBVIOUS
    <3> HIDE DEF f
    <3> QED BY <2>1, <3>1
  <2>3. Eq(f)
    BY <2>2
  <2> HIDE DEF f, Eq
  <2> QED BY <2>3
<1> DEFINE g == CHOOSE k : Eq(k)
<1>4. Eq(g)
  <2> HIDE DEF Eq
  <2> QED BY <1>3
<1> HIDE DEF g
<1>5. RetractRun(g, p, s, impacted, changed, old, N)
  <2>1. g = [k \in 0..N |-> IF k = 0 THEN p ELSE RetractAt(g[k - 1], s, impacted, changed, old, s.order[k])]
    BY <1>4
  <2>2. DOMAIN g = 0..N
    BY <2>1
  <2>3. \A k \in 0..N : g[k] = IF k = 0 THEN p ELSE RetractAt(g[k - 1], s, impacted, changed, old, s.order[k])
    BY <2>1
  <2> QED BY <1>0, <2>2, <2>3 DEF RetractRun
<1> QED
  BY <1>1, <1>5 DEF g, N

(* The same for an applying pass.                                          *)
ApplyRun(g, p, s, impacted, n) ==
  /\ DOMAIN g = 0..n
  /\ g[0] = p
  /\ \A i \in 1..n : g[i] = ApplyAt(g[i - 1], s, impacted, s.order[i])

LEMMA ApplyRunExists ==
  ASSUME NEW p, NEW s, NEW impacted, NEW N \in Nat
  PROVE  \E g : ApplyRun(g, p, s, impacted, N)
<1> DEFINE Bad == {n \in Nat : ~ \E g : ApplyRun(g, p, s, impacted, n)}
<1> SUFFICES ASSUME Bad # {} PROVE FALSE
  OBVIOUS
<1>1. PICK n \in Bad : \A k \in Bad : n <= k
  <2>1. Bad \in SUBSET Nat
    OBVIOUS
  <2> HIDE DEF Bad
  <2> QED BY <2>1, LeastNatural
<1>2. CASE n = 0
  <2>1. ApplyRun([i \in 0..0 |-> p], p, s, impacted, 0)
    BY DEF ApplyRun
  <2> QED BY <1>2, <2>1
<1>3. CASE n # 0
  <2>1. n - 1 \in Nat /\ n - 1 \notin Bad
    BY <1>1, <1>3
  <2>2. PICK g : ApplyRun(g, p, s, impacted, n - 1)
    BY <2>1
  <2> DEFINE h == [i \in 0..n |-> IF i < n THEN g[i] ELSE ApplyAt(g[n - 1], s, impacted, s.order[n])]
  <2>3. DOMAIN h = 0..n /\ h[0] = p
    BY <1>1, <1>3, <2>2 DEF ApplyRun
  <2>4. \A i \in 1..n : h[i] = ApplyAt(h[i - 1], s, impacted, s.order[i])
    <3> TAKE i \in 1..n
    <3>1. i \in 0..n /\ i - 1 \in 0..n /\ i - 1 < n
      BY <1>1
    <3>2. h[i - 1] = g[i - 1]
      BY <3>1
    <3>3. CASE i < n
      <4>1. i \in 1..(n - 1)
        BY <1>1, <3>3
      <4>2. g[i] = ApplyAt(g[i - 1], s, impacted, s.order[i])
        BY <2>2, <4>1 DEF ApplyRun
      <4> QED BY <3>1, <3>2, <3>3, <4>2
    <3>4. CASE i = n
      BY <3>1, <3>2, <3>4
    <3> QED BY <1>1, <3>3, <3>4
  <2> HIDE DEF h
  <2>5. ApplyRun(h, p, s, impacted, n)
    BY <2>3, <2>4 DEF ApplyRun
  <2> QED BY <1>1, <2>5
<1> QED
  BY <1>2, <1>3

LEMMA ApplyImpactedRun ==
  ASSUME NEW p, NEW s, NEW impacted, Len(s.order) \in Nat
  PROVE  LET N == Len(s.order)
         IN  \E g : ApplyRun(g, p, s, impacted, N) /\ ApplyImpacted(p, s, impacted) = g[N]
<1> DEFINE N == Len(s.order)
           Eq(g) == g = [k \in 0..N |-> IF k = 0 THEN p ELSE ApplyAt(g[k - 1], s, impacted, s.order[k])]
<1>0. N \in Nat
  OBVIOUS
<1>1. ApplyImpacted(p, s, impacted) = (CHOOSE g : Eq(g))[N]
  BY DEF ApplyImpacted, ApplyAt
<1> HIDE DEF N
<1>2. PICK h : ApplyRun(h, p, s, impacted, N)
  BY <1>0, ApplyRunExists
<1>3. \E g : Eq(g)
  <2> DEFINE f == [k \in 0..N |-> h[k]]
  <2>1. ASSUME NEW k \in 0..N
        PROVE  f[k] = IF k = 0 THEN p ELSE ApplyAt(f[k - 1], s, impacted, s.order[k])
    <3>1. CASE k = 0
      BY <3>1, <1>2 DEF ApplyRun
    <3>2. CASE k # 0
      <4>1. k \in 1..N /\ k - 1 \in 0..N
        BY <1>0, <3>2
      <4>2. h[k] = ApplyAt(h[k - 1], s, impacted, s.order[k])
        BY <1>2, <4>1 DEF ApplyRun
      <4> QED BY <3>2, <4>1, <4>2
    <3> QED BY <3>1, <3>2
  <2>2. f = [k \in 0..N |-> IF k = 0 THEN p ELSE ApplyAt(f[k - 1], s, impacted, s.order[k])]
    <3>1. DOMAIN f = 0..N /\ f = [k \in 0..N |-> f[k]]
      OBVIOUS
    <3> HIDE DEF f
    <3> QED BY <2>1, <3>1
  <2>3. Eq(f)
    BY <2>2
  <2> HIDE DEF f, Eq
  <2> QED BY <2>3
<1> DEFINE g == CHOOSE k : Eq(k)
<1>4. Eq(g)
  <2> HIDE DEF Eq
  <2> QED BY <1>3
<1> HIDE DEF g
<1>5. ApplyRun(g, p, s, impacted, N)
  <2>1. g = [k \in 0..N |-> IF k = 0 THEN p ELSE ApplyAt(g[k - 1], s, impacted, s.order[k])]
    BY <1>4
  <2>2. DOMAIN g = 0..N
    BY <2>1
  <2>3. \A k \in 0..N : g[k] = IF k = 0 THEN p ELSE ApplyAt(g[k - 1], s, impacted, s.order[k])
    BY <2>1
  <2> QED BY <1>0, <2>2, <2>3 DEF ApplyRun
<1> QED
  BY <1>1, <1>5 DEF g, N

(* `order` lists the ids of a store, once each.                            *)
LEMMA OrderLists ==
  ASSUME NEW s, Inv(s)
  PROVE  /\ Len(s.order) \in Nat /\ s.order \in Seq(QsoId)
         /\ \A i \in 1..Len(s.order) : s.order[i] \in DOMAIN s.records
         /\ \A i, j \in 1..Len(s.order) : s.order[i] = s.order[j] => i = j
         /\ \A id \in DOMAIN s.records : \E i \in 1..Len(s.order) : s.order[i] = id
<1>1. s.order \in Seq(QsoId) /\ OrderOK(s.records, s.order, s.pos, s.next_qso_id)
  BY DEF Inv, CoreOf, CoreOK
<1>2. DOMAIN s.order = 1..Len(s.order) /\ Len(s.order) \in Nat
  BY <1>1
<1>3. \A i \in 1..Len(s.order) : s.order[i] \in DOMAIN s.records /\ s.pos[s.order[i]] = i
  BY <1>1, <1>2 DEF OrderOK
<1>4. \A id \in DOMAIN s.records : s.pos[id] \in 1..Len(s.order) /\ s.order[s.pos[id]] = id
  BY <1>1, <1>2 DEF OrderOK
<1> QED BY <1>1, <1>2, <1>3, <1>4

(* After the retracting pass no impacted QSO is known, and the others are. *)
LEMMA RetractImpactedOK ==
  ASSUME NEW s, Inv(s), NEW p, ProjOK(p, DOMAIN s.records), NEW impacted, NEW changed, NEW old
  PROVE  LET q == RetractImpacted(p, s, impacted, changed, old)
         IN  /\ ProjOK(q, DOMAIN s.records)
             /\ DOMAIN q.applied \subseteq DOMAIN p.applied \ impacted
<1> DEFINE N == Len(s.order)
           D == DOMAIN s.records
           At(i, u) == /\ ProjOK(u, D) /\ DOMAIN u.applied \subseteq DOMAIN p.applied
                       /\ \A j \in 1..i : s.order[j] \in impacted => s.order[j] \notin DOMAIN u.applied
<1>1. N \in Nat /\ \A id \in D : \E i \in 1..N : s.order[i] = id
  BY OrderLists
<1>2. PICK g : RetractRun(g, p, s, impacted, changed, old, N)
               /\ RetractImpacted(p, s, impacted, changed, old) = g[N]
  BY <1>1, RetractImpactedRun
<1> DEFINE Bad == {i \in 0..N : ~At(i, g[i])}
<1>3. ASSUME Bad # {} PROVE FALSE
  <2>1. PICK i \in Bad : \A j \in Bad : i <= j
    <3>1. Bad \in SUBSET Nat
      OBVIOUS
    <3> HIDE DEF Bad
    <3> QED BY <1>3, <3>1, LeastNatural
  <2>2. i # 0
    <3>1. g[0] = p
      BY <1>2 DEF RetractRun
    <3>2. At(0, p)
      OBVIOUS
    <3> QED BY <2>1, <3>1, <3>2
  <2>3. i \in 1..N /\ i - 1 \in 0..N /\ i - 1 \notin Bad
    BY <1>1, <2>1, <2>2
  <2> DEFINE u == g[i - 1]
             id == s.order[i]
             v == RetractAt(u, s, impacted, changed, old, id)
  <2>4. At(i - 1, u)
    BY <2>3
  <2>5. g[i] = v
    BY <1>2, <2>3 DEF RetractRun
  <2> HIDE DEF u, id
  <2>6. /\ ProjOK(v, D) /\ DOMAIN v.applied \subseteq DOMAIN u.applied
        /\ id \in impacted => id \notin DOMAIN v.applied
    <3>1. CASE id \in impacted \cap DOMAIN u.applied
      <4>1. v = RetractOne(s, changed, old, u, id)
        BY <3>1 DEF RetractAt
      <4> HIDE DEF v
      <4> QED BY <2>4, <3>1, <4>1, RetractOneOK
    <3>2. CASE id \notin impacted \cap DOMAIN u.applied
      <4>1. v = u
        BY <3>2 DEF RetractAt
      <4> HIDE DEF v
      <4> QED BY <2>4, <3>2, <4>1
    <3> QED BY <3>1, <3>2
  <2> HIDE DEF v
  <2>7. \A j \in 1..i : j \in 1..(i - 1) \/ j = i
    BY <1>1, <2>3
  <2>8. \A j \in 1..i : s.order[j] \in impacted => s.order[j] \notin DOMAIN v.applied
    BY <2>4, <2>6, <2>7 DEF id
  <2>9. At(i, v)
    BY <2>4, <2>6, <2>8
  <2> QED BY <2>1, <2>5, <2>9
<1>4. N \in 0..N
  BY <1>1
<1>5. At(N, g[N])
  BY <1>3, <1>4
<1>6. ASSUME NEW id \in DOMAIN g[N].applied PROVE id \in DOMAIN p.applied \ impacted
  <2>1. id \in DOMAIN p.applied /\ id \in D
    BY <1>5, <1>6 DEF ProjOK
  <2>2. PICK i \in 1..N : s.order[i] = id
    BY <1>1, <2>1
  <2> QED BY <1>5, <1>6, <2>1, <2>2
<1> QED BY <1>2, <1>5, <1>6

(* The applying pass adds impacted QSOs of the store only.                 *)
LEMMA ApplyImpactedOK ==
  ASSUME NEW s, Inv(s), NEW p, ProjOK(p, DOMAIN s.records), NEW impacted,
         DOMAIN p.applied \cap impacted = {}
  PROVE  LET q == ApplyImpacted(p, s, impacted)
         IN  /\ ProjOK(q, DOMAIN s.records)
             /\ DOMAIN q.applied \subseteq DOMAIN p.applied \cup impacted
<1> DEFINE N == Len(s.order)
           D == DOMAIN s.records
           Past(i) == {s.order[j] : j \in 1..i}
           At(i, u) == /\ ProjOK(u, D)
                       /\ DOMAIN u.applied \subseteq DOMAIN p.applied \cup (Past(i) \cap impacted)
<1>1. /\ N \in Nat /\ \A i \in 1..N : s.order[i] \in D
      /\ \A i, j \in 1..N : s.order[i] = s.order[j] => i = j
  BY OrderLists
<1>2. PICK g : ApplyRun(g, p, s, impacted, N) /\ ApplyImpacted(p, s, impacted) = g[N]
  BY <1>1, ApplyImpactedRun
<1> DEFINE Bad == {i \in 0..N : ~At(i, g[i])}
<1>3. ASSUME Bad # {} PROVE FALSE
  <2>1. PICK i \in Bad : \A j \in Bad : i <= j
    <3>1. Bad \in SUBSET Nat
      OBVIOUS
    <3> HIDE DEF Bad
    <3> QED BY <1>3, <3>1, LeastNatural
  <2>2. i # 0
    <3>1. g[0] = p
      BY <1>2 DEF ApplyRun
    <3>2. At(0, p)
      OBVIOUS
    <3> QED BY <2>1, <3>1, <3>2
  <2>3. i \in 1..N /\ i - 1 \in 0..N /\ i - 1 \notin Bad
    BY <1>1, <2>1, <2>2
  <2> DEFINE u == g[i - 1]
             id == s.order[i]
             v == ApplyAt(u, s, impacted, id)
  <2>4. At(i - 1, u)
    BY <2>3
  <2>5. g[i] = v
    BY <1>2, <2>3 DEF ApplyRun
  <2>6. Past(i - 1) \subseteq Past(i) /\ id \in Past(i) /\ id \in D
    <3>1. \A j \in 1..(i - 1) : j \in 1..i
      BY <1>1, <2>3
    <3>2. i \in 1..i
      BY <1>1, <2>3
    <3> QED BY <1>1, <2>3, <3>1, <3>2
  <2>7. id \notin Past(i - 1)
    <3>1. \A j \in 1..(i - 1) : j \in 1..N /\ j # i
      BY <1>1, <2>3
    <3> QED BY <1>1, <2>3, <3>1
  <2> HIDE DEF u, id, Past
  <2>8. At(i, v)
    <3>1. CASE id \in impacted /\ ~s.records[id]["is_void"]
      <4>1. v = ApplyOne(s, u, id)
        BY <3>1 DEF ApplyAt
      <4>2. id \notin DOMAIN u.applied
        BY <2>4, <2>7, <3>1
      <4> HIDE DEF v
      <4>3. ProjOK(v, D) /\ DOMAIN v.applied = DOMAIN u.applied \cup {id}
        BY <2>4, <2>6, <4>1, <4>2, ApplyOneOK
      <4> QED BY <2>4, <2>6, <3>1, <4>3
    <3>2. CASE ~(id \in impacted /\ ~s.records[id]["is_void"])
      <4>1. v = u
        BY <3>2 DEF ApplyAt
      <4> HIDE DEF v
      <4> QED BY <2>4, <2>6, <4>1
    <3> QED BY <3>1, <3>2
  <2> HIDE DEF v
  <2> QED BY <2>1, <2>5, <2>8
<1>4. N \in 0..N
  BY <1>1
<1>5. At(N, g[N])
  BY <1>3, <1>4
<1> QED BY <1>2, <1>5

------------------------------------------------------------------------------
(* The turns of incremental_reconcile                                      *)

FirstTurn(p, changed) == [proj |-> p, impacted |-> FirstImpacted(p, changed), done |-> FALSE]

(* g lists where the loop is after each of its first n turns.              *)
TurnRun(g, p, s, changed, old, n) ==
  /\ DOMAIN g = 0..n
  /\ g[0] = FirstTurn(p, changed)
  /\ \A i \in 1..n : g[i] = Round(s, changed, old, g[i - 1], i)

LEMMA TurnRunExists ==
  ASSUME NEW p, NEW s, NEW changed, NEW old, NEW N \in Nat
  PROVE  \E g : TurnRun(g, p, s, changed, old, N)
<1> DEFINE Bad == {n \in Nat : ~ \E g : TurnRun(g, p, s, changed, old, n)}
<1> SUFFICES ASSUME Bad # {} PROVE FALSE
  OBVIOUS
<1>1. PICK n \in Bad : \A k \in Bad : n <= k
  <2>1. Bad \in SUBSET Nat
    OBVIOUS
  <2> HIDE DEF Bad
  <2> QED BY <2>1, LeastNatural
<1>2. CASE n = 0
  <2>1. TurnRun([i \in 0..0 |-> FirstTurn(p, changed)], p, s, changed, old, 0)
    BY DEF TurnRun
  <2> QED BY <1>2, <2>1
<1>3. CASE n # 0
  <2>1. n - 1 \in Nat /\ n - 1 \notin Bad
    BY <1>1, <1>3
  <2>2. PICK g : TurnRun(g, p, s, changed, old, n - 1)
    BY <2>1
  <2> DEFINE h == [i \in 0..n |-> IF i < n THEN g[i] ELSE Round(s, changed, old, g[n - 1], n)]
  <2>3. DOMAIN h = 0..n /\ h[0] = FirstTurn(p, changed)
    BY <1>1, <1>3, <2>2 DEF TurnRun
  <2>4. \A i \in 1..n : h[i] = Round(s, changed, old, h[i - 1], i)
    <3> TAKE i \in 1..n
    <3>1. i \in 0..n /\ i - 1 \in 0..n /\ i - 1 < n
      BY <1>1
    <3>2. h[i - 1] = g[i - 1]
      BY <3>1
    <3>3. CASE i < n
      <4>1. i \in 1..(n - 1)
        BY <1>1, <3>3
      <4>2. g[i] = Round(s, changed, old, g[i - 1], i)
        BY <2>2, <4>1 DEF TurnRun
      <4> QED BY <3>1, <3>2, <3>3, <4>2
    <3>4. CASE i = n
      BY <3>1, <3>2, <3>4
    <3> QED BY <1>1, <3>3, <3>4
  <2> HIDE DEF h
  <2>5. TurnRun(h, p, s, changed, old, n)
    BY <2>3, <2>4 DEF TurnRun
  <2> QED BY <1>1, <2>5
<1> QED
  BY <1>2, <1>3

LEMMA IncrementalReconcileRun ==
  ASSUME NEW p, NEW s, NEW changed, NEW old, Len(s.order) \in Nat
  PROVE  LET N == Len(s.order) + 1
         IN  \E g : TurnRun(g, p, s, changed, old, N) /\ IncrementalReconcile(p, s, changed, old) = g[N]
<1> DEFINE N == Len(s.order) + 1
           Eq(g) == g = [k \in 0..N |-> IF k = 0 THEN FirstTurn(p, changed) ELSE Round(s, changed, old, g[k - 1], k)]
<1>0. N \in Nat
  OBVIOUS
<1>1. IncrementalReconcile(p, s, changed, old) = (CHOOSE g : Eq(g))[N]
  BY DEF IncrementalReconcile, FirstTurn
<1> HIDE DEF N
<1>2. PICK h : TurnRun(h, p, s, changed, old, N)
  BY <1>0, TurnRunExists
<1>3. \E g : Eq(g)
  <2> DEFINE f == [k \in 0..N |-> h[k]]
  <2>1. ASSUME NEW k \in 0..N
        PROVE  f[k] = IF k = 0 THEN FirstTurn(p, changed) ELSE Round(s, changed, old, f[k - 1], k)
    <3>1. CASE k = 0
      BY <3>1, <1>2 DEF TurnRun
    <3>2. CASE k # 0
      <4>1. k \in 1..N /\ k - 1 \in 0..N
        BY <1>0, <3>2
      <4>2. h[k] = Round(s, changed, old, h[k - 1], k)
        BY <1>2, <4>1 DEF TurnRun
      <4> QED BY <3>2, <4>1, <4>2
    <3> QED BY <3>1, <3>2
  <2>2. f = [k \in 0..N |-> IF k = 0 THEN FirstTurn(p, changed) ELSE Round(s, changed, old, f[k - 1], k)]
    <3>1. DOMAIN f = 0..N /\ f = [k \in 0..N |-> f[k]]
      OBVIOUS
    <3> HIDE DEF f
    <3> QED BY <2>1, <3>1
  <2>3. Eq(f)
    BY <2>2
  <2> HIDE DEF f, Eq
  <2> QED BY <2>3
<1> DEFINE g == CHOOSE k : Eq(k)
<1>4. Eq(g)
  <2> HIDE DEF Eq
  <2> QED BY <1>3
<1> HIDE DEF g
<1>5. TurnRun(g, p, s, changed, old, N)
  <2>1. g = [k \in 0..N |-> IF k = 0 THEN FirstTurn(p, changed) ELSE Round(s, changed, old, g[k - 1], k)]
    BY <1>4
  <2>2. DOMAIN g = 0..N
    BY <2>1
  <2>3. \A k \in 0..N : g[k] = IF k = 0 THEN FirstTurn(p, changed) ELSE Round(s, changed, old, g[k - 1], k)
    BY <2>1
  <2> QED BY <1>0, <2>2, <2>3 DEF TurnRun
<1> QED
  BY <1>1, <1>5 DEF g, N

(* The loop has not lost track, as seen from the projector p it began with.*)
TurnOK(r, p, s, changed) ==
  /\ ProjOK(r.proj, DOMAIN s.records)
  /\ changed \in r.impacted /\ r.impacted \subseteq DOMAIN s.records \cup {changed}
  /\ DOMAIN r.proj.applied \subseteq DOMAIN p.applied \cup r.impacted

LEMMA DependentsKnown ==
  ASSUME NEW p, NEW D, ProjOK(p, D), NEW keys
  PROVE  DependentsOf(p, keys) \subseteq DOMAIN p.applied
  BY DEF DependentsOf, ProjOK

(* A turn that is not the last one impacts a QSO more.                     *)
LEMMA RoundOK ==
  ASSUME NEW s, Inv(s), NEW p, NEW changed, NEW old, NEW n, NEW r, TurnOK(r, p, s, changed)
  PROVE  LET t == Round(s, changed, old, r, n)
         IN  /\ TurnOK(t, p, s, changed)
             /\ ~t.done => ~r.done /\ r.impacted \subseteq t.impacted
                                   /\ \E id \in t.impacted : id \notin r.impacted
<1> DEFINE t == Round(s, changed, old, r, n)
           D == DOMAIN s.records
           turnOld == IF n = 1 THEN old ELSE {}
           a == RetractImpacted(r.proj, s, r.impacted, changed, turnOld)
           b == ApplyImpacted(a, s, r.impacted)
           keys == UNION {KeysChanged(r.proj.applied, b.applied, id) : id \in r.impacted}
           more == DependentsOf(b, keys) \ r.impacted
<1>1. CASE r.done
  <2>1. t = r
    BY <1>1 DEF Round
  <2> HIDE DEF t
  <2> QED BY <1>1, <2>1 DEF t
<1>2. CASE ~r.done
  <2>1. t = [proj |-> b, impacted |-> r.impacted \cup more, done |-> more = {}]
    BY <1>2 DEF Round
  <2> HIDE DEF turnOld, keys
  <2>2. ProjOK(a, D) /\ DOMAIN a.applied \subseteq DOMAIN r.proj.applied \ r.impacted
    BY RetractImpactedOK DEF TurnOK
  <2> HIDE DEF a
  <2>3. ProjOK(b, D) /\ DOMAIN b.applied \subseteq DOMAIN a.applied \cup r.impacted
    BY <2>2, ApplyImpactedOK
  <2> HIDE DEF b
  <2>4. more \subseteq DOMAIN b.applied /\ more \subseteq D
    BY <2>3, DependentsKnown DEF ProjOK
  <2> DEFINE I == r.impacted \cup more
             e == (more = {})
  <2>5. t.proj = b /\ t.impacted = I /\ t.done = e
    BY <2>1
  <2>6. \A id \in more : id \in I /\ id \notin r.impacted
    OBVIOUS
  <2> HIDE DEF t, more
  <2>7. TurnOK(t, p, s, changed)
    BY <2>2, <2>3, <2>4, <2>5 DEF TurnOK
  <2>8. ~t.done => \E id \in t.impacted : id \notin r.impacted
    BY <2>5, <2>6
  <2> QED BY <1>2, <2>5, <2>7, <2>8 DEF t
<1> QED BY <1>1, <1>2

LEMMA FirstTurnOK ==
  ASSUME NEW s, Inv(s), NEW p, ProjOK(p, DOMAIN s.records), NEW changed
  PROVE  TurnOK(FirstTurn(p, changed), p, s, changed) /\ ~FirstTurn(p, changed).done
<1> DEFINE f == FirstTurn(p, changed)
<1>1. f.proj = p /\ f.impacted = FirstImpacted(p, changed) /\ ~f.done
  BY DEF FirstTurn
<1>2. /\ FirstImpacted(p, changed) \subseteq {changed} \cup DOMAIN p.applied
      /\ changed \in FirstImpacted(p, changed)
  BY DependentsKnown DEF FirstImpacted
<1>3. FirstImpacted(p, changed) \subseteq {changed} \cup DOMAIN s.records
  BY <1>2 DEF ProjOK
<1> HIDE DEF f
<1> QED BY <1>1, <1>2, <1>3 DEF TurnOK, f

(* A store holds as many QSOs as `order` lists.                            *)
LEMMA FinitelyMany ==
  ASSUME NEW s, Inv(s), NEW changed
  PROVE  LET U == DOMAIN s.records \cup {changed}
         IN  IsFiniteSet(U) /\ Cardinality(U) <= Len(s.order) + 1
<1> DEFINE N == Len(s.order)
           D == DOMAIN s.records
<1>1. /\ N \in Nat /\ s.order \in Seq(QsoId) /\ \A i \in 1..N : s.order[i] \in D
      /\ \A id \in D : \E i \in 1..N : s.order[i] = id
  BY OrderLists
<1> HIDE DEF D, N
<1> DEFINE f == [i \in 1..N |-> s.order[i]]
<1>2. f \in [1..N -> D] /\ \A id \in D : \E i \in 1..N : f[i] = id
  BY <1>1
<1> HIDE DEF f
<1>3. f \in Surjection(1..N, D)
  BY <1>2 DEF Surjection
<1>4. IsFiniteSet(1..N) /\ Cardinality(1..N) = N
  <2>1. 1 \in Int /\ N \in Int
    BY <1>1
  <2>2. IsFiniteSet(1..N) /\ Cardinality(1..N) = IF 1 > N THEN 0 ELSE N - 1 + 1
    BY <2>1, FS_Interval
  <2>3. (IF 1 > N THEN 0 ELSE N - 1 + 1) = N
    BY <1>1
  <2> QED BY <2>2, <2>3
<1>5. IsFiniteSet(D) /\ Cardinality(D) <= N
  BY <1>3, <1>4, FS_Surjection
<1>6. Cardinality(D) \in Nat
  BY <1>5, FS_CardinalityType
<1>7. IsFiniteSet(D \cup {changed}) /\ Cardinality(D \cup {changed}) <= N + 1
  <2>1. /\ IsFiniteSet(D \cup {changed})
        /\ \/ Cardinality(D \cup {changed}) = Cardinality(D)
           \/ Cardinality(D \cup {changed}) = Cardinality(D) + 1
    BY <1>5, FS_AddElement
  <2> QED BY <1>1, <1>5, <1>6, <2>1
<1> QED BY <1>7 DEF D, N

(* The loop of incremental_reconcile ends, within as many turns as the     *)
(* store has QSOs, and one; so the bound of IncrementalReconcile cuts      *)
(* nothing off.  It leaves only QSOs of the store in the projector, those  *)
(* it knew and those that it impacted, and links to these only.            *)
THEOREM ReconcileEnds ==
  ASSUME NEW s, Inv(s), NEW p, ProjOK(p, DOMAIN s.records), NEW changed, NEW old
  PROVE  LET r == IncrementalReconcile(p, s, changed, old)
         IN  r.done /\ TurnOK(r, p, s, changed)
<1> DEFINE N == Len(s.order) + 1
           U == DOMAIN s.records \cup {changed}
           At(n, r) == /\ TurnOK(r, p, s, changed)
                       /\ r.done \/ Cardinality(r.impacted) >= n + 1
<1>1. N \in Nat
  BY OrderLists
<1>2. PICK g : TurnRun(g, p, s, changed, old, N) /\ IncrementalReconcile(p, s, changed, old) = g[N]
  BY OrderLists, IncrementalReconcileRun
<1>3. IsFiniteSet(U) /\ Cardinality(U) <= N
  BY FinitelyMany
<1> HIDE DEF N
<1>a. \A r : TurnOK(r, p, s, changed) =>
        IsFiniteSet(r.impacted) /\ Cardinality(r.impacted) \in Nat /\ Cardinality(r.impacted) <= N
  <2> SUFFICES ASSUME NEW r, TurnOK(r, p, s, changed)
               PROVE  IsFiniteSet(r.impacted) /\ Cardinality(r.impacted) \in Nat
                      /\ Cardinality(r.impacted) <= N
    OBVIOUS
  <2>1. r.impacted \in SUBSET U
    BY DEF TurnOK
  <2> HIDE DEF U
  <2>2. IsFiniteSet(r.impacted) /\ Cardinality(r.impacted) <= Cardinality(U)
    BY <1>3, <2>1, FS_Subset
  <2>3. Cardinality(r.impacted) \in Nat /\ Cardinality(U) \in Nat
    BY <1>3, <2>2, FS_CardinalityType
  <2> QED BY <1>1, <1>3, <2>2, <2>3
<1> HIDE DEF U
<1> DEFINE Bad == {n \in 0..N : ~At(n, g[n])}
<1>4. ASSUME Bad # {} PROVE FALSE
  <2>1. PICK n \in Bad : \A j \in Bad : n <= j
    <3>1. Bad \in SUBSET Nat
      OBVIOUS
    <3> HIDE DEF Bad
    <3> QED BY <1>4, <3>1, LeastNatural
  <2>2. n # 0
    <3> DEFINE f == FirstTurn(p, changed)
    <3>1. g[0] = f
      BY <1>2 DEF TurnRun
    <3>2. TurnOK(f, p, s, changed)
      BY FirstTurnOK
    <3> HIDE DEF f
    <3>3. f.impacted # {} /\ IsFiniteSet(f.impacted) /\ Cardinality(f.impacted) \in Nat
      BY <1>a, <3>2 DEF TurnOK
    <3>4. Cardinality(f.impacted) # 0
      BY <3>3, FS_EmptySet
    <3>5. Cardinality(f.impacted) >= 0 + 1
      BY <3>3, <3>4
    <3> QED BY <2>1, <3>1, <3>2, <3>5
  <2>3. n \in 1..N /\ n - 1 \in 0..N /\ n - 1 \notin Bad
    BY <1>1, <2>1, <2>2
  <2> DEFINE r == g[n - 1]
             t == Round(s, changed, old, r, n)
  <2>4. At(n - 1, r)
    BY <2>3
  <2>5. g[n] = t
    BY <1>2, <2>3 DEF TurnRun
  <2> HIDE DEF r
  <2>6. /\ TurnOK(t, p, s, changed)
        /\ ~t.done => ~r.done /\ r.impacted \subseteq t.impacted
                              /\ \E id \in t.impacted : id \notin r.impacted
    BY <2>4, RoundOK
  <2> HIDE DEF t
  <2>7. ASSUME ~t.done PROVE Cardinality(t.impacted) >= n + 1
    <3>1. PICK id \in t.impacted : id \notin r.impacted
      BY <2>6, <2>7
    <3>2. r.impacted \cup {id} \in SUBSET t.impacted
      BY <2>6, <2>7, <3>1
    <3>3. /\ IsFiniteSet(r.impacted) /\ Cardinality(r.impacted) \in Nat
          /\ IsFiniteSet(t.impacted) /\ Cardinality(t.impacted) \in Nat
      BY <1>a, <2>4, <2>6
    <3>4. Cardinality(r.impacted \cup {id}) = Cardinality(r.impacted) + 1
      BY <3>1, <3>3, FS_AddElement
    <3>5. Cardinality(r.impacted \cup {id}) <= Cardinality(t.impacted)
      BY <3>2, <3>3, FS_Subset
    <3>6. Cardinality(r.impacted) >= (n - 1) + 1
      BY <2>4, <2>6, <2>7
    <3> QED BY <2>3, <3>3, <3>4, <3>5, <3>6
  <2>8. At(n, t)
    BY <2>6, <2>7
  <2> QED BY <2>1, <2>5, <2>8
<1>5. N \in 0..N
  BY <1>1
<1>6. At(N, g[N])
  BY <1>4, <1>5
<1>7. g[N].done
  <2>1. Cardinality(g[N].impacted) <= N /\ Cardinality(g[N].impacted) \in Nat
    BY <1>6, <1>a
  <2>2. ~(Cardinality(g[N].impacted) >= N + 1)
    BY <1>1, <2>1
  <2> QED BY <1>6, <2>2
<1> QED BY <1>2, <1>6, <1>7

------------------------------------------------------------------------------
(* The projector next to its store                                         *)

LEMMA ProjectorMutations == Mutations \subseteq Mutation
  BY ProjectorInputsAssumption DEF Mutations, Mutation, Ids, QsoId

(* A mutation never takes a record away, and buffers an operation that     *)
(* names a record it leaves.                                               *)
LEMMA MutateGrows ==
  ASSUME NEW s, Inv(s), NEW m \in Mutation, Succeeds(s, m)
  PROVE  LET t == Mutate(s, m)
         IN  /\ Inv(t) /\ DOMAIN s.records \subseteq DOMAIN t.records
             /\ t.pending_ops = Append(s.pending_ops, StoredFor(s, m))
             /\ Projectable(t, StoredFor(s, m).op)
<1> DEFINE t == Mutate(s, m)
           op == OpFor(s, m)
           e == StoredFor(s, m)
<1>1. Inv(t) /\ DOMAIN s = StoreFields
  BY AnyMutation, InvNames
<1>2. t.pending_ops = Append(s.pending_ops, e)
  BY <1>1, MutateVisible
<1>3. SameEffect(op, e.op)
  BY EmittedEffect
<1>4. CASE m.cmd = "insert"
  <2>1. PICK d \in QsoRecord : m = InsertCmd(d)
    BY <1>4 DEF Mutation, PatchCmd, VoidCmd, UndoCmd, RedoCmd
  <2>2. t.records = MapInsert(s.records, s.next_qso_id, d)
    BY <2>1, InsertFields
  <2>3. op.type = "Insert"
    BY <2>1 DEF OpFor, InsertCmd, InsertOp
  <2> HIDE DEF t, op, e
  <2>4. DOMAIN s.records \subseteq DOMAIN t.records
    BY <2>2 DEF MapInsert
  <2> QED BY <1>1, <1>2, <1>3, <2>3, <2>4 DEF SameEffect, Projectable, t, op, e
<1>5. CASE m.cmd # "insert"
  <2>1. DOMAIN t.records = DOMAIN s.records /\ op.id \in DOMAIN s.records
    BY <1>5, MutateInv, MutationOp
  <2> HIDE DEF t, op, e
  <2> QED BY <1>1, <1>2, <1>3, <2>1 DEF SameEffect, Projectable, t, op, e
<1> QED BY <1>4, <1>5

LEMMA TakeOff ==
  ASSUME NEW s, Inv(s), NEW t, t = [s EXCEPT !.pending_ops = Tail(@)]
  PROVE  /\ Inv(t) /\ t.records = s.records /\ t.undo = s.undo /\ t.redo = s.redo
         /\ t.pending_ops = Tail(s.pending_ops)
<1>1. /\ DOMAIN s = StoreFields /\ CoreOf(s) /\ s.next_op_seq \in OpSeq
      /\ Names(s.undo, DOMAIN s.records) /\ Names(s.redo, DOMAIN s.records)
  BY InvNames
<1>2. /\ DOMAIN t = StoreFields /\ t.records = s.records /\ t.order = s.order /\ t.pos = s.pos
      /\ t.by_call = s.by_call /\ t.by_contest = s.by_contest /\ t.undo = s.undo
      /\ t.redo = s.redo /\ t.next_op_seq = s.next_op_seq /\ t.next_qso_id = s.next_qso_id
      /\ t.pending_ops = Tail(s.pending_ops)
  BY <1>1 DEF StoreFields
<1>3. CoreOf(t)
  BY <1>1, <1>2, CoreFrame
<1> QED BY <1>1, <1>2, <1>3, InvNames

(* Inductive invariant: the store keeps its own, the projector knows only  *)
(* its QSOs, links lead only to results that it holds, and every operation *)
(* that waits names a record.                                              *)
ProjInv ==
  /\ Inv(store)
  /\ ProjOK(proj, DOMAIN store.records)
  /\ DOMAIN shown = DOMAIN proj.applied
  /\ \E S : store.pending_ops \in Seq(S)
  /\ \A i \in DOMAIN store.pending_ops : Projectable(store, store.pending_ops[i].op)

(* The QSO an operation changed is always impacted.                        *)
LEMMA ProjectStep ==
  ASSUME ProjInv, Project
  PROVE  LET op   == Head(store.pending_ops).op
             done == IncrementalReconcile(proj, store, op.id, OldRecord(store, op))
         IN  /\ TurnOK(done, proj, store, op.id) /\ proj' = done.proj
             /\ Inv(store') /\ store'.records = store.records
             /\ store'.undo = store.undo /\ store'.redo = store.redo
             /\ store'.pending_ops = Tail(store.pending_ops)
<1> DEFINE op   == Head(store.pending_ops).op
           old  == OldRecord(store, op)
           done == IncrementalReconcile(proj, store, op.id, old)
<1>1. proj' = done.proj /\ store' = [store EXCEPT !.pending_ops = Tail(@)]
  BY DEF Project
<1> HIDE DEF op, old
<1>2. TurnOK(done, proj, store, op.id)
  BY ReconcileEnds DEF ProjInv
<1> HIDE DEF done
<1>3. /\ Inv(store') /\ store'.records = store.records
      /\ store'.undo = store.undo /\ store'.redo = store.redo
      /\ store'.pending_ops = Tail(store.pending_ops)
  BY <1>1, TakeOff DEF ProjInv
<1> QED BY <1>1, <1>2, <1>3 DEF op, old, done

LEMMA ProjInvStep ==
  ASSUME ProjInv, [Next]_vars
  PROVE  ProjInv'
<1>0. PICK S : store.pending_ops \in Seq(S)
  BY DEF ProjInv
<1> DEFINE q == store.pending_ops
<1>1. CASE Project
  <2> DEFINE op   == Head(store.pending_ops).op
             old  == OldRecord(store, op)
             done == IncrementalReconcile(proj, store, op.id, old)
  <2>1. /\ TurnOK(done, proj, store, op.id) /\ proj' = done.proj
        /\ Inv(store') /\ store'.records = store.records /\ store'.pending_ops = Tail(q)
    BY <1>1, ProjectStep
  <2>2. DOMAIN shown' = DOMAIN done.proj.applied /\ q # << >>
    BY <1>1 DEF Project
  <2> HIDE DEF op, old, done
  <2>3. ProjOK(proj', DOMAIN store'.records)
    BY <2>1 DEF TurnOK
  <2>4. /\ Tail(q) \in Seq(S) /\ DOMAIN Tail(q) = 1..(Len(q) - 1)
        /\ \A i \in 1..(Len(q) - 1) : Tail(q)[i] = q[i + 1] /\ i + 1 \in DOMAIN q
    BY <1>0, <2>2
  <2>5. \A i \in DOMAIN store'.pending_ops : Projectable(store', store'.pending_ops[i].op)
    <3> TAKE i \in DOMAIN store'.pending_ops
    <3>1. store'.pending_ops[i] = q[i + 1] /\ i + 1 \in DOMAIN q
      BY <2>1, <2>4
    <3>2. Projectable(store, q[i + 1].op)
      BY <3>1 DEF ProjInv
    <3> QED BY <2>1, <3>1, <3>2 DEF Projectable
  <2> QED BY <2>1, <2>2, <2>3, <2>4, <2>5 DEF ProjInv
<1>2. ASSUME NEW m \in Mutations, MutateStore(m) PROVE ProjInv'
  <2> DEFINE e == StoredFor(store, m)
  <2>1. /\ m \in Mutation /\ Succeeds(store, m) /\ store' = Mutate(store, m)
        /\ proj' = proj /\ shown' = shown
    BY <1>2, ProjectorMutations DEF MutateStore
  <2>2. /\ Inv(store') /\ DOMAIN store.records \subseteq DOMAIN store'.records
        /\ store'.pending_ops = Append(q, e) /\ Projectable(store', e.op)
    BY <2>1, MutateGrows DEF ProjInv
  <2> HIDE DEF e
  <2> DEFINE T == S \cup {e}
  <2>3. q \in Seq(T) /\ e \in T
    BY <1>0
  <2> HIDE DEF T
  <2>4. /\ Append(q, e) \in Seq(T) /\ DOMAIN Append(q, e) = 1..(Len(q) + 1)
        /\ DOMAIN q = 1..Len(q) /\ Len(q) \in Nat
        /\ \A i \in 1..Len(q) : Append(q, e)[i] = q[i]
        /\ Append(q, e)[Len(q) + 1] = e
    BY <2>3
  <2>5. \A i \in DOMAIN store'.pending_ops : Projectable(store', store'.pending_ops[i].op)
    <3> TAKE i \in DOMAIN store'.pending_ops
    <3>1. i \in 1..Len(q) \/ i = Len(q) + 1
      BY <2>2, <2>4
    <3>2. CASE i \in 1..Len(q)
      <4>1. Projectable(store, q[i].op) /\ store'.pending_ops[i] = q[i]
        BY <2>2, <2>4, <3>2 DEF ProjInv
      <4> QED BY <2>2, <4>1 DEF Projectable
    <3>3. CASE i = Len(q) + 1
      BY <2>2, <2>4, <3>3
    <3> QED BY <3>1, <3>2, <3>3
  <2>6. ProjOK(proj', DOMAIN store'.records)
    BY <2>1, <2>2 DEF ProjInv, ProjOK
  <2> QED BY <2>1, <2>2, <2>4, <2>5, <2>6 DEF ProjInv
<1>3. CASE UNCHANGED vars
  BY <1>3 DEF vars, ProjInv
<1> QED BY <1>1, <1>2, <1>3 DEF Next

LEMMA ProjInvInit ==
  ASSUME Init
  PROVE  ProjInv
<1>1. store.pending_ops = << >> /\ Inv(store) /\ << >> \in Seq({})
  BY NewStoreInv DEF Init, NewStore
<1>2. proj.applied = EmptyMap /\ proj.dep_index = {} /\ shown = EmptyMap
  BY DEF Init, NewProjector
<1>3. ProjOK(proj, DOMAIN store.records)
  BY <1>2 DEF ProjOK, EmptyMap
<1> QED BY <1>1, <1>2, <1>3 DEF ProjInv

(* For every contest engine: the projector knows only QSOs of the store,   *)
(* every link leads to a result that it holds, and no operation that waits *)
(* fails with MissingQso, however far the store is ahead.                  *)
THEOREM ProjectorTypeCorrect == Spec => []TypeOK
<1>1. Init => ProjInv
  BY ProjInvInit
<1>2. ProjInv /\ [Next]_vars => ProjInv'
  BY ProjInvStep
<1>3. ProjInv => TypeOK
  BY DEF ProjInv, ProjOK, TypeOK
<1> QED
  BY <1>1, <1>2, <1>3, PTL DEF Spec

------------------------------------------------------------------------------
(* What a retract is given                                                 *)

(* The operation of a mutation can be taken back: a Void on a stack names  *)
(* the flag that it will find when its turn comes.                         *)
LEMMA LineOp ==
  ASSUME NEW s, Inv(s), NEW H, Line(s, H), NEW m \in Mutation, m.cmd # "insert", Succeeds(s, m)
  PROVE  Reversible(OpFor(s, m), s.records)
<1> DEFINE op == OpFor(s, m)
<1>1. /\ m.cmd \in {"patch", "void", "undo", "redo"}
      /\ op.type \in {"Patch", "Void"} /\ op.id \in DOMAIN s.records
      /\ op.type = "Patch" => op.patch \in QsoPatch
      /\ op.type = "Void" => op.prev_is_void \in BOOLEAN
  BY MutationOp
<1>2. s.undo \in Seq(StackOp) /\ s.redo \in Seq(StackOp)
  BY DEF Inv
<1>3. CASE m.cmd \in {"patch", "void"}
  <2>1. op.type = "Void" => op.prev_is_void = s.records[op.id]["is_void"]
    BY <1>3 DEF OpFor, PatchOp, VoidOp
  <2> HIDE DEF op
  <2> QED BY <1>1, <2>1 DEF Reversible, op
<1>4. CASE m.cmd = "undo"
  <2> DEFINE n == Len(s.undo)
  <2>1. s.undo # << >> /\ op = Last(s.undo)
    BY <1>4 DEF Succeeds, OpFor
  <2> HIDE DEF op
  <2>2. n \in 1..n /\ op = s.undo[n]
    BY <1>2, <2>1, Popped
  <2>3. Leads(op, H[n], H[n - 1]) /\ H[n] = s.records
    BY <2>2 DEF Line
  <2> QED BY <2>3 DEF Leads, op
<1>5. CASE m.cmd = "redo"
  <2> DEFINE n == Len(s.undo)
             k == Len(s.redo)
  <2>1. s.redo # << >> /\ op = Last(s.redo)
    BY <1>5 DEF Succeeds, OpFor
  <2> HIDE DEF op
  <2>2. k \in 1..k /\ op = s.redo[k] /\ n \in Nat
    BY <1>2, <2>1, Popped
  <2>3. Leads(op, H[n + k - k], H[n + k - k + 1]) /\ H[n] = s.records
    BY <2>2 DEF Line
  <2>4. n + k - k = n
    BY <2>2
  <2> QED BY <2>3, <2>4 DEF Leads, op
<1> QED BY <1>1, <1>3, <1>4, <1>5

(* The record that a retract is given for id right after m, the operation  *)
(* of m being the only one to project, is the one the store had before m.  *)
LEMMA OldRecordIsOld ==
  ASSUME NEW s, Inv(s), NEW H, Line(s, H), NEW m \in Mutation, Succeeds(s, m),
         NEW id \in DOMAIN s.records
  PROVE  LET t  == Mutate(s, m)
             op == StoredFor(s, m).op
         IN  RecordForRetract(t, id, op.id, OldRecord(t, op)) = s.records[id]
<1> DEFINE t  == Mutate(s, m)
           op == OpFor(s, m)
           e  == StoredFor(s, m).op
<1>0. s.records \in [DOMAIN s.records -> QsoRecord]
  BY DEF Inv, CoreOf, CoreOK
<1>1. SameEffect(op, e)
  BY EmittedEffect
<1>2. CASE m.cmd = "insert"
  <2>1. PICK d \in QsoRecord : m = InsertCmd(d)
    BY <1>2 DEF Mutation, PatchCmd, VoidCmd, UndoCmd, RedoCmd
  <2>2. t.records = MapInsert(s.records, s.next_qso_id, d)
    BY <2>1, InsertFields
  <2>3. op.type = "Insert"
    BY <2>1 DEF OpFor, InsertCmd, InsertOp
  <2>4. id # s.next_qso_id
    <3>1. id \in QsoId /\ id < s.next_qso_id
      BY DEF Inv, CoreOf, CoreOK, OrderOK
    <3> QED BY <3>1 DEF QsoId
  <2> HIDE DEF t, op, e
  <2>5. OldRecord(t, e) = {} /\ t.records[id] = s.records[id]
    BY <1>1, <2>2, <2>3, <2>4 DEF SameEffect, OldRecord, MapInsert
  <2> QED BY <2>5 DEF RecordForRetract, t, e
<1>3. CASE m.cmd # "insert"
  <2> DEFINE rec == s.records[op.id]
  <2>1. t.records = Effect(op, s.records) /\ Reversible(op, s.records)
    BY <1>3, MutateEffect, LineOp
  <2>2. e = Emitted(s, op)
    BY DEF StoredFor, StoredOp
  <2> HIDE DEF t, op, e
  <2>3. rec \in QsoRecord /\ op.id \in DOMAIN s.records /\ e.type = op.type /\ e.id = op.id
    BY <1>0, <1>1, <2>1 DEF Reversible, SameEffect
  <2>4. CASE id # op.id
    <3>1. t.records[id] = s.records[id]
      BY <2>1, <2>4 DEF Effect
    <3> QED BY <2>3, <2>4, <3>1 DEF RecordForRetract, t, e
  <2>5. CASE id = op.id /\ op.type = "Patch"
    <3>1. e.prev = CaptureInverseFor(op.patch, rec) /\ op.patch \in QsoPatch
      BY <2>1, <2>2, <2>5 DEF Emitted, PatchOp, Reversible
    <3>2. t.records[id] = ApplyTo(op.patch, rec)
      BY <2>1, <2>3, <2>5 DEF Effect
    <3>3. ApplyTo(e.prev, t.records[id]) = rec
      BY <2>3, <3>1, <3>2, InverseRestores
    <3>4. OldRecord(t, e) = {rec}
      BY <2>3, <2>5, <3>3 DEF OldRecord
    <3> QED BY <2>3, <2>5, <3>4 DEF RecordForRetract, t, e
  <2>6. CASE id = op.id /\ op.type = "Void"
    <3> DEFINE v   == op.prev_is_void
               new == [rec EXCEPT !["is_void"] = ~v]
    <3>1. e.prev_is_void = v /\ rec["is_void"] = v
      BY <1>1, <2>1, <2>6 DEF SameEffect, Reversible
    <3>2. t.records[id] = new
      BY <2>1, <2>3, <2>6 DEF Effect
    <3>3. rec \in [Field -> AnyValue] /\ "is_void" \in Field
      BY <2>3 DEF QsoRecord, Field
    <3>4. [new EXCEPT !["is_void"] = v] = rec
      BY <3>1, <3>3
    <3> HIDE DEF new, v
    <3>5. OldRecord(t, e) = {rec}
      BY <2>3, <2>6, <3>1, <3>2, <3>4 DEF OldRecord
    <3> QED BY <2>3, <2>6, <3>5 DEF RecordForRetract, t, e
  <2> QED BY <2>1, <2>4, <2>5, <2>6 DEF Reversible
<1> QED BY <1>2, <1>3

(* The record a retract of id would be given if the next operation were    *)
(* projected now.                                                          *)
Given(id) ==
  IF store.pending_ops = << >> THEN store.records[id]
  ELSE LET op == Head(store.pending_ops).op
       IN  RecordForRetract(store, id, op.id, OldRecord(store, op))

(* Inductive invariant of a projector that never lags: what it would be    *)
(* given is what each result was made from.                                *)
FaithInv ==
  /\ ProjInv
  /\ \E H : Line(store, H)
  /\ misled \in BOOLEAN /\ lagged \in BOOLEAN
  /\ ~lagged => ~misled
  /\ ~lagged /\ Len(store.pending_ops) <= 1 =>
       \A id \in DOMAIN proj.applied : shown[id] = Given(id)

LEMMA FaithProject ==
  ASSUME FaithInv, ProjInv', Project
  PROVE  FaithInv'
<1> DEFINE q    == store.pending_ops
           op   == Head(q).op
           old  == OldRecord(store, op)
           done == IncrementalReconcile(proj, store, op.id, old)
           Fooled == \E id \in DOMAIN proj.applied \cap done.impacted :
                       shown[id] # RecordForRetract(store, id, op.id, old)
<1>0. PICK S : q \in Seq(S)
  BY DEF FaithInv, ProjInv
<1>1. /\ TurnOK(done, proj, store, op.id) /\ proj' = done.proj
      /\ store'.records = store.records /\ store'.undo = store.undo /\ store'.redo = store.redo
      /\ store'.pending_ops = Tail(q)
  BY ProjectStep DEF FaithInv
<1>2. /\ q # << >>
      /\ shown' = [id \in DOMAIN done.proj.applied |->
                     IF id \in done.impacted THEN store.records[id] ELSE shown[id]]
      /\ misled' = (misled \/ Fooled)
      /\ lagged' = (lagged \/ Len(q) > 1)
  BY DEF Project
<1>3. \E H : Line(store', H)
  BY <1>1, LineKept DEF FaithInv
<1>4. \A id : Given(id) = RecordForRetract(store, id, op.id, old)
  BY <1>2 DEF Given
<1> HIDE DEF op, old, done, q
<1>5. misled' \in BOOLEAN /\ lagged' \in BOOLEAN
  BY <1>2 DEF FaithInv
<1>6. CASE lagged \/ Len(q) > 1
  <2>1. lagged'
    BY <1>2, <1>6
  <2> QED BY <1>3, <1>5, <2>1 DEF FaithInv
<1>7. CASE ~(lagged \/ Len(q) > 1)
  <2>1. Len(q) \in Nat /\ Len(q) <= 1 /\ Len(q) = 1 /\ ~lagged
    <3>1. q # << >> /\ ~lagged /\ ~(Len(q) > 1)
      BY <1>2, <1>7
    <3>2. Len(q) \in Nat /\ Len(q) # 0
      BY <1>0, <3>1
    <3>3. Len(q) = 1
      BY <3>1, <3>2
    <3> QED BY <3>1, <3>2, <3>3
  <2>2. \A id \in DOMAIN proj.applied : shown[id] = RecordForRetract(store, id, op.id, old)
    BY <1>4, <2>1 DEF FaithInv, q
  <2>3. ~Fooled /\ ~misled
    BY <2>1, <2>2 DEF FaithInv
  <2>4. ~misled' /\ ~lagged'
    <3> HIDE DEF Fooled
    <3> QED BY <1>2, <1>7, <2>3
  <2>5. store'.pending_ops = << >>
    <3>1. Tail(q) \in Seq(S) /\ Len(Tail(q)) = 0
      BY <1>0, <1>2, <2>1
    <3> QED BY <1>1, <3>1
  <2>6. ASSUME NEW id \in DOMAIN proj'.applied PROVE shown'[id] = store'.records[id]
    <3>1. shown'[id] = IF id \in done.impacted THEN store.records[id] ELSE shown[id]
      BY <1>1, <1>2, <2>6
    <3>2. CASE id \in done.impacted
      BY <1>1, <3>1, <3>2
    <3>3. CASE id \notin done.impacted
      <4>1. id \in DOMAIN proj.applied /\ id # op.id
        BY <1>1, <2>6, <3>3 DEF TurnOK
      <4>2. shown[id] = store.records[id]
        BY <2>2, <4>1 DEF RecordForRetract
      <4> QED BY <1>1, <3>1, <3>3, <4>2
    <3> QED BY <3>2, <3>3
  <2>7. \A id \in DOMAIN proj'.applied : shown'[id] = Given(id)'
    BY <2>5, <2>6 DEF Given
  <2> QED BY <1>3, <1>5, <2>4, <2>7 DEF FaithInv
<1> QED BY <1>6, <1>7

LEMMA FaithMutate ==
  ASSUME \A d \in Drafts : d["is_void"] = FALSE,
         FaithInv, ProjInv', NEW m \in Mutations, MutateStore(m)
  PROVE  FaithInv'
<1> DEFINE q == store.pending_ops
           e == StoredFor(store, m)
<1>0. PICK S : q \in Seq(S)
  BY DEF FaithInv, ProjInv
<1>1. /\ m \in Mutation /\ Succeeds(store, m) /\ store' = Mutate(store, m) /\ Inv(store)
      /\ proj' = proj /\ shown' = shown /\ misled' = misled /\ lagged' = lagged
  BY ProjectorMutations DEF MutateStore, FaithInv, ProjInv
<1>2. PICK H : Line(store, H)
  BY DEF FaithInv
<1>3. \E G : Line(store', G)
  <2>1. CASE m.cmd = "insert"
    <3>1. PICK d \in Drafts : m = InsertCmd(d)
      BY <2>1 DEF Mutations, PatchCmd, VoidCmd, UndoCmd, RedoCmd
    <3>2. d \in QsoRecord /\ d["is_void"] = FALSE
      BY ProjectorInputsAssumption
    <3> QED BY <1>1, <1>2, <3>1, <3>2, LineInsert
  <2>2. CASE m.cmd \in {"patch", "void"}
    BY <1>1, <1>2, <2>2, LineChange
  <2>3. CASE m.cmd = "undo"
    <3>1. m = UndoCmd /\ store.undo # << >>
      BY <1>1, <2>3 DEF Mutation, InsertCmd, PatchCmd, VoidCmd, RedoCmd, UndoCmd, Succeeds
    <3>2. Line(store', H)
      BY <1>1, <1>2, <3>1, LineUndo
    <3> QED BY <3>2
  <2>4. CASE m.cmd = "redo"
    <3>1. m = RedoCmd /\ store.redo # << >>
      BY <1>1, <2>4 DEF Mutation, InsertCmd, PatchCmd, VoidCmd, RedoCmd, UndoCmd, Succeeds
    <3>2. Line(store', H)
      BY <1>1, <1>2, <3>1, LineRedo
    <3> QED BY <3>2
  <2>5. m.cmd \in {"insert", "patch", "void", "undo", "redo"}
    BY <1>1 DEF Mutation, InsertCmd, PatchCmd, VoidCmd, RedoCmd, UndoCmd
  <2> QED BY <2>1, <2>2, <2>3, <2>4, <2>5
<1>4. store'.pending_ops = Append(q, e)
  BY <1>1, MutateGrows
<1>5. ASSUME ~lagged', Len(store'.pending_ops) <= 1, NEW id \in DOMAIN proj'.applied
      PROVE  shown'[id] = Given(id)'
  <2> HIDE DEF e
  <2>1. q \in Seq(S \cup {e}) /\ e \in S \cup {e}
    BY <1>0
  <2>2. Len(Append(q, e)) = Len(q) + 1 /\ Len(q) \in Nat
    BY <2>1
  <2>3. Len(q) = 0
    BY <1>4, <1>5, <2>2
  <2>4. q = << >> /\ store'.pending_ops # << >> /\ Head(store'.pending_ops) = e
    BY <1>4, <2>1, <2>3
  <2>5. shown[id] = store.records[id] /\ id \in DOMAIN store.records
    <3>1. ~lagged /\ Len(store.pending_ops) <= 1 /\ id \in DOMAIN proj.applied
      BY <1>1, <1>5, <2>3
    <3>2. shown[id] = Given(id)
      BY <3>1 DEF FaithInv
    <3>3. Given(id) = store.records[id]
      BY <2>4 DEF Given
    <3> QED BY <3>1, <3>2, <3>3 DEF FaithInv, ProjInv, ProjOK
  <2>6. RecordForRetract(store', id, e.op.id, OldRecord(store', e.op)) = store.records[id]
    BY <1>1, <1>2, <2>5, OldRecordIsOld DEF e
  <2>7. Given(id)' = RecordForRetract(store', id, e.op.id, OldRecord(store', e.op))
    BY <2>4 DEF Given
  <2> QED BY <1>1, <2>5, <2>6, <2>7
<1> QED BY <1>1, <1>3, <1>5 DEF FaithInv

(* For every contest engine, if no draft is born void: as long as each     *)
(* operation is projected before the next mutation, a retract is given     *)
(* exactly the record its result was made from, through undo and redo too. *)
(* apply_stored_op rebuilds it from the operation, which works because a   *)
(* Void always names the flag that it overwrites (Line).                   *)
THEOREM RetractsGetWhatWasApplied ==
  ASSUME \A d \in Drafts : d["is_void"] = FALSE
  PROVE  Spec => []RetractsAsApplied
<1>1. Init => FaithInv
  <2> SUFFICES ASSUME Init PROVE FaithInv
    OBVIOUS
  <2>1. ProjInv
    BY ProjInvInit
  <2>2. store.undo = << >> /\ store.redo = << >> /\ DOMAIN proj.applied = {}
    BY DEF Init, NewStore, NewProjector, EmptyMap
  <2>3. \E H : Line(store, H)
    BY <2>1, <2>2, LineFresh DEF ProjInv
  <2> QED BY <2>1, <2>2, <2>3 DEF FaithInv, Init
<1>2. FaithInv /\ [Next]_vars => FaithInv'
  <2> SUFFICES ASSUME FaithInv, [Next]_vars PROVE FaithInv'
    OBVIOUS
  <2>1. ProjInv'
    BY ProjInvStep DEF FaithInv
  <2>2. CASE Project
    BY <2>1, <2>2, FaithProject
  <2>3. ASSUME NEW m \in Mutations, MutateStore(m) PROVE FaithInv'
    BY <2>1, <2>3, FaithMutate
  <2>4. CASE UNCHANGED vars
    BY <2>1, <2>4 DEF vars, FaithInv, Given
  <2> QED BY <2>2, <2>3, <2>4 DEF Next
<1>3. FaithInv => RetractsAsApplied
  BY DEF FaithInv, RetractsAsApplied
<1> QED
  BY <1>1, <1>2, <1>3, PTL DEF Spec

------------------------------------------------------------------------------
(* A projector whose engine is lawful                                      *)

Deps(p) == [id \in DOMAIN p.applied |-> p.applied[id].deps]

(* The state tallies the results, and the index holds their links.         *)
Well(p) ==
  /\ p = [state |-> p.state, applied |-> p.applied, dep_index |-> p.dep_index]
  /\ p.applied \in [DOMAIN p.applied -> Results]
  /\ DOMAIN p.applied \subseteq Ids
  /\ p.state = Tally(Deps(p))
  /\ p.dep_index = UNION {Links(id, p.applied[id].deps) : id \in DOMAIN p.applied}

LEMMA ResultKeys ==
  ASSUME LawfulEngine, NEW qso \in QsoRecord, NEW a \in ResultsOf(qso)
  PROVE  a.deps = Keys(qso) /\ a \in Results
BY DEF LawfulEngine, ResultLaw, ResultsOf, Results

LEMMA DepsHold ==
  ASSUME LawfulEngine, NEW p, Well(p)
  PROVE  Deps(p) \in Holding
<1>1. \A id \in DOMAIN p.applied : p.applied[id].deps \in {Keys(qso) : qso \in QsoRecord}
  <2> TAKE id \in DOMAIN p.applied
  <2>1. p.applied[id] \in Results
    BY DEF Well
  <2>2. PICK qso \in QsoRecord : p.applied[id] \in ResultsOf(qso)
    BY <2>1 DEF Results
  <2> QED BY <2>2, ResultKeys
<1>2. Deps(p) \in [DOMAIN p.applied -> {Keys(qso) : qso \in QsoRecord}]
  BY <1>1 DEF Deps
<1>3. DOMAIN p.applied \in SUBSET Ids
  BY DEF Well
<1> QED BY <1>2, <1>3 DEF Holding

LEMMA RetractOneWell ==
  ASSUME LawfulEngine, NEW p, Well(p), NEW s, NEW changed, NEW old, NEW id \in DOMAIN p.applied,
         RecordForRetract(s, id, changed, old) \in QsoRecord
  PROVE  LET q == RetractOne(s, changed, old, p, id)
         IN  Well(q) /\ q.applied = MapRemove(p.applied, id)
<1> DEFINE q == RetractOne(s, changed, old, p, id)
           qso == RecordForRetract(s, id, changed, old)
           a == p.applied[id]
           h == Deps(p)
<1>1. /\ q = [state |-> EngineRetract(p.state, qso, a), applied |-> MapRemove(p.applied, id),
              dep_index |-> p.dep_index \ Links(id, a.deps)]
  BY DEF RetractOne
<1>2. a \in Results /\ h \in Holding /\ id \in DOMAIN h /\ a.deps = h[id] /\ p.state = Tally(h)
  BY DepsHold DEF Well, Deps
<1> HIDE DEF qso
<1>3. EngineRetract(p.state, qso, a) = Tally(MapRemove(h, id))
  BY <1>2 DEF LawfulEngine, StateLaw, qso
<1>4. /\ q.state = EngineRetract(p.state, qso, a) /\ q.applied = MapRemove(p.applied, id)
      /\ q.dep_index = p.dep_index \ Links(id, a.deps)
      /\ q = [state |-> q.state, applied |-> q.applied, dep_index |-> q.dep_index]
  BY <1>1
<1> HIDE DEF q
<1>5. /\ DOMAIN q.applied = DOMAIN p.applied \ {id}
      /\ \A x \in DOMAIN q.applied : q.applied[x] = p.applied[x]
      /\ q.applied = [x \in DOMAIN q.applied |-> q.applied[x]]
  BY <1>4 DEF MapRemove
<1>6. MapRemove(h, id) = Deps(q)
  BY <1>5 DEF MapRemove, Deps
<1>7. q.applied \in [DOMAIN q.applied -> Results]
  BY <1>5 DEF Well
<1>8. q.dep_index = UNION {Links(x, q.applied[x].deps) : x \in DOMAIN q.applied}
  <2>1. p.dep_index = UNION {Links(x, p.applied[x].deps) : x \in DOMAIN p.applied}
    BY DEF Well
  <2>2. ASSUME NEW l \in q.dep_index
        PROVE  l \in UNION {Links(x, q.applied[x].deps) : x \in DOMAIN q.applied}
    <3>1. PICK x \in DOMAIN p.applied : l \in Links(x, p.applied[x].deps)
      BY <1>4, <2>1, <2>2
    <3>2. x # id
      BY <1>4, <2>2, <3>1
    <3> QED BY <1>5, <3>1, <3>2
  <2>3. ASSUME NEW x \in DOMAIN q.applied, NEW l \in Links(x, q.applied[x].deps)
        PROVE  l \in q.dep_index
    <3>1. x # id /\ l \in Links(x, p.applied[x].deps) /\ x \in DOMAIN p.applied
      BY <1>5, <2>3
    <3>2. l \in p.dep_index
      BY <2>1, <3>1
    <3>3. l \notin Links(id, a.deps)
      BY <3>1 DEF Links
    <3> QED BY <1>4, <3>2, <3>3
  <2> QED BY <2>2, <2>3
<1> QED BY <1>3, <1>4, <1>5, <1>6, <1>7, <1>8 DEF Well, q

(* The result of a QSO that is applied tells what was to see of its keys.  *)
LEMMA ApplyOneWell ==
  ASSUME LawfulEngine, NEW p, Well(p), NEW s, NEW id \in Ids, id \notin DOMAIN p.applied,
         s.records[id] \in QsoRecord
  PROVE  LET q == ApplyOne(s, p, id)
             a == q.applied[id]
         IN  /\ Well(q) /\ q.applied = MapInsert(p.applied, id, a)
             /\ a \in ResultsOf(s.records[id]) /\ a.deps = Keys(s.records[id])
             /\ \A key \in a.deps :
                  Seen(a, key) = View(key, {x \in DOMAIN p.applied : key \in p.applied[x].deps})
<1> DEFINE q == ApplyOne(s, p, id)
           qso == s.records[id]
           out == EngineApply(p.state, qso)
           h == Deps(p)
<1>1. q = [state |-> out.state, applied |-> MapInsert(p.applied, id, out.applied),
           dep_index |-> p.dep_index \cup Links(id, out.applied.deps)]
  BY DEF ApplyOne
<1>2. h \in Holding /\ id \notin DOMAIN h /\ p.state = Tally(h)
  BY DepsHold DEF Well, Deps
<1> HIDE DEF h
<1>3. /\ out.state = Tally(MapInsert(h, id, Keys(qso))) /\ out.applied.deps = Keys(qso)
      /\ \A key \in out.applied.deps : Seen(out.applied, key) = View(key, Holders(h, key))
      /\ out.applied \in ResultsOf(qso)
  BY <1>2 DEF LawfulEngine, StateLaw, ResultLaw, ResultsOf
<1>4. /\ q.state = out.state /\ q.applied = MapInsert(p.applied, id, out.applied)
      /\ q.dep_index = p.dep_index \cup Links(id, out.applied.deps)
      /\ q = [state |-> q.state, applied |-> q.applied, dep_index |-> q.dep_index]
  BY <1>1
<1> HIDE DEF q, out
<1>5. /\ DOMAIN q.applied = DOMAIN p.applied \cup {id}
      /\ \A x \in DOMAIN p.applied : q.applied[x] = p.applied[x]
      /\ q.applied[id] = out.applied
      /\ q.applied = [x \in DOMAIN q.applied |-> q.applied[x]]
  BY <1>4 DEF MapInsert
<1>6. MapInsert(h, id, Keys(qso)) = Deps(q)
  BY <1>3, <1>5 DEF MapInsert, Deps, h
<1>7. q.applied \in [DOMAIN q.applied -> Results]
  <2>1. out.applied \in Results
    BY <1>3, ResultKeys
  <2> QED BY <1>5, <2>1 DEF Well
<1>8. q.dep_index = UNION {Links(x, q.applied[x].deps) : x \in DOMAIN q.applied}
  <2>1. p.dep_index = UNION {Links(x, p.applied[x].deps) : x \in DOMAIN p.applied}
    BY DEF Well
  <2>2. ASSUME NEW l \in q.dep_index
        PROVE  l \in UNION {Links(x, q.applied[x].deps) : x \in DOMAIN q.applied}
    BY <1>4, <1>5, <2>1, <2>2
  <2>3. ASSUME NEW x \in DOMAIN q.applied, NEW l \in Links(x, q.applied[x].deps)
        PROVE  l \in q.dep_index
    BY <1>4, <1>5, <2>1, <2>3
  <2> QED BY <2>2, <2>3
<1>9. \A key : Holders(h, key) = {x \in DOMAIN p.applied : key \in p.applied[x].deps}
  BY DEF Holders, Deps, h
<1>10. DOMAIN q.applied \subseteq Ids
  BY <1>5 DEF Well
<1>11. Well(q)
  BY <1>3, <1>4, <1>6, <1>7, <1>8, <1>10 DEF Well
<1> QED BY <1>3, <1>4, <1>5, <1>9, <1>11 DEF q

(* The first pass leaves the results of the QSOs that are not impacted.    *)
LEMMA RetractImpactedWell ==
  ASSUME LawfulEngine, NEW s, Inv(s), NEW p, Well(p), NEW impacted, NEW changed, NEW old,
         DOMAIN p.applied \subseteq DOMAIN s.records,
         \A id \in DOMAIN p.applied : RecordForRetract(s, id, changed, old) \in QsoRecord
  PROVE  LET q == RetractImpacted(p, s, impacted, changed, old)
         IN  /\ Well(q) /\ DOMAIN q.applied = DOMAIN p.applied \ impacted
             /\ \A x \in DOMAIN q.applied : q.applied[x] = p.applied[x]
<1> DEFINE N == Len(s.order)
           D == DOMAIN p.applied
           Past(i) == {s.order[j] : j \in 1..i}
           At(i, u) == /\ Well(u) /\ DOMAIN u.applied = D \ (impacted \cap Past(i))
                       /\ \A x \in DOMAIN u.applied : u.applied[x] = p.applied[x]
<1>1. /\ N \in Nat
      /\ \A i, j \in 1..N : s.order[i] = s.order[j] => i = j
      /\ \A id \in DOMAIN s.records : \E i \in 1..N : s.order[i] = id
  BY OrderLists
<1>2. PICK g : /\ RetractRun(g, p, s, impacted, changed, old, N)
               /\ RetractImpacted(p, s, impacted, changed, old) = g[N]
  BY <1>1, RetractImpactedRun
<1> DEFINE Bad == {i \in 0..N : ~At(i, g[i])}
<1>3. ASSUME Bad # {} PROVE FALSE
  <2>1. PICK i \in Bad : \A j \in Bad : i <= j
    <3>1. Bad \in SUBSET Nat
      OBVIOUS
    <3> HIDE DEF Bad
    <3> QED BY <1>3, <3>1, LeastNatural
  <2>2. i # 0
    <3>1. g[0] = p
      BY <1>2 DEF RetractRun
    <3>2. At(0, p)
      OBVIOUS
    <3> QED BY <2>1, <3>1, <3>2
  <2>3. i \in 1..N /\ i - 1 \in 0..N /\ i - 1 \notin Bad
    BY <1>1, <2>1, <2>2
  <2> DEFINE u == g[i - 1]
             id == s.order[i]
             v == RetractAt(u, s, impacted, changed, old, id)
  <2>4. At(i - 1, u)
    BY <2>3
  <2>5. g[i] = v
    BY <1>2, <2>3 DEF RetractRun
  <2>6. Past(i) = Past(i - 1) \cup {id}
    <3>1. 1..i = 1..(i - 1) \cup {i}
      BY <1>1, <2>3
    <3> QED BY <3>1
  <2> HIDE DEF u, id, Past
  <2>8. At(i, v)
    <3>1. CASE id \in impacted \cap DOMAIN u.applied
      <4>1. v = RetractOne(s, changed, old, u, id)
        BY <3>1 DEF RetractAt
      <4>2. RecordForRetract(s, id, changed, old) \in QsoRecord
        BY <2>4, <3>1
      <4> HIDE DEF v
      <4>3. Well(v) /\ v.applied = MapRemove(u.applied, id)
        BY <2>4, <3>1, <4>1, <4>2, RetractOneWell
      <4>4. /\ DOMAIN v.applied = DOMAIN u.applied \ {id}
            /\ \A x \in DOMAIN v.applied : v.applied[x] = u.applied[x]
        BY <4>3 DEF MapRemove
      <4> QED BY <2>4, <2>6, <3>1, <4>3, <4>4
    <3>2. CASE ~(id \in impacted \cap DOMAIN u.applied)
      <4>1. v = u
        BY <3>2 DEF RetractAt
      <4> HIDE DEF v
      <4> QED BY <2>4, <2>6, <3>2, <4>1
    <3> QED BY <3>1, <3>2
  <2> HIDE DEF v
  <2> QED BY <2>1, <2>5, <2>8
<1>4. At(N, g[N])
  BY <1>1, <1>3
<1>5. D \subseteq Past(N)
  BY <1>1
<1> HIDE DEF Past
<1> QED BY <1>2, <1>4, <1>5

(* The QSOs in front of another in canonical order.                        *)
Before(s, id) ==
  {s.order[i] : i \in {i \in 1..Len(s.order) : \E j \in 1..Len(s.order) : i < j /\ s.order[j] = id}}

LEMMA BeforeAt ==
  ASSUME NEW s, Inv(s), NEW i \in 1..Len(s.order)
  PROVE  Before(s, s.order[i]) = {s.order[j] : j \in 1..(i - 1)}
<1>1. /\ Len(s.order) \in Nat
      /\ \A j, k \in 1..Len(s.order) : s.order[j] = s.order[k] => j = k
  BY OrderLists
<1>2. {j \in 1..Len(s.order) : \E k \in 1..Len(s.order) : j < k /\ s.order[k] = s.order[i]} = 1..(i - 1)
  BY <1>1
<1> QED BY <1>2 DEF Before

HoldersIn(p, key, S) == {x \in DOMAIN p.applied \cap S : key \in p.applied[x].deps}

(* What the result of id has seen are the holders of its keys in S.        *)
Sees(p, id, S) ==
  \A key \in p.applied[id].deps : Seen(p.applied[id], key) = View(key, HoldersIn(p, key, S))

Live(s) == {id \in DOMAIN s.records : ~s.records[id]["is_void"]}

(* The second pass shows each QSO those that are not impacted, and the     *)
(* ones in front of it.                                                    *)
LEMMA ApplyImpactedWell ==
  ASSUME LawfulEngine, NEW s, Inv(s), DOMAIN s.records \subseteq Ids,
         NEW p, Well(p), NEW impacted, DOMAIN p.applied \cap impacted = {}
  PROVE  LET q == ApplyImpacted(p, s, impacted)
         IN  /\ Well(q) /\ DOMAIN q.applied = DOMAIN p.applied \cup (impacted \cap Live(s))
             /\ \A x \in DOMAIN p.applied : q.applied[x] = p.applied[x]
             /\ \A x \in impacted \cap Live(s) :
                  /\ q.applied[x] \in ResultsOf(s.records[x])
                  /\ Sees(q, x, DOMAIN p.applied \cup Before(s, x))
<1> DEFINE N == Len(s.order)
           D == DOMAIN p.applied
           Past(i) == {s.order[j] : j \in 1..i}
           New(i) == impacted \cap Live(s) \cap Past(i)
           At(i, u) == /\ Well(u) /\ DOMAIN u.applied = D \cup New(i)
                       /\ \A x \in D : u.applied[x] = p.applied[x]
                       /\ \A x \in New(i) : /\ u.applied[x] \in ResultsOf(s.records[x])
                                            /\ Sees(u, x, D \cup Before(s, x))
<1>1. /\ N \in Nat /\ \A i \in 1..N : s.order[i] \in DOMAIN s.records
      /\ \A i, j \in 1..N : s.order[i] = s.order[j] => i = j
      /\ \A id \in DOMAIN s.records : \E i \in 1..N : s.order[i] = id
  BY OrderLists
<1>2. PICK g : ApplyRun(g, p, s, impacted, N) /\ ApplyImpacted(p, s, impacted) = g[N]
  BY <1>1, ApplyImpactedRun
<1>r. \A id \in DOMAIN s.records : s.records[id] \in QsoRecord
  BY DEF Inv, CoreOf, CoreOK
<1> DEFINE Bad == {i \in 0..N : ~At(i, g[i])}
<1> HIDE DEF At
<1>3. ASSUME Bad # {} PROVE FALSE
  <2>1. PICK i \in Bad : \A j \in Bad : i <= j
    <3>1. Bad \in SUBSET Nat
      OBVIOUS
    <3> HIDE DEF Bad
    <3> QED BY <1>3, <3>1, LeastNatural
  <2>2. i # 0
    <3>1. g[0] = p
      BY <1>2 DEF ApplyRun
    <3>2. New(0) = {}
      OBVIOUS
    <3> HIDE DEF New
    <3>3. At(0, p)
      BY <3>2 DEF At
    <3> QED BY <2>1, <3>1, <3>3
  <2>3. i \in 1..N /\ i - 1 \in 0..N /\ i - 1 \notin Bad
    BY <1>1, <2>1, <2>2
  <2> DEFINE u == g[i - 1]
             id == s.order[i]
             v == ApplyAt(u, s, impacted, id)
  <2>4. At(i - 1, u)
    BY <2>3
  <2>5. g[i] = v
    BY <1>2, <2>3 DEF ApplyRun
  <2>6. Past(i) = Past(i - 1) \cup {id} /\ id \in DOMAIN s.records
    <3>1. 1..i = 1..(i - 1) \cup {i}
      BY <1>1, <2>3
    <3> QED BY <1>1, <2>3, <3>1
  <2>7. id \notin Past(i - 1) /\ Before(s, id) = Past(i - 1)
    <3>1. \A j \in 1..(i - 1) : j \in 1..N /\ j # i
      BY <1>1, <2>3
    <3>2. id \notin Past(i - 1)
      BY <1>1, <2>3, <3>1
    <3>3. Before(s, id) = Past(i - 1)
      BY <2>3, BeforeAt
    <3> QED BY <3>2, <3>3
  <2>8. \A x \in Past(i - 1) : id \notin Before(s, x)
    <3> TAKE x \in Past(i - 1)
    <3>1. PICK j \in 1..(i - 1) : x = s.order[j]
      OBVIOUS
    <3>2. j \in 1..N /\ \A k \in 1..(j - 1) : k \in 1..N /\ k # i
      BY <1>1, <2>3
    <3>3. Before(s, x) = {s.order[k] : k \in 1..(j - 1)}
      BY <3>1, <3>2, BeforeAt
    <3>4. \A k \in 1..(j - 1) : s.order[k] # s.order[i]
      BY <1>1, <2>3, <3>2
    <3> QED BY <3>3, <3>4
  <2> HIDE DEF u, id, Past
  <2>9. At(i, v)
    <3> USE DEF At
    <3>1. CASE id \in impacted /\ ~s.records[id]["is_void"]
      <4>1. v = ApplyOne(s, u, id)
        BY <3>1 DEF ApplyAt
      <4>2. id \notin DOMAIN u.applied /\ id \in Ids /\ s.records[id] \in QsoRecord
        BY <1>r, <2>4, <2>6, <2>7, <3>1
      <4>3. New(i) = New(i - 1) \cup {id} /\ id \notin New(i - 1) /\ id \notin D
        BY <2>6, <2>7, <3>1 DEF Live
      <4> HIDE DEF v
      <4>4. /\ Well(v) /\ v.applied = MapInsert(u.applied, id, v.applied[id])
            /\ v.applied[id] \in ResultsOf(s.records[id])
            /\ \A key \in v.applied[id].deps : Seen(v.applied[id], key)
                 = View(key, {x \in DOMAIN u.applied : key \in u.applied[x].deps})
        BY <2>4, <4>1, <4>2, ApplyOneWell
      <4>5. /\ DOMAIN v.applied = DOMAIN u.applied \cup {id}
            /\ \A x \in DOMAIN u.applied : v.applied[x] = u.applied[x]
        BY <4>2, <4>4 DEF MapInsert
      <4>6. \A S : id \notin S => \A key : HoldersIn(v, key, S) = HoldersIn(u, key, S)
        BY <4>2, <4>5 DEF HoldersIn
      <4>7. Sees(v, id, D \cup Before(s, id))
        <5>1. DOMAIN u.applied \cap (D \cup Before(s, id)) = DOMAIN u.applied
          BY <2>4, <2>7
        <5>2. id \notin D \cup Before(s, id)
          BY <2>7, <4>3
        <5>3. \A key : HoldersIn(v, key, D \cup Before(s, id))
                         = {x \in DOMAIN u.applied : key \in u.applied[x].deps}
          BY <4>6, <5>1, <5>2 DEF HoldersIn
        <5> QED BY <4>4, <5>3 DEF Sees
      <4>8. \A x \in New(i - 1) : /\ v.applied[x] = u.applied[x]
                                  /\ Sees(v, x, D \cup Before(s, x))
        <5> TAKE x \in New(i - 1)
        <5>1. v.applied[x] = u.applied[x] /\ Sees(u, x, D \cup Before(s, x))
          BY <2>4, <4>5
        <5>2. id \notin D \cup Before(s, x)
          BY <2>8, <4>3
        <5> QED BY <4>6, <5>1, <5>2 DEF Sees
      <4> HIDE DEF New
      <4> QED BY <2>4, <4>3, <4>4, <4>5, <4>7, <4>8
    <3>2. CASE ~(id \in impacted /\ ~s.records[id]["is_void"])
      <4>1. v = u
        BY <3>2 DEF ApplyAt
      <4>2. New(i) = New(i - 1)
        BY <2>6, <3>2 DEF Live
      <4> HIDE DEF v, New
      <4> QED BY <2>4, <4>1, <4>2
    <3> QED BY <3>1, <3>2
  <2> HIDE DEF v
  <2> QED BY <2>1, <2>5, <2>9
<1>4. At(N, g[N])
  BY <1>1, <1>3
<1>5. New(N) = impacted \cap Live(s)
  BY <1>1 DEF Live
<1> HIDE DEF New
<1> QED BY <1>2, <1>4, <1>5 DEF At

(* A full evaluation is a second pass over all QSOs.                       *)
LEMMA FullIsApplyAll ==
  ASSUME NEW s, Inv(s)
  PROVE  FullRecompute(s) = ApplyImpacted(NewProjector, s, DOMAIN s.records)
<1> DEFINE N == Len(s.order)
           A(g) == [k \in 0..N |-> IF k = 0 THEN NewProjector
                                   ELSE ApplyAt(g[k - 1], s, DOMAIN s.records, s.order[k])]
           F(g) == [k \in 0..N |-> IF k = 0 THEN NewProjector
                                   ELSE IF s.records[s.order[k]]["is_void"] THEN g[k - 1]
                                   ELSE ApplyOne(s, g[k - 1], s.order[k])]
<1>1. N \in Nat /\ \A i \in 1..N : s.order[i] \in DOMAIN s.records
  BY OrderLists
<1>2. FullRecompute(s) = (CHOOSE g : g = F(g))[N]
  BY DEF FullRecompute
<1>3. ApplyImpacted(NewProjector, s, DOMAIN s.records) = (CHOOSE g : g = A(g))[N]
  BY DEF ApplyImpacted, ApplyAt
<1>4. ASSUME NEW g PROVE A(g) = F(g)
  <2>1. ASSUME NEW k \in 0..N, k # 0
        PROVE  ApplyAt(g[k - 1], s, DOMAIN s.records, s.order[k])
                 = IF s.records[s.order[k]]["is_void"] THEN g[k - 1]
                   ELSE ApplyOne(s, g[k - 1], s.order[k])
    <3>1. s.order[k] \in DOMAIN s.records
      BY <1>1, <2>1
    <3> QED BY <3>1 DEF ApplyAt
  <2> QED BY <2>1
<1> HIDE DEF A, F
<1>5. (CHOOSE g : g = F(g)) = (CHOOSE g : g = A(g))
  BY <1>4
<1> QED BY <1>2, <1>3, <1>5

Holds(p, id, key) == id \in DOMAIN p.applied /\ key \in p.applied[id].deps

(* Everybody who holds the key has been, or will be, evaluated again.      *)
Closed(r, key) == \A id : Holds(r.proj, id, key) => id \in r.impacted

(* The same QSOs hold the key, and they have seen the same of it.          *)
Same(p, q, key) ==
  \A id : /\ Holds(p, id, key) <=> Holds(q, id, key)
          /\ Holds(p, id, key) => Seen(p.applied[id], key) = Seen(q.applied[id], key)

(* Each impacted QSO that is not void has a result, which saw those that   *)
(* are not impacted and the ones in front of it.                           *)
Settled(r, s) ==
  /\ DOMAIN r.proj.applied \cap r.impacted = r.impacted \cap Live(s)
  /\ \A x \in r.impacted \cap Live(s) :
       /\ r.proj.applied[x] \in ResultsOf(s.records[x])
       /\ Sees(r.proj, x, (DOMAIN r.proj.applied \ r.impacted) \cup Before(s, x))

(* After any turn, for each key: nothing about it has changed since p, or  *)
(* all that hold it are impacted.                                          *)
TurnWell(r, p, s) ==
  /\ Well(r.proj)
  /\ \A id : id \notin r.impacted =>
       /\ id \in DOMAIN r.proj.applied <=> id \in DOMAIN p.applied
       /\ id \in DOMAIN p.applied => r.proj.applied[id] = p.applied[id]
  /\ \A key : Closed(r, key) \/ Same(r.proj, p, key)
  /\ r.done => Settled(r, s)

(* A key that a turn does not report is as it was for id.                  *)
LEMMA KeyKept ==
  ASSUME LawfulEngine, NEW p, Well(p), NEW q, Well(q), NEW id, NEW key,
         key \notin KeysChanged(p.applied, q.applied, id)
  PROVE  /\ Holds(p, id, key) <=> Holds(q, id, key)
         /\ Holds(p, id, key) => Seen(p.applied[id], key) = Seen(q.applied[id], key)
<1>1. CASE id \in DOMAIN p.applied /\ id \in DOMAIN q.applied
  <2> DEFINE a == p.applied[id]
             b == q.applied[id]
  <2>1. a \in Results /\ b \in Results
    BY <1>1 DEF Well
  <2>2. a = b \/ key \notin DiffInvalidation(a, b)
    BY <1>1 DEF KeysChanged
  <2> HIDE DEF a, b
  <2>3. key \in a.deps \cup b.deps =>
          key \in a.deps /\ key \in b.deps /\ Seen(a, key) = Seen(b, key)
    BY <2>1, <2>2 DEF LawfulEngine, DiffLaw
  <2> QED BY <1>1, <2>3 DEF Holds, a, b
<1>2. CASE id \in DOMAIN p.applied /\ id \notin DOMAIN q.applied
  BY <1>2 DEF KeysChanged, Holds
<1>3. CASE id \notin DOMAIN p.applied /\ id \in DOMAIN q.applied
  BY <1>3 DEF KeysChanged, Holds
<1>4. CASE id \notin DOMAIN p.applied /\ id \notin DOMAIN q.applied
  BY <1>4 DEF Holds
<1> QED BY <1>1, <1>2, <1>3, <1>4

LEMMA RoundWell ==
  ASSUME LawfulEngine, NEW s, Inv(s), DOMAIN s.records \subseteq Ids, NEW changed, NEW old,
         \A id \in DOMAIN s.records : RecordForRetract(s, id, changed, old) \in QsoRecord,
         NEW p, NEW n, NEW r, TurnWell(r, p, s), DOMAIN r.proj.applied \subseteq DOMAIN s.records
  PROVE  TurnWell(Round(s, changed, old, r, n), p, s)
<1> DEFINE o == IF n = 1 THEN old ELSE {}
           I == r.impacted
           u == RetractImpacted(r.proj, s, I, changed, o)
           q == ApplyImpacted(u, s, I)
           keys == UNION {KeysChanged(r.proj.applied, q.applied, id) : id \in I}
           more == DependentsOf(q, keys) \ I
           t == Round(s, changed, old, r, n)
<1>1. CASE r.done
  <2>1. t = r
    BY <1>1 DEF Round
  <2> QED BY <2>1
<1>2. CASE ~r.done
  <2>1. t = [proj |-> q, impacted |-> I \cup more, done |-> more = {}]
    BY <1>2 DEF Round
  <2>2. \A id \in DOMAIN r.proj.applied : RecordForRetract(s, id, changed, o) \in QsoRecord
    <3> TAKE id \in DOMAIN r.proj.applied
    <3>1. id \in DOMAIN s.records /\ s.records[id] \in QsoRecord
      BY DEF Inv, CoreOf, CoreOK
    <3>2. CASE n = 1
      BY <3>1, <3>2
    <3>3. CASE n # 1
      BY <3>1, <3>3 DEF RecordForRetract
    <3> QED BY <3>2, <3>3
  <2> HIDE DEF o
  <2>3. /\ Well(u) /\ DOMAIN u.applied = DOMAIN r.proj.applied \ I
        /\ \A x \in DOMAIN u.applied : u.applied[x] = r.proj.applied[x]
    BY <2>2, RetractImpactedWell DEF TurnWell
  <2> HIDE DEF u
  <2>4. /\ Well(q) /\ DOMAIN q.applied = DOMAIN u.applied \cup (I \cap Live(s))
        /\ \A x \in DOMAIN u.applied : q.applied[x] = u.applied[x]
        /\ \A x \in I \cap Live(s) :
             /\ q.applied[x] \in ResultsOf(s.records[x])
             /\ Sees(q, x, DOMAIN u.applied \cup Before(s, x))
    BY <2>3, ApplyImpactedWell
  <2> HIDE DEF q
  <2>5. /\ DOMAIN q.applied \ I = DOMAIN u.applied
        /\ DOMAIN q.applied \cap I = I \cap Live(s)
        /\ \A id : id \notin I => /\ id \in DOMAIN q.applied <=> id \in DOMAIN r.proj.applied
                                  /\ id \in DOMAIN q.applied => q.applied[id] = r.proj.applied[id]
    BY <2>3, <2>4
  <2>6. ASSUME NEW key, key \notin keys
        PROVE  Same(q, r.proj, key)
    <3> SUFFICES ASSUME NEW id
                 PROVE  /\ Holds(q, id, key) <=> Holds(r.proj, id, key)
                        /\ Holds(q, id, key) => Seen(q.applied[id], key) = Seen(r.proj.applied[id], key)
      BY DEF Same
    <3>1. CASE id \in I
      <4>1. key \notin KeysChanged(r.proj.applied, q.applied, id)
        BY <2>6, <3>1
      <4> QED BY <2>4, <4>1, KeyKept DEF TurnWell
    <3>2. CASE id \notin I
      BY <2>5, <3>2 DEF Holds
    <3> QED BY <3>1, <3>2
  <2>7. ASSUME NEW key, key \in keys, NEW id, Holds(q, id, key)
        PROVE  id \in I \cup more
    <3>1. <<key, id>> \in q.dep_index
      BY <2>4, <2>7 DEF Well, Holds, Links
    <3>2. <<key, id>>[1] = key /\ <<key, id>>[2] = id
      OBVIOUS
    <3>3. id \in DependentsOf(q, keys)
      BY <2>7, <3>1, <3>2 DEF DependentsOf
    <3> QED BY <3>3
  <2> HIDE DEF keys, more
  <2>8. t.proj = q /\ t.impacted = I \cup more /\ t.done = (more = {})
    BY <2>1
  <2> HIDE DEF t
  <2>9. ASSUME NEW key PROVE Closed(t, key) \/ Same(t.proj, p, key)
    <3>1. CASE key \in keys
      BY <2>7, <2>8, <3>1 DEF Closed
    <3>2. CASE key \notin keys
      <4>1. Same(q, r.proj, key)
        BY <2>6, <3>2
      <4>2. Closed(r, key) \/ Same(r.proj, p, key)
        BY DEF TurnWell
      <4>3. CASE Closed(r, key)
        BY <2>8, <4>1, <4>3 DEF Closed, Same
      <4>4. CASE Same(r.proj, p, key)
        BY <2>8, <4>1, <4>4 DEF Same
      <4> QED BY <4>2, <4>3, <4>4
    <3> QED BY <3>1, <3>2
  <2>10. \A id : id \notin t.impacted =>
            /\ id \in DOMAIN t.proj.applied <=> id \in DOMAIN p.applied
            /\ id \in DOMAIN p.applied => t.proj.applied[id] = p.applied[id]
    BY <2>5, <2>8 DEF TurnWell
  <2>11. ASSUME t.done PROVE Settled(t, s)
    <3>1. t.impacted = I
      BY <2>8, <2>11
    <3> QED BY <2>4, <2>5, <2>8, <3>1 DEF Settled
  <2> QED BY <2>4, <2>8, <2>9, <2>10, <2>11 DEF TurnWell, t
<1> QED BY <1>1, <1>2

LEMMA ReconcileWell ==
  ASSUME LawfulEngine, NEW s, Inv(s), DOMAIN s.records \subseteq Ids, NEW changed, NEW old,
         \A id \in DOMAIN s.records : RecordForRetract(s, id, changed, old) \in QsoRecord,
         NEW p, Well(p), ProjOK(p, DOMAIN s.records)
  PROVE  TurnWell(IncrementalReconcile(p, s, changed, old), p, s)
<1> DEFINE N == Len(s.order) + 1
           At(r) == TurnOK(r, p, s, changed) /\ TurnWell(r, p, s)
<1>1. N \in Nat
  BY OrderLists
<1>2. PICK g : TurnRun(g, p, s, changed, old, N) /\ IncrementalReconcile(p, s, changed, old) = g[N]
  BY OrderLists, IncrementalReconcileRun
<1> HIDE DEF N
<1> DEFINE Bad == {n \in 0..N : ~At(g[n])}
<1> HIDE DEF At
<1>3. ASSUME Bad # {} PROVE FALSE
  <2>1. PICK n \in Bad : \A j \in Bad : n <= j
    <3>1. Bad \in SUBSET Nat
      OBVIOUS
    <3> HIDE DEF Bad
    <3> QED BY <1>3, <3>1, LeastNatural
  <2>2. n # 0
    <3> DEFINE f == FirstTurn(p, changed)
    <3>1. g[0] = f
      BY <1>2 DEF TurnRun
    <3>2. TurnOK(f, p, s, changed)
      BY FirstTurnOK
    <3>3. f.proj = p /\ f.done = FALSE
      BY DEF FirstTurn
    <3> HIDE DEF f
    <3>4. TurnWell(f, p, s)
      BY <3>3 DEF TurnWell, Same
    <3>5. At(f)
      BY <3>2, <3>4 DEF At
    <3> QED BY <2>1, <3>1, <3>5
  <2>3. n \in 1..N /\ n - 1 \in 0..N /\ n - 1 \notin Bad
    BY <1>1, <2>1, <2>2
  <2> DEFINE r == g[n - 1]
             t == Round(s, changed, old, r, n)
  <2>4. At(r)
    BY <2>3
  <2>5. g[n] = t
    BY <1>2, <2>3 DEF TurnRun
  <2> HIDE DEF r
  <2>6. TurnOK(t, p, s, changed)
    BY <2>4, RoundOK DEF At
  <2>7. DOMAIN r.proj.applied \subseteq DOMAIN s.records
    BY <2>4 DEF At, TurnOK, ProjOK
  <2>8. TurnWell(t, p, s)
    BY <2>4, <2>7, RoundWell DEF At
  <2> HIDE DEF t
  <2>9. At(t)
    BY <2>6, <2>8 DEF At
  <2> QED BY <2>1, <2>5, <2>9
<1>4. At(g[N])
  BY <1>1, <1>3
<1> QED BY <1>2, <1>4 DEF At

(* Every result has seen the QSOs in front of its own, and no other.       *)
Right(p, s) == \A id \in DOMAIN p.applied : Sees(p, id, Before(s, id))

(* When no further QSO is impacted, the results are right again.           *)
LEMMA SettledIsRight ==
  ASSUME NEW s, NEW p, Right(p, s), NEW r, TurnWell(r, p, s), r.done
  PROVE  Right(r.proj, s)
<1> DEFINE q == r.proj
<1> SUFFICES ASSUME NEW id \in DOMAIN q.applied, NEW key \in q.applied[id].deps
             PROVE  Seen(q.applied[id], key) = View(key, HoldersIn(q, key, Before(s, id)))
  BY DEF Right, Sees
<1>1. Holds(q, id, key)
  BY DEF Holds
<1>2. CASE Same(q, p, key)
  <2>1. Holds(p, id, key) /\ Seen(q.applied[id], key) = Seen(p.applied[id], key)
    BY <1>1, <1>2 DEF Same
  <2>2. Seen(p.applied[id], key) = View(key, HoldersIn(p, key, Before(s, id)))
    BY <2>1 DEF Holds, Right, Sees
  <2>3. HoldersIn(p, key, Before(s, id)) = HoldersIn(q, key, Before(s, id))
    BY <1>2 DEF Same, Holds, HoldersIn
  <2> QED BY <2>1, <2>2, <2>3
<1>3. CASE Closed(r, key)
  <2> DEFINE S == (DOMAIN q.applied \ r.impacted) \cup Before(s, id)
  <2>1. \A x : Holds(q, x, key) => x \in r.impacted
    BY <1>3 DEF Closed
  <2>2. id \in r.impacted \cap Live(s)
    BY <1>1, <2>1 DEF TurnWell, Settled
  <2>3. Seen(q.applied[id], key) = View(key, HoldersIn(q, key, S))
    BY <2>2 DEF TurnWell, Settled, Sees
  <2>4. HoldersIn(q, key, S) = HoldersIn(q, key, Before(s, id))
    BY <2>1 DEF HoldersIn, Holds
  <2> QED BY <2>3, <2>4
<1> QED BY <1>2, <1>3 DEF TurnWell

(* Right results of the same records are the same.                         *)
LEMMA RightIsUnique ==
  ASSUME LawfulEngine, NEW s, NEW p, Well(p), NEW q, Well(q), NEW D,
         \A id \in D : s.records[id] \in QsoRecord,
         DOMAIN p.applied = D, \A id \in D : p.applied[id] \in ResultsOf(s.records[id]), Right(p, s),
         DOMAIN q.applied = D, \A id \in D : q.applied[id] \in ResultsOf(s.records[id]), Right(q, s)
  PROVE  p = q
<1>1. \A id \in D : /\ p.applied[id].deps = Keys(s.records[id])
                    /\ q.applied[id].deps = Keys(s.records[id])
  BY ResultKeys
<1>2. \A key, S : HoldersIn(p, key, S) = HoldersIn(q, key, S)
  BY <1>1 DEF HoldersIn
<1>3. \A id \in D : p.applied[id] = q.applied[id]
  <2> TAKE id \in D
  <2>1. \A key \in Keys(s.records[id]) : Seen(p.applied[id], key) = Seen(q.applied[id], key)
    BY <1>1, <1>2 DEF Right, Sees
  <2>2. /\ s.records[id] \in QsoRecord /\ p.applied[id] \in ResultsOf(s.records[id])
        /\ q.applied[id] \in ResultsOf(s.records[id])
    OBVIOUS
  <2> QED BY <2>1, <2>2 DEF LawfulEngine, ResultLaw
<1>4. p.applied = q.applied
  BY <1>3 DEF Well
<1>5. Deps(p) = Deps(q)
  BY <1>4 DEF Deps
<1> QED BY <1>4, <1>5 DEF Well

LEMMA FullIsRight ==
  ASSUME LawfulEngine, NEW s, Inv(s), DOMAIN s.records \subseteq Ids
  PROVE  LET q == FullRecompute(s)
         IN  /\ Well(q) /\ DOMAIN q.applied = Live(s) /\ Right(q, s)
             /\ \A id \in Live(s) : q.applied[id] \in ResultsOf(s.records[id])
<1> DEFINE p == NewProjector
           q == FullRecompute(s)
           I == DOMAIN s.records
<1>1. Well(p) /\ DOMAIN p.applied = {}
  <2>1. /\ p.state = new_state /\ p.applied = EmptyMap /\ p.dep_index = {}
        /\ p = [state |-> p.state, applied |-> p.applied, dep_index |-> p.dep_index]
    BY DEF NewProjector
  <2> HIDE DEF p
  <2>2. DOMAIN p.applied = {} /\ p.applied \in [{} -> Results] /\ Deps(p) = EmptyMap
    BY <2>1 DEF EmptyMap, Deps
  <2>3. p.state = Tally(Deps(p))
    BY <2>1, <2>2 DEF LawfulEngine, StateLaw
  <2> QED BY <2>1, <2>2, <2>3 DEF Well
<1> HIDE DEF p
<1>2. q = ApplyImpacted(p, s, I)
  BY FullIsApplyAll DEF p
<1> HIDE DEF q
<1>3. /\ Well(q) /\ DOMAIN q.applied = DOMAIN p.applied \cup (I \cap Live(s))
      /\ \A x \in I \cap Live(s) : /\ q.applied[x] \in ResultsOf(s.records[x])
                                   /\ Sees(q, x, DOMAIN p.applied \cup Before(s, x))
  BY <1>1, <1>2, ApplyImpactedWell
<1>4. I \cap Live(s) = Live(s) /\ \A x : DOMAIN p.applied \cup Before(s, x) = Before(s, x)
  BY <1>1 DEF Live
<1> QED BY <1>1, <1>3, <1>4 DEF Right, q

------------------------------------------------------------------------------
(* The incremental results are those of a full evaluation                  *)

OpTyped(op) ==
  /\ op.type \in {"Insert", "Patch", "Void"}
  /\ op.type = "Patch" => op.prev \in QsoPatch
  /\ op.type = "Void" => op.prev_is_void \in BOOLEAN

(* A mutation changes the record its operation names and no other, and     *)
(* leaves the QSOs in their order.                                         *)
LEMMA MutateOne ==
  ASSUME NEW s, Inv(s), NEW m \in Mutation, Succeeds(s, m)
  PROVE  LET t == Mutate(s, m)
             e == StoredFor(s, m).op
         IN  /\ OpTyped(e) /\ DOMAIN t.records \subseteq DOMAIN s.records \cup {e.id}
             /\ \A id \in DOMAIN s.records : id # e.id => t.records[id] = s.records[id]
             /\ \A id \in DOMAIN s.records : Before(t, id) = Before(s, id)
             /\ IF m.cmd = "insert" THEN t.next_qso_id = s.next_qso_id + 1
                ELSE t.next_qso_id = s.next_qso_id
<1> DEFINE t == Mutate(s, m)
           op == OpFor(s, m)
           e == StoredFor(s, m).op
<1>1. e = Emitted(s, op) /\ e.id = op.id
  BY EmittedEffect DEF StoredFor, StoredOp, SameEffect
<1>2. CASE m.cmd = "insert"
  <2>1. PICK d \in QsoRecord : m = InsertCmd(d)
    BY <1>2 DEF Mutation, PatchCmd, VoidCmd, UndoCmd, RedoCmd
  <2>2. /\ t.records = MapInsert(s.records, s.next_qso_id, d)
        /\ t.order = Append(s.order, s.next_qso_id) /\ t.next_qso_id = s.next_qso_id + 1
    BY <2>1, InsertFields
  <2>3. op.type = "Insert" /\ op.id = s.next_qso_id
    BY <2>1 DEF OpFor, InsertCmd, InsertOp
  <2>4. OpTyped(e)
    BY <1>1, <2>3 DEF Emitted, OpTyped
  <2>5. s.next_qso_id \in QsoId /\ s.next_qso_id \notin DOMAIN s.records
    <3>1. s.next_qso_id \in QsoId /\ \A id \in DOMAIN s.records : id < s.next_qso_id
      BY DEF Inv, CoreOf, CoreOK, OrderOK
    <3> QED BY <3>1 DEF QsoId
  <2> HIDE DEF t, op, e
  <2>6. ASSUME NEW id \in DOMAIN s.records PROVE Before(t, id) = Before(s, id)
    <3> DEFINE N == Len(s.order)
    <3>1. N \in Nat /\ s.order \in Seq(QsoId) /\ \E i \in 1..N : s.order[i] = id
      BY <2>6, OrderLists
    <3>2. /\ Len(t.order) = N + 1 /\ t.order[N + 1] = s.next_qso_id
          /\ \A i \in 1..N : t.order[i] = s.order[i]
      BY <2>2, <2>5, <3>1
    <3> HIDE DEF N
    <3>3. {i \in 1..(N + 1) : \E j \in 1..(N + 1) : i < j /\ t.order[j] = id}
            = {i \in 1..N : \E j \in 1..N : i < j /\ s.order[j] = id}
      BY <2>5, <2>6, <3>1, <3>2
    <3> DEFINE K == {i \in 1..N : \E j \in 1..N : i < j /\ s.order[j] = id}
    <3>4. \A i \in K : t.order[i] = s.order[i]
      BY <3>2
    <3>5. Before(t, id) = {t.order[i] : i \in K} /\ Before(s, id) = {s.order[i] : i \in K}
      BY <3>2, <3>3 DEF Before, N
    <3> HIDE DEF K
    <3> QED BY <3>4, <3>5
  <2>7. /\ DOMAIN t.records \subseteq DOMAIN s.records \cup {e.id}
        /\ \A id \in DOMAIN s.records : id # e.id => t.records[id] = s.records[id]
    BY <1>1, <2>2, <2>3 DEF MapInsert
  <2> QED BY <1>2, <2>2, <2>4, <2>6, <2>7 DEF t, e
<1>3. CASE m.cmd # "insert"
  <2>1. /\ op.type \in {"Patch", "Void"} /\ op.id \in DOMAIN s.records
        /\ op.type = "Patch" => op.patch \in QsoPatch
        /\ op.type = "Void" => op.prev_is_void \in BOOLEAN
    BY <1>3, MutationOp
  <2>2. /\ t.order = s.order /\ DOMAIN t.records = DOMAIN s.records
        /\ t.next_qso_id = s.next_qso_id /\ t.records = Effect(op, s.records)
    BY <1>3, MutateInv, MutateEffect
  <2>3. s.records[op.id] \in QsoRecord
    BY <2>1 DEF Inv, CoreOf, CoreOK
  <2> HIDE DEF t, op, e
  <2>4. OpTyped(e)
    <3>1. CASE op.type = "Patch"
      <4>1. e = PatchOp(op.id, op.patch, CaptureInverseFor(op.patch, s.records[op.id]))
        BY <1>1, <3>1 DEF Emitted
      <4>2. CaptureInverseFor(op.patch, s.records[op.id]) \in QsoPatch
        BY <2>1, <2>3, <3>1, CaptureInverseType
      <4>3. e.type = "Patch" /\ e.prev = CaptureInverseFor(op.patch, s.records[op.id])
        BY <4>1 DEF PatchOp
      <4> QED BY <4>2, <4>3 DEF OpTyped
    <3>2. CASE op.type = "Void"
      BY <1>1, <2>1, <3>2 DEF Emitted, OpTyped
    <3> QED BY <2>1, <3>1, <3>2
  <2>5. \A id \in DOMAIN s.records : id # e.id => t.records[id] = s.records[id]
    BY <1>1, <2>2 DEF Effect
  <2>6. \A id : Before(t, id) = Before(s, id)
    BY <2>2 DEF Before
  <2> QED BY <1>3, <2>2, <2>4, <2>5, <2>6 DEF t, e
<1> QED BY <1>2, <1>3

(* The projector has seen the record as it is now.                         *)
InStep(id) ==
  /\ id \in DOMAIN proj.applied <=> ~store.records[id]["is_void"]
  /\ id \in DOMAIN proj.applied => shown[id] = store.records[id]

Awaited(id) == \E i \in DOMAIN store.pending_ops : store.pending_ops[i].op.id = id

(* Inductive invariant: the results are right for the records they were    *)
(* made from, and each QSO whose record is another now has an operation    *)
(* that waits.                                                             *)
MatchInv ==
  /\ ProjInv
  /\ store.next_qso_id <= MaxQsos + 1
  /\ Well(proj) /\ Right(proj, store)
  /\ \A id \in DOMAIN proj.applied : proj.applied[id] \in ResultsOf(shown[id])
  /\ \A i \in DOMAIN store.pending_ops : OpTyped(store.pending_ops[i].op)
  /\ \A id \in DOMAIN store.records : InStep(id) \/ Awaited(id)

LEMMA IdsBounded ==
  ASSUME NEW s, Inv(s), s.next_qso_id <= MaxQsos + 1
  PROVE  DOMAIN s.records \subseteq Ids
<1>1. /\ DOMAIN s.records \subseteq QsoId /\ \A id \in DOMAIN s.records : id < s.next_qso_id
      /\ s.next_qso_id \in QsoId
  BY DEF Inv, CoreOf, CoreOK, OrderOK
<1> QED BY <1>1, ProjectorInputsAssumption DEF Ids, QsoId

LEMMA RetractTyped ==
  ASSUME NEW s, Inv(s), NEW op, OpTyped(op), Projectable(s, op), NEW id \in DOMAIN s.records
  PROVE  RecordForRetract(s, id, op.id, OldRecord(s, op)) \in QsoRecord
<1>1. \A x \in DOMAIN s.records : s.records[x] \in QsoRecord
  BY DEF Inv, CoreOf, CoreOK
<1>2. CASE id # op.id \/ op.type = "Insert"
  BY <1>1, <1>2 DEF RecordForRetract, OldRecord
<1>3. CASE id = op.id /\ op.type = "Patch"
  <2> DEFINE rec == ApplyTo(op.prev, s.records[id])
  <2>1. rec \in QsoRecord
    BY <1>1, <1>3, ApplyToType DEF OpTyped
  <2>2. OldRecord(s, op) = {rec}
    BY <1>3 DEF OldRecord
  <2> HIDE DEF rec
  <2>3. (CHOOSE x \in {rec} : TRUE) = rec
    OBVIOUS
  <2> QED BY <1>1, <2>1, <2>2, <2>3 DEF RecordForRetract
<1>4. CASE id = op.id /\ op.type = "Void"
  <2> DEFINE rec == [s.records[id] EXCEPT !["is_void"] = op.prev_is_void]
  <2>1. rec \in QsoRecord
    BY <1>1, <1>4, SetVoidType DEF OpTyped
  <2>2. OldRecord(s, op) = {rec}
    BY <1>4 DEF OldRecord
  <2> HIDE DEF rec
  <2>3. (CHOOSE x \in {rec} : TRUE) = rec
    OBVIOUS
  <2> QED BY <1>1, <2>1, <2>2, <2>3 DEF RecordForRetract
<1> QED BY <1>2, <1>3, <1>4 DEF OpTyped

LEMMA MatchProject ==
  ASSUME LawfulEngine, MatchInv, ProjInv', Project
  PROVE  MatchInv'
<1> DEFINE q    == store.pending_ops
           op   == Head(q).op
           old  == OldRecord(store, op)
           done == IncrementalReconcile(proj, store, op.id, old)
<1>0. PICK S : q \in Seq(S)
  BY DEF MatchInv, ProjInv
<1>1. /\ q # << >> /\ Projectable(store, op) /\ proj' = done.proj
      /\ store' = [store EXCEPT !.pending_ops = Tail(@)]
      /\ shown' = [id \in DOMAIN done.proj.applied |->
                     IF id \in done.impacted THEN store.records[id] ELSE shown[id]]
  BY DEF Project
<1>2. /\ Tail(q) \in Seq(S) /\ DOMAIN Tail(q) = 1..(Len(q) - 1) /\ Len(q) \in Nat
      /\ \A i \in 1..(Len(q) - 1) : Tail(q)[i] = q[i + 1] /\ i + 1 \in DOMAIN q
      /\ DOMAIN q = 1..Len(q) /\ 1 \in DOMAIN q /\ Head(q) = q[1]
  BY <1>0, <1>1
<1>3. Inv(store) /\ OpTyped(op) /\ DOMAIN store.records \subseteq Ids
  BY <1>2, IdsBounded DEF MatchInv, ProjInv
<1>4. DOMAIN store = StoreFields
  BY <1>3, InvNames
<1>5. /\ store'.records = store.records /\ store'.order = store.order
      /\ store'.next_qso_id = store.next_qso_id /\ store'.pending_ops = Tail(q)
  BY <1>1, <1>4 DEF StoreFields
<1> HIDE DEF op, q
<1>6. TurnWell(done, proj, store)
  <2>1. \A id \in DOMAIN store.records : RecordForRetract(store, id, op.id, old) \in QsoRecord
    BY <1>1, <1>3, RetractTyped
  <2>2. Well(proj) /\ ProjOK(proj, DOMAIN store.records)
    BY DEF MatchInv, ProjInv
  <2> HIDE DEF old
  <2> QED BY <1>3, <2>1, <2>2, ReconcileWell
<1>7. done.done /\ TurnOK(done, proj, store, op.id)
  BY <1>3, ReconcileEnds DEF MatchInv, ProjInv
<1> HIDE DEF done, old
<1>8. Right(done.proj, store)
  BY <1>6, <1>7, SettledIsRight DEF MatchInv
<1>9. Settled(done, store)
  BY <1>6, <1>7 DEF TurnWell
<1>10. Right(proj', store')
  BY <1>1, <1>5, <1>8 DEF Right, Before
<1>11. \A id \in DOMAIN proj'.applied : proj'.applied[id] \in ResultsOf(shown'[id])
  <2> TAKE id \in DOMAIN proj'.applied
  <2>1. CASE id \in done.impacted
    BY <1>1, <1>9, <2>1 DEF Settled
  <2>2. CASE id \notin done.impacted
    BY <1>1, <1>6, <2>2 DEF TurnWell, MatchInv
  <2> QED BY <2>1, <2>2
<1>12. \A i \in DOMAIN store'.pending_ops : OpTyped(store'.pending_ops[i].op)
  BY <1>2, <1>5 DEF MatchInv, q
<1>13. ASSUME NEW id \in DOMAIN store.records PROVE InStep(id)' \/ Awaited(id)'
  <2>1. CASE id \in done.impacted
    <3>1. id \in DOMAIN done.proj.applied <=> ~store.records[id]["is_void"]
      BY <1>9, <1>13, <2>1 DEF Settled, Live
    <3>2. id \in DOMAIN done.proj.applied => shown'[id] = store.records[id]
      BY <1>1, <2>1
    <3> QED BY <1>1, <1>5, <3>1, <3>2 DEF InStep
  <2>2. CASE id \notin done.impacted
    <3>1. id # op.id
      BY <1>7, <2>2 DEF TurnOK
    <3>2. /\ id \in DOMAIN done.proj.applied <=> id \in DOMAIN proj.applied
          /\ id \in DOMAIN done.proj.applied => shown'[id] = shown[id]
      BY <1>1, <1>6, <2>2 DEF TurnWell
    <3>3. CASE InStep(id)
      BY <1>1, <1>5, <3>2, <3>3 DEF InStep
    <3>4. CASE Awaited(id)
      <4>1. PICK i \in DOMAIN q : q[i].op.id = id
        BY <3>4 DEF Awaited, q
      <4>2. i # 1
        BY <1>2, <3>1, <4>1 DEF op
      <4>3. i - 1 \in 1..(Len(q) - 1) /\ (i - 1) + 1 = i
        BY <1>2, <4>1, <4>2
      <4>4. Tail(q)[i - 1] = q[i]
        BY <1>2, <4>3
      <4> QED BY <1>2, <1>5, <4>1, <4>3, <4>4 DEF Awaited
    <3> QED BY <1>13, <3>3, <3>4 DEF MatchInv
  <2> QED BY <2>1, <2>2
<1>14. Well(proj') /\ store'.next_qso_id <= MaxQsos + 1
  BY <1>1, <1>5, <1>6 DEF TurnWell, MatchInv
<1>15. \A id \in DOMAIN store'.records : InStep(id)' \/ Awaited(id)'
  BY <1>5, <1>13
<1> QED BY <1>10, <1>11, <1>12, <1>14, <1>15 DEF MatchInv

LEMMA MatchMutate ==
  ASSUME MatchInv, ProjInv', NEW m \in Mutations, MutateStore(m)
  PROVE  MatchInv'
<1> DEFINE q == store.pending_ops
           st == StoredFor(store, m)
           e == st.op
<1>0. PICK S : q \in Seq(S)
  BY DEF MatchInv, ProjInv
<1>1. /\ m \in Mutation /\ Succeeds(store, m) /\ store' = Mutate(store, m) /\ Inv(store)
      /\ proj' = proj /\ shown' = shown
      /\ m.cmd = "insert" => store.next_qso_id <= MaxQsos
  BY ProjectorMutations DEF MutateStore, MatchInv, ProjInv
<1>2. /\ OpTyped(e) /\ DOMAIN store'.records \subseteq DOMAIN store.records \cup {e.id}
      /\ \A id \in DOMAIN store.records : id # e.id => store'.records[id] = store.records[id]
      /\ \A id \in DOMAIN store.records : Before(store', id) = Before(store, id)
      /\ IF m.cmd = "insert" THEN store'.next_qso_id = store.next_qso_id + 1
         ELSE store'.next_qso_id = store.next_qso_id
  BY <1>1, MutateOne
<1>3. store'.pending_ops = Append(q, st)
  BY <1>1, MutateGrows
<1> HIDE DEF st
<1>4. /\ DOMAIN store'.pending_ops = 1..(Len(q) + 1) /\ DOMAIN q = 1..Len(q) /\ Len(q) \in Nat
      /\ \A i \in 1..Len(q) : store'.pending_ops[i] = q[i]
      /\ store'.pending_ops[Len(q) + 1] = st
  <2>1. q \in Seq(S \cup {st}) /\ st \in S \cup {st}
    BY <1>0
  <2> QED BY <1>3, <2>1
<1>5. store'.next_qso_id <= MaxQsos + 1
  <2>1. store.next_qso_id \in QsoId /\ MaxQsos \in Nat /\ store.next_qso_id <= MaxQsos + 1
    BY <1>1, ProjectorInputsAssumption DEF Inv, CoreOf, CoreOK, MatchInv
  <2> QED BY <1>1, <1>2, <2>1 DEF QsoId
<1>6. Right(proj', store')
  <2>1. DOMAIN proj.applied \subseteq DOMAIN store.records /\ Right(proj, store)
    BY DEF MatchInv, ProjInv, ProjOK
  <2> QED BY <1>1, <1>2, <2>1 DEF Right
<1>7. \A i \in DOMAIN store'.pending_ops : OpTyped(store'.pending_ops[i].op)
  <2> TAKE i \in DOMAIN store'.pending_ops
  <2>1. CASE i \in 1..Len(q)
    <3>1. OpTyped(q[i].op)
      BY <1>4, <2>1 DEF MatchInv
    <3> QED BY <1>4, <2>1, <3>1
  <2>2. CASE i = Len(q) + 1
    BY <1>2, <1>4, <2>2
  <2> QED BY <1>4, <2>1, <2>2
<1>8. ASSUME NEW id \in DOMAIN store'.records PROVE InStep(id)' \/ Awaited(id)'
  <2>1. CASE id = e.id
    <3>1. Len(q) + 1 \in DOMAIN store'.pending_ops
      BY <1>4
    <3> QED BY <1>4, <2>1, <3>1 DEF Awaited
  <2>2. CASE id # e.id
    <3>1. id \in DOMAIN store.records /\ store'.records[id] = store.records[id]
      BY <1>2, <1>8, <2>2
    <3>2. CASE InStep(id)
      BY <1>1, <3>1, <3>2 DEF InStep
    <3>3. CASE Awaited(id)
      <4>1. PICK i \in DOMAIN q : q[i].op.id = id
        BY <3>3 DEF Awaited
      <4> QED BY <1>4, <4>1 DEF Awaited
    <3> QED BY <3>1, <3>2, <3>3 DEF MatchInv
  <2> QED BY <2>1, <2>2
<1> QED BY <1>1, <1>5, <1>6, <1>7, <1>8 DEF MatchInv

(* For every lawful engine, all inputs and bounds: once no operation       *)
(* waits, the incremental results, the engine's state and the dependency   *)
(* index are those of a full evaluation of the store, however far the      *)
(* projector was behind in between (engine/projector.rs:77).               *)
THEOREM IncrementalIsFull ==
  ASSUME LawfulEngine
  PROVE  Spec => []ProjectionMatchesRecompute
<1>1. Init => MatchInv
  <2> SUFFICES ASSUME Init PROVE MatchInv
    OBVIOUS
  <2>1. ProjInv
    BY ProjInvInit
  <2>2. /\ proj = NewProjector /\ DOMAIN store.records = {} /\ store.order = << >>
        /\ store.next_qso_id = 1 /\ store.pending_ops = << >>
    BY DEF Init, NewStore, EmptyMap
  <2>3. FullRecompute(store) = NewProjector
    <3>1. Len(store.order) = 0
      BY <2>2
    <3>2. PICK g : /\ ApplyRun(g, NewProjector, store, DOMAIN store.records, 0)
                   /\ ApplyImpacted(NewProjector, store, DOMAIN store.records) = g[0]
      BY <3>1, ApplyImpactedRun
    <3>3. g[0] = NewProjector
      BY <3>2 DEF ApplyRun
    <3> QED BY <2>1, <3>2, <3>3, FullIsApplyAll DEF ProjInv
  <2>4. store.next_qso_id <= MaxQsos + 1
    BY <2>2, ProjectorInputsAssumption
  <2>5. DOMAIN store.records \subseteq Ids
    BY <2>2
  <2>6. Well(proj) /\ Right(proj, store) /\ DOMAIN proj.applied = Live(store)
    BY <2>1, <2>2, <2>3, <2>5, FullIsRight DEF ProjInv
  <2>7. DOMAIN proj.applied = {} /\ DOMAIN store.pending_ops = {}
    BY <2>2, <2>6 DEF Live
  <2> QED BY <2>1, <2>2, <2>4, <2>6, <2>7 DEF MatchInv
<1>2. MatchInv /\ [Next]_vars => MatchInv'
  <2> SUFFICES ASSUME MatchInv, [Next]_vars PROVE MatchInv'
    OBVIOUS
  <2>1. ProjInv'
    BY ProjInvStep DEF MatchInv
  <2>2. CASE Project
    BY <2>1, <2>2, MatchProject
  <2>3. CASE \E m \in Mutations : MutateStore(m)
    BY <2>1, <2>3, MatchMutate
  <2>4. CASE UNCHANGED vars
    BY <2>1, <2>4 DEF vars, MatchInv, InStep, Awaited
  <2> QED BY <2>2, <2>3, <2>4 DEF Next
<1>3. MatchInv => ProjectionMatchesRecompute
  <2> SUFFICES ASSUME MatchInv, store.pending_ops = << >>
               PROVE  proj = FullRecompute(store)
    BY DEF ProjectionMatchesRecompute
  <2> DEFINE full == FullRecompute(store)
  <2>1. Inv(store) /\ DOMAIN store.records \subseteq Ids
    BY IdsBounded DEF MatchInv, ProjInv
  <2>2. /\ Well(full) /\ DOMAIN full.applied = Live(store) /\ Right(full, store)
        /\ \A id \in Live(store) : full.applied[id] \in ResultsOf(store.records[id])
    BY <2>1, FullIsRight
  <2> HIDE DEF full
  <2>3. \A id \in DOMAIN store.records : InStep(id)
    BY DEF MatchInv, Awaited
  <2>4. DOMAIN proj.applied \subseteq DOMAIN store.records
    BY DEF MatchInv, ProjInv, ProjOK
  <2>5. DOMAIN proj.applied = Live(store)
    BY <2>3, <2>4 DEF InStep, Live
  <2>6. \A id \in Live(store) : proj.applied[id] \in ResultsOf(store.records[id])
    BY <2>3, <2>5 DEF InStep, Live, MatchInv
  <2>7. \A id \in Live(store) : store.records[id] \in QsoRecord
    BY <2>1 DEF Live, Inv, CoreOf, CoreOK
  <2>8. Well(proj) /\ Right(proj, store)
    BY DEF MatchInv
  <2>9. proj = full
    BY <2>2, <2>5, <2>6, <2>7, <2>8, RightIsUnique
  <2> QED BY <2>9 DEF full
<1> QED BY <1>1, <1>2, <1>3, PTL DEF Spec

==============================================================================
