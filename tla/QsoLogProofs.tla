----------------------------- MODULE QsoLogProofs -----------------------------
(***************************************************************************)
(* Proofs about QsoLog, for every configuration, every set of drafts and   *)
(* patches, every bound and every failure.  First lemmas about the journal *)
(* operators of SqliteJournal and about the part of a store that numbers   *)
(* operations: what load_store, a mutation and its rollback do to          *)
(* next_op_seq, whatever the records are.  Then the shape of the state and *)
(* of the conversation between the loop and the worker, where the accepted *)
(* operations are between the loop and the disk, and what an answer that   *)
(* vouches for them is worth.                                              *)
(***************************************************************************)
EXTENDS QsoLog, QsoStoreOpsProofs

------------------------------------------------------------------------------
(* Sequences over whatever set                                             *)

IsSeq(q) == \E S : q \in Seq(S)

(* The elements, the domain and the length of a sequence.                  *)
LEMMA SeqFacts ==
  ASSUME NEW q, IsSeq(q)
  PROVE  Len(q) \in Nat /\ DOMAIN q = 1..Len(q) /\ (q = << >> <=> Len(q) = 0)
<1>1. PICK S : q \in Seq(S)
  BY DEF IsSeq
<1> QED
  BY <1>1

(* The empty sequence.                                                     *)
LEMMA SeqEmpty == IsSeq(<< >>) /\ Len(<< >>) = 0 /\ DOMAIN << >> = 1..0
<1>1. << >> \in Seq({})
  OBVIOUS
<1> QED
  BY <1>1 DEF IsSeq

(* A push at the end of a channel or buffer.                               *)
LEMMA SeqAppend ==
  ASSUME NEW q, IsSeq(q), NEW e
  PROVE  /\ IsSeq(Append(q, e)) /\ Len(Append(q, e)) = Len(q) + 1
         /\ Append(q, e) # << >>
         /\ DOMAIN Append(q, e) = 1..(Len(q) + 1)
         /\ \A i \in 1..Len(q) : Append(q, e)[i] = q[i]
         /\ Append(q, e)[Len(q) + 1] = e
<1>1. PICK S : q \in Seq(S)
  BY DEF IsSeq
<1> DEFINE T == S \cup {e}
<1>2. q \in Seq(T) /\ e \in T
  BY <1>1
<1> HIDE DEF T
<1>3. Append(q, e) \in Seq(T)
  BY <1>2
<1> QED
  BY <1>2, <1>3 DEF IsSeq

(* A receive from a channel.                                               *)
LEMMA SeqTail ==
  ASSUME NEW q, IsSeq(q), q # << >>
  PROVE  /\ IsSeq(Tail(q)) /\ Len(Tail(q)) = Len(q) - 1 /\ Head(q) = q[1] /\ 1 \in DOMAIN q
         /\ \A i \in DOMAIN Tail(q) : i + 1 \in DOMAIN q /\ Tail(q)[i] = q[i + 1]
<1>1. PICK S : q \in Seq(S)
  BY DEF IsSeq
<1>2. Tail(q) \in Seq(S)
  BY <1>1
<1> QED
  BY <1>1, <1>2 DEF IsSeq

(* The last element of a sequence that is not empty.                       *)
LEMMA SeqLast ==
  ASSUME NEW q, IsSeq(q), q # << >>
  PROVE  Len(q) \in DOMAIN q /\ Last(q) = q[Len(q)]
<1>1. PICK S : q \in Seq(S)
  BY DEF IsSeq
<1> QED
  BY <1>1 DEF Last

(* A pop from a stack.                                                     *)
LEMMA SeqFront ==
  ASSUME NEW q, IsSeq(q), q # << >>
  PROVE  /\ IsSeq(Front(q)) /\ Len(Front(q)) = Len(q) - 1
         /\ \A i \in DOMAIN Front(q) : i \in DOMAIN q /\ Front(q)[i] = q[i]
<1>1. PICK S : q \in Seq(S)
  BY DEF IsSeq
<1> DEFINE n == Len(q) - 1
<1>2. n \in Nat /\ n <= Len(q)
  BY <1>1
<1>3. Front(q) = SubSeq(q, 1, n)
  BY DEF Front
<1> HIDE DEF n
<1>4. /\ SubSeq(q, 1, n) \in Seq(S) /\ Len(SubSeq(q, 1, n)) = n
      /\ \A i \in 1..n : SubSeq(q, 1, n)[i] = q[i]
  BY <1>1, <1>2
<1> DEFINE f == SubSeq(q, 1, n)
<1>5. DOMAIN f = 1..n /\ DOMAIN q = 1..Len(q)
  BY <1>1, <1>4
<1> HIDE DEF f
<1>6. \A i \in DOMAIN f : i \in DOMAIN q /\ f[i] = q[i]
  BY <1>1, <1>2, <1>4, <1>5 DEF f
<1>7. IsSeq(f)
  BY <1>4 DEF IsSeq, f
<1> QED
  BY <1>3, <1>4, <1>6, <1>7 DEF f, n

(* Vec::truncate.                                                          *)
LEMMA SeqTruncate ==
  ASSUME NEW q, IsSeq(q), NEW n \in Nat
  PROVE  /\ IsSeq(Truncate(q, n))
         /\ \A i \in DOMAIN Truncate(q, n) : i \in DOMAIN q /\ Truncate(q, n)[i] = q[i]
<1>1. PICK S : q \in Seq(S)
  BY DEF IsSeq
<1>2. CASE Len(q) <= n
  BY <1>1, <1>2 DEF Truncate, IsSeq
<1>3. CASE ~ (Len(q) <= n)
  <2>1. /\ SubSeq(q, 1, n) \in Seq(S) /\ Len(SubSeq(q, 1, n)) = n
        /\ \A i \in 1..n : SubSeq(q, 1, n)[i] = q[i]
    BY <1>1, <1>3
  <2>2. Truncate(q, n) = SubSeq(q, 1, n)
    BY <1>3 DEF Truncate
  <2> DEFINE t == Truncate(q, n)
  <2>3. IsSeq(t)
    BY <2>1, <2>2 DEF IsSeq
  <2>4. DOMAIN t = 1..n /\ \A i \in 1..n : t[i] = q[i]
    BY <2>1, <2>2
  <2>5. \A i \in 1..n : i \in DOMAIN q
    BY <1>1, <1>3
  <2> HIDE DEF t
  <2>6. \A i \in DOMAIN t : i \in DOMAIN q /\ t[i] = q[i]
    BY <2>4, <2>5
  <2> QED BY <2>3, <2>6 DEF t
<1> QED
  BY <1>1, <1>2, <1>3

------------------------------------------------------------------------------
(* Ascending enumerates every finite set of numbers                        *)

Enumerates(w, n, P) ==
  /\ n \in Nat /\ w \in [1..n -> P]
  /\ \A p \in P : \E k \in 1..n : w[k] = p
  /\ \A k, l \in 1..n : k < l => w[k] < w[l]

(* An enumeration and a greater number.                                    *)
LEMMA EnumeratesMore ==
  ASSUME NEW P \in SUBSET Nat, NEW n, NEW w, Enumerates(w, n, P), NEW x \in Nat, \A p \in P : p < x
  PROVE  \E m, v : Enumerates(v, m, P \cup {x})
<1> DEFINE m == n + 1
           v == [k \in 1..m |-> IF k = m THEN x ELSE w[k]]
           Q == P \cup {x}
<1>1. /\ n \in Nat /\ w \in [1..n -> P]
      /\ \A p \in P : \E k \in 1..n : w[k] = p
      /\ \A k, l \in 1..n : k < l => w[k] < w[l]
  BY DEF Enumerates
<1>2. /\ m \in Nat /\ m \in 1..m /\ v[m] = x /\ \A k \in 1..n : k \in 1..m /\ v[k] = w[k]
      /\ \A k \in 1..m : k = m \/ k \in 1..n
  BY <1>1
<1>3. v \in [1..m -> Q]
  BY <1>1, <1>2
<1> HIDE DEF m, v
<1>4. \A p \in Q : \E k \in 1..m : v[k] = p
  BY <1>1, <1>2
<1>5. ASSUME NEW k \in 1..m, NEW l \in 1..m, k < l PROVE v[k] < v[l]
  <2>1. k \in 1..n
    BY <1>2, <1>5 DEF m
  <2>2. CASE l = m
    BY <1>1, <1>2, <2>1, <2>2
  <2>3. CASE l \in 1..n
    BY <1>1, <1>2, <1>5, <2>1, <2>3
  <2> QED BY <1>2, <2>2, <2>3
<1>6. Enumerates(v, m, Q)
  BY <1>2, <1>3, <1>4, <1>5 DEF Enumerates
<1> QED
  BY <1>6

(* Every set of numbers below a bound has one: the least bound for which   *)
(* some set had none would give one for the bound before it.               *)
LEMMA EnumerationExists ==
  ASSUME NEW N \in Nat, NEW P \in SUBSET (1..N)
  PROVE  \E n, w : Enumerates(w, n, P)
<1> DEFINE Bad == {M \in Nat : \E Q \in SUBSET (1..M) : ~ \E n, w : Enumerates(w, n, Q)}
<1> SUFFICES ASSUME Bad # {} PROVE FALSE
  OBVIOUS
<1>1. PICK M \in Bad : \A K \in Bad : M <= K
  <2>1. Bad \in SUBSET Nat
    OBVIOUS
  <2> HIDE DEF Bad
  <2> QED BY <2>1, LeastNatural
<1>2. M \in Nat /\ \A K \in Nat : K < M => \A Q \in SUBSET (1..K) : \E n, w : Enumerates(w, n, Q)
  <2>1. M \in Nat /\ \A K \in Nat : K < M => K \notin Bad
    BY <1>1
  <2> QED BY <2>1
<1>3. PICK Q \in SUBSET (1..M) : ~ \E n, w : Enumerates(w, n, Q)
  BY <1>1
<1>4. CASE M = 0
  <2> DEFINE w == [k \in 1..0 |-> 0]
  <2>1. Q = {}
    BY <1>3, <1>4
  <2>2. w \in [1..0 -> Q]
    OBVIOUS
  <2>3. Enumerates(w, 0, Q)
    BY <2>1, <2>2 DEF Enumerates
  <2> QED BY <1>3, <2>3
<1>5. CASE M # 0
  <2> DEFINE R == Q \ {M}
  <2>1. M - 1 \in Nat /\ M - 1 < M /\ R \in SUBSET (1..(M - 1)) /\ R \in SUBSET Nat
    BY <1>2, <1>3, <1>5
  <2>2. \A p \in R : p < M
    BY <1>2, <2>1
  <2>3. Q = R \/ Q = R \cup {M}
    OBVIOUS
  <2> HIDE DEF R
  <2>4. PICK n, w : Enumerates(w, n, R)
    BY <1>2, <2>1
  <2>5. \E m, v : Enumerates(v, m, R \cup {M})
    BY <1>2, <2>1, <2>2, <2>4, EnumeratesMore
  <2> QED BY <1>3, <2>3, <2>4, <2>5
<1> QED
  BY <1>4, <1>5

(* So Ascending is an increasing enumeration.                              *)
LEMMA AscendingEnumerates ==
  ASSUME NEW N \in Nat, NEW P \in SUBSET (1..N)
  PROVE  \E n \in Nat : Enumerates(Ascending(P), n, P)
<1>1. PICK n, w : Enumerates(w, n, P)
  BY EnumerationExists
<1>2. P \in SUBSET Nat
  OBVIOUS
<1>3. /\ n \in Nat /\ w \in [1..n -> P]
      /\ \A p \in P : \E k \in 1..n : w[k] = p
      /\ \A k, l \in 1..n : k < l => w[k] < w[l]
  BY <1>1 DEF Enumerates
<1>4. /\ Ascending(P) \in [1..n -> P]
      /\ \A p \in P : \E k \in 1..n : Ascending(P)[k] = p
      /\ \A k, l \in 1..n : k < l => Ascending(P)[k] < Ascending(P)[l]
  BY <1>2, <1>3, AscendingProps
<1> QED
  BY <1>3, <1>4 DEF Enumerates

------------------------------------------------------------------------------
(* The numbering part of a store                                           *)

OpTypes == {"Insert", "Patch", "Void"}

StackTypes(stack) == IsSeq(stack) /\ \A i \in DOMAIN stack : stack[i].type \in {"Patch", "Void"}

(* A store with its fields, a next sequence number, and stacks that hold   *)
(* no Insert.  Much weaker than Inv, and kept by any replay.               *)
Frame(s) == /\ DOMAIN s = StoreFields
            /\ s.next_op_seq \in OpSeq
            /\ StackTypes(s.undo) /\ StackTypes(s.redo)

(* Applying an operation moves the next sequence number past it and leaves *)
(* the stacks and the buffer alone.                                        *)
LEMMA ApplyFrame ==
  ASSUME NEW s, DOMAIN s = StoreFields, NEW op, op.type \in OpTypes, NEW n
  PROVE  LET a == ApplyWithSeq(s, op, n)
         IN  /\ DOMAIN a = StoreFields /\ a.next_op_seq = MaxOf(s.next_op_seq, n + 1)
             /\ a.undo = s.undo /\ a.redo = s.redo /\ a.pending_ops = s.pending_ops
<1>1. CASE op.type = "Insert"
  BY <1>1 DEF ApplyWithSeq, ApplyInsertWithSeq, BumpNextSeqFrom, StoreFields
<1>2. CASE op.type = "Patch"
  BY <1>2 DEF ApplyWithSeq, ApplyPatchWithSeq, PatchInPlace, BumpNextSeqFrom, StoreFields
<1>3. CASE op.type = "Void"
  BY <1>3 DEF ApplyWithSeq, ApplyVoidWithSeq, SetVoid, BumpNextSeqFrom, StoreFields
<1> QED
  BY <1>1, <1>2, <1>3 DEF OpTypes

(* The operation a call applies, the one it emits and the inverse.         *)
LEMMA OpForFrame ==
  ASSUME NEW s, Frame(s), NEW m \in Mutation, Succeeds(s, m)
  PROVE  /\ OpFor(s, m).type \in OpTypes
         /\ StoredFor(s, m).op.type \in OpTypes /\ StoredFor(s, m).seq = s.next_op_seq
         /\ StoredFor(s, m) = StoredOp(StoredFor(s, m).seq, StoredFor(s, m).op)
         /\ \A t : InverseOf(t, OpFor(s, m)).type \in {"Patch", "Void"}
<1> DEFINE op == OpFor(s, m)
<1>1. op.type \in OpTypes
  <2>1. CASE m.cmd = "insert"
    BY <2>1 DEF OpFor, InsertOp, OpTypes
  <2>2. CASE m.cmd = "patch"
    BY <2>2 DEF OpFor, PatchOp, OpTypes
  <2>3. CASE m.cmd = "void"
    BY <2>3 DEF OpFor, VoidOp, OpTypes
  <2>4. CASE m.cmd = "undo"
    <3>1. s.undo # << >> /\ op = Last(s.undo)
      BY <2>4 DEF OpFor, Succeeds
    <3> QED BY <3>1, SeqLast DEF Frame, StackTypes, OpTypes
  <2>5. CASE m.cmd = "redo"
    <3>1. s.redo # << >> /\ op = Last(s.redo)
      BY <2>5 DEF OpFor, Succeeds
    <3> QED BY <3>1, SeqLast DEF Frame, StackTypes, OpTypes
  <2> QED
    BY <2>1, <2>2, <2>3, <2>4, <2>5 DEF Mutation, InsertCmd, PatchCmd, VoidCmd, UndoCmd, RedoCmd
<1> HIDE DEF op
<1>2. \A t : InverseOf(t, op).type \in {"Patch", "Void"}
  BY <1>1 DEF InverseOf, OpTypes, PatchOp, VoidOp
<1>3. Emitted(s, op).type \in OpTypes
  BY <1>1 DEF Emitted, OpTypes, PatchOp
<1> QED
  BY <1>1, <1>2, <1>3 DEF StoredFor, StoredOp, op

(* A push on a stack.                                                      *)
LEMMA StackTypesPush ==
  ASSUME NEW stack, StackTypes(stack), NEW op, op.type \in {"Patch", "Void"}
  PROVE  StackTypes(Append(stack, op))
<1> DEFINE q == Append(stack, op)
<1>1. /\ IsSeq(q) /\ DOMAIN q = 1..(Len(stack) + 1) /\ Len(stack) \in Nat
      /\ \A i \in 1..Len(stack) : q[i] = stack[i] /\ i \in DOMAIN stack
      /\ q[Len(stack) + 1] = op
  BY SeqAppend, SeqFacts DEF StackTypes
<1> HIDE DEF q
<1>2. \A i \in DOMAIN q : i \in 1..Len(stack) \/ i = Len(stack) + 1
  BY <1>1
<1>3. \A i \in DOMAIN q : q[i].type \in {"Patch", "Void"}
  BY <1>1, <1>2 DEF StackTypes
<1> QED
  BY <1>1, <1>3 DEF StackTypes, q

(* A mutation takes one sequence number and buffers its operation.         *)
LEMMA MutateFrame ==
  ASSUME NEW s, Frame(s), NEW m \in Mutation, Succeeds(s, m)
  PROVE  LET t == ClearPendingOps(Mutate(s, m))
         IN  Frame(t) /\ t.next_op_seq = s.next_op_seq + 1 /\ t.pending_ops = << >>
<1> DEFINE op == OpFor(s, m)
           st == StoredFor(s, m)
           b  == IF m.cmd = "insert" THEN [s EXCEPT !.next_qso_id = @ + 1] ELSE s
           c  == [b EXCEPT !.next_op_seq = @ + 1]
           a  == ApplyWithSeq(c, op, s.next_op_seq)
           u  == Mutate(s, m)
           t  == ClearPendingOps(u)
<1>0. /\ DOMAIN s = StoreFields /\ s.next_op_seq \in OpSeq /\ s.next_op_seq + 1 \in OpSeq
      /\ StackTypes(s.undo) /\ StackTypes(s.redo)
  BY DEF Frame, OpSeq
<1>1. op.type \in OpTypes /\ \A x : InverseOf(x, op).type \in {"Patch", "Void"}
  BY OpForFrame
<1>2. /\ DOMAIN b = StoreFields /\ b.next_op_seq = s.next_op_seq
      /\ b.undo = s.undo /\ b.redo = s.redo
  BY <1>0 DEF StoreFields
<1>3. DOMAIN c = StoreFields /\ c.next_op_seq = s.next_op_seq + 1
      /\ c.undo = s.undo /\ c.redo = s.redo
  <2> HIDE DEF b
  <2> QED BY <1>2 DEF StoreFields
<1> HIDE DEF op, st
<1>4. ApplyOp(b, op) = a
  BY <1>2 DEF ApplyOp
<1> HIDE DEF c
<1>5. /\ DOMAIN a = StoreFields /\ a.next_op_seq = MaxOf(s.next_op_seq + 1, s.next_op_seq + 1)
      /\ a.undo = s.undo /\ a.redo = s.redo
  BY <1>1, <1>3, ApplyFrame
<1>6. a.next_op_seq = s.next_op_seq + 1
  BY <1>0, <1>5 DEF MaxOf, OpSeq
<1> HIDE DEF a
<1>7. /\ StackTypes(<< >>)
      /\ \A x : StackTypes(Append(s.undo, InverseOf(x, op))) /\ StackTypes(Append(s.redo, InverseOf(x, op)))
  <2>1. StackTypes(<< >>)
    BY SeqEmpty DEF StackTypes
  <2> QED BY <1>0, <1>1, <2>1, StackTypesPush
<1>8. \A stack : StackTypes(stack) /\ stack # << >> => StackTypes(Front(stack))
  BY SeqFront DEF StackTypes
<1>9. DOMAIN u = StoreFields /\ u.next_op_seq = s.next_op_seq + 1
      /\ StackTypes(u.undo) /\ StackTypes(u.redo)
  <2>1. CASE m.cmd = "insert"
    <3>1. b = [s EXCEPT !.next_qso_id = @ + 1]
      BY <2>1
    <3>2. u = [ApplyOp(b, op) EXCEPT !.undo = Append(@, InverseOf(b, op)), !.redo = << >>,
                                     !.pending_ops = Append(@, st)]
      BY <2>1, <3>1 DEF Mutate, Insert, Commit, op, st
    <3>3. u = [a EXCEPT !.undo = Append(s.undo, InverseOf(b, op)), !.redo = << >>,
                        !.pending_ops = Append(a.pending_ops, st)]
      BY <1>4, <1>5, <3>2 DEF StoreFields
    <3> HIDE DEF u, b
    <3> QED BY <1>5, <1>6, <1>7, <3>3 DEF StoreFields
  <2>2. CASE m.cmd \in {"patch", "void"}
    <3>1. b = s
      BY <2>2
    <3>2. u = [ApplyOp(b, op) EXCEPT !.undo = Append(@, InverseOf(s, op)), !.redo = << >>,
                                     !.pending_ops = Append(@, st)]
      BY <2>2, <3>1 DEF Mutate, PatchOrVoid, Commit, op, st
    <3>3. u = [a EXCEPT !.undo = Append(s.undo, InverseOf(s, op)), !.redo = << >>,
                        !.pending_ops = Append(a.pending_ops, st)]
      BY <1>4, <1>5, <3>2 DEF StoreFields
    <3> HIDE DEF u, b
    <3> QED BY <1>5, <1>6, <1>7, <3>3 DEF StoreFields
  <2>3. CASE m = UndoCmd
    <3>1. m.cmd = "undo" /\ op = Last(s.undo) /\ b = s /\ s.undo # << >>
      BY <2>3 DEF UndoCmd, op, OpFor, Succeeds
    <3>2. u = [ApplyOp(b, op) EXCEPT !.undo = Front(@), !.redo = Append(@, InverseOf(s, op)),
                                     !.pending_ops = Append(@, StoredFor(s, UndoCmd))]
      BY <2>3, <3>1 DEF Mutate, Undo
    <3>3. u = [a EXCEPT !.undo = Front(s.undo), !.redo = Append(s.redo, InverseOf(s, op)),
                        !.pending_ops = Append(a.pending_ops, StoredFor(s, UndoCmd))]
      BY <1>4, <1>5, <3>2 DEF StoreFields
    <3> HIDE DEF u, b
    <3>4. StackTypes(Front(s.undo))
      BY <1>0, <1>8, <3>1
    <3> QED BY <1>5, <1>6, <1>7, <3>3, <3>4 DEF StoreFields
  <2>4. CASE m = RedoCmd
    <3>1. m.cmd = "redo" /\ op = Last(s.redo) /\ b = s /\ s.redo # << >>
      BY <2>4 DEF RedoCmd, op, OpFor, Succeeds
    <3>2. u = [ApplyOp(b, op) EXCEPT !.redo = Front(@), !.undo = Append(@, InverseOf(s, op)),
                                     !.pending_ops = Append(@, StoredFor(s, RedoCmd))]
      BY <2>4, <3>1 DEF Mutate, Redo
    <3>3. u = [a EXCEPT !.undo = Append(s.undo, InverseOf(s, op)), !.redo = Front(s.redo),
                        !.pending_ops = Append(a.pending_ops, StoredFor(s, RedoCmd))]
      BY <1>4, <1>5, <3>2 DEF StoreFields
    <3> HIDE DEF u, b
    <3>4. StackTypes(Front(s.redo))
      BY <1>0, <1>8, <3>1
    <3> QED BY <1>5, <1>6, <1>7, <3>3, <3>4 DEF StoreFields
  <2> QED
    BY <2>1, <2>2, <2>3, <2>4 DEF Mutation, InsertCmd, PatchCmd, VoidCmd
<1> HIDE DEF u
<1>10. /\ DOMAIN t = StoreFields /\ t.next_op_seq = u.next_op_seq /\ t.undo = u.undo
       /\ t.redo = u.redo /\ t.pending_ops = << >>
  BY <1>9 DEF ClearPendingOps, StoreFields
<1> HIDE DEF t
<1>11. Frame(t) /\ t.next_op_seq = s.next_op_seq + 1 /\ t.pending_ops = << >>
  BY <1>0, <1>9, <1>10 DEF Frame
<1> QED
  BY <1>11 DEF t, u

(* A rollback takes the sequence number of the checkpoint again.           *)
LEMMA RollbackFrame ==
  ASSUME NEW s, Frame(s), NEW c, c.next_op_seq \in OpSeq, c.undo_len \in Nat, c.redo_len \in Nat,
         NEW stored, stored.op.type \in OpTypes
  PROVE  LET t == RollbackMutation(s, c, stored)
         IN  Frame(t) /\ t.next_op_seq = c.next_op_seq
<1> DEFINE r == RollbackOp(s, stored.op)
           t == RollbackMutation(s, c, stored)
<1>0. DOMAIN s = StoreFields /\ StackTypes(s.undo) /\ StackTypes(s.redo)
  BY DEF Frame
<1>1. DOMAIN r = StoreFields /\ r.undo = s.undo /\ r.redo = s.redo
  <2>1. CASE stored.op.type = "Insert"
    BY <1>0, <2>1 DEF RollbackOp, RollbackInsert, StoreFields
  <2>2. CASE stored.op.type = "Patch"
    BY <1>0, <2>2 DEF RollbackOp, PatchInPlace, StoreFields
  <2>3. CASE stored.op.type = "Void"
    BY <1>0, <2>3 DEF RollbackOp, SetVoid, StoreFields
  <2> QED BY <2>1, <2>2, <2>3 DEF OpTypes
<1>2. t = [r EXCEPT !.next_op_seq = c.next_op_seq, !.next_qso_id = c.next_qso_id,
                    !.undo = Truncate(@, c.undo_len), !.redo = Truncate(@, c.redo_len),
                    !.pending_ops = Truncate(@, c.pending_ops_len)]
  BY DEF RollbackMutation
<1> HIDE DEF r, t
<1>3. /\ DOMAIN t = StoreFields /\ t.next_op_seq = c.next_op_seq
      /\ t.undo = Truncate(s.undo, c.undo_len) /\ t.redo = Truncate(s.redo, c.redo_len)
  BY <1>1, <1>2 DEF StoreFields
<1>4. \A stack, n : StackTypes(stack) /\ n \in Nat => StackTypes(Truncate(stack, n))
  BY SeqTruncate DEF StackTypes
<1>5. Frame(t) /\ t.next_op_seq = c.next_op_seq
  BY <1>0, <1>3, <1>4 DEF Frame
<1> QED
  BY <1>5 DEF t

(* A checkpoint's numbers.                                                 *)
LEMMA CheckpointFrame ==
  ASSUME NEW s, Frame(s)
  PROVE  LET c == MutationCheckpoint(s)
         IN  /\ c.next_op_seq = s.next_op_seq /\ c.next_op_seq \in OpSeq
             /\ c.undo_len \in Nat /\ c.redo_len \in Nat
  BY SeqFacts DEF Frame, StackTypes, MutationCheckpoint

(* A patch of a missing id.                                                *)
LEMMA FailedFrame ==
  ASSUME NEW s, Frame(s), NEW m, m.cmd = "patch"
  PROVE  Frame(FailedStore(s, m)) /\ FailedStore(s, m).next_op_seq = s.next_op_seq + 1
<1> DEFINE t == [s EXCEPT !.next_op_seq = @ + 1]
<1>1. /\ DOMAIN t = StoreFields /\ t.undo = s.undo /\ t.redo = s.redo
      /\ t.next_op_seq = s.next_op_seq + 1
  BY DEF Frame, StoreFields
<1>2. FailedStore(s, m) = t
  BY DEF FailedStore
<1> HIDE DEF t
<1> QED
  BY <1>1, <1>2 DEF Frame, OpSeq

(* A restored store.                                                       *)
LEMMA RestoreFrame ==
  ASSUME NEW snap, snap.next_op_seq \in OpSeq
  PROVE  Frame(FromSnapshot(snap)) /\ FromSnapshot(snap).next_op_seq = snap.next_op_seq
<1> DEFINE t == FromSnapshot(snap)
<1>1. /\ DOMAIN t = StoreFields /\ t.next_op_seq = snap.next_op_seq
      /\ t.undo = << >> /\ t.redo = << >>
  BY DEF FromSnapshot, NewStore, StoreFields
<1> HIDE DEF t
<1>2. StackTypes(<< >>)
  BY SeqEmpty DEF StackTypes
<1> QED
  BY <1>1, <1>2 DEF Frame, t

(* A replayed operation.                                                   *)
LEMMA ReplayFrame ==
  ASSUME NEW s, Frame(s), NEW e, e.op.type \in OpTypes, e.seq \in OpSeq
  PROVE  /\ Frame(ApplyReplayedOp(s, e))
         /\ ApplyReplayedOp(s, e).next_op_seq >= s.next_op_seq
         /\ ApplyReplayedOp(s, e).next_op_seq > e.seq
<1> DEFINE a == ApplyWithSeq(s, e.op, e.seq)
           t == ApplyReplayedOp(s, e)
<1>1. DOMAIN a = StoreFields /\ a.next_op_seq = MaxOf(s.next_op_seq, e.seq + 1)
  BY ApplyFrame DEF Frame
<1>2. t = [a EXCEPT !.undo = << >>, !.redo = << >>]
  BY DEF ApplyReplayedOp
<1> HIDE DEF a, t
<1>3. /\ DOMAIN t = StoreFields /\ t.next_op_seq = MaxOf(s.next_op_seq, e.seq + 1)
      /\ t.undo = << >> /\ t.redo = << >>
  BY <1>1, <1>2 DEF StoreFields
<1>4. StackTypes(<< >>)
  BY SeqEmpty DEF StackTypes
<1>5. /\ t.next_op_seq \in OpSeq /\ t.next_op_seq >= s.next_op_seq /\ t.next_op_seq > e.seq
  BY <1>3 DEF Frame, OpSeq, MaxOf
<1> QED
  BY <1>3, <1>4, <1>5 DEF Frame, t

------------------------------------------------------------------------------
(* load_store                                                              *)

(* The tail of the journal, in the order of its sequence numbers.          *)
LEMMA LoadEventsOK ==
  ASSUME NEW N \in Nat, NEW d, DOMAIN d.events \subseteq 1..N, NEW seq
  PROVE  LET E == LoadEventsAfter(d, seq)
         IN  /\ IsSeq(E)
             /\ \A k \in DOMAIN E : /\ E[k].seq \in DOMAIN d.events /\ E[k].seq > seq
                                    /\ E[k].op = d.events[E[k].seq]
                                    /\ E[k] = StoredOp(E[k].seq, E[k].op)
             /\ \A n \in DOMAIN d.events : n > seq => \E k \in DOMAIN E : E[k].seq = n
             /\ \A k, l \in DOMAIN E : k < l => E[k].seq < E[l].seq
<1> DEFINE P  == {n \in DOMAIN d.events : n > seq}
           at == Ascending(P)
           E  == LoadEventsAfter(d, seq)
<1>1. P \in SUBSET (1..N)
  OBVIOUS
<1> HIDE DEF P
<1>2. PICK n \in Nat : Enumerates(at, n, P)
  BY <1>1, AscendingEnumerates
<1>3. /\ at \in [1..n -> P] /\ DOMAIN at = 1..n
      /\ \A p \in P : \E k \in 1..n : at[k] = p
      /\ \A k, l \in 1..n : k < l => at[k] < at[l]
  BY <1>2 DEF Enumerates
<1>4. E = [k \in DOMAIN at |-> StoredOp(at[k], d.events[at[k]])]
  BY DEF LoadEventsAfter, P
<1> HIDE DEF at, E
<1>5. /\ DOMAIN E = 1..n
      /\ \A k \in 1..n : E[k] = StoredOp(at[k], d.events[at[k]])
  BY <1>3, <1>4
<1>6. \A k \in 1..n : E[k].seq = at[k] /\ E[k].op = d.events[at[k]]
  BY <1>5 DEF StoredOp
<1>7. IsSeq(E)
  <2> DEFINE S == {E[k] : k \in 1..n}
  <2>1. E = [k \in 1..n |-> E[k]] /\ \A k \in 1..n : E[k] \in S
    BY <1>3, <1>4, <1>5
  <2> HIDE DEF S
  <2>2. E \in [1..n -> S]
    BY <2>1
  <2>3. E \in Seq(S)
    BY <1>2, <2>2
  <2> QED BY <2>3 DEF IsSeq
<1>8. \A k \in 1..n : at[k] \in DOMAIN d.events /\ at[k] > seq
  BY <1>3 DEF P
<1>9. \A m \in DOMAIN d.events : m > seq => \E k \in 1..n : at[k] = m
  BY <1>3 DEF P
<1>10. \A k \in DOMAIN E : /\ E[k].seq \in DOMAIN d.events /\ E[k].seq > seq
                           /\ E[k].op = d.events[E[k].seq]
                           /\ E[k] = StoredOp(E[k].seq, E[k].op)
  BY <1>5, <1>6, <1>8
<1>11. \A m \in DOMAIN d.events : m > seq => \E k \in DOMAIN E : E[k].seq = m
  BY <1>5, <1>6, <1>9
<1>12. \A k, l \in DOMAIN E : k < l => E[k].seq < E[l].seq
  BY <1>3, <1>5, <1>6
<1> QED
  BY <1>7, <1>10, <1>11, <1>12 DEF E

(* g lists the loads of the first n events.                                *)
LoadRun(g, base, events, n) ==
  /\ DOMAIN g = 0..n
  /\ g[0] = [ok |-> TRUE, store |-> base]
  /\ \A i \in 1..n : g[i] = LoadEvent(g[i - 1], events[i])

(* There is such a list, by the argument of ReplayRunExists.               *)
LEMMA LoadRunExists ==
  ASSUME NEW base, NEW events, NEW N \in Nat
  PROVE  \E g : LoadRun(g, base, events, N)
<1> DEFINE Bad == {n \in Nat : ~ \E g : LoadRun(g, base, events, n)}
<1> SUFFICES ASSUME Bad # {} PROVE FALSE
  OBVIOUS
<1>1. PICK n \in Bad : \A k \in Bad : n <= k
  <2>1. Bad \in SUBSET Nat
    OBVIOUS
  <2> HIDE DEF Bad
  <2> QED BY <2>1, LeastNatural
<1>2. CASE n = 0
  <2> DEFINE first == [ok |-> TRUE, store |-> base]
             g == [i \in 0..0 |-> first]
  <2> HIDE DEF first
  <2>1. DOMAIN g = 0..0 /\ g[0] = first /\ \A i \in 1..0 : FALSE
    OBVIOUS
  <2> HIDE DEF g
  <2>2. LoadRun(g, base, events, 0)
    BY <2>1 DEF LoadRun, first
  <2> QED BY <1>1, <1>2, <2>2
<1>3. CASE n # 0
  <2>1. n - 1 \in Nat /\ n - 1 \notin Bad
    BY <1>1, <1>3
  <2>2. PICK g : LoadRun(g, base, events, n - 1)
    BY <2>1
  <2> DEFINE h == [i \in 0..n |-> IF i < n THEN g[i] ELSE LoadEvent(g[n - 1], events[n])]
  <2>3. DOMAIN h = 0..n /\ h[0] = [ok |-> TRUE, store |-> base]
    <3>1. 0 \in 0..n /\ 0 < n
      BY <1>1, <1>3
    <3> QED BY <2>2, <3>1 DEF LoadRun
  <2>4. \A i \in 1..n : h[i] = LoadEvent(h[i - 1], events[i])
    <3> TAKE i \in 1..n
    <3>1. i \in 0..n /\ i - 1 \in 0..n /\ i - 1 < n
      BY <1>1
    <3>2. h[i - 1] = g[i - 1]
      BY <3>1
    <3>3. CASE i < n
      <4>1. i \in 1..(n - 1)
        BY <1>1, <3>3
      <4>2. g[i] = LoadEvent(g[i - 1], events[i])
        BY <2>2, <4>1 DEF LoadRun
      <4> QED BY <3>1, <3>2, <3>3, <4>2
    <3>4. CASE i = n
      BY <3>1, <3>2, <3>4
    <3> QED BY <1>1, <3>3, <3>4
  <2> HIDE DEF h
  <2>5. LoadRun(h, base, events, n)
    BY <2>3, <2>4 DEF LoadRun
  <2> QED BY <1>1, <2>5
<1> QED
  BY <1>2, <1>3

(* LoadAll gives the last of the list.                                     *)
LEMMA LoadAllRun ==
  ASSUME NEW base, NEW events, Len(events) \in Nat
  PROVE  \E g : LoadRun(g, base, events, Len(events)) /\ LoadAll(base, events) = g[Len(events)]
<1> DEFINE N == Len(events)
           first == [ok |-> TRUE, store |-> base]
           Eq(g) == g = [n \in 0..N |-> IF n = 0 THEN first ELSE LoadEvent(g[n - 1], events[n])]
<1>1. LoadAll(base, events) = (CHOOSE g : Eq(g))[N]
  BY DEF LoadAll
<1>2. PICK h : LoadRun(h, base, events, N)
  BY LoadRunExists
<1>0. h[0] = first
  BY <1>2 DEF LoadRun
<1> HIDE DEF first
<1>3. \E g : Eq(g)
  <2> DEFINE f == [n \in 0..N |-> h[n]]
  <2>1. ASSUME NEW n \in 0..N
        PROVE  f[n] = IF n = 0 THEN first ELSE LoadEvent(f[n - 1], events[n])
    <3>1. CASE n = 0
      BY <3>1, <1>0
    <3>2. CASE n # 0
      <4>1. n \in 1..N /\ n - 1 \in 0..N
        BY <3>2
      <4>2. h[n] = LoadEvent(h[n - 1], events[n])
        BY <1>2, <4>1 DEF LoadRun
      <4> QED BY <3>2, <4>1, <4>2
    <3> QED BY <3>1, <3>2
  <2>2. f = [n \in 0..N |-> IF n = 0 THEN first ELSE LoadEvent(f[n - 1], events[n])]
    <3>1. DOMAIN f = 0..N /\ f = [n \in 0..N |-> f[n]]
      OBVIOUS
    <3> HIDE DEF f
    <3> QED BY <2>1, <3>1
  <2>3. Eq(f)
    BY <2>2
  <2> HIDE DEF f, Eq
  <2> QED BY <2>3
<1> DEFINE g == CHOOSE k : Eq(k)
<1>4. Eq(g)
  <2> HIDE DEF Eq
  <2> QED BY <1>3
<1> HIDE DEF g
<1>5. LoadRun(g, base, events, N)
  <2>1. g = [n \in 0..N |-> IF n = 0 THEN first ELSE LoadEvent(g[n - 1], events[n])]
    BY <1>4
  <2>2. DOMAIN g = 0..N
    BY <2>1
  <2>3. \A n \in 0..N : g[n] = IF n = 0 THEN first ELSE LoadEvent(g[n - 1], events[n])
    BY <2>1
  <2> QED BY <2>2, <2>3 DEF LoadRun, first
<1> QED
  BY <1>1, <1>5 DEF g

(* A database whose rows decode: events below a bound, of the three kinds, *)
(* and a snapshot with a next sequence number.                             *)
Decodes(d, N) ==
  /\ DOMAIN d.events \subseteq 1..N
  /\ \A n \in DOMAIN d.events : d.events[n].type \in OpTypes
  /\ d.snapshot.next_op_seq \in OpSeq

(* One event more.                                                         *)
LEMMA LoadEventFrame ==
  ASSUME NEW l, DOMAIN l = {"ok", "store"}, l.ok \in BOOLEAN, Frame(l.store),
         NEW e, e.op.type \in OpTypes, e.seq \in OpSeq
  PROVE  LET k == LoadEvent(l, e)
         IN  /\ DOMAIN k = {"ok", "store"} /\ k.ok \in BOOLEAN /\ Frame(k.store)
             /\ k.store.next_op_seq >= l.store.next_op_seq
             /\ k.ok => l.ok /\ k.store.next_op_seq > e.seq
<1> DEFINE k == LoadEvent(l, e)
<1>0. l.store.next_op_seq \in Nat
  BY DEF Frame, OpSeq
<1>1. CASE l.ok /\ Applicable(l.store, e.op)
  <2>1. k = [ok |-> TRUE, store |-> ApplyReplayedOp(l.store, e)]
    BY <1>1 DEF LoadEvent
  <2>2. /\ Frame(ApplyReplayedOp(l.store, e))
        /\ ApplyReplayedOp(l.store, e).next_op_seq >= l.store.next_op_seq
        /\ ApplyReplayedOp(l.store, e).next_op_seq > e.seq
    BY ReplayFrame
  <2> QED BY <1>1, <2>1, <2>2
<1>2. CASE ~ (l.ok /\ Applicable(l.store, e.op))
  <2>1. k = [l EXCEPT !.ok = FALSE]
    BY <1>2 DEF LoadEvent
  <2> HIDE DEF k
  <2>2. DOMAIN k = {"ok", "store"} /\ k.ok = FALSE /\ k.store = l.store
    BY <2>1
  <2>3. k.store.next_op_seq >= l.store.next_op_seq
    BY <1>0, <2>2
  <2>4. Frame(k.store)
    BY <2>2
  <2> QED BY <2>2, <2>3, <2>4 DEF k
<1> QED
  BY <1>1, <1>2

(* The store that load_store gives numbers its operations past the         *)
(* snapshot and, unless it stopped early, past every event.                *)
LEMMA LoadFrame ==
  ASSUME NEW N \in Nat, NEW d, Decodes(d, N)
  PROVE  LET l == LoadStore(d)
         IN  /\ l.ok \in BOOLEAN /\ Frame(l.store)
             /\ l.store.next_op_seq >= d.snapshot.next_op_seq
             /\ l.ok => \A n \in DOMAIN d.events : n < l.store.next_op_seq
<1> DEFINE base == FromSnapshot(d.snapshot)
           E    == LoadEventsAfter(d, LatestOpSeq(base))
           M    == Len(E)
           l    == LoadStore(d)
<1>1. /\ DOMAIN d.events \subseteq 1..N /\ d.snapshot.next_op_seq \in OpSeq
      /\ \A n \in DOMAIN d.events : d.events[n].type \in OpTypes
  BY DEF Decodes
<1>2. Frame(base) /\ base.next_op_seq = d.snapshot.next_op_seq
  BY <1>1, RestoreFrame
<1>3. l = LoadAll(base, E)
  BY DEF LoadStore
<1> HIDE DEF base, l
<1>4. /\ IsSeq(E)
      /\ \A k \in DOMAIN E : /\ E[k].seq \in DOMAIN d.events /\ E[k].op = d.events[E[k].seq]
      /\ \A n \in DOMAIN d.events : n > LatestOpSeq(base) => \E k \in DOMAIN E : E[k].seq = n
  BY <1>1, LoadEventsOK
<1> HIDE DEF E
<1>5. M \in Nat /\ DOMAIN E = 1..M
  BY <1>4, SeqFacts
<1>6. \A k \in 1..M : E[k].op.type \in OpTypes /\ E[k].seq \in OpSeq
  BY <1>1, <1>4, <1>5 DEF OpSeq
<1>7. PICK g : LoadRun(g, base, E, M) /\ l = g[M]
  BY <1>3, <1>5, LoadAllRun
<1> HIDE DEF M
<1> DEFINE Good(i) == /\ DOMAIN g[i] = {"ok", "store"} /\ g[i].ok \in BOOLEAN /\ Frame(g[i].store)
                      /\ g[i].store.next_op_seq >= base.next_op_seq
                      /\ g[i].ok => \A j \in 1..i : g[i].store.next_op_seq > E[j].seq
           Bad == {i \in 0..M : ~ Good(i)}
<1>8. Bad = {}
  <2> SUFFICES ASSUME Bad # {} PROVE FALSE
    OBVIOUS
  <2>1. PICK i \in Bad : \A j \in Bad : i <= j
    <3>1. Bad \in SUBSET Nat
      BY <1>5
    <3> HIDE DEF Bad
    <3> QED BY <3>1, LeastNatural
  <2>2. i # 0
    <3>1. g[0] = [ok |-> TRUE, store |-> base]
      BY <1>7 DEF LoadRun
    <3>2. base.next_op_seq >= base.next_op_seq /\ 0 \in 0..M /\ \A j \in 1..0 : FALSE
      BY <1>2, <1>5 DEF Frame, OpSeq
    <3>3. Good(0)
      BY <1>2, <3>1, <3>2
    <3> QED BY <2>1, <3>3
  <2>3. i \in 1..M /\ i - 1 \in 0..M /\ i - 1 \notin Bad
    BY <1>5, <2>1, <2>2
  <2>4. Good(i - 1)
    BY <2>3
  <2>5. g[i] = LoadEvent(g[i - 1], E[i])
    BY <1>7, <2>3 DEF LoadRun
  <2> DEFINE p == g[i - 1]
             k == g[i]
             e == E[i]
  <2>6. /\ DOMAIN p = {"ok", "store"} /\ p.ok \in BOOLEAN /\ Frame(p.store)
        /\ p.store.next_op_seq >= base.next_op_seq
        /\ p.ok => \A j \in 1..(i - 1) : p.store.next_op_seq > E[j].seq
    BY <2>4
  <2>7. e.op.type \in OpTypes /\ e.seq \in OpSeq /\ k = LoadEvent(p, e)
    BY <1>6, <2>3, <2>5
  <2> HIDE DEF p, k, e
  <2>8. /\ DOMAIN k = {"ok", "store"} /\ k.ok \in BOOLEAN /\ Frame(k.store)
        /\ k.store.next_op_seq >= p.store.next_op_seq
        /\ k.ok => p.ok /\ k.store.next_op_seq > e.seq
    BY <2>6, <2>7, LoadEventFrame
  <2>9. /\ k.store.next_op_seq \in Nat /\ p.store.next_op_seq \in Nat /\ base.next_op_seq \in Nat
    BY <1>2, <2>6, <2>8 DEF Frame, OpSeq
  <2>10. k.ok => \A j \in 1..i : k.store.next_op_seq > E[j].seq
    <3> SUFFICES ASSUME k.ok, NEW j \in 1..i PROVE k.store.next_op_seq > E[j].seq
      OBVIOUS
    <3>1. j = i \/ j \in 1..(i - 1)
      BY <1>5, <2>3
    <3>2. E[j].seq \in Nat
      BY <1>5, <1>6, <2>3 DEF OpSeq
    <3> QED BY <2>6, <2>8, <2>9, <3>1, <3>2 DEF e
  <2>11. k.store.next_op_seq >= base.next_op_seq
    BY <2>6, <2>8, <2>9
  <2>12. Good(i)
    BY <2>8, <2>10, <2>11 DEF k
  <2> QED BY <2>1, <2>12
<1>9. Good(M)
  BY <1>5, <1>8
<1>10. /\ l.ok \in BOOLEAN /\ Frame(l.store)
       /\ l.store.next_op_seq >= d.snapshot.next_op_seq
       /\ l.ok => \A j \in 1..M : l.store.next_op_seq > E[j].seq
  BY <1>2, <1>7, <1>9
<1>11. l.ok => \A n \in DOMAIN d.events : n < l.store.next_op_seq
  <2> SUFFICES ASSUME l.ok, NEW n \in DOMAIN d.events PROVE n < l.store.next_op_seq
    OBVIOUS
  <2>1. n \in Nat /\ l.store.next_op_seq \in Nat /\ d.snapshot.next_op_seq \in Nat
    BY <1>1, <1>10 DEF Frame, OpSeq
  <2>2. LatestOpSeq(base) = d.snapshot.next_op_seq - 1
    BY <1>2 DEF LatestOpSeq
  <2>3. CASE n > LatestOpSeq(base)
    <3>1. PICK k \in 1..M : E[k].seq = n
      BY <1>4, <1>5, <2>3
    <3> QED BY <1>10, <2>1, <3>1
  <2>4. CASE ~ (n > LatestOpSeq(base))
    BY <1>10, <2>1, <2>2, <2>4
  <2> QED BY <2>3, <2>4
<1> QED
  BY <1>10, <1>11 DEF l

------------------------------------------------------------------------------
(* What the transactions do to a database                                  *)

(* append_ops adds the batch, every operation under its number.            *)
LEMMA AppendOpsFacts ==
  ASSUME NEW d, DOMAIN d = {"events", "snapshot"}, NEW buf, ~Conflicts(d, buf)
  PROVE  LET e == AppendOps(d, buf)
         IN  /\ DOMAIN e = {"events", "snapshot"} /\ e.snapshot = d.snapshot
             /\ DOMAIN e.events = DOMAIN d.events \cup {buf[i].seq : i \in DOMAIN buf}
             /\ \A n \in DOMAIN d.events : e.events[n] = d.events[n]
             /\ \A i \in DOMAIN buf : \E j \in DOMAIN buf : /\ buf[j].seq = buf[i].seq
                                                            /\ e.events[buf[i].seq] = buf[j].op
<1> DEFINE N == DOMAIN d.events \cup {buf[i].seq : i \in DOMAIN buf}
           pick(n) == CHOOSE i \in DOMAIN buf : buf[i].seq = n
           ev == [n \in N |-> IF n \in DOMAIN d.events THEN d.events[n] ELSE buf[pick(n)].op]
           e == AppendOps(d, buf)
<1>1. e = [d EXCEPT !.events = ev]
  BY DEF AppendOps
<1>2. \A n \in N : ev[n] = IF n \in DOMAIN d.events THEN d.events[n] ELSE buf[pick(n)].op
  OBVIOUS
<1>3. DOMAIN ev = N
  OBVIOUS
<1>4. ASSUME NEW i \in DOMAIN buf
      PROVE  \E j \in DOMAIN buf : buf[j].seq = buf[i].seq /\ ev[buf[i].seq] = buf[j].op
  <2>1. buf[i].seq \in N /\ buf[i].seq \notin DOMAIN d.events
    BY DEF Conflicts
  <2>2. pick(buf[i].seq) \in DOMAIN buf /\ buf[pick(buf[i].seq)].seq = buf[i].seq
    OBVIOUS
  <2>3. ev[buf[i].seq] = buf[pick(buf[i].seq)].op
    BY <1>2, <2>1
  <2> HIDE DEF pick, ev
  <2> QED BY <2>2, <2>3
<1>5. \A n \in DOMAIN d.events : ev[n] = d.events[n]
  BY <1>2
<1> HIDE DEF ev, e
<1>6. DOMAIN e = {"events", "snapshot"} /\ e.snapshot = d.snapshot /\ e.events = ev
  BY <1>1
<1> QED
  BY <1>3, <1>4, <1>5, <1>6 DEF e

(* write_snapshot adds a row, and the newest one counts.                   *)
LEMMA InsertSnapshotFacts ==
  ASSUME NEW d, DOMAIN d = {"events", "snapshot"}, NEW snap
  PROVE  LET e == InsertSnapshot(d, snap)
         IN  DOMAIN e = {"events", "snapshot"} /\ e.snapshot = snap /\ e.events = d.events
<1> DEFINE e == InsertSnapshot(d, snap)
<1>1. e = [d EXCEPT !.snapshot = snap]
  BY DEF InsertSnapshot
<1> HIDE DEF e
<1>2. DOMAIN e = {"events", "snapshot"} /\ e.snapshot = snap /\ e.events = d.events
  BY <1>1
<1> QED
  BY <1>2 DEF e

(* compact_through deletes events and nothing else.                        *)
LEMMA DeleteEventsFacts ==
  ASSUME NEW d, DOMAIN d = {"events", "snapshot"}, NEW seq
  PROVE  LET e == DeleteEventsThrough(d, seq)
         IN  /\ DOMAIN e = {"events", "snapshot"} /\ e.snapshot = d.snapshot
             /\ DOMAIN e.events = {k \in DOMAIN d.events : k > seq}
             /\ \A n \in DOMAIN e.events : e.events[n] = d.events[n]
<1> DEFINE ev == [n \in {k \in DOMAIN d.events : k > seq} |-> d.events[n]]
           e == DeleteEventsThrough(d, seq)
<1>1. e = [d EXCEPT !.events = ev]
  BY DEF DeleteEventsThrough
<1>2. DOMAIN ev = {k \in DOMAIN d.events : k > seq} /\ \A n \in DOMAIN ev : ev[n] = d.events[n]
  OBVIOUS
<1> HIDE DEF ev, e
<1>3. DOMAIN e = {"events", "snapshot"} /\ e.snapshot = d.snapshot /\ e.events = ev
  BY <1>1
<1> QED
  BY <1>2, <1>3 DEF e

(* e covers every operation that d covers.                                 *)
Keeps(d, e) == \A o : o.seq \in Nat /\ Journaled(d, o) => Journaled(e, o)

(* A batch is added to the journal and takes nothing from it.              *)
LEMMA AppendKeeps ==
  ASSUME NEW d, DOMAIN d = {"events", "snapshot"}, NEW buf, ~Conflicts(d, buf),
         \A i, j \in DOMAIN buf : buf[i].seq = buf[j].seq => buf[i] = buf[j],
         \A i \in DOMAIN buf : buf[i] = StoredOp(buf[i].seq, buf[i].op)
  PROVE  LET e == AppendOps(d, buf)
         IN  /\ Keeps(d, e) /\ e.snapshot = d.snapshot
             /\ \A i \in DOMAIN buf : Journaled(e, buf[i])
             /\ \A n \in DOMAIN e.events :
                  \/ n \in DOMAIN d.events /\ e.events[n] = d.events[n]
                  \/ \E i \in DOMAIN buf : n = buf[i].seq /\ StoredOp(n, e.events[n]) = buf[i]
<1> DEFINE e == AppendOps(d, buf)
<1>1. /\ e.snapshot = d.snapshot
      /\ DOMAIN e.events = DOMAIN d.events \cup {buf[i].seq : i \in DOMAIN buf}
      /\ \A n \in DOMAIN d.events : e.events[n] = d.events[n]
      /\ \A i \in DOMAIN buf : \E j \in DOMAIN buf : /\ buf[j].seq = buf[i].seq
                                                     /\ e.events[buf[i].seq] = buf[j].op
  BY AppendOpsFacts
<1> HIDE DEF e
<1>2. Keeps(d, e)
  BY <1>1 DEF Keeps, Journaled
<1>3. \A i \in DOMAIN buf : buf[i].seq \in DOMAIN e.events /\ e.events[buf[i].seq] = buf[i].op
  BY <1>1
<1>4. \A i \in DOMAIN buf : Journaled(e, buf[i])
  BY <1>3 DEF Journaled
<1>5. ASSUME NEW n \in DOMAIN e.events
      PROVE  \/ n \in DOMAIN d.events /\ e.events[n] = d.events[n]
             \/ \E i \in DOMAIN buf : n = buf[i].seq /\ StoredOp(n, e.events[n]) = buf[i]
  <2>1. CASE n \in DOMAIN d.events
    BY <1>1, <2>1
  <2>2. CASE \E i \in DOMAIN buf : n = buf[i].seq
    <3>1. PICK i \in DOMAIN buf : n = buf[i].seq
      BY <2>2
    <3>2. StoredOp(n, e.events[n]) = buf[i]
      BY <1>3, <3>1
    <3> QED BY <3>1, <3>2
  <2> QED BY <1>1, <2>1, <2>2
<1> QED
  BY <1>1, <1>2, <1>4, <1>5 DEF e

(* A snapshot past every event covers what the journal covered.            *)
LEMMA SnapshotKeeps ==
  ASSUME NEW N \in Nat, NEW d, DOMAIN d = {"events", "snapshot"}, Decodes(d, N), NEW snap,
         snap.next_op_seq \in Nat, \A n \in DOMAIN d.events : n < snap.next_op_seq,
         d.snapshot.next_op_seq <= snap.next_op_seq
  PROVE  Keeps(d, InsertSnapshot(d, snap))
<1> DEFINE e == InsertSnapshot(d, snap)
<1>1. e.snapshot = snap
  BY InsertSnapshotFacts
<1> HIDE DEF e
<1>2. d.snapshot.next_op_seq \in Nat
  BY DEF Decodes, OpSeq
<1>3. ASSUME NEW o, o.seq \in Nat, Journaled(d, o) PROVE Journaled(e, o)
  BY <1>1, <1>2, <1>3 DEF Journaled
<1> QED
  BY <1>3 DEF Keeps, e

(* Compaction up to the snapshot takes only what the snapshot covers.      *)
LEMMA CompactKeeps ==
  ASSUME NEW d, DOMAIN d = {"events", "snapshot"}, d.snapshot.next_op_seq \in Nat,
         NEW seq, seq = d.snapshot.next_op_seq - 1
  PROVE  Keeps(d, DeleteEventsThrough(d, seq))
<1> DEFINE e == DeleteEventsThrough(d, seq)
<1>1. /\ e.snapshot = d.snapshot /\ DOMAIN e.events = {k \in DOMAIN d.events : k > seq}
      /\ \A n \in DOMAIN e.events : e.events[n] = d.events[n]
  BY DeleteEventsFacts
<1> HIDE DEF e
<1>2. ASSUME NEW o, o.seq \in Nat, Journaled(d, o) PROVE Journaled(e, o)
  <2>1. CASE o.seq < d.snapshot.next_op_seq
    BY <1>1, <2>1 DEF Journaled
  <2>2. CASE ~(o.seq < d.snapshot.next_op_seq)
    BY <1>1, <1>2, <2>2 DEF Journaled
  <2> QED BY <2>1, <2>2
<1> QED
  BY <1>2 DEF Keeps, e

(* Surviving keeps the journaled elements of a sequence in their order.    *)
LEMMA SurvivingFacts ==
  ASSUME NEW s, IsSeq(s), NEW d
  PROVE  LET S == Surviving(s, d)
         IN  /\ IsSeq(S)
             /\ \A k \in DOMAIN S : Journaled(d, S[k])
             /\ \A i \in DOMAIN s : Journaled(d, s[i]) => \E k \in DOMAIN S : S[k] = s[i]
             /\ \E at : /\ \A k \in DOMAIN S : at[k] \in DOMAIN s /\ S[k] = s[at[k]]
                        /\ \A k, l \in DOMAIN S : k < l => at[k] < at[l]
<1> DEFINE P == {i \in DOMAIN s : Journaled(d, s[i])}
           at == Ascending(P)
           S == Surviving(s, d)
<1>1. PICK N \in Nat : DOMAIN s = 1..N
  BY SeqFacts
<1>2. PICK n \in Nat : Enumerates(at, n, P)
  <2>1. P \in SUBSET (1..N)
    BY <1>1
  <2> QED BY <2>1, AscendingEnumerates
<1>3. S = [k \in DOMAIN at |-> s[at[k]]]
  BY DEF Surviving
<1>4. /\ DOMAIN at = 1..n /\ \A k \in 1..n : at[k] \in P
      /\ \A p \in P : \E k \in 1..n : at[k] = p
      /\ \A k, l \in 1..n : k < l => at[k] < at[l]
  BY <1>2 DEF Enumerates
<1>5. \A i \in DOMAIN s : i \in P <=> Journaled(d, s[i])
  OBVIOUS
<1>6. P \subseteq DOMAIN s
  OBVIOUS
<1> HIDE DEF P, at, S
<1>7. DOMAIN S = 1..n /\ \A k \in 1..n : S[k] = s[at[k]]
  BY <1>3, <1>4
<1>8. IsSeq(S)
  <2> DEFINE T == {s[i] : i \in DOMAIN s}
  <2>1. \A k \in 1..n : S[k] \in T
    BY <1>4, <1>6, <1>7
  <2> HIDE DEF T
  <2>2. S = [k \in 1..n |-> s[at[k]]]
    BY <1>3, <1>4
  <2>3. S \in [1..n -> T]
    BY <1>7, <2>1, <2>2
  <2>4. S \in Seq(T)
    BY <2>3
  <2> QED BY <2>4 DEF IsSeq
<1>9. \A k \in DOMAIN S : Journaled(d, S[k])
  BY <1>4, <1>5, <1>6, <1>7
<1>10. \A i \in DOMAIN s : Journaled(d, s[i]) => \E k \in DOMAIN S : S[k] = s[i]
  BY <1>4, <1>5, <1>7
<1>11. /\ \A k \in DOMAIN S : at[k] \in DOMAIN s /\ S[k] = s[at[k]]
       /\ \A k, l \in DOMAIN S : k < l => at[k] < at[l]
  BY <1>4, <1>6, <1>7
<1> QED
  BY <1>8, <1>9, <1>10, <1>11 DEF S

------------------------------------------------------------------------------
(* The shape of the state and the conversation between loop and worker,    *)
(* whatever sink calls fail                                                *)

OpOK(o) == /\ o.seq \in 1..MaxOps /\ o.op.type \in OpTypes
           /\ o = StoredOp(o.seq, o.op)

MsgOK(m) == /\ m.t \in {"Op", "Flush", "Checkpoint", "Shutdown"}
            /\ m.t = "Op" => OpOK(m.stored)
            /\ m.t = "Checkpoint" => m.snapshot.next_op_seq \in OpSeq

InMutation == rt.pc \in {"send", "await"} /\ rt.job = "mutation"

LoopOK ==
  /\ "pc" \in DOMAIN rt
  /\ rt.pc \in {"idle", "send", "await", "stopped", "unloadable"}
  /\ rt.pc \in {"send", "await"} => rt.job \in Jobs /\ config.sink
  /\ InMutation => /\ OpOK(rt.stored) /\ rt.checkpoint.next_op_seq \in OpSeq
                   /\ rt.checkpoint.undo_len \in Nat /\ rt.checkpoint.redo_len \in Nat
                   /\ config.ack_mode = "Durable"

HealthOK == health \in [is_healthy : BOOLEAN, last_durable_seq : 0..MaxOps]

QueueOK == /\ IsSeq(queue) /\ Len(queue) <= config.persist_queue_bound
           /\ \A i \in DOMAIN queue : MsgOK(queue[i])

ResultsOK == /\ IsSeq(durable)
             /\ \A i \in DOMAIN durable : /\ durable[i].ok \in BOOLEAN
                                          /\ durable[i].ok => durable[i].seq \in 1..MaxOps

WorkerOK ==
  /\ DOMAIN wk = {"pc", "msg", "buf", "last_durable"}
  /\ wk.pc \in {"recv", "flush", "snapshot", "compact", "dead"}
  /\ IsSeq(wk.buf) /\ \A i \in DOMAIN wk.buf : OpOK(wk.buf[i])
  /\ Len(wk.buf) <= config.batch_max_ops
  /\ wk.pc = "recv" => Len(wk.buf) < config.batch_max_ops
  /\ wk.last_durable \in 0..MaxOps
  /\ wk.pc = "flush" => wk.msg.t \in {"Op", "Flush", "Checkpoint", "Shutdown", "Timer", "Closed"}
  /\ wk.pc \in {"snapshot", "compact"} => wk.msg.t = "Checkpoint" /\ wk.buf = << >>
  /\ wk.pc \in {"flush", "snapshot", "compact"} /\ wk.msg.t = "Checkpoint" =>
       wk.msg.snapshot.next_op_seq \in OpSeq

DbOK == /\ db \in stable
        /\ \A d \in stable : DOMAIN d = {"events", "snapshot"} /\ Decodes(d, MaxOps)

TypeInv == /\ config \in Configs /\ Frame(store) /\ LoopOK /\ HealthOK /\ QueueOK
           /\ ResultsOK /\ WorkerOK /\ DbOK

MessageType(job) ==
  CASE job \in {"mutation", "flush"}  -> "Flush"
    [] job \in {"checkpoint", "auto"} -> "Checkpoint"
    [] job = "shutdown"               -> "Shutdown"

(* The question is the last message in the queue, behind operations only.  *)
Asked == /\ rt.pc = "await" /\ reply = None
         /\ queue # << >> /\ queue[Len(queue)].t = MessageType(rt.job)
         /\ \A i \in DOMAIN queue : i # Len(queue) => queue[i].t = "Op"
         /\ wk.pc \in {"recv", "flush"}
         /\ wk.pc = "flush" => wk.msg.t \in {"Op", "Timer"}

(* The worker has taken the question up.                                   *)
Working == /\ rt.pc = "await" /\ reply = None /\ queue = << >>
           /\ wk.pc \in {"flush", "snapshot", "compact"} /\ wk.msg.t = MessageType(rt.job)

(* The answer is there; nothing is left on the way to the sink.            *)
Answered == /\ rt.pc = "await" /\ reply \in {"ok", "err"}
            /\ queue = << >> /\ wk.buf = << >>
            /\ wk.pc = (IF rt.job = "shutdown" THEN "dead" ELSE "recv")

(* No question is open.                                                    *)
Quiet == /\ rt.pc # "await" /\ reply = None
         /\ \A i \in DOMAIN queue : queue[i].t = "Op"
         /\ wk.pc \in {"recv", "flush", "dead"}
         /\ wk.pc = "flush" => wk.msg.t \in {"Op", "Timer", "Closed"}
         /\ wk.pc = "flush" /\ wk.msg.t = "Closed" => rt.pc = "stopped" /\ queue = << >>
         /\ wk.pc = "dead" => \/ rt.pc \in {"stopped", "unloadable"}
                              \/ ~config.sink

Flow == /\ Quiet \/ Asked \/ Working \/ Answered
        /\ wk.pc = "dead" => wk.buf = << >> /\ queue = << >>
        /\ rt.pc = "unloadable" => wk.pc = "dead" /\ durable = << >>
        /\ ~config.sink => wk.pc = "dead" /\ durable = << >>

ShapeInv == TypeInv /\ Flow

------------------------------------------------------------------------------
(* Preservation of the shape                                               *)

(* The configuration's fields.                                             *)
LEMMA ConfigFacts ==
  ASSUME config \in Configs
  PROVE  /\ config.sink \in BOOLEAN /\ config.ack_mode \in {"InMemory", "Durable"}
         /\ config.batch_max_ops \in Nat \ {0} /\ config.persist_queue_bound \in Nat \ {0}
         /\ config.snapshot_every_ops \in Nat
  BY ConfigAssumption DEF RuntimeConfig

(* What the callers ask for are calls of the mutating API.                 *)
LEMMA MutationsAreCalls == Mutations \subseteq Mutation
<1>1. Drafts \subseteq QsoRecord /\ Patches \subseteq QsoPatch
  BY LogInputsAssumption
<1>2. Ids \subseteq QsoId
  BY FaultsAssumption DEF Ids, QsoId
<1> QED
  BY <1>1, <1>2 DEF Mutations, Mutation

(* The operation of a mutation that succeeds.                              *)
LEMMA StoredOK ==
  ASSUME Frame(store), NEW m \in Mutations, Succeeds(store, m), store.next_op_seq <= MaxOps
  PROVE  OpOK(StoredFor(store, m)) /\ StoredFor(store, m).seq = store.next_op_seq
<1>1. m \in Mutation
  BY MutationsAreCalls
<1>2. /\ StoredFor(store, m).op.type \in OpTypes /\ StoredFor(store, m).seq = store.next_op_seq
      /\ StoredFor(store, m) = StoredOp(StoredFor(store, m).seq, StoredFor(store, m).op)
  BY <1>1, OpForFrame
<1>3. store.next_op_seq \in 1..MaxOps
  BY FaultsAssumption DEF Frame, OpSeq
<1> QED
  BY <1>2, <1>3 DEF OpOK

(* spawn_qsolog with a new store.                                          *)
LEMMA ShapeInit == ASSUME Init PROVE ShapeInv
<1>1. config \in Configs /\ config.batch_max_ops \in Nat \ {0} /\ config.persist_queue_bound \in Nat \ {0}
  BY ConfigFacts DEF Init
<1>2. IsSeq(<< >>) /\ Len(<< >>) = 0 /\ DOMAIN << >> = {}
  BY SeqEmpty
<1>3. Frame(NewStore)
  <2> DEFINE s == NewStore
  <2>1. /\ DOMAIN s = StoreFields /\ s.next_op_seq = 1 /\ s.undo = << >> /\ s.redo = << >>
    BY DEF NewStore, StoreFields
  <2> HIDE DEF s
  <2>2. Frame(s)
    BY <1>2, <2>1 DEF Frame, StackTypes, OpSeq
  <2> QED BY <2>2 DEF s
<1>4. LoopOK
  BY DEF Init, Idle, LoopOK, InMutation
<1>5. HealthOK
  BY FaultsAssumption DEF Init, NewHealth, HealthOK
<1>6. QueueOK /\ ResultsOK
  BY <1>1, <1>2 DEF Init, QueueOK, ResultsOK
<1>7. WorkerOK /\ wk.buf = << >> /\ wk.pc = (IF config.sink THEN "recv" ELSE "dead")
  <2> DEFINE w == wk
  <2>1. /\ DOMAIN w = {"pc", "msg", "buf", "last_durable"} /\ w.buf = << >> /\ w.last_durable = 0
        /\ w.pc = (IF config.sink THEN "recv" ELSE "dead")
    BY DEF Init, NewWorker, NoWorker
  <2> QED BY <1>1, <1>2, <2>1, FaultsAssumption DEF WorkerOK
<1>8. DbOK
  <2>1. /\ DOMAIN EmptyDb = {"events", "snapshot"} /\ DOMAIN EmptyDb.events = {}
        /\ EmptyDb.snapshot.next_op_seq = 1
    BY DEF EmptyDb, EmptyMap, ExportSnapshot, NewStore
  <2> QED BY <2>1 DEF Init, DbOK, Decodes, OpSeq
<1>9. Flow
  BY <1>2, <1>7 DEF Init, Flow, Quiet, Idle
<1> QED
  BY <1>1, <1>3, <1>4, <1>5, <1>6, <1>7, <1>8, <1>9 DEF ShapeInv, TypeInv, Init

(* One message more in the queue.                                          *)
LEMMA QueuePush ==
  ASSUME NEW q, IsSeq(q), \A i \in DOMAIN q : MsgOK(q[i]), NEW msg, MsgOK(msg)
  PROVE  /\ IsSeq(Append(q, msg)) /\ Len(Append(q, msg)) = Len(q) + 1 /\ Len(q) \in Nat
         /\ Append(q, msg) # << >> /\ Append(q, msg)[Len(q) + 1] = msg
         /\ DOMAIN Append(q, msg) = 1..(Len(q) + 1) /\ DOMAIN q = 1..Len(q)
         /\ \A i \in 1..Len(q) : Append(q, msg)[i] = q[i]
         /\ \A i \in DOMAIN Append(q, msg) : MsgOK(Append(q, msg)[i])
<1> DEFINE r == Append(q, msg)
<1>1. /\ IsSeq(r) /\ Len(r) = Len(q) + 1 /\ r # << >> /\ DOMAIN r = 1..(Len(q) + 1)
      /\ \A i \in 1..Len(q) : r[i] = q[i]
      /\ r[Len(q) + 1] = msg /\ DOMAIN q = 1..Len(q) /\ Len(q) \in Nat
  BY SeqAppend, SeqFacts
<1> HIDE DEF r
<1>2. \A i \in DOMAIN r : MsgOK(r[i])
  BY <1>1
<1> QED
  BY <1>1, <1>2 DEF r

(* After Accept the loop is idle or about to send a checkpoint.            *)
LEMMA AcceptRt ==
  ASSUME NEW stored, Accept(stored), config \in Configs
  PROVE  /\ "pc" \in DOMAIN rt' /\ rt'.pc \in {"idle", "send"}
         /\ rt'.pc = "send" => rt'.job = "auto" /\ config.sink
<1> DEFINE b == rt'.pc = "send"
<1>1. CASE rt' = Idle
  BY <1>1 DEF Idle
<1>2. CASE rt' = [pc |-> "send", job |-> "auto"] /\ config.sink
  BY <1>2
<1> QED
  BY <1>1, <1>2 DEF Accept

(* What the handlers that leave the worker alone owe.                      *)
LEMMA ShapeLoopStep ==
  ASSUME ShapeInv, UNCHANGED <<config, wk, db, stable>>,
         Frame(store'), LoopOK', HealthOK', QueueOK', ResultsOK', Flow'
  PROVE  ShapeInv'
  BY DEF ShapeInv, TypeInv, WorkerOK, DbOK

(* A mutating command.                                                     *)
LEMMA ShapePerform ==
  ASSUME ShapeInv, NEW m \in Mutations, Perform(m)
  PROVE  ShapeInv'
<1> DEFINE stored == StoredFor(store, m)
           applied == ClearPendingOps(Mutate(store, m))
<1>1. /\ rt.pc = "idle" /\ Succeeds(store, m) /\ store.next_op_seq <= MaxOps
      /\ UNCHANGED <<reply, durable, wk, db, stable, config>>
  BY DEF Perform, workerVars
<1>2. /\ config \in Configs /\ Frame(store) /\ LoopOK /\ HealthOK /\ QueueOK /\ ResultsOK
  BY DEF ShapeInv, TypeInv
<1>3. /\ Quiet
      /\ wk.pc = "dead" => wk.buf = << >> /\ queue = << >>
      /\ ~config.sink => wk.pc = "dead" /\ durable = << >>
  BY <1>1 DEF ShapeInv, Flow, Asked, Working, Answered
<1>4. OpOK(stored) /\ stored.seq = store.next_op_seq
  BY <1>1, <1>2, StoredOK
<1>5. Frame(applied)
  BY <1>1, <1>2, MutationsAreCalls, MutateFrame
<1>6. LET c == MutationCheckpoint(store)
      IN  c.next_op_seq \in OpSeq /\ c.undo_len \in Nat /\ c.redo_len \in Nat
  BY <1>2, CheckpointFrame
<1>7. \/ (NotPersisted(stored) \/ Enqueued(stored)) /\ store' = applied
      \/ QueueFull /\ store' = RollbackMutation(applied, MutationCheckpoint(store), stored)
  BY DEF Perform
<1>8. MsgOK(OpMsg(stored)) /\ OpMsg(stored).t = "Op"
  BY <1>4 DEF MsgOK, OpMsg
<1> HIDE DEF stored, applied
<1>9. ResultsOK'
  BY <1>1, <1>2 DEF ResultsOK
<1>10. Frame(store')
  <2>1. stored.op.type \in OpTypes
    BY <1>4 DEF OpOK
  <2> QED BY <1>5, <1>6, <1>7, <2>1, RollbackFrame
<1>11. CASE NotPersisted(stored)
  <2>1. ~config.sink /\ Accept(stored) /\ UNCHANGED <<queue, health>>
    BY <1>11 DEF NotPersisted
  <2>2. "pc" \in DOMAIN rt' /\ rt'.pc = "idle"
    BY <1>2, <2>1, AcceptRt
  <2>3. LoopOK' /\ HealthOK' /\ QueueOK'
    BY <1>1, <1>2, <2>1, <2>2 DEF LoopOK, InMutation, HealthOK, QueueOK
  <2>4. Flow'
    BY <1>1, <1>3, <2>1, <2>2 DEF Flow, Quiet
  <2> QED BY <1>1, <1>9, <1>10, <2>3, <2>4, ShapeLoopStep
<1>12. CASE Enqueued(stored)
  <2>1. config.sink /\ RoomInQueue /\ queue' = Append(queue, OpMsg(stored)) /\ UNCHANGED health
    BY <1>12 DEF Enqueued
  <2>2. /\ "pc" \in DOMAIN rt' /\ rt'.pc \in {"idle", "send"}
        /\ rt'.pc = "send" => \/ rt'.job = "auto"
                              \/ /\ rt'.job = "mutation" /\ config.ack_mode = "Durable"
                                 /\ rt'.stored = stored /\ rt'.checkpoint = MutationCheckpoint(store)
    <3>1. CASE Accept(stored)
      BY <1>2, <3>1, AcceptRt
    <3>2. CASE /\ rt' = [pc |-> "send", job |-> "mutation", stored |-> stored,
                         checkpoint |-> MutationCheckpoint(store)]
               /\ config.ack_mode = "Durable"
      BY <3>2
    <3> QED BY <1>12, <3>1, <3>2 DEF Enqueued
  <2>3. LoopOK'
    <3>1. rt'.pc = "send" => rt'.job \in Jobs
      BY <2>2 DEF Jobs
    <3> QED BY <1>1, <1>4, <1>6, <2>1, <2>2, <3>1 DEF LoopOK, InMutation
  <2>4. HealthOK'
    BY <1>2, <2>1 DEF HealthOK
  <2>5. /\ IsSeq(queue') /\ Len(queue') = Len(queue) + 1 /\ Len(queue) \in Nat
        /\ queue'[Len(queue) + 1] = OpMsg(stored)
        /\ DOMAIN queue' = 1..(Len(queue) + 1) /\ DOMAIN queue = 1..Len(queue)
        /\ \A i \in 1..Len(queue) : queue'[i] = queue[i]
        /\ \A i \in DOMAIN queue' : MsgOK(queue'[i])
    BY <1>2, <1>8, <2>1, QueuePush DEF QueueOK
  <2>6. QueueOK'
    <3>1. Len(queue) < config.persist_queue_bound /\ config.persist_queue_bound \in Nat
      BY <1>2, <2>1, ConfigFacts DEF RoomInQueue
    <3> QED BY <1>1, <2>5, <3>1 DEF QueueOK
  <2>7. \A i \in DOMAIN queue' : queue'[i].t = "Op"
    BY <1>3, <1>8, <2>5 DEF Quiet
  <2>8. Flow'
    BY <1>1, <1>3, <2>1, <2>2, <2>7 DEF Flow, Quiet
  <2> QED BY <1>1, <1>9, <1>10, <2>3, <2>4, <2>6, <2>8, ShapeLoopStep
<1>13. CASE QueueFull
  <2>1. UNCHANGED <<queue, rt>> /\ health' = [health EXCEPT !.is_healthy = FALSE]
    BY <1>13 DEF QueueFull, MarkPersistUnhealthy
  <2>2. LoopOK' /\ HealthOK' /\ QueueOK'
    BY <1>1, <1>2, <2>1 DEF LoopOK, InMutation, HealthOK, QueueOK
  <2>3. Flow'
    BY <1>1, <1>3, <2>1 DEF Flow, Quiet
  <2> QED BY <1>1, <1>9, <1>10, <2>2, <2>3, ShapeLoopStep
<1> QED
  BY <1>7, <1>11, <1>12, <1>13

(* A patch of a missing id.                                                *)
LEMMA ShapePatchMissing ==
  ASSUME ShapeInv, NEW m, PatchMissing(m)
  PROVE  ShapeInv'
<1>1. /\ m.cmd = "patch" /\ store' = FailedStore(store, m)
      /\ UNCHANGED <<rt, health, queue, reply, durable, wk, db, stable, config>>
  BY DEF PatchMissing, workerVars
<1>2. /\ Frame(store) /\ LoopOK /\ HealthOK /\ QueueOK /\ ResultsOK
  BY DEF ShapeInv, TypeInv
<1>3. Frame(store')
  BY <1>1, <1>2, FailedFrame
<1>4. LoopOK' /\ HealthOK' /\ QueueOK' /\ ResultsOK'
  BY <1>1, <1>2 DEF LoopOK, InMutation, HealthOK, QueueOK, ResultsOK
<1>5. Flow'
  BY <1>1 DEF ShapeInv, Flow, Quiet, Asked, Working, Answered
<1> QED
  BY <1>1, <1>3, <1>4, <1>5, ShapeLoopStep

(* flush(), checkpoint() and shutdown() arrive, or the handles are gone.   *)
LEMMA ShapeControl ==
  ASSUME ShapeInv, DropHandles \/ \E job \in {"flush", "checkpoint", "shutdown"} : Control(job)
  PROVE  ShapeInv'
<1>1. /\ rt.pc = "idle"
      /\ UNCHANGED <<store, health, queue, reply, durable, wk, db, stable, config>>
  BY DEF DropHandles, Control, workerVars
<1>2. /\ Frame(store) /\ LoopOK /\ HealthOK /\ QueueOK /\ ResultsOK
  BY DEF ShapeInv, TypeInv
<1>3. /\ "pc" \in DOMAIN rt' /\ rt'.pc \in {"idle", "send", "stopped"}
      /\ rt'.pc = "send" => rt'.job \in {"flush", "checkpoint", "shutdown"} /\ config.sink
  <2>1. CASE DropHandles
    BY <2>1 DEF DropHandles, Stopped
  <2>2. ASSUME NEW job \in {"flush", "checkpoint", "shutdown"}, Control(job)
        PROVE  <1>3!:
    <3>1. CASE config.sink
      <4>1. rt' = [pc |-> "send", job |-> job]
        BY <2>2, <3>1 DEF Control
      <4> QED BY <3>1, <4>1
    <3>2. CASE rt' = Idle \/ rt' = Stopped("shutdown")
      BY <3>2 DEF Idle, Stopped
    <3> QED BY <2>2, <3>1, <3>2 DEF Control
  <2> QED BY <2>1, <2>2
<1>4. LoopOK' /\ HealthOK' /\ QueueOK' /\ ResultsOK'
  BY <1>1, <1>2, <1>3 DEF LoopOK, InMutation, HealthOK, QueueOK, ResultsOK, Jobs
<1>5. Flow'
  BY <1>1, <1>3 DEF ShapeInv, Flow, Quiet, Asked, Working, Answered
<1> QED
  BY <1>1, <1>2, <1>4, <1>5, ShapeLoopStep

(* The message of a job.                                                   *)
LEMMA MessageOK ==
  ASSUME Frame(store), NEW job \in Jobs
  PROVE  /\ MsgOK(MessageFor(job)) /\ MessageFor(job).t = MessageType(job)
         /\ MessageFor(job).t \in {"Flush", "Checkpoint", "Shutdown"}
         /\ MessageFor(job).t = "Checkpoint" => MessageFor(job).snapshot = ExportSnapshot(store)
<1>1. CASE job \in {"mutation", "flush"}
  <2>1. MessageFor(job) = FlushMsg /\ MessageType(job) = "Flush"
    BY <1>1 DEF MessageFor, MessageType
  <2> QED BY <2>1 DEF MsgOK, FlushMsg
<1>2. CASE job \in {"checkpoint", "auto"}
  <2>1. MessageFor(job) = CheckpointMsg(store) /\ MessageType(job) = "Checkpoint"
    BY <1>2 DEF MessageFor, MessageType
  <2>2. ExportSnapshot(store).next_op_seq \in OpSeq
    BY DEF ExportSnapshot, Frame
  <2> QED BY <2>1, <2>2 DEF MsgOK, CheckpointMsg
<1>3. CASE job = "shutdown"
  <2>1. MessageFor(job) = ShutdownMsg /\ MessageType(job) = "Shutdown"
    BY <1>3 DEF MessageFor, MessageType
  <2> QED BY <2>1 DEF MsgOK, ShutdownMsg
<1> QED
  BY <1>1, <1>2, <1>3 DEF Jobs

(* The question goes to the worker.                                        *)
LEMMA ShapeSend ==
  ASSUME ShapeInv, SendToWorker
  PROVE  ShapeInv'
<1> DEFINE msg == MessageFor(rt.job)
<1>1. /\ rt.pc = "send" /\ RoomInQueue /\ queue' = Append(queue, msg)
      /\ rt' = [rt EXCEPT !.pc = "await"]
      /\ UNCHANGED <<store, health, reply, durable, wk, db, stable, config>>
  BY DEF SendToWorker, workerVars
<1>2. /\ Frame(store) /\ LoopOK /\ HealthOK /\ QueueOK /\ ResultsOK /\ config \in Configs
  BY DEF ShapeInv, TypeInv
<1>3. rt.job \in Jobs /\ config.sink
  BY <1>1, <1>2 DEF LoopOK
<1>4. Quiet
  BY <1>1 DEF ShapeInv, Flow, Asked, Working, Answered
<1>5. MsgOK(msg) /\ msg.t = MessageType(rt.job)
  BY <1>2, <1>3, MessageOK
<1>6. /\ "pc" \in DOMAIN rt' /\ rt'.pc = "await" /\ rt'.job = rt.job
      /\ rt'.stored = rt.stored /\ rt'.checkpoint = rt.checkpoint
  BY <1>1, <1>2 DEF LoopOK
<1> HIDE DEF msg
<1>7. LoopOK' /\ HealthOK' /\ ResultsOK'
  BY <1>1, <1>2, <1>3, <1>6 DEF LoopOK, InMutation, HealthOK, ResultsOK
<1>8. /\ IsSeq(queue') /\ Len(queue') = Len(queue) + 1 /\ Len(queue) \in Nat
      /\ queue' # << >> /\ queue'[Len(queue) + 1] = msg
      /\ DOMAIN queue' = 1..(Len(queue) + 1) /\ DOMAIN queue = 1..Len(queue)
      /\ \A i \in 1..Len(queue) : queue'[i] = queue[i]
      /\ \A i \in DOMAIN queue' : MsgOK(queue'[i])
  BY <1>1, <1>2, <1>5, QueuePush DEF QueueOK
<1>9. QueueOK'
  <2>1. Len(queue) < config.persist_queue_bound /\ config.persist_queue_bound \in Nat
    BY <1>1, <1>2, ConfigFacts DEF RoomInQueue
  <2> QED BY <1>1, <1>8, <2>1 DEF QueueOK
<1>10. Asked'
  <2>1. \A i \in DOMAIN queue' : i # Len(queue') => queue'[i].t = "Op"
    BY <1>4, <1>8 DEF Quiet
  <2>2. MessageType(rt.job)' = MessageType(rt.job)
    BY <1>6 DEF MessageType
  <2>3. /\ wk.pc \in {"recv", "flush"}
        /\ wk.pc = "flush" => wk.msg.t \in {"Op", "Timer"}
    BY <1>1, <1>3, <1>4 DEF Quiet
  <2> QED BY <1>1, <1>4, <1>5, <1>6, <1>8, <2>1, <2>2, <2>3 DEF Asked, Quiet
<1>11. Flow'
  BY <1>1, <1>3, <1>6, <1>10 DEF Flow, Asked
<1> QED
  BY <1>1, <1>2, <1>7, <1>9, <1>11, ShapeLoopStep

(* The answer of the worker.                                               *)
LEMMA ShapeAwait ==
  ASSUME ShapeInv, AwaitReply
  PROVE  ShapeInv'
<1>1. /\ rt.pc = "await" /\ reply # None /\ reply' = None
      /\ MutationAnswer \/ ControlAnswer
      /\ UNCHANGED <<queue, durable, wk, db, stable, config>>
  BY DEF AwaitReply, workerVars
<1>2. /\ Frame(store) /\ LoopOK /\ HealthOK /\ QueueOK /\ ResultsOK /\ config \in Configs
  BY DEF ShapeInv, TypeInv
<1>3. rt.job \in Jobs /\ config.sink
  BY <1>1, <1>2 DEF LoopOK
<1>4. /\ queue = << >> /\ wk.buf = << >>
      /\ wk.pc = (IF rt.job = "shutdown" THEN "dead" ELSE "recv")
  BY <1>1 DEF ShapeInv, Flow, Quiet, Asked, Working, Answered
<1>5. Frame(store') /\ HealthOK'
  <2>1. CASE UNCHANGED <<store, health>>
    BY <1>2, <2>1 DEF HealthOK
  <2>2. CASE /\ rt.job = "mutation" /\ store' = RollbackMutation(store, rt.checkpoint, rt.stored)
             /\ health' = [health EXCEPT !.is_healthy = FALSE]
    <3>1. /\ OpOK(rt.stored) /\ rt.checkpoint.next_op_seq \in OpSeq
          /\ rt.checkpoint.undo_len \in Nat /\ rt.checkpoint.redo_len \in Nat
      BY <1>1, <1>2, <2>2 DEF LoopOK, InMutation
    <3>2. rt.stored.op.type \in OpTypes
      BY <3>1 DEF OpOK
    <3>3. Frame(store')
      BY <1>2, <2>2, <3>1, <3>2, RollbackFrame
    <3> QED BY <1>2, <2>2, <3>3 DEF HealthOK
  <2> QED BY <1>1, <2>1, <2>2 DEF MutationAnswer, ControlAnswer, MarkPersistUnhealthy
<1>6. /\ "pc" \in DOMAIN rt' /\ rt'.pc \in {"idle", "send", "stopped"}
      /\ rt'.pc = "send" => rt'.job = "auto"
      /\ rt.job = "shutdown" => rt'.pc = "stopped"
  <2>1. CASE rt.job = "mutation" /\ Accept(rt.stored)
    BY <1>2, <2>1, AcceptRt
  <2>2. CASE rt.job # "shutdown" /\ rt' = Idle
    BY <2>2 DEF Idle
  <2>3. CASE rt' = Stopped("shutdown")
    BY <2>3 DEF Stopped
  <2> QED BY <1>1, <2>1, <2>2, <2>3 DEF MutationAnswer, ControlAnswer
<1>7. LoopOK'
  BY <1>1, <1>3, <1>6 DEF LoopOK, InMutation, Jobs
<1>8. QueueOK' /\ ResultsOK'
  BY <1>1, <1>2 DEF QueueOK, ResultsOK
<1>9. Flow'
  <2>1. DOMAIN queue = {}
    BY <1>4, SeqEmpty
  <2>2. Quiet'
    BY <1>1, <1>4, <1>6, <2>1 DEF Quiet
  <2> QED BY <1>1, <1>3, <1>4, <1>6, <2>2 DEF Flow
<1> QED
  BY <1>1, <1>5, <1>7, <1>8, <1>9, ShapeLoopStep

(* A batch result is read.                                                 *)
LEMMA ShapeObserve ==
  ASSUME ShapeInv, ObserveDurable
  PROVE  ShapeInv'
<1>1. /\ rt.pc = "idle" /\ durable # << >> /\ durable' = Tail(durable)
      /\ UNCHANGED <<store, rt, queue, reply, wk, db, stable, config>>
  BY DEF ObserveDurable, LaterResults, workerVars
<1>2. /\ Frame(store) /\ LoopOK /\ HealthOK /\ QueueOK /\ ResultsOK
  BY DEF ShapeInv, TypeInv
<1>3. /\ IsSeq(durable') /\ Head(durable) = durable[1] /\ 1 \in DOMAIN durable
      /\ \A i \in DOMAIN durable' : i + 1 \in DOMAIN durable /\ durable'[i] = durable[i + 1]
  BY <1>1, <1>2, SeqTail DEF ResultsOK
<1>4. ResultsOK'
  BY <1>2, <1>3 DEF ResultsOK
<1>5. HealthOK'
  <2> DEFINE d == durable[1]
  <2>1. d.ok \in BOOLEAN /\ (d.ok => d.seq \in 1..MaxOps)
    BY <1>2, <1>3 DEF ResultsOK
  <2>2. CASE d.ok /\ health' = [is_healthy |-> TRUE,
                                last_durable_seq |-> MaxOf(health.last_durable_seq, d.seq)]
    <3>1. MaxOf(health.last_durable_seq, d.seq) \in 0..MaxOps
      BY <1>2, <2>1, <2>2, FaultsAssumption DEF HealthOK, MaxOf
    <3> QED BY <2>2, <3>1 DEF HealthOK
  <2>3. CASE health' = [health EXCEPT !.is_healthy = FALSE]
    BY <1>2, <2>3 DEF HealthOK
  <2> QED BY <1>3, <2>2, <2>3 DEF ObserveDurable, MarkPersistUnhealthy
<1>6. LoopOK' /\ QueueOK'
  BY <1>1, <1>2 DEF LoopOK, InMutation, QueueOK
<1>7. Flow'
  BY <1>1 DEF ShapeInv, Flow, Quiet, Asked, Working, Answered
<1> QED
  BY <1>1, <1>2, <1>4, <1>5, <1>6, <1>7, ShapeLoopStep

(* What the worker's steps owe.                                            *)
LEMMA ShapeWorkerStep ==
  ASSUME ShapeInv, UNCHANGED <<loopVars, config>>,
         QueueOK', ResultsOK', WorkerOK', DbOK', Flow'
  PROVE  ShapeInv'
<1>1. UNCHANGED <<store, rt, health, config>>
  BY DEF loopVars
<1> QED
  BY <1>1 DEF ShapeInv, TypeInv, LoopOK, InMutation, HealthOK

(* The worker takes a message.                                             *)
LEMMA ShapeReceive ==
  ASSUME ShapeInv, Receive
  PROVE  ShapeInv'
<1> DEFINE msg == Head(queue)
           buf == IF msg.t = "Op" THEN Append(wk.buf, msg.stored) ELSE wk.buf
<1>1. /\ wk.pc = "recv" /\ queue # << >> /\ queue' = Tail(queue)
      /\ wk' = IF FlushNow(msg, buf) THEN [wk EXCEPT !.buf = buf, !.pc = "flush", !.msg = msg]
               ELSE [wk EXCEPT !.buf = buf]
      /\ UNCHANGED <<loopVars, reply, durable, db, stable, config>>
  BY DEF Receive
<1>2. /\ LoopOK /\ HealthOK /\ QueueOK /\ ResultsOK /\ WorkerOK /\ DbOK /\ config \in Configs
  BY DEF ShapeInv, TypeInv
<1>3. /\ IsSeq(queue') /\ Len(queue') = Len(queue) - 1 /\ msg = queue[1] /\ 1 \in DOMAIN queue
      /\ \A i \in DOMAIN queue' : i + 1 \in DOMAIN queue /\ queue'[i] = queue[i + 1]
      /\ Len(queue) \in Nat /\ DOMAIN queue = 1..Len(queue) /\ DOMAIN queue' = 1..Len(queue')
      /\ queue' = << >> <=> Len(queue') = 0
  BY <1>1, <1>2, SeqTail, SeqFacts DEF QueueOK
<1>4. /\ config.persist_queue_bound \in Nat \ {0} /\ config.batch_max_ops \in Nat \ {0}
  BY <1>2, ConfigFacts
<1>5. QueueOK'
  BY <1>1, <1>2, <1>3, <1>4 DEF QueueOK
<1>6. MsgOK(msg)
  BY <1>2, <1>3 DEF QueueOK
<1>7. /\ IsSeq(buf) /\ \A i \in DOMAIN buf : OpOK(buf[i])
      /\ Len(buf) \in Nat /\ Len(buf) <= config.batch_max_ops
      /\ msg.t # "Op" => buf = wk.buf
  <2>1. IsSeq(wk.buf) /\ Len(wk.buf) \in Nat /\ DOMAIN wk.buf = 1..Len(wk.buf)
        /\ Len(wk.buf) < config.batch_max_ops /\ \A i \in DOMAIN wk.buf : OpOK(wk.buf[i])
    BY <1>1, <1>2, SeqFacts DEF WorkerOK
  <2>2. CASE msg.t = "Op"
    <3> DEFINE o == msg.stored
               b == Append(wk.buf, o)
    <3>1. OpOK(o)
      BY <1>6, <2>2 DEF MsgOK
    <3> HIDE DEF o
    <3>2. /\ IsSeq(b) /\ Len(b) = Len(wk.buf) + 1 /\ DOMAIN b = 1..(Len(wk.buf) + 1)
          /\ \A i \in 1..Len(wk.buf) : b[i] = wk.buf[i]
          /\ b[Len(wk.buf) + 1] = o
      BY <2>1, SeqAppend
    <3> HIDE DEF b
    <3>3. \A i \in DOMAIN b : OpOK(b[i])
      BY <2>1, <3>1, <3>2
    <3>4. buf = b
      BY <2>2 DEF b, o
    <3> HIDE DEF buf
    <3> QED BY <1>4, <2>1, <2>2, <3>2, <3>3, <3>4
  <2>3. CASE msg.t # "Op"
    BY <1>4, <2>1, <2>3
  <2> QED BY <2>2, <2>3
<1> HIDE DEF buf
<1>8. CASE FlushNow(msg, buf)
  <2>1. /\ DOMAIN wk' = {"pc", "msg", "buf", "last_durable"} /\ wk'.buf = buf /\ wk'.pc = "flush"
        /\ wk'.msg = msg /\ wk'.last_durable = wk.last_durable
    BY <1>1, <1>2, <1>8 DEF WorkerOK
  <2>2. WorkerOK'
    BY <1>1, <1>2, <1>6, <1>7, <2>1 DEF WorkerOK, MsgOK
  <2>3. Flow'
    <3>1. CASE Quiet
      <4>1. msg.t = "Op"
        BY <1>3, <3>1 DEF Quiet
      <4>2. Quiet'
        BY <1>1, <1>3, <2>1, <3>1, <4>1 DEF Quiet, loopVars
      <4> QED BY <1>1, <2>1, <4>2 DEF ShapeInv, Flow, loopVars
    <3>2. CASE Asked
      <4>1. CASE Len(queue) = 1
        <5>1. queue' = << >> /\ msg.t = MessageType(rt.job)
          BY <1>3, <3>2, <4>1 DEF Asked
        <5>2. Working'
          <6>1. MessageType(rt.job)' = MessageType(rt.job)
            BY <1>1 DEF loopVars
          <6> QED BY <1>1, <2>1, <3>2, <5>1, <6>1 DEF Asked, Working, loopVars
        <5> QED BY <1>1, <2>1, <5>2 DEF ShapeInv, Flow, loopVars
      <4>2. CASE Len(queue) # 1
        <5>1. /\ queue' # << >> /\ Len(queue') \in DOMAIN queue' /\ Len(queue') + 1 = Len(queue)
              /\ queue'[Len(queue')] = queue[Len(queue)]
              /\ msg.t = "Op"
              /\ \A i \in DOMAIN queue' : i # Len(queue') => queue'[i].t = "Op"
          BY <1>3, <3>2, <4>2 DEF Asked
        <5>2. Asked'
          <6>1. MessageType(rt.job)' = MessageType(rt.job)
            BY <1>1 DEF loopVars
          <6> QED BY <1>1, <2>1, <3>2, <5>1, <6>1 DEF Asked, loopVars
        <5> QED BY <1>1, <2>1, <5>2 DEF ShapeInv, Flow, loopVars
      <4> QED BY <4>1, <4>2
    <3> QED BY <1>1, <3>1, <3>2 DEF ShapeInv, Flow, Working, Answered
  <2> QED BY <1>1, <1>2, <1>5, <2>2, <2>3, ShapeWorkerStep DEF ResultsOK, DbOK
<1>9. CASE ~ FlushNow(msg, buf)
  <2>1. /\ DOMAIN wk' = {"pc", "msg", "buf", "last_durable"} /\ wk'.buf = buf /\ wk'.pc = "recv"
        /\ wk'.last_durable = wk.last_durable
        /\ msg.t = "Op" /\ Len(buf) < config.batch_max_ops
    BY <1>1, <1>2, <1>4, <1>7, <1>9 DEF WorkerOK, FlushNow
  <2>2. WorkerOK'
    BY <1>1, <1>2, <1>7, <2>1 DEF WorkerOK
  <2>3. Flow'
    <3>1. CASE Quiet
      <4>1. Quiet'
        BY <1>1, <1>3, <2>1, <3>1 DEF Quiet, loopVars
      <4> QED BY <1>1, <2>1, <4>1 DEF ShapeInv, Flow, loopVars
    <3>2. CASE Asked
      <4>1. Len(queue) # 1
        <5>1. MessageType(rt.job) # "Op"
          BY <1>2, <3>2 DEF MessageType, LoopOK, Asked, Jobs
        <5> QED BY <1>3, <2>1, <3>2, <5>1 DEF Asked
      <4>2. /\ queue' # << >> /\ Len(queue') \in DOMAIN queue' /\ Len(queue') + 1 = Len(queue)
            /\ queue'[Len(queue')] = queue[Len(queue)]
            /\ \A i \in DOMAIN queue' : i # Len(queue') => queue'[i].t = "Op"
        <5>1. Len(queue') \in 1..Len(queue') /\ Len(queue') + 1 = Len(queue)
          BY <1>3, <4>1
        <5> QED BY <1>3, <3>2, <5>1 DEF Asked
      <4>3. Asked'
        <5>1. MessageType(rt.job)' = MessageType(rt.job)
          BY <1>1 DEF loopVars
        <5> QED BY <1>1, <2>1, <3>2, <4>2, <5>1 DEF Asked, loopVars
      <4> QED BY <1>1, <2>1, <4>3 DEF ShapeInv, Flow, loopVars
    <3> QED BY <1>1, <3>1, <3>2 DEF ShapeInv, Flow, Working, Answered
  <2> QED BY <1>1, <1>2, <1>5, <2>2, <2>3, ShapeWorkerStep DEF ResultsOK, DbOK
<1> QED
  BY <1>8, <1>9

(* The deadline, and the closed queue.                                     *)
LEMMA ShapeWake ==
  ASSUME ShapeInv, DeadlineExpires \/ QueueClosed
  PROVE  ShapeInv'
<1>1. /\ wk.pc = "recv" /\ UNCHANGED <<loopVars, queue, reply, durable, db, stable, config>>
      /\ \/ wk.buf # << >> /\ wk' = [wk EXCEPT !.pc = "flush", !.msg = TimerMsg]
         \/ /\ queue = << >> /\ rt.pc = "stopped"
            /\ wk' = [wk EXCEPT !.pc = "flush", !.msg = ClosedMsg]
  BY DEF DeadlineExpires, QueueClosed, Wake
<1>2. QueueOK /\ ResultsOK /\ WorkerOK /\ DbOK
  BY DEF ShapeInv, TypeInv
<1>3. /\ DOMAIN wk' = {"pc", "msg", "buf", "last_durable"} /\ wk'.pc = "flush"
      /\ wk'.buf = wk.buf /\ wk'.last_durable = wk.last_durable
      /\ \/ wk.buf # << >> /\ wk'.msg.t = "Timer"
         \/ wk'.msg.t = "Closed" /\ queue = << >> /\ rt.pc = "stopped"
  <2>1. DOMAIN wk = {"pc", "msg", "buf", "last_durable"}
    BY <1>2 DEF WorkerOK
  <2>2. CASE wk.buf # << >> /\ wk' = [wk EXCEPT !.pc = "flush", !.msg = TimerMsg]
    BY <2>1, <2>2 DEF TimerMsg
  <2>3. CASE /\ queue = << >> /\ rt.pc = "stopped"
             /\ wk' = [wk EXCEPT !.pc = "flush", !.msg = ClosedMsg]
    BY <2>1, <2>3 DEF ClosedMsg
  <2> QED BY <1>1, <2>2, <2>3
<1>4. WorkerOK'
  BY <1>1, <1>2, <1>3 DEF WorkerOK
<1>5. Flow'
  <2>1. MessageType(rt.job)' = MessageType(rt.job)
    BY <1>1 DEF loopVars
  <2> QED BY <1>1, <1>3, <2>1 DEF ShapeInv, Flow, Quiet, Asked, Working, Answered, loopVars
<1> QED
  BY <1>1, <1>2, <1>4, <1>5, ShapeWorkerStep DEF QueueOK, ResultsOK, DbOK

(* The questions of the loop.                                              *)
LEMMA QuestionTypes ==
  ASSUME NEW job \in Jobs
  PROVE  /\ MessageType(job) \in {"Flush", "Checkpoint", "Shutdown"}
         /\ MessageType(job) = "Shutdown" <=> job = "shutdown"
  BY DEF MessageType, Jobs

(* The end of a flush_buf, however it went.                                *)
LEMMA ShapeAfterFlush ==
  ASSUME ShapeInv, wk.pc = "flush", NEW ok \in BOOLEAN, NEW last \in 0..MaxOps,
         AfterFlush(ok, last), ResultsOK', DbOK', UNCHANGED <<loopVars, queue, config>>
  PROVE  ShapeInv'
<1> DEFINE t == wk.msg.t
<1>1. LoopOK /\ QueueOK /\ WorkerOK /\ Flow /\ config \in Configs
  BY DEF ShapeInv, TypeInv
<1>2. /\ DOMAIN wk' = {"pc", "msg", "buf", "last_durable"} /\ wk'.buf = << >>
      /\ wk'.last_durable = last
      /\ wk'.msg = IF t = "Checkpoint" /\ ok THEN wk.msg ELSE NoMsg
      /\ wk'.pc = PcAfter(t, ok)
      /\ reply' = ReplyTo(t, ok)
  BY <1>1 DEF AfterFlush, WorkerAfter, WorkerOK
<1>3. /\ t \in {"Op", "Flush", "Checkpoint", "Shutdown", "Timer", "Closed"}
      /\ t = "Checkpoint" => wk.msg.snapshot.next_op_seq \in OpSeq
  BY <1>1 DEF WorkerOK
<1>4. UNCHANGED <<rt, queue, config>> /\ MessageType(rt.job)' = MessageType(rt.job)
  BY DEF loopVars
<1>5. IsSeq(<< >>) /\ Len(<< >>) = 0 /\ DOMAIN << >> = {} /\ config.batch_max_ops \in Nat \ {0}
  BY <1>1, SeqEmpty, ConfigFacts
<1>6. QueueOK'
  BY <1>1, <1>4 DEF QueueOK
<1>7. rt.pc = "await" => rt.job \in Jobs
  BY <1>1 DEF LoopOK
<1> HIDE DEF t
<1>8. /\ t = "Checkpoint" /\ ok => wk'.pc = "snapshot" /\ reply' = reply /\ wk'.msg = wk.msg
      /\ t = "Checkpoint" /\ ~ok => wk'.pc = "recv" /\ reply' = "err"
      /\ t = "Flush" => wk'.pc = "recv" /\ reply' \in {"ok", "err"}
      /\ t = "Shutdown" => wk'.pc = "dead" /\ reply' = "ok"
      /\ t = "Closed" => wk'.pc = "dead" /\ reply' = reply
      /\ t \in {"Op", "Timer"} => wk'.pc = "recv" /\ reply' = reply
  BY <1>2, <1>3 DEF PcAfter, ReplyTo
<1>9. WorkerOK'
  BY <1>2, <1>3, <1>4, <1>5, <1>8 DEF WorkerOK, t
<1>10. (Quiet \/ Asked \/ Working \/ Answered)'
  <2>1. CASE Quiet
    <3>1. t \in {"Op", "Timer", "Closed"} /\ (t = "Closed" => rt.pc = "stopped" /\ queue = << >>)
      BY <2>1 DEF Quiet, t
    <3>2. Quiet'
      BY <1>4, <1>8, <2>1, <3>1 DEF Quiet
    <3> QED BY <3>2
  <2>2. CASE Asked
    <3>1. t \in {"Op", "Timer"}
      BY <2>2 DEF Asked, t
    <3>2. Asked'
      BY <1>4, <1>8, <2>2, <3>1 DEF Asked
    <3> QED BY <3>2
  <2>3. CASE Working
    <3>1. /\ t = MessageType(rt.job) /\ t \in {"Flush", "Checkpoint", "Shutdown"}
          /\ t = "Shutdown" <=> rt.job = "shutdown"
      BY <1>7, <2>3, QuestionTypes DEF Working, t
    <3>2. CASE t = "Checkpoint" /\ ok
      <4>1. Working'
        BY <1>4, <1>8, <2>3, <3>1, <3>2 DEF Working, t
      <4> QED BY <4>1
    <3>3. CASE ~ (t = "Checkpoint" /\ ok)
      <4>1. Answered'
        BY <1>2, <1>4, <1>8, <2>3, <3>1, <3>3 DEF Working, Answered
      <4> QED BY <4>1
    <3> QED BY <3>2, <3>3
  <2> QED BY <1>1, <2>1, <2>2, <2>3 DEF Flow, Answered
<1>11. Flow'
  <2>1. rt.pc # "unloadable" /\ config.sink
    BY <1>1 DEF Flow
  <2>2. wk'.pc = "dead" => queue = << >>
    <3>1. t \in {"Closed", "Shutdown"} => queue = << >>
      BY <1>1, <1>7, QuestionTypes DEF Flow, Quiet, Asked, Working, Answered, t
    <3> QED BY <1>3, <1>8, <3>1
  <2> QED BY <1>2, <1>4, <1>10, <2>1, <2>2 DEF Flow
<1> QED
  BY <1>6, <1>9, <1>11, ShapeWorkerStep

(* A transaction that commits.                                             *)
LEMMA DbStep ==
  ASSUME DbOK, NEW d, DOMAIN d = {"events", "snapshot"}, Decodes(d, MaxOps), Commits(d) \/ Syncs(d)
  PROVE  DbOK'
<1>1. db' = d /\ (stable' = stable \cup {d} \/ stable' = {d})
  BY DEF Commits, Syncs
<1> QED
  BY <1>1 DEF DbOK

(* A batch of operations in a database.                                    *)
LEMMA AppendDecodes ==
  ASSUME NEW d, DOMAIN d = {"events", "snapshot"}, Decodes(d, MaxOps), NEW buf,
         \A i \in DOMAIN buf : OpOK(buf[i]), ~Conflicts(d, buf)
  PROVE  DOMAIN AppendOps(d, buf) = {"events", "snapshot"} /\ Decodes(AppendOps(d, buf), MaxOps)
<1> DEFINE e == AppendOps(d, buf)
<1>1. /\ DOMAIN e = {"events", "snapshot"} /\ e.snapshot = d.snapshot
      /\ DOMAIN e.events = DOMAIN d.events \cup {buf[i].seq : i \in DOMAIN buf}
      /\ \A n \in DOMAIN d.events : e.events[n] = d.events[n]
      /\ \A i \in DOMAIN buf : \E j \in DOMAIN buf : /\ buf[j].seq = buf[i].seq
                                                     /\ e.events[buf[i].seq] = buf[j].op
  BY AppendOpsFacts
<1> HIDE DEF e
<1>2. \A i \in DOMAIN buf : buf[i].seq \in 1..MaxOps /\ buf[i].op.type \in OpTypes
  BY DEF OpOK
<1>3. Decodes(e, MaxOps)
  BY <1>1, <1>2 DEF Decodes
<1> QED
  BY <1>1, <1>3 DEF e

(* flush_buf.                                                              *)
LEMMA ShapeFlushBuf ==
  ASSUME ShapeInv, FlushBuf
  PROVE  ShapeInv'
<1>1. /\ wk.pc = "flush" /\ UNCHANGED <<loopVars, queue, config>>
      /\ FlushSucceeds \/ AppendFails \/ SinkPanics \/ SinkFlushFails
  BY DEF FlushBuf
<1>2. ResultsOK /\ WorkerOK /\ DbOK
  BY DEF ShapeInv, TypeInv
<1>3. /\ IsSeq(wk.buf) /\ \A i \in DOMAIN wk.buf : OpOK(wk.buf[i])
      /\ wk.last_durable \in 0..MaxOps
  BY <1>2 DEF WorkerOK
<1>4. ~Conflicts(db, wk.buf) =>
        /\ DOMAIN AppendOps(db, wk.buf) = {"events", "snapshot"}
        /\ Decodes(AppendOps(db, wk.buf), MaxOps)
  BY <1>2, <1>3, AppendDecodes DEF DbOK
<1>5. ASSUME NEW r, r.ok \in BOOLEAN, r.ok => r.seq \in 1..MaxOps, durable' = Append(durable, r)
      PROVE  ResultsOK'
  <2>1. /\ IsSeq(durable') /\ DOMAIN durable' = 1..(Len(durable) + 1) /\ Len(durable) \in Nat
        /\ \A i \in 1..Len(durable) : durable'[i] = durable[i] /\ i \in DOMAIN durable
        /\ durable'[Len(durable) + 1] = r
    BY <1>2, <1>5, SeqAppend, SeqFacts DEF ResultsOK
  <2> QED BY <1>2, <1>5, <2>1 DEF ResultsOK
<1>6. durable' = durable => ResultsOK'
  BY <1>2 DEF ResultsOK
<1>7. UNCHANGED <<db, stable>> => DbOK'
  BY <1>2 DEF DbOK
<1>8. CASE FlushSucceeds
  <2> DEFINE reached == MaxOf(wk.last_durable, Last(wk.buf).seq)
             r == [ok |-> TRUE, seq |-> reached]
  <2>1. DbOK'
    BY <1>2, <1>4, <1>8, DbStep DEF FlushSucceeds
  <2>2. \/ wk.buf = << >> /\ UNCHANGED durable /\ AfterFlush(TRUE, wk.last_durable)
        \/ wk.buf # << >> /\ durable' = Append(durable, r) /\ AfterFlush(TRUE, reached)
    BY <1>8 DEF FlushSucceeds
  <2>3. CASE wk.buf = << >> /\ UNCHANGED durable /\ AfterFlush(TRUE, wk.last_durable)
    BY <1>1, <1>3, <1>6, <2>1, <2>3, ShapeAfterFlush
  <2>4. CASE wk.buf # << >> /\ durable' = Append(durable, r) /\ AfterFlush(TRUE, reached)
    <3>1. OpOK(Last(wk.buf))
      BY <1>3, <2>4, SeqLast
    <3>2. reached \in 1..MaxOps
      BY <1>3, <3>1 DEF OpOK, MaxOf
    <3>3. r.ok \in BOOLEAN /\ (r.ok => r.seq \in 1..MaxOps)
      BY <3>2
    <3>4. reached \in 0..MaxOps
      BY <3>2
    <3> HIDE DEF reached, r
    <3>5. ResultsOK'
      BY <1>5, <2>4, <3>3
    <3> QED BY <1>1, <2>1, <2>4, <3>4, <3>5, ShapeAfterFlush
  <2> QED BY <2>2, <2>3, <2>4
<1>9. CASE AppendFails
  <2> DEFINE r == [ok |-> FALSE, lost |-> ToSet(wk.buf)]
  <2>1. UNCHANGED <<db, stable>> /\ durable' = Append(durable, r) /\ AfterFlush(FALSE, wk.last_durable)
    BY <1>9 DEF AppendFails
  <2>2. r.ok \in BOOLEAN /\ (r.ok => r.seq \in 1..MaxOps)
    OBVIOUS
  <2> HIDE DEF r
  <2>3. ResultsOK'
    BY <1>5, <2>1, <2>2
  <2> QED BY <1>1, <1>3, <1>7, <2>1, <2>3, ShapeAfterFlush
<1>10. CASE SinkPanics
  <2>1. DbOK'
    BY <1>2, <1>4, <1>7, <1>10, DbStep DEF SinkPanics
  <2>2. UNCHANGED durable /\ AfterFlush(FALSE, wk.last_durable)
    BY <1>10 DEF SinkPanics
  <2> QED BY <1>1, <1>3, <1>6, <2>1, <2>2, ShapeAfterFlush
<1>11. CASE SinkFlushFails
  <2> DEFINE r == [ok |-> FALSE, lost |-> {}]
  <2>1. DbOK'
    BY <1>2, <1>4, <1>11, DbStep DEF SinkFlushFails
  <2>2. /\ durable' = (IF wk.buf = << >> THEN durable ELSE Append(durable, r))
        /\ AfterFlush(FALSE, wk.last_durable)
    BY <1>11 DEF SinkFlushFails
  <2>3. r.ok \in BOOLEAN /\ (r.ok => r.seq \in 1..MaxOps)
    OBVIOUS
  <2> HIDE DEF r
  <2>4. ResultsOK'
    BY <1>5, <1>6, <2>2, <2>3
  <2> QED BY <1>1, <1>3, <2>1, <2>2, <2>4, ShapeAfterFlush
<1> QED
  BY <1>1, <1>8, <1>9, <1>10, <1>11

(* The two steps of a checkpoint that follow its flush.                    *)
LEMMA ShapeCheckpoint ==
  ASSUME ShapeInv, WriteSnapshot \/ CompactThrough
  PROVE  ShapeInv'
<1>1. /\ wk.pc \in {"snapshot", "compact"} /\ UNCHANGED <<loopVars, queue, durable, config>>
  BY DEF WriteSnapshot, CompactThrough
<1>2. QueueOK /\ ResultsOK /\ WorkerOK /\ DbOK /\ LoopOK /\ config \in Configs
  BY DEF ShapeInv, TypeInv
<1>3. /\ Working /\ wk.msg.t = "Checkpoint" /\ wk.buf = << >>
      /\ wk.msg.snapshot.next_op_seq \in OpSeq
      /\ DOMAIN wk = {"pc", "msg", "buf", "last_durable"} /\ wk.last_durable \in 0..MaxOps
      /\ DOMAIN db = {"events", "snapshot"} /\ Decodes(db, MaxOps)
  BY <1>1, <1>2 DEF ShapeInv, Flow, Quiet, Asked, Answered, WorkerOK, DbOK
<1>4. DbOK'
  <2>1. CASE UNCHANGED <<db, stable>>
    BY <1>2, <2>1 DEF DbOK
  <2>2. CASE Commits(InsertSnapshot(db, wk.msg.snapshot))
    <3> DEFINE e == InsertSnapshot(db, wk.msg.snapshot)
    <3>1. DOMAIN e = {"events", "snapshot"} /\ e.snapshot = wk.msg.snapshot /\ e.events = db.events
      BY <1>3, InsertSnapshotFacts
    <3> HIDE DEF e
    <3>2. Decodes(e, MaxOps)
      BY <1>3, <3>1 DEF Decodes
    <3> QED BY <1>2, <2>2, <3>1, <3>2, DbStep DEF e
  <2>3. CASE Commits(DeleteEventsThrough(db, wk.msg.snapshot.next_op_seq - 1))
    <3> DEFINE n == wk.msg.snapshot.next_op_seq - 1
               e == DeleteEventsThrough(db, n)
    <3> HIDE DEF n
    <3>1. /\ DOMAIN e = {"events", "snapshot"} /\ e.snapshot = db.snapshot
          /\ DOMAIN e.events = {k \in DOMAIN db.events : k > n}
          /\ \A k \in DOMAIN e.events : e.events[k] = db.events[k]
      BY <1>3, DeleteEventsFacts
    <3> HIDE DEF e
    <3>2. Decodes(e, MaxOps)
      BY <1>3, <3>1 DEF Decodes
    <3> QED BY <1>2, <2>3, <3>1, <3>2, DbStep DEF e, n
  <2> QED BY <2>1, <2>2, <2>3 DEF WriteSnapshot, CompactThrough, CheckpointFails
<1>5. /\ DOMAIN wk' = {"pc", "msg", "buf", "last_durable"}
      /\ wk'.buf = << >> /\ wk'.last_durable = wk.last_durable
      /\ \/ wk'.pc = "compact" /\ wk'.msg = wk.msg /\ reply' = reply
         \/ wk'.pc = "recv" /\ reply' \in {"ok", "err"}
  <2>1. CASE wk' = [wk EXCEPT !.pc = "compact"] /\ UNCHANGED reply
    BY <1>3, <2>1
  <2>2. CASE wk' = [wk EXCEPT !.pc = "recv", !.msg = NoMsg] /\ reply' \in {"ok", "err"}
    BY <1>3, <2>2
  <2> QED BY <2>1, <2>2 DEF WriteSnapshot, CompactThrough, CheckpointFails, CheckpointDone
<1>6. IsSeq(<< >>) /\ Len(<< >>) = 0 /\ DOMAIN << >> = {} /\ config.batch_max_ops \in Nat \ {0}
  BY <1>2, SeqEmpty, ConfigFacts
<1>7. WorkerOK'
  BY <1>1, <1>3, <1>5, <1>6 DEF WorkerOK
<1>8. UNCHANGED <<rt, queue, config>> /\ MessageType(rt.job)' = MessageType(rt.job)
  BY <1>1 DEF loopVars
<1>9. rt.job # "shutdown"
  BY <1>2, <1>3, QuestionTypes DEF Working, LoopOK
<1>10. (Working \/ Answered)'
  <2>1. CASE wk'.pc = "compact" /\ wk'.msg = wk.msg /\ reply' = reply
    BY <1>3, <1>8, <2>1 DEF Working
  <2>2. CASE wk'.pc = "recv" /\ reply' \in {"ok", "err"}
    BY <1>3, <1>5, <1>8, <1>9, <2>2 DEF Working, Answered
  <2> QED BY <1>5, <2>1, <2>2
<1>11. Flow'
  <2>1. rt.pc # "unloadable" /\ config.sink
    BY <1>1 DEF ShapeInv, Flow
  <2> QED BY <1>5, <1>8, <1>10, <2>1 DEF Flow
<1> QED
  BY <1>1, <1>2, <1>4, <1>7, <1>11, ShapeWorkerStep DEF QueueOK, ResultsOK

(* load_store and spawn_qsolog on what is left.                            *)
LEMMA ShapeReopen ==
  ASSUME ShapeInv, Reopen
  PROVE  ShapeInv'
<1>1. PICK d \in stable : LET loaded == LoadStore(d) IN
        /\ store' = loaded.store
        /\ rt' = IF loaded.ok THEN Idle ELSE [pc |-> "unloadable"]
        /\ wk' = IF loaded.ok THEN NewWorker ELSE NoWorker
        /\ db' = d /\ stable' = IF d = db THEN stable ELSE {d}
  BY DEF Reopen
<1>2. /\ config.sink /\ health' = NewHealth /\ queue' = << >> /\ reply' = None /\ durable' = << >>
      /\ UNCHANGED config
  BY DEF Reopen
<1>3. DbOK /\ config \in Configs
  BY DEF ShapeInv, TypeInv
<1>4. Decodes(d, MaxOps) /\ MaxOps \in Nat
  BY <1>3, FaultsAssumption DEF DbOK
<1>5. LoadStore(d).ok \in BOOLEAN /\ Frame(LoadStore(d).store)
  BY <1>4, LoadFrame
<1>6. IsSeq(<< >>) /\ Len(<< >>) = 0 /\ DOMAIN << >> = {}
  BY SeqEmpty
<1>7. config.batch_max_ops \in Nat \ {0} /\ config.persist_queue_bound \in Nat \ {0}
  BY <1>3, ConfigFacts
<1>8. DbOK'
  BY <1>1, <1>3 DEF DbOK
<1>9. /\ "pc" \in DOMAIN rt' /\ rt'.pc = (IF LoadStore(d).ok THEN "idle" ELSE "unloadable")
      /\ DOMAIN wk' = {"pc", "msg", "buf", "last_durable"} /\ wk'.buf = << >> /\ wk'.last_durable = 0
      /\ wk'.pc = (IF LoadStore(d).ok THEN "recv" ELSE "dead")
  <2>1. CASE LoadStore(d).ok
    <3>1. rt' = Idle /\ wk' = NewWorker
      BY <1>1, <2>1
    <3> QED BY <2>1, <3>1 DEF Idle, NewWorker
  <2>2. CASE ~ LoadStore(d).ok
    <3>1. rt' = [pc |-> "unloadable"] /\ wk' = NoWorker
      BY <1>1, <2>2
    <3> QED BY <2>2, <3>1 DEF NoWorker, NewWorker
  <2> QED BY <2>1, <2>2
<1>10. LoopOK' /\ QueueOK' /\ ResultsOK'
  BY <1>2, <1>6, <1>7, <1>9 DEF LoopOK, InMutation, QueueOK, ResultsOK
<1>11. HealthOK'
  BY <1>2, FaultsAssumption DEF HealthOK, NewHealth
<1>12. WorkerOK'
  BY <1>2, <1>6, <1>7, <1>9, FaultsAssumption DEF WorkerOK
<1>13. Flow'
  <2>1. Quiet'
    BY <1>2, <1>6, <1>9 DEF Quiet
  <2> QED BY <1>2, <1>9, <2>1 DEF Flow
<1>14. Frame(store')
  BY <1>1, <1>5
<1> QED
  BY <1>2, <1>3, <1>8, <1>10, <1>11, <1>12, <1>13, <1>14 DEF ShapeInv, TypeInv

(* Every step.                                                             *)
LEMMA ShapeStep ==
  ASSUME ShapeInv, [Next]_vars
  PROVE  ShapeInv'
<1>1. CASE \E m \in Mutations : Perform(m)
  BY <1>1, ShapePerform
<1>2. CASE \E m \in Mutations : PatchMissing(m)
  BY <1>2, ShapePatchMissing
<1>3. CASE DropHandles \/ \E job \in {"flush", "checkpoint", "shutdown"} : Control(job)
  BY <1>3, ShapeControl
<1>4. CASE SendToWorker
  BY <1>4, ShapeSend
<1>5. CASE AwaitReply
  BY <1>5, ShapeAwait
<1>6. CASE ObserveDurable
  BY <1>6, ShapeObserve
<1>7. CASE Receive
  BY <1>7, ShapeReceive
<1>8. CASE DeadlineExpires \/ QueueClosed
  BY <1>8, ShapeWake
<1>9. CASE FlushBuf
  BY <1>9, ShapeFlushBuf
<1>10. CASE WriteSnapshot \/ CompactThrough
  BY <1>10, ShapeCheckpoint
<1>11. CASE Reopen
  BY <1>11, ShapeReopen
<1>12. CASE UNCHANGED vars
  <2>1. /\ UNCHANGED <<config, loopVars, queue, reply, durable, wk, db, stable>>
    BY <1>12 DEF vars, workerVars
  <2>2. UNCHANGED <<store, rt, health>>
    BY <2>1 DEF loopVars
  <2>3. TypeInv'
    BY <2>1, <2>2 DEF ShapeInv, TypeInv, LoopOK, InMutation, HealthOK, QueueOK, ResultsOK, WorkerOK, DbOK
  <2>4. Flow'
    BY <2>1, <2>2 DEF ShapeInv, Flow, Quiet, Asked, Working, Answered
  <2> QED BY <2>3, <2>4 DEF ShapeInv
<1> QED
  BY <1>1, <1>2, <1>3, <1>4, <1>5, <1>6, <1>7, <1>8, <1>9, <1>10, <1>11, <1>12
     DEF Next, Runtime, Worker

------------------------------------------------------------------------------
(* What holds whatever sink calls fail and however the log is configured   *)

(* The state keeps its shape, and a question of the loop, its answer and   *)
(* the worker's part in it never get out of step (runtime/handle.rs:655,   *)
(* 671): the basis of every other proof here.                              *)
THEOREM ShapeInvariant == Spec => []ShapeInv
<1>1. Init => ShapeInv
  BY ShapeInit
<1>2. ShapeInv /\ [Next]_vars => ShapeInv'
  BY ShapeStep
<1> QED
  BY <1>1, <1>2, PTL DEF Spec

(* The type invariant holds for every configuration, every bound and every *)
(* failure: the queue keeps persist_queue_bound, the buffer batch_max_ops, *)
(* and no answer arrives that the loop does not wait for                   *)
(* (runtime/handle.rs:197, 697).                                           *)
THEOREM LogTypeCorrect == Spec => []TypeOK
<1>1. ASSUME ShapeInv PROVE TypeOK
  <2>1. /\ config \in Configs /\ LoopOK /\ HealthOK /\ QueueOK /\ WorkerOK /\ DbOK /\ Flow
    BY <1>1 DEF ShapeInv, TypeInv
  <2>2. reply \in {None, "ok", "err"} /\ (reply # None => rt.pc = "await")
    BY <2>1 DEF Flow, Quiet, Asked, Working, Answered
  <2>3. \A d \in stable : DOMAIN d.events \subseteq 1..MaxOps
    BY <2>1 DEF DbOK, Decodes
  <2> QED BY <2>1, <2>2, <2>3 DEF TypeOK, LoopOK, HealthOK, QueueOK, WorkerOK, DbOK
<1> QED
  BY <1>1, ShapeInvariant, PTL

(* Reopening is the only step that counts.                                 *)
LEMMA ReopensCounted ==
  ASSUME reopens \in Nat, [Next]_vars
  PROVE  reopens' \in Nat
<1>1. CASE Reopen
  BY <1>1 DEF Reopen
<1>2. CASE Runtime
  BY <1>2 DEF Runtime, Perform, PatchMissing, Control, SendToWorker, AwaitReply, ObserveDurable,
              DropHandles
<1>3. CASE Worker
  BY <1>3 DEF Worker, Receive, DeadlineExpires, QueueClosed, Wake, FlushBuf, WriteSnapshot,
              CompactThrough
<1>4. CASE UNCHANGED vars
  BY <1>4 DEF vars
<1> QED
  BY <1>1, <1>2, <1>3, <1>4 DEF Next

(* A loop that refuses every mutation brings no batch about.               *)
LEMMA StuckStays ==
  ASSUME ShapeInv, Stuck, [Next]_vars
  PROVE  Stuck' \/ Reopen
<1>1. /\ config.sink /\ config.ack_mode = "Durable" /\ ~health.is_healthy
      /\ wk.buf = << >> /\ \A i \in DOMAIN queue : queue[i].t # "Op"
      /\ \A i \in DOMAIN durable : ~durable[i].ok
  BY DEF Stuck
<1>2. /\ Frame(store) /\ LoopOK /\ HealthOK /\ QueueOK /\ ResultsOK /\ WorkerOK
  BY DEF ShapeInv, TypeInv
<1>3. DOMAIN << >> = {}
  BY SeqEmpty
<1>4. ASSUME NEW m \in Mutations, Perform(m) PROVE FALSE
  BY <1>1, <1>4 DEF Perform, EnsureMutationAllowed
<1>5. ASSUME UNCHANGED <<config, health, wk, queue, durable>> PROVE Stuck'
  BY <1>1, <1>5 DEF Stuck
<1>6. ASSUME NEW m, PatchMissing(m) PROVE Stuck'
  BY <1>5, <1>6 DEF PatchMissing, workerVars
<1>7. CASE DropHandles \/ \E job \in {"flush", "checkpoint", "shutdown"} : Control(job)
  BY <1>5, <1>7 DEF DropHandles, Control, workerVars
<1>8. CASE SendToWorker
  <2>1. /\ queue' = Append(queue, MessageFor(rt.job)) /\ rt.pc = "send"
        /\ UNCHANGED <<config, health, wk, durable>>
    BY <1>8 DEF SendToWorker, workerVars
  <2>2. rt.job \in Jobs
    BY <1>2, <2>1 DEF LoopOK
  <2>3. MsgOK(MessageFor(rt.job)) /\ MessageFor(rt.job).t # "Op"
    BY <1>2, <2>2, MessageOK
  <2>4. /\ queue'[Len(queue) + 1] = MessageFor(rt.job) /\ Len(queue) \in Nat
        /\ DOMAIN queue' = 1..(Len(queue) + 1) /\ DOMAIN queue = 1..Len(queue)
        /\ \A i \in 1..Len(queue) : queue'[i] = queue[i]
    BY <1>2, <2>1, <2>3, QueuePush DEF QueueOK
  <2>5. \A i \in DOMAIN queue' : queue'[i].t # "Op"
    BY <1>1, <2>3, <2>4
  <2> QED BY <1>1, <2>1, <2>5 DEF Stuck
<1>9. CASE AwaitReply
  <2>1. UNCHANGED <<config, wk, queue, durable>>
    BY <1>9 DEF AwaitReply, workerVars
  <2>2. ~health'.is_healthy
    BY <1>1, <1>2, <1>9 DEF AwaitReply, MutationAnswer, ControlAnswer, MarkPersistUnhealthy, HealthOK
  <2> QED BY <1>1, <2>1, <2>2 DEF Stuck
<1>10. CASE ObserveDurable
  <2>1. durable # << >> /\ durable' = Tail(durable) /\ UNCHANGED <<config, wk, queue>>
    BY <1>10 DEF ObserveDurable, LaterResults, workerVars
  <2>2. /\ Head(durable) = durable[1] /\ 1 \in DOMAIN durable
        /\ \A i \in DOMAIN durable' : i + 1 \in DOMAIN durable /\ durable'[i] = durable[i + 1]
    BY <1>2, <2>1, SeqTail DEF ResultsOK
  <2>3. health' = [health EXCEPT !.is_healthy = FALSE]
    BY <1>1, <1>10, <2>2 DEF ObserveDurable, MarkPersistUnhealthy
  <2>4. ~health'.is_healthy
    BY <1>2, <2>3 DEF HealthOK
  <2> QED BY <1>1, <2>1, <2>2, <2>4 DEF Stuck
<1>11. CASE Receive
  <2>1. /\ queue # << >> /\ queue' = Tail(queue) /\ UNCHANGED <<config, health, durable>>
    BY <1>11 DEF Receive, loopVars
  <2>2. /\ Head(queue) = queue[1] /\ 1 \in DOMAIN queue
        /\ \A i \in DOMAIN queue' : i + 1 \in DOMAIN queue /\ queue'[i] = queue[i + 1]
    BY <1>2, <2>1, SeqTail DEF QueueOK
  <2>3. Head(queue).t # "Op"
    BY <1>1, <2>2
  <2>4. wk'.buf = wk.buf
    BY <1>2, <1>11, <2>3 DEF Receive, WorkerOK
  <2> QED BY <1>1, <2>1, <2>2, <2>4 DEF Stuck
<1>12. CASE DeadlineExpires \/ QueueClosed
  <2>1. UNCHANGED <<config, health, queue, durable>> /\ wk'.buf = wk.buf
    BY <1>2, <1>12 DEF DeadlineExpires, QueueClosed, Wake, loopVars, WorkerOK
  <2> QED BY <1>1, <2>1 DEF Stuck
<1>13. CASE FlushBuf
  <2>1. UNCHANGED <<config, health, queue>>
    BY <1>13 DEF FlushBuf, loopVars
  <2>2. UNCHANGED durable
    BY <1>1, <1>13 DEF FlushBuf, FlushSucceeds, AppendFails, SinkPanics, SinkFlushFails
  <2>3. wk'.buf = << >>
    BY <1>2, <1>13 DEF FlushBuf, FlushSucceeds, AppendFails, SinkPanics, SinkFlushFails, AfterFlush,
                       WorkerAfter, WorkerOK
  <2> QED BY <1>1, <2>1, <2>2, <2>3 DEF Stuck
<1>14. CASE WriteSnapshot \/ CompactThrough
  <2>1. UNCHANGED <<config, health, queue, durable>> /\ wk'.buf = wk.buf
    BY <1>2, <1>14 DEF WriteSnapshot, CompactThrough, CheckpointFails, CheckpointDone, loopVars, WorkerOK
  <2> QED BY <1>1, <2>1 DEF Stuck
<1>15. CASE UNCHANGED vars
  BY <1>5, <1>15 DEF vars, loopVars, workerVars
<1> QED
  BY <1>4, <1>6, <1>7, <1>8, <1>9, <1>10, <1>11, <1>12, <1>13, <1>14, <1>15
     DEF Next, Runtime, Worker

(* A Durable log whose persistence failed, with nothing under way, refuses *)
(* mutations until it is opened again, whatever else is called or fails    *)
(* (runtime/handle.rs:236, 858).                                           *)
THEOREM UnhealthyForGood == Spec => UnhealthyIsFinal
<1>1. Init => reopens \in Nat
  BY DEF Init
<1>2. reopens \in Nat /\ [Next]_vars => (reopens \in Nat)'
  BY ReopensCounted
<1>3. ASSUME ShapeInv, reopens \in Nat, [Next]_vars
      PROVE  [Stuck => Stuck' \/ reopens' # reopens]_vars
  <2>1. CASE Stuck /\ Reopen
    <3>1. reopens' = reopens + 1
      BY <2>1 DEF Reopen
    <3> QED BY <1>3, <3>1
  <2> QED BY <1>3, <2>1, StuckStays
<1> QED
  BY <1>1, <1>2, <1>3, ShapeInvariant, PTL DEF Spec, UnhealthyIsFinal

------------------------------------------------------------------------------
(* Where the operations are, as long as a batch that fails is announced    *)

AppliedOps == Acknowledged \cup ToSet(InFlight)

QueueOps == {queue[i].stored : i \in {j \in DOMAIN queue : queue[j].t = "Op"}}

BufOps == ToSet(wk.buf)

(* Operations whose loss is still to be read from the durable channel.     *)
LostOps == UNION {durable[i].lost : i \in {j \in DOMAIN durable : ~durable[j].ok}}

(* The sequence numbers that a result, an event or a snapshot has reached. *)
Reached == {health.last_durable_seq, wk.last_durable}
             \cup {durable[i].seq : i \in {j \in DOMAIN durable : durable[j].ok}}
             \cup (UNION {DOMAIN d.events : d \in stable})
             \cup {d.snapshot.next_op_seq - 1 : d \in stable}

(* Operations are applied in the order of their numbers, and the next      *)
(* number, also after the rollback of the mutation in flight, is new.      *)
NumbersInv ==
  /\ IsSeq(accepted) /\ \A i \in DOMAIN accepted : OpOK(accepted[i])
  /\ \A i, j \in DOMAIN accepted : i < j => accepted[i].seq < accepted[j].seq
  /\ rt.pc # "unloadable" =>
       /\ \A o \in Acknowledged : o.seq < store.next_op_seq
       /\ \A k \in Reached : k < store.next_op_seq
  /\ InMutation => /\ store.next_op_seq = rt.stored.seq + 1
                   /\ rt.checkpoint.next_op_seq = rt.stored.seq
                   /\ \A o \in Acknowledged : o.seq < rt.stored.seq

(* The operations on their way to the sink are applied ones, in order, and *)
(* past everything that was reached.                                       *)
PipelineInv ==
  /\ \A o \in BufOps \cup QueueOps : o \in AppliedOps /\ \A k \in Reached : k < o.seq
  /\ \A i, j \in DOMAIN wk.buf : i < j => wk.buf[i].seq < wk.buf[j].seq
  /\ \A o \in BufOps, p \in QueueOps : o.seq < p.seq
  /\ \A i, j \in DOMAIN queue :
       i < j /\ queue[i].t = "Op" /\ queue[j].t = "Op" => queue[i].stored.seq < queue[j].stored.seq

(* In Durable mode the mutation in flight is alone on its way, and if it   *)
(* is refused nothing of it was written.                                   *)
AloneInv ==
  config.ack_mode = "Durable" =>
    /\ \A o \in BufOps \cup QueueOps : InMutation /\ o = rt.stored
    /\ InMutation /\ reply = "err" => \A k \in Reached : k < rt.stored.seq

(* The snapshot under way is of the store as it is.                        *)
SnapshotInv ==
  /\ \A i \in DOMAIN queue :
       queue[i].t = "Checkpoint" => queue[i].snapshot.next_op_seq = store.next_op_seq
  /\ wk.pc \in {"flush", "snapshot", "compact"} /\ wk.msg.t = "Checkpoint" =>
       wk.msg.snapshot.next_op_seq = store.next_op_seq
  /\ wk.pc = "compact" => db.snapshot.next_op_seq = wk.msg.snapshot.next_op_seq

(* What a database holds beyond its snapshot was applied, and the newest   *)
(* database covers what the others hold.                                   *)
EventsInv ==
  \A d \in stable :
    /\ \A n \in DOMAIN d.events :
         /\ n >= d.snapshot.next_op_seq => StoredOp(n, d.events[n]) \in AppliedOps
         /\ Journaled(db, StoredOp(n, d.events[n]))
    /\ d.snapshot.next_op_seq <= db.snapshot.next_op_seq

(* Every applied operation is accounted for.                               *)
AccountInv ==
  config.sink => \A o \in AppliedOps :
    Journaled(db, o) \/ o \in BufOps \cup QueueOps \cup LostOps \cup reported

(* What DurableUpTo covers, announced or still on the durable channel.     *)
CoverInv ==
  /\ \A o \in AppliedOps : o.seq <= health.last_durable_seq => Journaled(db, o) \/ o \in reported
  /\ \A i \in DOMAIN durable : durable[i].ok =>
       \A o \in AppliedOps : o.seq <= durable[i].seq =>
         \/ Journaled(db, o) \/ o \in reported
         \/ \E j \in DOMAIN durable : j < i /\ ~durable[j].ok /\ o \in durable[j].lost

DataInv == /\ NumbersInv /\ PipelineInv /\ AloneInv /\ SnapshotInv
           /\ EventsInv /\ AccountInv /\ CoverInv

(* With no failing batch nothing is lost, and what an answer vouches for   *)
(* is in every database a power failure may leave.                         *)
PromiseInv ==
  /\ \A i \in DOMAIN durable : durable[i].ok
  /\ reported = {}
  /\ \A o \in promised : o.seq \in Nat
  /\ PromisesSurvive
  /\ (rt.pc = "await" /\ (reply = "ok" \/ wk.pc \in {"snapshot", "compact"})) =>
       \A o \in AppliedOps : \A d \in stable : Journaled(d, o)

------------------------------------------------------------------------------
(* Facts about these sets                                                  *)

(* The applied operations.                                                 *)
LEMMA AppliedIs ==
  /\ InMutation => AppliedOps = Acknowledged \cup {rt.stored}
  /\ ~InMutation => AppliedOps = Acknowledged
<1>1. CASE InMutation
  <2>1. InFlight = <<rt.stored>>
    BY <1>1 DEF InMutation, InFlight
  <2>2. ToSet(<<rt.stored>>) = {rt.stored}
    BY DEF ToSet
  <2> QED BY <1>1, <2>1, <2>2 DEF AppliedOps
<1>2. CASE ~InMutation
  <2>1. InFlight = << >>
    BY <1>2 DEF InMutation, InFlight
  <2>2. ToSet(<< >>) = {}
    BY SeqEmpty DEF ToSet
  <2> QED BY <1>2, <2>1, <2>2 DEF AppliedOps
<1> QED
  BY <1>1, <1>2

(* The same after a step.                                                  *)
LEMMA AppliedIsNext ==
  /\ InMutation' => AppliedOps' = Acknowledged' \cup {rt'.stored}
  /\ ~InMutation' => AppliedOps' = Acknowledged'
<1>1. CASE InMutation'
  <2>1. InFlight' = <<rt'.stored>>
    BY <1>1 DEF InMutation, InFlight
  <2>2. ToSet(<<rt'.stored>>) = {rt'.stored}
    BY DEF ToSet
  <2> QED BY <1>1, <2>1, <2>2 DEF AppliedOps
<1>2. CASE ~InMutation'
  <2>1. InFlight' = << >>
    BY <1>2 DEF InMutation, InFlight
  <2>2. ToSet(<< >>) = {}
    BY SeqEmpty DEF ToSet
  <2> QED BY <1>2, <2>1, <2>2 DEF AppliedOps
<1> QED
  BY <1>1, <1>2

(* They are numbered differently, below the next number.                   *)
LEMMA AppliedNumbers ==
  ASSUME ShapeInv, NumbersInv
  PROVE  /\ \A o \in AppliedOps : OpOK(o) /\ o.seq \in 1..MaxOps
         /\ \A o, p \in AppliedOps : o.seq = p.seq => o = p
         /\ rt.pc # "unloadable" => \A o \in AppliedOps : o.seq < store.next_op_seq
         /\ store.next_op_seq \in Nat \ {0}
<1>1. /\ \A o \in Acknowledged : \E i \in DOMAIN accepted : o = accepted[i]
      /\ \A i \in DOMAIN accepted : accepted[i] \in Acknowledged /\ OpOK(accepted[i])
  BY DEF Acknowledged, ToSet, NumbersInv
<1>2. \A o : OpOK(o) => o.seq \in 1..MaxOps
  BY DEF OpOK
<1>3. InMutation => OpOK(rt.stored)
  BY DEF ShapeInv, TypeInv, LoopOK
<1>4. ASSUME NEW i \in DOMAIN accepted, NEW j \in DOMAIN accepted, accepted[i].seq = accepted[j].seq
      PROVE  accepted[i] = accepted[j]
  <2>1. i \in Nat /\ j \in Nat
    <3>1. DOMAIN accepted = 1..Len(accepted) /\ Len(accepted) \in Nat
      BY SeqFacts DEF NumbersInv
    <3> QED BY <3>1
  <2>2. ~(i < j) /\ ~(j < i)
    <3>1. accepted[i].seq \in 1..MaxOps /\ accepted[j].seq \in 1..MaxOps
      BY <1>1, <1>2
    <3> QED BY <1>4, <3>1, FaultsAssumption DEF NumbersInv
  <2> QED BY <2>1, <2>2
<1>5. \A o \in AppliedOps : OpOK(o) /\ o.seq \in 1..MaxOps
  BY <1>1, <1>2, <1>3, AppliedIs
<1>6. store.next_op_seq \in Nat \ {0}
  BY DEF ShapeInv, TypeInv, Frame, OpSeq
<1>7. \A o, p \in Acknowledged : o.seq = p.seq => o = p
  BY <1>1, <1>4
<1>8. InMutation => \A o \in Acknowledged : o.seq # rt.stored.seq
  <2>1. InMutation => \A o \in Acknowledged : o.seq < rt.stored.seq
    BY DEF NumbersInv
  <2>2. \A o \in Acknowledged : o.seq \in 1..MaxOps
    BY <1>1, <1>2
  <2> QED BY <2>1, <2>2, FaultsAssumption
<1>9. \A o, p \in AppliedOps : o.seq = p.seq => o = p
  BY <1>7, <1>8, AppliedIs
<1>10. rt.pc # "unloadable" => \A o \in AppliedOps : o.seq < store.next_op_seq
  <2>1. InMutation => rt.stored.seq < store.next_op_seq
    <3>1. InMutation => rt.stored.seq \in 1..MaxOps /\ store.next_op_seq = rt.stored.seq + 1
      BY <1>2, <1>3 DEF NumbersInv
    <3> QED BY <3>1
  <2> QED BY <2>1, AppliedIs DEF NumbersInv
<1> QED
  BY <1>5, <1>6, <1>9, <1>10

(* Reached numbers are numbers.                                            *)
LEMMA ReachedNumbers ==
  ASSUME ShapeInv
  PROVE  /\ Reached \subseteq Nat
         /\ health.last_durable_seq \in Reached /\ wk.last_durable \in Reached
         /\ \A i \in DOMAIN durable : durable[i].ok => durable[i].seq \in Reached
         /\ \A d \in stable : /\ DOMAIN d.events \subseteq Reached
                              /\ d.snapshot.next_op_seq - 1 \in Reached
<1>1. HealthOK /\ ResultsOK /\ WorkerOK /\ DbOK
  BY DEF ShapeInv, TypeInv
<1>2. health.last_durable_seq \in Nat /\ wk.last_durable \in Nat
  BY <1>1 DEF HealthOK, WorkerOK
<1>3. \A i \in DOMAIN durable : durable[i].ok => durable[i].seq \in Nat
  BY <1>1 DEF ResultsOK
<1>4. \A d \in stable : DOMAIN d.events \subseteq Nat /\ d.snapshot.next_op_seq - 1 \in Nat
  BY <1>1 DEF DbOK, Decodes, OpSeq
<1> DEFINE results == {durable[i].seq : i \in {j \in DOMAIN durable : durable[j].ok}}
           events == UNION {DOMAIN d.events : d \in stable}
           snaps == {d.snapshot.next_op_seq - 1 : d \in stable}
<1>5. results \subseteq Nat /\ \A i \in DOMAIN durable : durable[i].ok => durable[i].seq \in results
  BY <1>3
<1>6. events \subseteq Nat /\ \A d \in stable : DOMAIN d.events \subseteq events
  BY <1>4
<1>7. snaps \subseteq Nat /\ \A d \in stable : d.snapshot.next_op_seq - 1 \in snaps
  BY <1>4
<1>8. Reached = {health.last_durable_seq, wk.last_durable} \cup results \cup events \cup snaps
  BY DEF Reached
<1> HIDE DEF results, events, snaps
<1>9. Reached \subseteq Nat
  <2>1. results \subseteq Nat /\ events \subseteq Nat /\ snaps \subseteq Nat
    BY <1>5, <1>6, <1>7
  <2> HIDE DEF Reached
  <2> QED BY <1>2, <1>8, <2>1
<1>10. \A d \in stable : DOMAIN d.events \subseteq Reached
  BY <1>6, <1>8
<1>11. \A d \in stable : d.snapshot.next_op_seq - 1 \in Reached
  BY <1>7, <1>8
<1>12. \A i \in DOMAIN durable : durable[i].ok => durable[i].seq \in Reached
  BY <1>5, <1>8
<1> QED
  BY <1>8, <1>9, <1>10, <1>11, <1>12

(* What a step leaves alone.                                               *)
LEMMA SameReached ==
  ASSUME UNCHANGED <<wk, durable, stable>>, health'.last_durable_seq = health.last_durable_seq
  PROVE  Reached' = Reached
  BY DEF Reached

(* A push of an operation, or of something else, on the queue.             *)
LEMMA QueueOpsPush ==
  ASSUME QueueOK, NEW msg, MsgOK(msg), queue' = Append(queue, msg)
  PROVE  /\ QueueOps' = IF msg.t = "Op" THEN QueueOps \cup {msg.stored} ELSE QueueOps
         /\ Len(queue) \in Nat /\ queue'[Len(queue) + 1] = msg
         /\ DOMAIN queue' = 1..(Len(queue) + 1) /\ DOMAIN queue = 1..Len(queue)
         /\ \A i \in 1..Len(queue) : queue'[i] = queue[i]
<1>1. /\ queue'[Len(queue) + 1] = msg /\ Len(queue) \in Nat
      /\ DOMAIN queue' = 1..(Len(queue) + 1) /\ DOMAIN queue = 1..Len(queue)
      /\ \A i \in 1..Len(queue) : queue'[i] = queue[i]
  BY QueuePush DEF QueueOK
<1>2. QueueOps' = IF msg.t = "Op" THEN QueueOps \cup {msg.stored} ELSE QueueOps
  <2> DEFINE N == Len(queue) + 1
  <2>1. N \in DOMAIN queue' /\ queue'[N] = msg /\ \A i \in DOMAIN queue' : i = N \/ i \in DOMAIN queue
    BY <1>1
  <2>2. \A i \in DOMAIN queue : i \in DOMAIN queue' /\ queue'[i] = queue[i]
    BY <1>1
  <2> HIDE DEF N
  <2>3. ASSUME NEW o \in QueueOps'
        PROVE  o \in IF msg.t = "Op" THEN QueueOps \cup {msg.stored} ELSE QueueOps
    <3>1. PICK i \in DOMAIN queue' : queue'[i].t = "Op" /\ o = queue'[i].stored
      BY <2>3 DEF QueueOps
    <3> QED BY <2>1, <2>2, <3>1 DEF QueueOps
  <2>4. ASSUME NEW o, o \in IF msg.t = "Op" THEN QueueOps \cup {msg.stored} ELSE QueueOps
        PROVE  o \in QueueOps'
    <3>1. CASE o \in QueueOps
      <4>1. PICK i \in DOMAIN queue : queue[i].t = "Op" /\ o = queue[i].stored
        BY <3>1 DEF QueueOps
      <4> QED BY <2>2, <4>1 DEF QueueOps
    <3>2. CASE msg.t = "Op" /\ o = msg.stored
      BY <2>1, <3>2 DEF QueueOps
    <3> QED BY <2>4, <3>1, <3>2
  <2> QED BY <2>3, <2>4
<1> QED
  BY <1>1, <1>2

(* An empty buffer or queue holds no operation.                            *)
LEMMA NoOps == /\ wk.buf = << >> => BufOps = {}
               /\ queue = << >> => QueueOps = {}
               /\ durable = << >> => LostOps = {}
  BY SeqEmpty DEF BufOps, QueueOps, LostOps, ToSet

------------------------------------------------------------------------------
(* Preservation by the loop                                                *)

(* Steps of the loop that apply nothing and take nothing back.             *)
LEMMA DataLoopStep ==
  ASSUME ShapeInv, DataInv, UNCHANGED <<config, wk, db, stable, durable, reported, accepted, reply>>,
         health'.last_durable_seq = health.last_durable_seq,
         rt.pc # "unloadable", InMutation' <=> InMutation,
         store'.next_op_seq \in Nat, store'.next_op_seq >= store.next_op_seq,
         InMutation => /\ rt'.stored = rt.stored /\ rt'.checkpoint = rt.checkpoint
                       /\ store'.next_op_seq = store.next_op_seq,
         QueueOps' = QueueOps, SnapshotInv',
         \A i, j \in DOMAIN queue' : i < j /\ queue'[i].t = "Op" /\ queue'[j].t = "Op"
                                       => queue'[i].stored.seq < queue'[j].stored.seq
  PROVE  DataInv'
<1>1. Reached' = Reached /\ BufOps' = BufOps /\ LostOps' = LostOps /\ Acknowledged' = Acknowledged
  BY SameReached DEF BufOps, LostOps, Acknowledged
<1>2. AppliedOps' = AppliedOps
  BY <1>1, AppliedIs, AppliedIsNext
<1>3. /\ NumbersInv /\ PipelineInv /\ AloneInv /\ EventsInv /\ AccountInv /\ CoverInv
  BY DEF DataInv
<1>4. NumbersInv'
  <2>1. Reached \subseteq Nat
    BY ReachedNumbers
  <2>2. \A o \in Acknowledged : o.seq \in Nat
    BY <1>3 DEF NumbersInv, Acknowledged, ToSet, OpOK
  <2>3. store.next_op_seq \in Nat
    BY <1>3, AppliedNumbers
  <2>4. /\ \A o \in Acknowledged : o.seq < store'.next_op_seq
        /\ \A k \in Reached : k < store'.next_op_seq
    BY <1>3, <2>1, <2>2, <2>3 DEF NumbersInv
  <2> QED BY <1>1, <1>3, <2>4 DEF NumbersInv
<1>5. PipelineInv'
  BY <1>1, <1>2, <1>3 DEF PipelineInv
<1>6. AloneInv'
  BY <1>1, <1>3 DEF AloneInv
<1>7. EventsInv' /\ AccountInv' /\ CoverInv'
  BY <1>1, <1>2, <1>3 DEF EventsInv, AccountInv, CoverInv
<1> QED
  BY <1>4, <1>5, <1>6, <1>7 DEF DataInv

(* With no question open there is no snapshot under way.                   *)
LEMMA NoSnapshot ==
  ASSUME ShapeInv, rt.pc # "await"
  PROVE  /\ \A i \in DOMAIN queue : queue[i].t = "Op"
         /\ ~(wk.pc \in {"flush", "snapshot", "compact"} /\ wk.msg.t = "Checkpoint")
         /\ wk.pc # "compact"
  BY DEF ShapeInv, Flow, Quiet, Asked, Working, Answered

(* A patch of a missing id.                                                *)
LEMMA DataPatchMissing ==
  ASSUME ShapeInv, DataInv, NEW m, PatchMissing(m)
  PROVE  DataInv'
<1>1. /\ rt.pc = "idle" /\ m.cmd = "patch" /\ store' = FailedStore(store, m)
      /\ UNCHANGED <<rt, health, accepted, reported, queue, reply, durable, wk, db, stable, config>>
  BY DEF PatchMissing, workerVars
<1>2. Frame(store)
  BY DEF ShapeInv, TypeInv
<1>3. store'.next_op_seq = store.next_op_seq + 1 /\ store.next_op_seq \in Nat
  BY <1>1, <1>2, FailedFrame DEF Frame, OpSeq
<1>4. SnapshotInv'
  BY <1>1, NoSnapshot DEF SnapshotInv
<1>5. ~InMutation /\ ~InMutation' /\ QueueOps' = QueueOps
  BY <1>1 DEF InMutation, QueueOps
<1>6. store'.next_op_seq \in Nat /\ store'.next_op_seq >= store.next_op_seq
  BY <1>3
<1>7. \A i, j \in DOMAIN queue' : i < j /\ queue'[i].t = "Op" /\ queue'[j].t = "Op"
                                    => queue'[i].stored.seq < queue'[j].stored.seq
  BY <1>1 DEF DataInv, PipelineInv
<1> QED
  BY <1>1, <1>4, <1>5, <1>6, <1>7, DataLoopStep

(* flush(), checkpoint() and shutdown() arrive, or the handles are gone.   *)
LEMMA DataControl ==
  ASSUME ShapeInv, DataInv,
         DropHandles \/ \E job \in {"flush", "checkpoint", "shutdown"} : Control(job)
  PROVE  DataInv'
<1>1. /\ rt.pc = "idle"
      /\ UNCHANGED <<store, health, accepted, reported, queue, reply, durable, wk, db, stable, config>>
  BY DEF DropHandles, Control, workerVars
<1>2. ~InMutation'
  <2>1. CASE DropHandles
    BY <2>1 DEF DropHandles, Stopped, InMutation
  <2>2. ASSUME NEW job \in {"flush", "checkpoint", "shutdown"}, Control(job)
        PROVE  ~InMutation'
    <3>1. rt' \in {[pc |-> "send", job |-> job], Stopped("shutdown"), Idle}
      BY <2>2 DEF Control
    <3> QED BY <3>1 DEF Stopped, Idle, InMutation
  <2> QED BY <2>1, <2>2
<1>3. store.next_op_seq \in Nat
  BY AppliedNumbers DEF DataInv
<1>4. SnapshotInv'
  BY <1>1, NoSnapshot DEF SnapshotInv
<1>5. ~InMutation /\ QueueOps' = QueueOps
  BY <1>1 DEF InMutation, QueueOps
<1>6. store'.next_op_seq \in Nat /\ store'.next_op_seq >= store.next_op_seq
  BY <1>1, <1>3
<1>7. \A i, j \in DOMAIN queue' : i < j /\ queue'[i].t = "Op" /\ queue'[j].t = "Op"
                                    => queue'[i].stored.seq < queue'[j].stored.seq
  BY <1>1 DEF DataInv, PipelineInv
<1> QED
  BY <1>1, <1>2, <1>4, <1>5, <1>6, <1>7, DataLoopStep

(* The question goes to the worker.                                        *)
LEMMA DataSend ==
  ASSUME ShapeInv, DataInv, SendToWorker
  PROVE  DataInv'
<1> DEFINE msg == MessageFor(rt.job)
<1>1. /\ rt.pc = "send" /\ queue' = Append(queue, msg) /\ rt' = [rt EXCEPT !.pc = "await"]
      /\ UNCHANGED <<store, health, accepted, reported, reply, durable, wk, db, stable, config>>
  BY DEF SendToWorker, workerVars
<1>2. /\ Frame(store) /\ LoopOK /\ QueueOK
  BY DEF ShapeInv, TypeInv
<1>3. rt.job \in Jobs
  BY <1>1, <1>2 DEF LoopOK
<1>4. /\ MsgOK(msg) /\ msg.t # "Op"
      /\ msg.t = "Checkpoint" => msg.snapshot.next_op_seq = store.next_op_seq
  <2>1. ExportSnapshot(store).next_op_seq = store.next_op_seq
    BY DEF ExportSnapshot
  <2>2. /\ MsgOK(msg) /\ msg.t \in {"Flush", "Checkpoint", "Shutdown"}
        /\ msg.t = "Checkpoint" => msg.snapshot = ExportSnapshot(store)
    BY <1>2, <1>3, MessageOK
  <2> HIDE DEF msg
  <2> QED BY <2>1, <2>2
<1> HIDE DEF msg
<1>5. /\ rt'.pc = "await" /\ rt'.job = rt.job
      /\ rt'.stored = rt.stored /\ rt'.checkpoint = rt.checkpoint
  BY <1>1, <1>2 DEF LoopOK
<1>6. InMutation' <=> InMutation
  BY <1>1, <1>5 DEF InMutation
<1>7. /\ QueueOps' = QueueOps
      /\ Len(queue) \in Nat /\ queue'[Len(queue) + 1] = msg
      /\ DOMAIN queue' = 1..(Len(queue) + 1) /\ DOMAIN queue = 1..Len(queue)
      /\ \A i \in 1..Len(queue) : queue'[i] = queue[i]
  BY <1>1, <1>2, <1>4, QueueOpsPush
<1>8. \A i \in DOMAIN queue' : i \in DOMAIN queue \/ i = Len(queue) + 1
  BY <1>7
<1>9. SnapshotInv'
  <2>1. SnapshotInv
    BY DEF DataInv
  <2> QED BY <1>1, <1>4, <1>7, <1>8, <2>1 DEF SnapshotInv
<1>10. ASSUME NEW i \in DOMAIN queue', NEW j \in DOMAIN queue', i < j,
              queue'[i].t = "Op", queue'[j].t = "Op"
       PROVE  queue'[i].stored.seq < queue'[j].stored.seq
  <2>1. i \in DOMAIN queue /\ j \in DOMAIN queue
    BY <1>4, <1>7, <1>8, <1>10
  <2> QED BY <1>7, <1>10, <2>1 DEF DataInv, PipelineInv
<1>11. store.next_op_seq \in Nat
  BY AppliedNumbers DEF DataInv
<1>12. store'.next_op_seq \in Nat /\ store'.next_op_seq >= store.next_op_seq
  BY <1>1, <1>11
<1> QED
  BY <1>1, <1>5, <1>6, <1>7, <1>9, <1>10, <1>12, DataLoopStep

(* One operation more in `accepted`.                                       *)
LEMMA AcceptedPush ==
  ASSUME NumbersInv, NEW o, OpOK(o), \A p \in Acknowledged : p.seq < o.seq,
         accepted' = Append(accepted, o)
  PROVE  /\ IsSeq(accepted') /\ \A i \in DOMAIN accepted' : OpOK(accepted'[i])
         /\ \A i, j \in DOMAIN accepted' : i < j => accepted'[i].seq < accepted'[j].seq
         /\ Acknowledged' = Acknowledged \cup {o}
<1> DEFINE N == Len(accepted) + 1
<1>1. /\ IsSeq(accepted') /\ accepted'[N] = o /\ Len(accepted) \in Nat
      /\ DOMAIN accepted' = 1..N /\ DOMAIN accepted = 1..Len(accepted)
      /\ \A i \in 1..Len(accepted) : accepted'[i] = accepted[i]
  BY SeqAppend, SeqFacts DEF NumbersInv
<1>2. /\ \A i \in DOMAIN accepted' : i \in DOMAIN accepted \/ i = N
      /\ N \in DOMAIN accepted' /\ \A i \in DOMAIN accepted : i \in DOMAIN accepted' /\ i < N
  BY <1>1
<1>3. \A i, j \in DOMAIN accepted' : i < j => i \in DOMAIN accepted
  BY <1>1
<1>4. \A i \in DOMAIN accepted : accepted'[i] = accepted[i]
  BY <1>1
<1> HIDE DEF N
<1>5. \A i \in DOMAIN accepted' : OpOK(accepted'[i])
  BY <1>1, <1>2, <1>4 DEF NumbersInv
<1>6. \A i \in DOMAIN accepted : accepted[i] \in Acknowledged
  BY DEF Acknowledged, ToSet
<1>7. ASSUME NEW i \in DOMAIN accepted', NEW j \in DOMAIN accepted', i < j
      PROVE  accepted'[i].seq < accepted'[j].seq
  <2>1. i \in DOMAIN accepted
    BY <1>3, <1>7
  <2>2. CASE j = N
    BY <1>1, <1>4, <1>6, <2>1, <2>2
  <2>3. CASE j \in DOMAIN accepted
    BY <1>4, <1>7, <2>1, <2>3 DEF NumbersInv
  <2> QED BY <1>2, <2>2, <2>3
<1>8. Acknowledged' = Acknowledged \cup {o}
  <2>1. Acknowledged' = {accepted'[i] : i \in DOMAIN accepted'}
    BY DEF Acknowledged, ToSet
  <2>2. Acknowledged = {accepted[i] : i \in DOMAIN accepted}
    BY DEF Acknowledged, ToSet
  <2> QED BY <1>1, <1>2, <1>4, <2>1, <2>2
<1> QED
  BY <1>1, <1>5, <1>7, <1>8

(* A new operation, accepted at once or in flight, that goes to the queue  *)
(* if there is a sink.                                                     *)
LEMMA DataApply ==
  ASSUME ShapeInv, DataInv, rt.pc = "idle", NEW o, OpOK(o), o.seq = store.next_op_seq,
         store'.next_op_seq = store.next_op_seq + 1,
         UNCHANGED <<config, reply, durable, wk, db, stable, reported, health>>,
         rt'.pc # "unloadable",
         \/ accepted' = Append(accepted, o) /\ ~InMutation'
         \/ /\ accepted' = accepted /\ InMutation' /\ rt'.stored = o
            /\ rt'.checkpoint.next_op_seq = o.seq,
         \/ ~config.sink /\ queue' = queue
         \/ /\ queue' = Append(queue, OpMsg(o))
            /\ config.ack_mode = "Durable" => InMutation'
  PROVE  DataInv'
<1>1. Reached' = Reached /\ BufOps' = BufOps /\ LostOps' = LostOps
  BY SameReached DEF BufOps, LostOps
<1>2. /\ NumbersInv /\ PipelineInv /\ AloneInv /\ EventsInv /\ AccountInv /\ CoverInv
  BY DEF DataInv
<1>3. ~InMutation /\ AppliedOps = Acknowledged
  BY AppliedIs DEF InMutation
<1>4. /\ \A p \in AppliedOps : p.seq < o.seq /\ p.seq \in Nat
      /\ o.seq \in Nat /\ \A k \in Reached : k < o.seq /\ k \in Nat
  BY <1>2, AppliedNumbers, ReachedNumbers DEF NumbersInv
<1>5. AppliedOps' = AppliedOps \cup {o}
  <2>1. CASE accepted' = Append(accepted, o) /\ ~InMutation'
    BY <1>2, <1>3, <1>4, <2>1, AcceptedPush, AppliedIsNext
  <2>2. CASE accepted' = accepted /\ InMutation' /\ rt'.stored = o
    BY <1>3, <2>2, AppliedIsNext DEF Acknowledged
  <2> QED BY <2>1, <2>2
<1>6. NumbersInv'
  <2>1. \A k \in Reached : k < store'.next_op_seq
    BY <1>4
  <2>2. CASE accepted' = Append(accepted, o) /\ ~InMutation'
    <3>1. /\ IsSeq(accepted') /\ \A i \in DOMAIN accepted' : OpOK(accepted'[i])
          /\ \A i, j \in DOMAIN accepted' : i < j => accepted'[i].seq < accepted'[j].seq
          /\ Acknowledged' = Acknowledged \cup {o}
      BY <1>2, <1>3, <1>4, <2>2, AcceptedPush
    <3>2. \A p \in Acknowledged' : p.seq < store'.next_op_seq
      BY <1>3, <1>4, <3>1
    <3> QED BY <1>1, <2>1, <2>2, <3>1, <3>2 DEF NumbersInv
  <2>3. CASE /\ accepted' = accepted /\ InMutation' /\ rt'.stored = o
             /\ rt'.checkpoint.next_op_seq = o.seq
    <3>1. Acknowledged' = Acknowledged
      BY <2>3 DEF Acknowledged
    <3>2. \A p \in Acknowledged' : p.seq < store'.next_op_seq /\ p.seq < o.seq
      BY <1>3, <1>4, <3>1
    <3> QED BY <1>1, <1>2, <2>1, <2>3, <3>2 DEF NumbersInv
  <2> QED BY <2>2, <2>3
<1>7. /\ \A p \in BufOps \cup QueueOps : p \in AppliedOps /\ p.seq < o.seq /\ \A k \in Reached : k < p.seq
      /\ \A p \in BufOps, q \in QueueOps : p.seq < q.seq
  BY <1>2, <1>4 DEF PipelineInv
<1>8. CASE ~config.sink /\ queue' = queue
  <2>1. queue = << >> /\ wk.buf = << >>
    BY <1>8 DEF ShapeInv, Flow
  <2>2. BufOps = {} /\ QueueOps = {} /\ QueueOps' = {} /\ DOMAIN queue = {} /\ DOMAIN wk.buf = {}
    BY <1>8, <2>1, SeqEmpty, NoOps DEF QueueOps
  <2>3. PipelineInv'
    BY <1>1, <1>8, <2>2 DEF PipelineInv
  <2>4. AloneInv'
    <3>1. reply # "err"
      BY DEF ShapeInv, Flow, Quiet, Asked, Working, Answered, None
    <3> QED BY <1>1, <1>8, <2>2, <3>1 DEF AloneInv
  <2>5. SnapshotInv'
    BY <1>8, <2>2, NoSnapshot DEF SnapshotInv
  <2>6. EventsInv'
    BY <1>2, <1>5 DEF EventsInv
  <2>7. AccountInv'
    BY <1>8 DEF AccountInv
  <2>8. CoverInv'
    <3>1. o.seq > health.last_durable_seq /\ \A i \in DOMAIN durable : durable[i].ok => o.seq > durable[i].seq
      BY <1>4, ReachedNumbers
    <3>2. health.last_durable_seq \in Nat /\ \A i \in DOMAIN durable : durable[i].ok => durable[i].seq \in Nat
      BY ReachedNumbers
    <3> QED BY <1>2, <1>4, <1>5, <3>1, <3>2 DEF CoverInv
  <2> QED BY <1>6, <2>3, <2>4, <2>5, <2>6, <2>7, <2>8 DEF DataInv
<1>9. CASE /\ queue' = Append(queue, OpMsg(o))
           /\ config.ack_mode = "Durable" => InMutation'
  <2>1. MsgOK(OpMsg(o)) /\ OpMsg(o).t = "Op" /\ OpMsg(o).stored = o
    BY DEF MsgOK, OpMsg
  <2>2. QueueOK
    BY DEF ShapeInv, TypeInv
  <2>3. /\ QueueOps' = QueueOps \cup {o}
        /\ Len(queue) \in Nat /\ queue'[Len(queue) + 1] = OpMsg(o)
        /\ DOMAIN queue' = 1..(Len(queue) + 1) /\ DOMAIN queue = 1..Len(queue)
        /\ \A i \in 1..Len(queue) : queue'[i] = queue[i]
    BY <1>9, <2>1, <2>2, QueueOpsPush
  <2>4. PipelineInv'
    <3>1. \A p \in BufOps' \cup QueueOps' : p \in AppliedOps' /\ \A k \in Reached' : k < p.seq
      BY <1>1, <1>4, <1>5, <1>7, <2>3
    <3>2. \A p \in BufOps', q \in QueueOps' : p.seq < q.seq
      BY <1>1, <1>7, <2>3
    <3>3. ASSUME NEW i \in DOMAIN queue', NEW j \in DOMAIN queue', i < j,
                 queue'[i].t = "Op", queue'[j].t = "Op"
          PROVE  queue'[i].stored.seq < queue'[j].stored.seq
      <4>1. i \in DOMAIN queue /\ queue'[i] = queue[i]
        BY <2>3, <3>3
      <4>2. queue[i].stored \in QueueOps
        BY <3>3, <4>1 DEF QueueOps
      <4>3. CASE j = Len(queue) + 1
        BY <1>7, <2>1, <2>3, <4>1, <4>2, <4>3
      <4>4. CASE j \in DOMAIN queue
        <5>1. queue'[j] = queue[j]
          BY <2>3, <4>4
        <5> QED BY <1>2, <3>3, <4>1, <4>4, <5>1 DEF PipelineInv
      <4> QED BY <2>3, <4>3, <4>4
    <3> QED BY <1>2, <3>1, <3>2, <3>3 DEF PipelineInv
  <2>5. AloneInv'
    <3>1. reply # "err"
      BY DEF ShapeInv, Flow, Quiet, Asked, Working, Answered, None
    <3>2. config.ack_mode = "Durable" => BufOps = {} /\ QueueOps = {}
      BY <1>2, <1>3 DEF AloneInv
    <3>3. InMutation' => rt'.stored = o
      OBVIOUS
    <3> QED BY <1>1, <1>9, <2>3, <3>1, <3>2, <3>3 DEF AloneInv
  <2>6. SnapshotInv'
    <3>1. \A i \in DOMAIN queue' : queue'[i].t = "Op"
      BY <2>1, <2>3, NoSnapshot
    <3> QED BY <3>1, NoSnapshot DEF SnapshotInv
  <2>7. EventsInv'
    BY <1>2, <1>5 DEF EventsInv
  <2>8. AccountInv'
    BY <1>1, <1>2, <1>5, <2>3 DEF AccountInv
  <2>9. CoverInv'
    <3>1. o.seq > health.last_durable_seq /\ \A i \in DOMAIN durable : durable[i].ok => o.seq > durable[i].seq
      BY <1>4, ReachedNumbers
    <3>2. health.last_durable_seq \in Nat /\ \A i \in DOMAIN durable : durable[i].ok => durable[i].seq \in Nat
      BY ReachedNumbers
    <3> QED BY <1>2, <1>4, <1>5, <3>1, <3>2 DEF CoverInv
  <2> QED BY <1>6, <2>4, <2>5, <2>6, <2>7, <2>8, <2>9 DEF DataInv
<1> QED
  BY <1>8, <1>9

(* A mutating command.                                                     *)
LEMMA DataPerform ==
  ASSUME ShapeInv, DataInv, NEW m \in Mutations, Perform(m)
  PROVE  DataInv'
<1> DEFINE o == StoredFor(store, m)
           applied == ClearPendingOps(Mutate(store, m))
           c == MutationCheckpoint(store)
<1>1. /\ rt.pc = "idle" /\ Succeeds(store, m) /\ store.next_op_seq <= MaxOps
      /\ UNCHANGED <<reply, durable, reported, wk, db, stable, config>>
      /\ \/ (NotPersisted(o) \/ Enqueued(o)) /\ store' = applied
         \/ QueueFull /\ store' = RollbackMutation(applied, c, o)
  BY DEF Perform, workerVars
<1>2. config \in Configs /\ Frame(store)
  BY DEF ShapeInv, TypeInv
<1>3. OpOK(o) /\ o.seq = store.next_op_seq /\ o.op.type \in OpTypes
  BY <1>1, <1>2, StoredOK DEF OpOK
<1>4. Frame(applied) /\ applied.next_op_seq = store.next_op_seq + 1
  BY <1>1, <1>2, MutationsAreCalls, MutateFrame
<1>5. c.next_op_seq = store.next_op_seq /\ c.next_op_seq \in OpSeq /\ c.undo_len \in Nat /\ c.redo_len \in Nat
  BY <1>2, CheckpointFrame
<1> HIDE DEF o, applied, c
<1>6. CASE NotPersisted(o)
  <2>1. /\ ~config.sink /\ Accept(o) /\ UNCHANGED <<queue, health>>
    BY <1>6 DEF NotPersisted
  <2>2. accepted' = Append(accepted, o) /\ store' = applied
    BY <1>1, <2>1 DEF Accept, QueueFull
  <2>3. rt'.pc = "idle"
    BY <1>2, <2>1, AcceptRt
  <2>4. ~InMutation'
    BY <2>3 DEF InMutation
  <2> QED BY <1>1, <1>3, <1>4, <2>1, <2>2, <2>3, <2>4, DataApply
<1>7. CASE Enqueued(o)
  <2>1. /\ config.sink /\ RoomInQueue /\ queue' = Append(queue, OpMsg(o)) /\ UNCHANGED health /\ store' = applied
    BY <1>1, <1>7 DEF Enqueued, QueueFull
  <2>2. CASE config.ack_mode = "InMemory" /\ Accept(o)
    <3>1. accepted' = Append(accepted, o)
      BY <2>2 DEF Accept
    <3>2. rt'.pc \in {"idle", "send"} /\ ~InMutation'
      BY <1>2, <2>2, AcceptRt DEF InMutation
    <3> QED BY <1>1, <1>3, <1>4, <2>1, <2>2, <3>1, <3>2, DataApply
  <2>3. CASE /\ config.ack_mode = "Durable" /\ UNCHANGED accepted
             /\ rt' = [pc |-> "send", job |-> "mutation", stored |-> o, checkpoint |-> c]
    <3>1. InMutation' /\ rt'.stored = o /\ rt'.checkpoint = c /\ rt'.pc = "send"
      BY <2>3 DEF InMutation
    <3>2. rt'.checkpoint.next_op_seq = o.seq
      BY <1>3, <1>5, <3>1
    <3> QED BY <1>1, <1>3, <1>4, <2>1, <2>3, <3>1, <3>2, DataApply
  <2> QED BY <1>7, <2>2, <2>3 DEF Enqueued, c
<1>8. CASE QueueFull
  <2>1. UNCHANGED <<queue, rt, accepted>> /\ health' = [health EXCEPT !.is_healthy = FALSE]
    BY <1>8 DEF QueueFull, MarkPersistUnhealthy
  <2>2. health'.last_durable_seq = health.last_durable_seq
    BY <2>1 DEF ShapeInv, TypeInv, HealthOK
  <2>3. store'.next_op_seq = store.next_op_seq
    <3>1. store' = RollbackMutation(applied, c, o)
      BY <1>1, <1>8 DEF QueueFull, NotPersisted, Enqueued
    <3> QED BY <1>3, <1>4, <1>5, <3>1, RollbackFrame
  <2>4. SnapshotInv'
    BY <1>1, <2>1, NoSnapshot DEF SnapshotInv
  <2>5. ~InMutation /\ ~InMutation' /\ QueueOps' = QueueOps
    BY <1>1, <2>1 DEF InMutation, QueueOps
  <2>6. store'.next_op_seq \in Nat /\ store'.next_op_seq >= store.next_op_seq
    BY <1>2, <2>3 DEF Frame, OpSeq
  <2>7. \A i, j \in DOMAIN queue' : i < j /\ queue'[i].t = "Op" /\ queue'[j].t = "Op"
                                      => queue'[i].stored.seq < queue'[j].stored.seq
    BY <2>1 DEF DataInv, PipelineInv
  <2> QED BY <1>1, <2>1, <2>2, <2>4, <2>5, <2>6, <2>7, DataLoopStep
<1> QED
  BY <1>1, <1>6, <1>7, <1>8

(* The answer of the worker: nothing is under way any more.                *)
LEMMA DataAwait ==
  ASSUME ShapeInv, DataInv, AwaitReply
  PROVE  DataInv'
<1>1. /\ rt.pc = "await" /\ reply # None /\ reply' = None
      /\ MutationAnswer \/ ControlAnswer
      /\ UNCHANGED <<queue, durable, reported, wk, db, stable, config>>
  BY DEF AwaitReply, workerVars
<1>2. /\ NumbersInv /\ PipelineInv /\ AloneInv /\ EventsInv /\ AccountInv /\ CoverInv
  BY DEF DataInv
<1>3. LoopOK /\ HealthOK /\ Frame(store) /\ DbOK /\ config \in Configs
  BY DEF ShapeInv, TypeInv
<1>4. /\ queue = << >> /\ wk.buf = << >> /\ wk.pc \in {"recv", "dead"}
  BY <1>1 DEF ShapeInv, Flow, Quiet, Asked, Working, Answered
<1>5. /\ BufOps = {} /\ QueueOps = {} /\ BufOps' = {} /\ QueueOps' = {} /\ LostOps' = LostOps
      /\ DOMAIN queue = {} /\ DOMAIN wk.buf = {}
  BY <1>1, <1>4, SeqEmpty, NoOps DEF BufOps, QueueOps, LostOps
<1>6. health'.last_durable_seq = health.last_durable_seq
  BY <1>1, <1>3 DEF MutationAnswer, ControlAnswer, MarkPersistUnhealthy, HealthOK
<1>7. Reached' = Reached
  BY <1>1, <1>6, SameReached
<1>8. PipelineInv'
  BY <1>1, <1>5 DEF PipelineInv
<1>9. AloneInv'
  BY <1>1, <1>5 DEF AloneInv, None
<1>10. SnapshotInv'
  BY <1>1, <1>4, <1>5 DEF SnapshotInv
<1>11. CASE rt.job = "mutation" /\ reply = "err" /\ MutationAnswer
  <2>1. /\ store' = RollbackMutation(store, rt.checkpoint, rt.stored) /\ rt' = Idle /\ UNCHANGED accepted
    BY <1>11 DEF MutationAnswer
  <2>2. InMutation /\ ~InMutation' /\ rt'.pc = "idle"
    BY <1>1, <1>11, <2>1 DEF InMutation, Idle
  <2>3. /\ OpOK(rt.stored) /\ rt.checkpoint.next_op_seq \in OpSeq
        /\ rt.checkpoint.undo_len \in Nat /\ rt.checkpoint.redo_len \in Nat
        /\ config.ack_mode = "Durable"
    BY <1>3, <2>2 DEF LoopOK
  <2>4. rt.stored.op.type \in OpTypes /\ rt.stored.seq \in Nat
    BY <2>3 DEF OpOK
  <2>5. store'.next_op_seq = rt.stored.seq
    <3>1. store'.next_op_seq = rt.checkpoint.next_op_seq
      BY <1>3, <2>1, <2>3, <2>4, RollbackFrame
    <3> QED BY <1>2, <2>2, <3>1 DEF NumbersInv
  <2>6. \A k \in Reached : k < rt.stored.seq
    BY <1>2, <1>11, <2>2, <2>3 DEF AloneInv
  <2>7. Acknowledged' = Acknowledged /\ AppliedOps' = Acknowledged /\ AppliedOps = Acknowledged \cup {rt.stored}
    BY <2>1, <2>2, AppliedIs, AppliedIsNext DEF Acknowledged
  <2>8. NumbersInv'
    BY <1>2, <1>7, <2>1, <2>2, <2>5, <2>6, <2>7 DEF NumbersInv
  <2>9. EventsInv'
    <3>1. ASSUME NEW d \in stable, NEW n \in DOMAIN d.events, StoredOp(n, d.events[n]) \in AppliedOps
          PROVE  StoredOp(n, d.events[n]) \in AppliedOps'
      <4>1. n \in Reached /\ n \in Nat
        BY ReachedNumbers
      <4>2. n < rt.stored.seq
        BY <2>6, <4>1
      <4>3. StoredOp(n, d.events[n]).seq = n
        BY DEF StoredOp
      <4>4. StoredOp(n, d.events[n]) # rt.stored
        BY <2>4, <4>1, <4>2, <4>3
      <4> QED BY <2>7, <3>1, <4>4
    <3> QED BY <1>1, <1>2, <3>1 DEF EventsInv
  <2>10. AccountInv' /\ CoverInv'
    BY <1>1, <1>2, <1>5, <1>6, <2>7 DEF AccountInv, CoverInv
  <2> QED BY <1>8, <1>9, <1>10, <2>8, <2>9, <2>10 DEF DataInv
<1>12. CASE ~(rt.job = "mutation" /\ reply = "err" /\ MutationAnswer)
  <2>1. UNCHANGED store
    BY <1>1, <1>12 DEF MutationAnswer, ControlAnswer
  <2>2. /\ rt'.pc # "unloadable" /\ ~InMutation'
        /\ AppliedOps' = AppliedOps
        /\ IsSeq(accepted') /\ \A i \in DOMAIN accepted' : OpOK(accepted'[i])
        /\ \A i, j \in DOMAIN accepted' : i < j => accepted'[i].seq < accepted'[j].seq
        /\ \A o \in Acknowledged' : o.seq < store.next_op_seq
    <3>1. CASE rt.job = "mutation" /\ MutationAnswer
      <4>1. Accept(rt.stored)
        BY <1>1, <1>12, <3>1 DEF MutationAnswer
      <4>2. InMutation
        BY <1>1, <3>1 DEF InMutation
      <4>3. accepted' = Append(accepted, rt.stored)
        BY <4>1 DEF Accept
      <4>4. rt'.pc \in {"idle", "send"} /\ ~InMutation'
        BY <1>3, <4>1, AcceptRt DEF InMutation
      <4>5. OpOK(rt.stored) /\ \A p \in Acknowledged : p.seq < rt.stored.seq
        BY <1>2, <1>3, <4>2 DEF LoopOK, NumbersInv
      <4>6. /\ IsSeq(accepted') /\ \A i \in DOMAIN accepted' : OpOK(accepted'[i])
            /\ \A i, j \in DOMAIN accepted' : i < j => accepted'[i].seq < accepted'[j].seq
            /\ Acknowledged' = Acknowledged \cup {rt.stored}
        BY <1>2, <4>3, <4>5, AcceptedPush
      <4>7. \A o \in AppliedOps : o.seq < store.next_op_seq
        BY <1>1, <1>2, AppliedNumbers
      <4> QED BY <4>2, <4>4, <4>6, <4>7, AppliedIs, AppliedIsNext
    <3>2. CASE rt.job # "mutation" /\ ControlAnswer
      <4>1. UNCHANGED accepted /\ rt' \in {Stopped("shutdown"), Idle}
        BY <3>2 DEF ControlAnswer
      <4>2. rt'.pc # "unloadable" /\ ~InMutation' /\ ~InMutation
        BY <3>2, <4>1 DEF Stopped, Idle, InMutation
      <4>3. Acknowledged' = Acknowledged
        BY <4>1 DEF Acknowledged
      <4> QED BY <1>1, <1>2, <4>1, <4>2, <4>3, AppliedIs, AppliedIsNext DEF NumbersInv
    <3> QED BY <1>1, <3>1, <3>2 DEF MutationAnswer, ControlAnswer
  <2>3. NumbersInv'
    BY <1>1, <1>2, <1>7, <2>1, <2>2 DEF NumbersInv
  <2>4. EventsInv' /\ AccountInv' /\ CoverInv'
    BY <1>1, <1>2, <1>5, <1>6, <2>2 DEF EventsInv, AccountInv, CoverInv
  <2> QED BY <1>8, <1>9, <1>10, <2>3, <2>4 DEF DataInv
<1> QED
  BY <1>11, <1>12

(* A batch result is read: what it covers or loses is announced.           *)
LEMMA DataObserve ==
  ASSUME ShapeInv, DataInv, ObserveDurable
  PROVE  DataInv'
<1> DEFINE r == durable[1]
<1>1. /\ rt.pc = "idle" /\ durable # << >> /\ durable' = Tail(durable)
      /\ UNCHANGED <<store, rt, accepted, queue, reply, wk, db, stable, config>>
  BY DEF ObserveDurable, LaterResults, workerVars
<1>2. /\ NumbersInv /\ PipelineInv /\ AloneInv /\ SnapshotInv /\ EventsInv /\ AccountInv /\ CoverInv
  BY DEF DataInv
<1>3. HealthOK /\ ResultsOK
  BY DEF ShapeInv, TypeInv
<1>4. /\ IsSeq(durable') /\ Head(durable) = r /\ 1 \in DOMAIN durable
      /\ \A i \in DOMAIN durable' : i + 1 \in DOMAIN durable /\ durable'[i] = durable[i + 1]
      /\ DOMAIN durable = 1..Len(durable) /\ DOMAIN durable' = 1..Len(durable')
      /\ Len(durable) \in Nat /\ Len(durable') = Len(durable) - 1
  BY <1>1, <1>3, SeqTail, SeqFacts DEF ResultsOK
<1>5. \A i \in DOMAIN durable : i = 1 \/ (i - 1 \in DOMAIN durable' /\ durable'[i - 1] = durable[i])
  BY <1>4
<1>6. /\ r.ok => /\ health'.last_durable_seq = MaxOf(health.last_durable_seq, r.seq)
                 /\ reported' = reported
      /\ ~r.ok => /\ health'.last_durable_seq = health.last_durable_seq
                  /\ reported' = reported \cup r.lost
  BY <1>3, <1>4 DEF ObserveDurable, MarkPersistUnhealthy, HealthOK
<1>7. r.ok => r.seq \in Reached /\ r.seq \in Nat
  BY <1>4, ReachedNumbers
<1> HIDE DEF r
<1>8. health.last_durable_seq \in Reached /\ health.last_durable_seq \in Nat /\ Reached \subseteq Nat
  BY ReachedNumbers
<1>9. health'.last_durable_seq \in {health.last_durable_seq} \cup (IF r.ok THEN {r.seq} ELSE {})
  BY <1>6, <1>7, <1>8 DEF MaxOf
<1>10. Reached' \subseteq Reached
  <2> DEFINE rest == {health.last_durable_seq, wk.last_durable}
                       \cup (UNION {DOMAIN d.events : d \in stable})
                       \cup {d.snapshot.next_op_seq - 1 : d \in stable}
             now == {durable[i].seq : i \in {j \in DOMAIN durable : durable[j].ok}}
             later == {durable'[i].seq : i \in {j \in DOMAIN durable' : durable'[j].ok}}
  <2>1. Reached = rest \cup now
    BY DEF Reached
  <2>2. Reached' \subseteq rest \cup {health'.last_durable_seq} \cup later
    BY <1>1 DEF Reached
  <2>3. later \subseteq now
    BY <1>4
  <2> HIDE DEF rest, now, later
  <2> QED BY <1>7, <1>8, <1>9, <2>1, <2>2, <2>3
<1>11. \A o \in LostOps : o \in LostOps' \/ o \in reported'
  <2> TAKE o \in LostOps
  <2>1. PICK i \in DOMAIN durable : ~durable[i].ok /\ o \in durable[i].lost
    BY DEF LostOps
  <2>2. CASE i = 1
    BY <1>6, <2>1, <2>2 DEF r
  <2>3. CASE i # 1
    BY <1>5, <2>1, <2>3 DEF LostOps
  <2> QED BY <2>2, <2>3
<1>12. /\ BufOps' = BufOps /\ QueueOps' = QueueOps /\ Acknowledged' = Acknowledged
       /\ InMutation' <=> InMutation
       /\ reported \subseteq reported'
  BY <1>1, <1>6 DEF BufOps, QueueOps, Acknowledged, InMutation
<1>13. AppliedOps' = AppliedOps
  BY <1>1, <1>12, AppliedIs, AppliedIsNext
<1>14. NumbersInv' /\ PipelineInv' /\ AloneInv' /\ SnapshotInv'
  BY <1>1, <1>2, <1>10, <1>12, <1>13 DEF NumbersInv, PipelineInv, AloneInv, SnapshotInv
<1>15. EventsInv' /\ AccountInv'
  BY <1>1, <1>2, <1>11, <1>12, <1>13 DEF EventsInv, AccountInv
<1>16. CoverInv'
  <2>1. ASSUME NEW o \in AppliedOps, o.seq <= health'.last_durable_seq
        PROVE  Journaled(db, o) \/ o \in reported'
    <3>1. CASE health'.last_durable_seq = health.last_durable_seq
      BY <1>2, <1>12, <2>1, <3>1 DEF CoverInv
    <3>2. CASE r.ok /\ health'.last_durable_seq = r.seq
      <4>1. \/ Journaled(db, o) \/ o \in reported
            \/ \E j \in DOMAIN durable : j < 1 /\ ~durable[j].ok /\ o \in durable[j].lost
        BY <1>2, <1>4, <2>1, <3>2 DEF CoverInv, r
      <4>2. ~ \E j \in DOMAIN durable : j < 1
        BY <1>4
      <4> QED BY <1>12, <4>1, <4>2
    <3> QED BY <1>9, <3>1, <3>2
  <2>2. ASSUME NEW i \in DOMAIN durable', durable'[i].ok, NEW o \in AppliedOps, o.seq <= durable'[i].seq
        PROVE  \/ Journaled(db, o) \/ o \in reported'
               \/ \E j \in DOMAIN durable' : j < i /\ ~durable'[j].ok /\ o \in durable'[j].lost
    <3>1. i + 1 \in DOMAIN durable /\ durable'[i] = durable[i + 1]
      BY <1>4
    <3>2. \/ Journaled(db, o) \/ o \in reported
          \/ \E j \in DOMAIN durable : j < i + 1 /\ ~durable[j].ok /\ o \in durable[j].lost
      BY <1>2, <2>2, <3>1 DEF CoverInv
    <3>3. ASSUME NEW j \in DOMAIN durable, j < i + 1, ~durable[j].ok, o \in durable[j].lost
          PROVE  o \in reported' \/ \E k \in DOMAIN durable' : k < i /\ ~durable'[k].ok /\ o \in durable'[k].lost
      <4>1. CASE j = 1
        BY <1>6, <3>3, <4>1 DEF r
      <4>2. CASE j # 1
        <5>1. j - 1 \in DOMAIN durable' /\ durable'[j - 1] = durable[j]
          BY <1>5, <4>2
        <5>2. j - 1 < i
          BY <1>4, <3>3
        <5> QED BY <3>3, <5>1, <5>2
      <4> QED BY <4>1, <4>2
    <3> QED BY <1>12, <3>2, <3>3
  <2> QED BY <1>1, <1>13, <2>1, <2>2 DEF CoverInv
<1> QED
  BY <1>14, <1>15, <1>16 DEF DataInv

------------------------------------------------------------------------------
(* Preservation by the worker                                              *)

(* Steps of the worker that only move operations along.                    *)
LEMMA DataMove ==
  ASSUME ShapeInv, DataInv, UNCHANGED <<loopVars, reply, durable, db, stable, config>>,
         wk'.last_durable = wk.last_durable,
         (BufOps \cup QueueOps)' = BufOps \cup QueueOps, SnapshotInv',
         \A i, j \in DOMAIN wk'.buf : i < j => wk'.buf[i].seq < wk'.buf[j].seq,
         \A o \in BufOps', p \in QueueOps' : o.seq < p.seq,
         \A i, j \in DOMAIN queue' : i < j /\ queue'[i].t = "Op" /\ queue'[j].t = "Op"
                                       => queue'[i].stored.seq < queue'[j].stored.seq
  PROVE  DataInv'
<1>1. UNCHANGED <<store, rt, health, accepted, reported>>
  BY DEF loopVars
<1>2. /\ NumbersInv /\ PipelineInv /\ AloneInv /\ EventsInv /\ AccountInv /\ CoverInv
  BY DEF DataInv
<1>3. /\ Reached' = Reached /\ LostOps' = LostOps /\ Acknowledged' = Acknowledged
      /\ InMutation' <=> InMutation
  BY <1>1 DEF Reached, LostOps, Acknowledged, InMutation
<1>4. AppliedOps' = AppliedOps
  BY <1>1, <1>3, AppliedIs, AppliedIsNext
<1>5. NumbersInv'
  BY <1>1, <1>2, <1>3 DEF NumbersInv
<1>6. PipelineInv'
  BY <1>2, <1>3, <1>4 DEF PipelineInv
<1>7. AloneInv'
  BY <1>1, <1>2, <1>3 DEF AloneInv
<1>8. EventsInv' /\ CoverInv'
  BY <1>1, <1>2, <1>4 DEF EventsInv, CoverInv
<1>9. AccountInv'
  BY <1>1, <1>2, <1>3, <1>4 DEF AccountInv
<1> QED
  BY <1>5, <1>6, <1>7, <1>8, <1>9 DEF DataInv

(* The deadline, and the closed queue.                                     *)
LEMMA DataWake ==
  ASSUME ShapeInv, DataInv, DeadlineExpires \/ QueueClosed
  PROVE  DataInv'
<1>1. /\ UNCHANGED <<loopVars, queue, reply, durable, db, stable, config>>
      /\ \E msg \in {TimerMsg, ClosedMsg} : wk' = [wk EXCEPT !.pc = "flush", !.msg = msg]
  BY DEF DeadlineExpires, QueueClosed, Wake
<1>2. /\ wk'.buf = wk.buf /\ wk'.last_durable = wk.last_durable /\ wk'.pc = "flush"
      /\ wk'.msg.t \in {"Timer", "Closed"}
  <2>1. DOMAIN wk = {"pc", "msg", "buf", "last_durable"}
    BY DEF ShapeInv, TypeInv, WorkerOK
  <2> QED BY <1>1, <2>1 DEF TimerMsg, ClosedMsg
<1>3. PipelineInv /\ SnapshotInv
  BY DEF DataInv
<1>4. BufOps' = BufOps /\ QueueOps' = QueueOps
  BY <1>1, <1>2 DEF BufOps, QueueOps
<1>5. SnapshotInv'
  BY <1>1, <1>2, <1>3 DEF SnapshotInv, loopVars
<1>6. /\ \A i, j \in DOMAIN wk'.buf : i < j => wk'.buf[i].seq < wk'.buf[j].seq
      /\ \A o \in BufOps', p \in QueueOps' : o.seq < p.seq
      /\ \A i, j \in DOMAIN queue' : i < j /\ queue'[i].t = "Op" /\ queue'[j].t = "Op"
                                       => queue'[i].stored.seq < queue'[j].stored.seq
  BY <1>1, <1>2, <1>3, <1>4 DEF PipelineInv
<1> QED
  BY <1>1, <1>2, <1>4, <1>5, <1>6, DataMove

(* The worker takes a message.                                             *)
LEMMA DataReceive ==
  ASSUME ShapeInv, DataInv, Receive
  PROVE  DataInv'
<1> DEFINE msg == queue[1]
           buf == IF msg.t = "Op" THEN Append(wk.buf, msg.stored) ELSE wk.buf
<1>1. QueueOK /\ WorkerOK
  BY DEF ShapeInv, TypeInv
<1>2. /\ queue # << >> /\ queue' = Tail(queue)
      /\ UNCHANGED <<loopVars, reply, durable, db, stable, config>>
  BY DEF Receive
<1>3. /\ Head(queue) = msg /\ 1 \in DOMAIN queue
      /\ \A i \in DOMAIN queue' : i + 1 \in DOMAIN queue /\ queue'[i] = queue[i + 1]
      /\ DOMAIN queue = 1..Len(queue) /\ DOMAIN queue' = 1..Len(queue')
      /\ Len(queue) \in Nat /\ Len(queue') = Len(queue) - 1
  BY <1>1, <1>2, SeqTail, SeqFacts DEF QueueOK
<1>4. \A i \in DOMAIN queue : i = 1 \/ (i - 1 \in DOMAIN queue' /\ queue'[i - 1] = queue[i])
  BY <1>3
<1>5. /\ wk' = IF FlushNow(msg, buf) THEN [wk EXCEPT !.buf = buf, !.pc = "flush", !.msg = msg]
               ELSE [wk EXCEPT !.buf = buf]
      /\ wk.pc = "recv"
  BY <1>3 DEF Receive
<1> HIDE DEF buf
<1>6. /\ wk'.buf = buf /\ wk'.last_durable = wk.last_durable
      /\ wk'.pc = "recv" \/ (wk'.pc = "flush" /\ wk'.msg = msg)
  BY <1>1, <1>5 DEF WorkerOK
<1>7. PipelineInv /\ SnapshotInv
  BY DEF DataInv
<1>8. \A i \in DOMAIN queue : queue[i].t = "Op" => queue[i].stored \in QueueOps
  BY DEF QueueOps
<1>9. \A q \in QueueOps' : q \in QueueOps
  BY <1>3 DEF QueueOps
<1>10. \A q \in QueueOps : q \in QueueOps' \/ (msg.t = "Op" /\ q = msg.stored)
  <2> TAKE q \in QueueOps
  <2>1. PICK i \in DOMAIN queue : queue[i].t = "Op" /\ q = queue[i].stored
    BY DEF QueueOps
  <2> QED BY <1>4, <2>1 DEF QueueOps
<1>11. SnapshotInv'
  <2>1. store' = store
    BY <1>2 DEF loopVars
  <2> QED BY <1>2, <1>3, <1>6, <1>7, <2>1 DEF SnapshotInv
<1>12. ASSUME NEW i \in DOMAIN queue', NEW j \in DOMAIN queue', i < j,
              queue'[i].t = "Op", queue'[j].t = "Op"
       PROVE  queue'[i].stored.seq < queue'[j].stored.seq
  <2>1. i + 1 \in DOMAIN queue /\ j + 1 \in DOMAIN queue /\ i + 1 < j + 1
    BY <1>3, <1>12
  <2>2. queue'[i] = queue[i + 1] /\ queue'[j] = queue[j + 1]
    BY <1>3
  <2> QED BY <1>7, <1>12, <2>1, <2>2 DEF PipelineInv
<1>13. CASE msg.t = "Op"
  <2> DEFINE o == msg.stored
             N == Len(wk.buf) + 1
  <2>1. o \in QueueOps
    BY <1>3, <1>8, <1>13
  <2>2. /\ wk'.buf[N] = o /\ DOMAIN wk'.buf = 1..N /\ DOMAIN wk.buf = 1..Len(wk.buf)
        /\ Len(wk.buf) \in Nat /\ \A i \in 1..Len(wk.buf) : wk'.buf[i] = wk.buf[i]
    BY <1>1, <1>6, <1>13, SeqAppend, SeqFacts DEF WorkerOK, buf
  <2>3. /\ \A i \in DOMAIN wk'.buf : i \in DOMAIN wk.buf \/ i = N
        /\ N \in DOMAIN wk'.buf
        /\ \A i \in DOMAIN wk.buf : i \in DOMAIN wk'.buf /\ wk'.buf[i] = wk.buf[i]
        /\ \A i, j \in DOMAIN wk'.buf : i < j => i \in DOMAIN wk.buf
    BY <2>2
  <2>4. ASSUME NEW q \in QueueOps' PROVE o.seq < q.seq
    <3>1. PICK i \in DOMAIN queue' : queue'[i].t = "Op" /\ q = queue'[i].stored
      BY <2>4 DEF QueueOps
    <3>2. i + 1 \in DOMAIN queue /\ queue'[i] = queue[i + 1] /\ 1 < i + 1
      BY <1>3
    <3> QED BY <1>3, <1>7, <1>13, <3>1, <3>2 DEF PipelineInv
  <2> HIDE DEF o, N
  <2>5. BufOps' = BufOps \cup {o}
    <3>1. BufOps' = {wk'.buf[i] : i \in DOMAIN wk'.buf} /\ BufOps = {wk.buf[i] : i \in DOMAIN wk.buf}
      BY DEF BufOps, ToSet
    <3> QED BY <2>2, <2>3, <3>1
  <2>6. (BufOps \cup QueueOps)' = BufOps \cup QueueOps
    BY <1>9, <1>10, <2>1, <2>5 DEF o
  <2>7. \A i \in DOMAIN wk.buf : wk.buf[i] \in BufOps
    BY DEF BufOps, ToSet
  <2>8. ASSUME NEW i \in DOMAIN wk'.buf, NEW j \in DOMAIN wk'.buf, i < j
        PROVE  wk'.buf[i].seq < wk'.buf[j].seq
    <3>1. i \in DOMAIN wk.buf /\ wk'.buf[i] = wk.buf[i]
      BY <2>3, <2>8
    <3>2. CASE j = N
      BY <1>7, <2>1, <2>2, <2>7, <3>1, <3>2 DEF PipelineInv
    <3>3. CASE j \in DOMAIN wk.buf
      BY <1>7, <2>3, <2>8, <3>1, <3>3 DEF PipelineInv
    <3> QED BY <2>3, <3>2, <3>3
  <2>9. \A p \in BufOps', q \in QueueOps' : p.seq < q.seq
    BY <1>7, <1>9, <2>4, <2>5 DEF PipelineInv
  <2> QED BY <1>2, <1>6, <1>11, <1>12, <2>6, <2>8, <2>9, DataMove
<1>14. CASE msg.t # "Op"
  <2>1. BufOps' = BufOps /\ QueueOps' = QueueOps /\ wk'.buf = wk.buf
    BY <1>6, <1>9, <1>10, <1>14 DEF buf, BufOps
  <2>2. /\ \A i, j \in DOMAIN wk'.buf : i < j => wk'.buf[i].seq < wk'.buf[j].seq
        /\ \A p \in BufOps', q \in QueueOps' : p.seq < q.seq
    BY <1>7, <2>1 DEF PipelineInv
  <2> QED BY <1>2, <1>6, <1>11, <1>12, <2>1, <2>2, DataMove
<1> QED
  BY <1>13, <1>14

(* Every failure is an error that append_ops, write_snapshot or            *)
(* compact_through returns.                                                *)
ErrorsReturned == "panic" \notin SinkFaults /\ "flush" \notin SinkFaults

(* The batch becomes part of the journal.                                  *)
LEMMA DataFlushSucceeds ==
  ASSUME ShapeInv, DataInv, wk.pc = "flush", FlushSucceeds, UNCHANGED <<loopVars, queue, config>>
  PROVE  DataInv'
<1> DEFINE reached == MaxOf(wk.last_durable, Last(wk.buf).seq)
           D == AppendOps(db, wk.buf)
           r == [ok |-> TRUE, seq |-> reached]
           t == wk.msg.t
<1>1. UNCHANGED <<store, rt, health, accepted, reported>>
  BY DEF loopVars
<1>2. /\ NumbersInv /\ PipelineInv /\ AloneInv /\ SnapshotInv /\ EventsInv /\ AccountInv /\ CoverInv
  BY DEF DataInv
<1>3. WorkerOK /\ DbOK /\ ResultsOK /\ config \in Configs
  BY DEF ShapeInv, TypeInv
<1>4. rt.pc # "unloadable" /\ config.sink /\ reply = None
  BY <1>3, ConfigFacts DEF ShapeInv, Flow, Quiet, Asked, Working, Answered
<1>5. /\ ~Conflicts(db, wk.buf) /\ db' = D /\ stable' \subseteq stable \cup {D} /\ D \in stable'
      /\ \/ wk.buf = << >> /\ UNCHANGED durable /\ AfterFlush(TRUE, wk.last_durable)
         \/ wk.buf # << >> /\ durable' = Append(durable, r) /\ AfterFlush(TRUE, reached)
  BY DEF FlushSucceeds, Syncs, Commits
<1>6. \A i \in DOMAIN wk.buf : wk.buf[i] \in BufOps
  BY DEF BufOps, ToSet
<1>7. \A o \in BufOps : \E i \in DOMAIN wk.buf : o = wk.buf[i]
  BY DEF BufOps, ToSet
<1>8. /\ \A o \in AppliedOps : OpOK(o) /\ o.seq \in 1..MaxOps /\ o.seq < store.next_op_seq
      /\ \A o, p \in AppliedOps : o.seq = p.seq => o = p
      /\ store.next_op_seq \in Nat
  BY <1>2, <1>4, AppliedNumbers
<1>9. BufOps \subseteq AppliedOps /\ QueueOps \subseteq AppliedOps
  BY <1>2 DEF PipelineInv
<1>10. /\ DOMAIN db = {"events", "snapshot"} /\ Decodes(db, MaxOps)
  BY <1>3 DEF DbOK
<1>11. /\ Keeps(db, D) /\ D.snapshot = db.snapshot
       /\ \A i \in DOMAIN wk.buf : Journaled(D, wk.buf[i])
       /\ \A n \in DOMAIN D.events :
            \/ n \in DOMAIN db.events /\ D.events[n] = db.events[n]
            \/ \E i \in DOMAIN wk.buf : n = wk.buf[i].seq /\ StoredOp(n, D.events[n]) = wk.buf[i]
  <2>1. \A i, j \in DOMAIN wk.buf : wk.buf[i].seq = wk.buf[j].seq => wk.buf[i] = wk.buf[j]
    BY <1>6, <1>8, <1>9
  <2>2. \A i \in DOMAIN wk.buf : wk.buf[i] = StoredOp(wk.buf[i].seq, wk.buf[i].op)
    BY <1>3 DEF WorkerOK, OpOK
  <2> QED BY <1>5, <1>10, <2>1, <2>2, AppendKeeps
<1>12. wk.buf # << >> => /\ Last(wk.buf) \in BufOps
                         /\ reached \in {wk.last_durable, Last(wk.buf).seq}
                         /\ \A o \in BufOps : o.seq <= reached
                         /\ reached \in Nat
  <2> SUFFICES ASSUME wk.buf # << >>
               PROVE  /\ Last(wk.buf) \in BufOps
                      /\ reached \in {wk.last_durable, Last(wk.buf).seq}
                      /\ \A o \in BufOps : o.seq <= reached
                      /\ reached \in Nat
    OBVIOUS
  <2>1. /\ Len(wk.buf) \in DOMAIN wk.buf /\ Last(wk.buf) = wk.buf[Len(wk.buf)]
        /\ DOMAIN wk.buf = 1..Len(wk.buf) /\ Len(wk.buf) \in Nat
    BY <1>3, SeqLast, SeqFacts DEF WorkerOK
  <2>2. Last(wk.buf) \in BufOps /\ Last(wk.buf).seq \in Nat /\ wk.last_durable \in Nat
    BY <1>3, <1>6, <1>8, <1>9, <2>1 DEF WorkerOK
  <2>3. \A i \in DOMAIN wk.buf : wk.buf[i].seq \in Nat
    BY <1>6, <1>8, <1>9
  <2>4. ASSUME NEW i \in DOMAIN wk.buf PROVE wk.buf[i].seq <= Last(wk.buf).seq
    <3>1. i = Len(wk.buf) \/ i < Len(wk.buf)
      BY <2>1
    <3> QED BY <1>2, <2>1, <2>3, <3>1 DEF PipelineInv
  <2>5. \A o \in BufOps : o.seq <= Last(wk.buf).seq /\ o.seq \in Nat
    BY <1>7, <2>3, <2>4
  <2> QED BY <2>2, <2>5 DEF MaxOf
<1> HIDE DEF reached, D, r
<1>13. /\ wk'.buf = << >> /\ wk'.pc = PcAfter(t, TRUE) /\ reply' = ReplyTo(t, TRUE)
       /\ wk'.msg = IF t = "Checkpoint" THEN wk.msg ELSE NoMsg
       /\ wk'.last_durable = IF wk.buf = << >> THEN wk.last_durable ELSE reached
  BY <1>3, <1>5 DEF AfterFlush, WorkerAfter, WorkerOK
<1>14. BufOps' = {} /\ QueueOps' = QueueOps /\ Acknowledged' = Acknowledged /\ (InMutation' <=> InMutation)
       /\ DOMAIN wk'.buf = {}
  BY <1>1, <1>13, SeqEmpty DEF BufOps, QueueOps, Acknowledged, InMutation, ToSet
<1>15. AppliedOps' = AppliedOps
  BY <1>1, <1>14, AppliedIs, AppliedIsNext
<1>16. \A i \in DOMAIN durable' : \/ i \in DOMAIN durable /\ durable'[i] = durable[i]
                                  \/ /\ wk.buf # << >> /\ durable'[i] = r
                                     /\ \A j \in DOMAIN durable : j < i
  <2>1. CASE durable' = durable
    BY <2>1
  <2>2. CASE wk.buf # << >> /\ durable' = Append(durable, r)
    <3>1. /\ durable'[Len(durable) + 1] = r /\ Len(durable) \in Nat
          /\ DOMAIN durable' = 1..(Len(durable) + 1) /\ DOMAIN durable = 1..Len(durable)
          /\ \A i \in 1..Len(durable) : durable'[i] = durable[i]
      BY <1>3, <2>2, SeqAppend, SeqFacts DEF ResultsOK
    <3>2. \A i \in DOMAIN durable' : i \in DOMAIN durable \/ (i = Len(durable) + 1 /\ \A j \in DOMAIN durable : j < i)
      BY <3>1
    <3> QED BY <2>2, <3>1, <3>2
  <2> QED BY <1>5, <2>1, <2>2
<1>17. \A i \in DOMAIN durable : i \in DOMAIN durable' /\ durable'[i] = durable[i]
  <2>1. CASE durable' = durable
    BY <2>1
  <2>2. CASE durable' = Append(durable, r)
    BY <1>3, <2>2, SeqAppend, SeqFacts DEF ResultsOK
  <2> QED BY <1>5, <2>1, <2>2
<1>18. r.ok /\ r.seq = reached
  BY DEF r
<1>19. \A k \in Reached' : k \in Reached \/ \E o \in BufOps : k = o.seq
  <2>1. \A d \in stable : DOMAIN d.events \subseteq Reached /\ d.snapshot.next_op_seq - 1 \in Reached
    BY ReachedNumbers
  <2>2. /\ \A i \in DOMAIN durable : durable[i].ok => durable[i].seq \in Reached
        /\ health.last_durable_seq \in Reached /\ wk.last_durable \in Reached
    BY ReachedNumbers
  <2>3. wk.buf # << >> => reached \in Reached \/ \E o \in BufOps : reached = o.seq
    BY <1>12, <2>2
  <2>4. \A n \in DOMAIN D.events : n \in Reached \/ \E o \in BufOps : n = o.seq
    BY <1>3, <1>6, <1>11, <2>1 DEF DbOK
  <2>5. D.snapshot.next_op_seq - 1 \in Reached
    BY <1>3, <1>11, <2>1 DEF DbOK
  <2>6. \A i \in DOMAIN durable' : durable'[i].ok =>
          durable'[i].seq \in Reached \/ \E o \in BufOps : durable'[i].seq = o.seq
    BY <1>16, <1>18, <2>2, <2>3
  <2>7. health'.last_durable_seq \in Reached
    BY <1>1, <2>2
  <2>8. wk'.last_durable \in Reached \/ \E o \in BufOps : wk'.last_durable = o.seq
    BY <1>13, <2>2, <2>3
  <2>9. \A d \in stable' : d \in stable \/ d = D
    BY <1>5
  <2> TAKE k \in Reached'
  <2>10. \/ k = health'.last_durable_seq \/ k = wk'.last_durable
         \/ \E i \in DOMAIN durable' : durable'[i].ok /\ k = durable'[i].seq
         \/ \E d \in stable' : k \in DOMAIN d.events
         \/ \E d \in stable' : k = d.snapshot.next_op_seq - 1
    BY DEF Reached
  <2> QED BY <2>1, <2>4, <2>5, <2>6, <2>7, <2>8, <2>9, <2>10
<1>20. NumbersInv'
  <2>1. \A k \in Reached' : k < store.next_op_seq
    BY <1>2, <1>4, <1>8, <1>9, <1>19 DEF NumbersInv
  <2> QED BY <1>1, <1>2, <1>14, <2>1 DEF NumbersInv
<1>21. PipelineInv'
  <2>1. \A q \in QueueOps : \A k \in Reached' : k < q.seq
    BY <1>2, <1>19 DEF PipelineInv
  <2> QED BY <1>2, <1>9, <1>14, <1>15, <2>1 DEF PipelineInv
<1>22. AloneInv'
  <2>1. reply' # "err"
    BY <1>4, <1>13 DEF ReplyTo, None
  <2> QED BY <1>1, <1>2, <1>14, <2>1 DEF AloneInv
<1>23. SnapshotInv'
  <2>1. wk'.pc \in {"flush", "snapshot", "compact"} => wk'.pc = "snapshot" /\ wk'.msg = wk.msg
    BY <1>13 DEF PcAfter
  <2>2. wk'.pc # "compact"
    BY <1>13 DEF PcAfter
  <2> QED BY <1>1, <1>2, <2>1, <2>2 DEF SnapshotInv
<1>24. EventsInv'
  <2>1. ASSUME NEW n \in DOMAIN D.events, n >= D.snapshot.next_op_seq
        PROVE  StoredOp(n, D.events[n]) \in AppliedOps
    <3>1. db \in stable
      BY <1>3 DEF DbOK
    <3>2. CASE n \in DOMAIN db.events /\ D.events[n] = db.events[n]
      BY <1>2, <1>11, <2>1, <3>1, <3>2 DEF EventsInv
    <3>3. CASE \E i \in DOMAIN wk.buf : StoredOp(n, D.events[n]) = wk.buf[i]
      BY <1>6, <1>9, <3>3
    <3> QED BY <1>11, <3>2, <3>3
  <2>2. \A n \in DOMAIN D.events : Journaled(D, StoredOp(n, D.events[n]))
    BY DEF Journaled, StoredOp
  <2>3. db.snapshot.next_op_seq \in Nat /\ D.snapshot.next_op_seq <= D.snapshot.next_op_seq
    BY <1>10, <1>11 DEF Decodes, OpSeq
  <2>4. ASSUME NEW d \in stable, NEW n \in DOMAIN d.events
        PROVE  Journaled(D, StoredOp(n, d.events[n]))
    <3>1. Journaled(db, StoredOp(n, d.events[n]))
      BY <1>2 DEF EventsInv
    <3>2. StoredOp(n, d.events[n]).seq \in Nat
      BY <1>3 DEF StoredOp, DbOK, Decodes
    <3> QED BY <1>11, <3>1, <3>2 DEF Keeps
  <2> QED BY <1>2, <1>5, <1>11, <1>15, <2>1, <2>2, <2>3, <2>4 DEF EventsInv
<1>25. \A o \in AppliedOps : Journaled(db, o) \/ o \in BufOps => Journaled(D, o)
  BY <1>7, <1>8, <1>11 DEF Keeps
<1>26. LostOps \subseteq LostOps'
  BY <1>17 DEF LostOps
<1>27. AccountInv'
  BY <1>1, <1>2, <1>5, <1>14, <1>15, <1>25, <1>26 DEF AccountInv
<1>28. CoverInv'
  <2>1. \A o \in AppliedOps : o.seq <= health.last_durable_seq => Journaled(D, o) \/ o \in reported
    BY <1>2, <1>25 DEF CoverInv
  <2>2. ASSUME NEW i \in DOMAIN durable', durable'[i].ok, NEW o \in AppliedOps, o.seq <= durable'[i].seq
        PROVE  \/ Journaled(D, o) \/ o \in reported
               \/ \E j \in DOMAIN durable' : j < i /\ ~durable'[j].ok /\ o \in durable'[j].lost
    <3>1. CASE i \in DOMAIN durable /\ durable'[i] = durable[i]
      <4>1. \/ Journaled(db, o) \/ o \in reported
            \/ \E j \in DOMAIN durable : j < i /\ ~durable[j].ok /\ o \in durable[j].lost
        BY <1>2, <2>2, <3>1 DEF CoverInv
      <4> QED BY <1>17, <1>25, <4>1
    <3>2. CASE /\ wk.buf # << >> /\ durable'[i] = r
               /\ \A j \in DOMAIN durable : j < i
      <4>1. o \notin QueueOps
        <5>1. o.seq <= reached
          BY <1>18, <2>2, <3>2
        <5>2. reached = wk.last_durable \/ reached = Last(wk.buf).seq
          BY <1>12, <3>2
        <5>3. \A q \in QueueOps : wk.last_durable < q.seq /\ Last(wk.buf).seq < q.seq
          BY <1>2, <1>12, <3>2, ReachedNumbers DEF PipelineInv
        <5>4. o.seq \in Nat /\ reached \in Nat
          BY <1>8, <1>12, <3>2
        <5> QED BY <5>1, <5>2, <5>3, <5>4
      <4>2. Journaled(db, o) \/ o \in BufOps \cup LostOps \cup reported
        BY <1>2, <1>4, <4>1 DEF AccountInv
      <4>3. o \in LostOps => \E j \in DOMAIN durable : ~durable[j].ok /\ o \in durable[j].lost
        BY DEF LostOps
      <4> QED BY <1>17, <1>25, <3>2, <4>2, <4>3
    <3> QED BY <1>16, <3>1, <3>2
  <2> QED BY <1>1, <1>5, <1>15, <2>1, <2>2 DEF CoverInv
<1> QED
  BY <1>20, <1>21, <1>22, <1>23, <1>24, <1>27, <1>28 DEF DataInv

(* The batch is lost, and its loss is on the durable channel.              *)
LEMMA DataAppendFails ==
  ASSUME ShapeInv, DataInv, wk.pc = "flush", AppendFails, UNCHANGED <<loopVars, queue, config>>
  PROVE  DataInv'
<1> DEFINE r == [ok |-> FALSE, lost |-> BufOps]
           t == wk.msg.t
<1>1. UNCHANGED <<store, rt, health, accepted, reported>>
  BY DEF loopVars
<1>2. /\ NumbersInv /\ PipelineInv /\ AloneInv /\ SnapshotInv /\ EventsInv /\ AccountInv /\ CoverInv
  BY DEF DataInv
<1>3. WorkerOK /\ ResultsOK
  BY DEF ShapeInv, TypeInv
<1>4. /\ wk.buf # << >> /\ durable' = Append(durable, r) /\ UNCHANGED <<db, stable>>
      /\ AfterFlush(FALSE, wk.last_durable)
  BY DEF AppendFails, BufOps
<1>5. /\ wk'.buf = << >> /\ wk'.pc = PcAfter(t, FALSE) /\ wk'.last_durable = wk.last_durable
  BY <1>3, <1>4 DEF AfterFlush, WorkerAfter, WorkerOK
<1>6. ~r.ok /\ r.lost = BufOps
  OBVIOUS
<1> HIDE DEF r
<1>7. /\ durable'[Len(durable) + 1] = r /\ Len(durable) \in Nat
      /\ DOMAIN durable' = 1..(Len(durable) + 1) /\ DOMAIN durable = 1..Len(durable)
      /\ \A i \in 1..Len(durable) : durable'[i] = durable[i]
  BY <1>3, <1>4, SeqAppend, SeqFacts DEF ResultsOK
<1>8. /\ \A i \in DOMAIN durable' : i \in DOMAIN durable \/ durable'[i] = r
      /\ \A i \in DOMAIN durable : i \in DOMAIN durable' /\ durable'[i] = durable[i]
      /\ \E i \in DOMAIN durable' : durable'[i] = r
  BY <1>7
<1>9. LostOps' = LostOps \cup BufOps
  <2>1. \A o \in LostOps' : o \in LostOps \cup BufOps
    BY <1>6, <1>8 DEF LostOps
  <2>2. \A o \in LostOps : o \in LostOps'
    BY <1>8 DEF LostOps
  <2>3. \A o \in BufOps : o \in LostOps'
    BY <1>6, <1>8 DEF LostOps
  <2> QED BY <2>1, <2>2, <2>3
<1>10. Reached' = Reached
  <2> DEFINE now == {durable[i].seq : i \in {j \in DOMAIN durable : durable[j].ok}}
             later == {durable'[i].seq : i \in {j \in DOMAIN durable' : durable'[j].ok}}
  <2>1. later = now
    BY <1>6, <1>8
  <2> QED BY <1>1, <1>4, <1>5, <2>1 DEF Reached
<1>11. BufOps' = {} /\ QueueOps' = QueueOps /\ Acknowledged' = Acknowledged /\ (InMutation' <=> InMutation)
       /\ DOMAIN wk'.buf = {}
  BY <1>1, <1>5, SeqEmpty DEF BufOps, QueueOps, Acknowledged, InMutation, ToSet
<1>12. AppliedOps' = AppliedOps
  BY <1>1, <1>11, AppliedIs, AppliedIsNext
<1>13. NumbersInv' /\ PipelineInv'
  BY <1>1, <1>2, <1>10, <1>11, <1>12 DEF NumbersInv, PipelineInv
<1>14. AloneInv'
  <2>1. 1 \in DOMAIN wk.buf
    BY <1>3, <1>4, SeqTail DEF WorkerOK
  <2>2. wk.buf[1] \in BufOps
    BY <2>1 DEF BufOps, ToSet
  <2>3. config.ack_mode = "Durable" => \A k \in Reached : k < rt.stored.seq
    BY <1>2, <2>2 DEF AloneInv, PipelineInv
  <2> QED BY <1>1, <1>2, <1>10, <1>11, <2>3 DEF AloneInv
<1>15. SnapshotInv'
  <2>1. wk'.pc \notin {"flush", "snapshot", "compact"}
    BY <1>5 DEF PcAfter
  <2> QED BY <1>1, <1>2, <2>1 DEF SnapshotInv
<1>16. EventsInv' /\ AccountInv'
  BY <1>1, <1>2, <1>4, <1>9, <1>11, <1>12 DEF EventsInv, AccountInv
<1>17. CoverInv'
  <2>1. \A i \in DOMAIN durable' : durable'[i].ok => i \in DOMAIN durable /\ durable'[i] = durable[i]
    BY <1>6, <1>8
  <2> QED BY <1>1, <1>2, <1>4, <1>8, <1>12, <2>1 DEF CoverInv
<1> QED
  BY <1>13, <1>14, <1>15, <1>16, <1>17 DEF DataInv

(* flush_buf.                                                              *)
LEMMA DataFlushBuf ==
  ASSUME ErrorsReturned, ShapeInv, DataInv, FlushBuf
  PROVE  DataInv'
<1>1. /\ wk.pc = "flush" /\ UNCHANGED <<loopVars, queue, config>>
      /\ FlushSucceeds \/ AppendFails \/ SinkPanics \/ SinkFlushFails
  BY DEF FlushBuf
<1>2. ~SinkPanics /\ ~SinkFlushFails
  BY DEF SinkPanics, SinkFlushFails, Fault, ErrorsReturned
<1> QED
  BY <1>1, <1>2, DataFlushSucceeds, DataAppendFails

(* A checkpoint's write, when nothing is on its way to the sink.           *)
LEMMA DataWrite ==
  ASSUME ShapeInv, DataInv, wk.pc \in {"snapshot", "compact"},
         UNCHANGED <<loopVars, queue, durable, config>>,
         wk'.buf = << >>, wk'.last_durable = wk.last_durable, SnapshotInv',
         NEW D, db' = D, stable' \subseteq stable \cup {D}, D \in stable',
         Keeps(db, D), DOMAIN D.events \subseteq DOMAIN db.events,
         \A n \in DOMAIN D.events : D.events[n] = db.events[n],
         D.snapshot.next_op_seq \in {db.snapshot.next_op_seq, store.next_op_seq}
  PROVE  DataInv'
<1>1. UNCHANGED <<store, rt, health, accepted, reported>>
  BY DEF loopVars
<1>2. /\ NumbersInv /\ PipelineInv /\ AloneInv /\ SnapshotInv /\ EventsInv /\ AccountInv /\ CoverInv
  BY DEF DataInv
<1>3. WorkerOK /\ DbOK /\ LoopOK /\ Working /\ rt.pc # "unloadable"
  BY DEF ShapeInv, TypeInv, Flow, Quiet, Asked, Answered, Working
<1>4. ~InMutation
  <2>1. wk.msg.t = "Checkpoint"
    BY <1>3 DEF WorkerOK
  <2>2. rt.job \in Jobs /\ MessageType(rt.job) = "Checkpoint"
    BY <1>3, <2>1 DEF Working, LoopOK
  <2>3. rt.job # "mutation"
    BY <2>2 DEF MessageType
  <2> QED BY <2>3 DEF InMutation
<1>5. /\ queue = << >> /\ wk.buf = << >>
  BY <1>3 DEF Working, WorkerOK
<1>6. /\ BufOps = {} /\ QueueOps = {} /\ BufOps' = {} /\ QueueOps' = {} /\ LostOps' = LostOps
      /\ Acknowledged' = Acknowledged /\ (InMutation' <=> InMutation)
      /\ DOMAIN wk'.buf = {} /\ DOMAIN queue' = {}
  BY <1>1, <1>5, SeqEmpty DEF BufOps, QueueOps, LostOps, Acknowledged, InMutation, ToSet
<1>7. AppliedOps' = AppliedOps
  BY <1>1, <1>6, AppliedIs, AppliedIsNext
<1>8. /\ \A o \in AppliedOps : OpOK(o) /\ o.seq \in 1..MaxOps /\ o.seq < store.next_op_seq
      /\ store.next_op_seq \in Nat \ {0}
  BY <1>2, <1>3, AppliedNumbers
<1>9. /\ Reached \subseteq Nat
      /\ \A d \in stable : DOMAIN d.events \subseteq Reached /\ d.snapshot.next_op_seq - 1 \in Reached
      /\ \A i \in DOMAIN durable : durable[i].ok => durable[i].seq \in Reached
      /\ health.last_durable_seq \in Reached /\ wk.last_durable \in Reached
  BY ReachedNumbers
<1>10. db \in stable /\ db.snapshot.next_op_seq \in Nat
  BY <1>3 DEF DbOK, Decodes, OpSeq
<1>11. \A k \in Reached' : k \in Reached \/ k = store.next_op_seq - 1
  <2>1. \A n \in DOMAIN D.events : n \in Reached
    BY <1>9, <1>10
  <2>2. D.snapshot.next_op_seq - 1 \in Reached \/ D.snapshot.next_op_seq - 1 = store.next_op_seq - 1
    BY <1>9, <1>10
  <2>3. \A d \in stable' : d \in stable \/ d = D
    OBVIOUS
  <2> TAKE k \in Reached'
  <2>4. \/ k = health'.last_durable_seq \/ k = wk'.last_durable
        \/ \E i \in DOMAIN durable' : durable'[i].ok /\ k = durable'[i].seq
        \/ \E d \in stable' : k \in DOMAIN d.events
        \/ \E d \in stable' : k = d.snapshot.next_op_seq - 1
    BY DEF Reached
  <2> QED BY <1>1, <1>9, <2>1, <2>2, <2>3, <2>4
<1>12. NumbersInv'
  <2>1. \A k \in Reached : k < store.next_op_seq
    BY <1>2, <1>3 DEF NumbersInv
  <2>2. store.next_op_seq - 1 < store.next_op_seq
    BY <1>8
  <2>3. \A k \in Reached' : k < store.next_op_seq
    BY <1>11, <2>1, <2>2
  <2> QED BY <1>1, <1>2, <1>4, <1>6, <2>3 DEF NumbersInv
<1>13. PipelineInv' /\ AloneInv'
  BY <1>4, <1>6 DEF PipelineInv, AloneInv
<1>14. EventsInv'
  <2>1. db.snapshot.next_op_seq <= D.snapshot.next_op_seq /\ D.snapshot.next_op_seq \in Nat
    <3>1. db.snapshot.next_op_seq - 1 < store.next_op_seq
      BY <1>2, <1>3, <1>9, <1>10 DEF NumbersInv
    <3> QED BY <1>8, <1>10, <3>1
  <2>2. ASSUME NEW n \in DOMAIN D.events, n >= D.snapshot.next_op_seq
        PROVE  StoredOp(n, D.events[n]) \in AppliedOps
    <3>1. n \in Nat /\ n >= db.snapshot.next_op_seq /\ n \in DOMAIN db.events
      <4>1. n \in Nat
        BY <1>9, <1>10
      <4> QED BY <1>10, <2>1, <2>2, <4>1
    <3> QED BY <1>2, <1>10, <3>1 DEF EventsInv
  <2>3. \A n \in DOMAIN D.events : Journaled(D, StoredOp(n, D.events[n]))
    BY DEF Journaled, StoredOp
  <2>4. ASSUME NEW d \in stable, NEW n \in DOMAIN d.events
        PROVE  Journaled(D, StoredOp(n, d.events[n]))
    <3>1. Journaled(db, StoredOp(n, d.events[n]))
      BY <1>2 DEF EventsInv
    <3>2. StoredOp(n, d.events[n]).seq \in Nat
      BY <1>3 DEF StoredOp, DbOK, Decodes
    <3> QED BY <3>1, <3>2 DEF Keeps
  <2>5. ASSUME NEW d \in stable PROVE d.snapshot.next_op_seq <= D.snapshot.next_op_seq
    <3>1. d.snapshot.next_op_seq <= db.snapshot.next_op_seq /\ d.snapshot.next_op_seq \in Nat
      BY <1>2, <1>3 DEF EventsInv, DbOK, Decodes, OpSeq
    <3> QED BY <1>10, <2>1, <3>1
  <2>6. D.snapshot.next_op_seq <= D.snapshot.next_op_seq
    BY <2>1
  <2> QED BY <1>2, <1>7, <2>2, <2>3, <2>4, <2>5, <2>6 DEF EventsInv
<1>15. \A o \in AppliedOps : Journaled(db, o) => Journaled(D, o)
  BY <1>8 DEF Keeps
<1>16. AccountInv' /\ CoverInv'
  BY <1>1, <1>2, <1>6, <1>7, <1>15 DEF AccountInv, CoverInv
<1> QED
  BY <1>12, <1>13, <1>14, <1>16 DEF DataInv

(* What the two steps of a checkpoint that follow its flush write.         *)
LEMMA CheckpointWrites ==
  ASSUME ShapeInv, DataInv, WriteSnapshot \/ CompactThrough
  PROVE  /\ wk'.buf = << >> /\ wk'.last_durable = wk.last_durable /\ SnapshotInv'
         /\ stable' \subseteq stable \cup {db'} /\ db' \in stable'
         /\ Keeps(db, db') /\ DOMAIN db'.events \subseteq DOMAIN db.events
         /\ \A n \in DOMAIN db'.events : db'.events[n] = db.events[n]
         /\ db'.snapshot.next_op_seq \in {db.snapshot.next_op_seq, store.next_op_seq}
<1>1. /\ wk.pc \in {"snapshot", "compact"} /\ UNCHANGED <<loopVars, queue, durable, config>>
  BY DEF WriteSnapshot, CompactThrough
<1>2. UNCHANGED <<store, rt>>
  BY <1>1 DEF loopVars
<1>3. WorkerOK /\ DbOK /\ Working /\ NumbersInv /\ SnapshotInv
  BY <1>1 DEF ShapeInv, TypeInv, Flow, Quiet, Asked, Answered, DataInv
<1>4. /\ wk.msg.t = "Checkpoint" /\ wk.buf = << >> /\ queue = << >>
      /\ DOMAIN wk = {"pc", "msg", "buf", "last_durable"}
      /\ wk.msg.snapshot.next_op_seq = store.next_op_seq
      /\ wk.pc = "compact" => db.snapshot.next_op_seq = store.next_op_seq
  BY <1>1, <1>3 DEF Working, WorkerOK, SnapshotInv
<1>5. /\ db \in stable /\ DOMAIN db = {"events", "snapshot"} /\ Decodes(db, MaxOps) /\ MaxOps \in Nat
      /\ db.snapshot.next_op_seq \in Nat
  BY <1>3, FaultsAssumption DEF DbOK, Decodes, OpSeq
<1>6. /\ store.next_op_seq \in Nat /\ rt.pc # "unloadable"
      /\ \A k \in Reached : k < store.next_op_seq
  BY <1>3, AppliedNumbers DEF Working, NumbersInv
<1>7. /\ \A n \in DOMAIN db.events : n < store.next_op_seq
      /\ db.snapshot.next_op_seq <= store.next_op_seq
  <2>1. DOMAIN db.events \subseteq Reached /\ db.snapshot.next_op_seq - 1 \in Reached
    BY <1>5, ReachedNumbers
  <2> QED BY <1>5, <1>6, <2>1
<1>8. /\ wk'.buf = << >> /\ wk'.last_durable = wk.last_durable
      /\ (wk'.pc = "compact" /\ wk'.msg = wk.msg) \/ wk'.pc = "recv"
  <2>1. CASE wk' = [wk EXCEPT !.pc = "compact"]
    BY <1>4, <2>1
  <2>2. CASE wk' = [wk EXCEPT !.pc = "recv", !.msg = NoMsg]
    BY <1>4, <2>2
  <2> QED BY <2>1, <2>2 DEF WriteSnapshot, CompactThrough, CheckpointFails, CheckpointDone
<1>9. DOMAIN queue' = {}
  BY <1>1, <1>4, SeqEmpty
<1>10. CASE UNCHANGED <<db, stable>> /\ wk'.pc = "recv"
  <2>1. SnapshotInv'
    BY <1>9, <1>10 DEF SnapshotInv
  <2>2. Keeps(db, db) /\ db' = db /\ stable' \subseteq stable \cup {db} /\ db \in stable'
    BY <1>5, <1>10 DEF Keeps
  <2> QED BY <1>8, <1>10, <2>1, <2>2
<1>11. CASE wk.pc = "snapshot" /\ Commits(InsertSnapshot(db, wk.msg.snapshot))
  <2> DEFINE D == InsertSnapshot(db, wk.msg.snapshot)
  <2>1. /\ D.events = db.events /\ D.snapshot = wk.msg.snapshot
    BY <1>5, InsertSnapshotFacts
  <2>2. Keeps(db, D)
    BY <1>4, <1>5, <1>6, <1>7, SnapshotKeeps
  <2>3. db' = D /\ stable' \subseteq stable \cup {D} /\ D \in stable'
    BY <1>11 DEF Commits
  <2> HIDE DEF D
  <2>4. D.snapshot.next_op_seq = store.next_op_seq
    BY <1>4, <2>1
  <2>5. SnapshotInv'
    BY <1>2, <1>4, <1>8, <1>9, <2>3, <2>4 DEF SnapshotInv
  <2> QED BY <1>8, <2>1, <2>2, <2>3, <2>4, <2>5
<1>12. CASE /\ wk.pc = "compact" /\ wk'.pc = "recv"
            /\ Commits(DeleteEventsThrough(db, wk.msg.snapshot.next_op_seq - 1))
  <2> DEFINE n == wk.msg.snapshot.next_op_seq - 1
             D == DeleteEventsThrough(db, n)
  <2>1. n = db.snapshot.next_op_seq - 1
    BY <1>4, <1>12
  <2>2. db' = D /\ stable' \subseteq stable \cup {D} /\ D \in stable'
    BY <1>12 DEF Commits
  <2> HIDE DEF n
  <2>3. /\ D.snapshot = db.snapshot /\ DOMAIN D.events = {k \in DOMAIN db.events : k > n}
        /\ \A k \in DOMAIN D.events : D.events[k] = db.events[k]
    BY <1>5, DeleteEventsFacts
  <2>4. Keeps(db, D)
    BY <1>5, <2>1, CompactKeeps
  <2> HIDE DEF D
  <2>5. SnapshotInv'
    BY <1>9, <1>12 DEF SnapshotInv
  <2> QED BY <1>8, <2>2, <2>3, <2>4, <2>5
<1> QED
  <2>1. CASE WriteSnapshot
    <3>1. CASE CheckpointFails("snapshot")
      <4>1. UNCHANGED <<db, stable>> /\ wk'.pc = "recv"
        BY <1>4, <3>1 DEF CheckpointFails, CheckpointDone
      <4> QED BY <1>10, <4>1
    <3> QED BY <1>11, <2>1, <3>1 DEF WriteSnapshot
  <2>2. CASE CompactThrough
    <3>1. wk'.pc = "recv"
      BY <1>4, <2>2 DEF CompactThrough, CheckpointFails, CheckpointDone
    <3>2. CASE CheckpointFails("compact")
      BY <1>10, <3>1, <3>2 DEF CheckpointFails
    <3> QED BY <1>12, <2>2, <3>1, <3>2 DEF CompactThrough
  <2> QED BY <2>1, <2>2

(* The two steps of a checkpoint that follow its flush.                    *)
LEMMA DataCheckpoint ==
  ASSUME ShapeInv, DataInv, WriteSnapshot \/ CompactThrough
  PROVE  DataInv'
<1>1. /\ wk.pc \in {"snapshot", "compact"} /\ UNCHANGED <<loopVars, queue, durable, config>>
  BY DEF WriteSnapshot, CompactThrough
<1> QED
  BY <1>1, CheckpointWrites, DataWrite

(* The first state.                                                        *)
LEMMA DataInit == ASSUME Init, ShapeInv PROVE DataInv
<1>1. /\ accepted = << >> /\ queue = << >> /\ durable = << >> /\ wk.buf = << >>
      /\ wk.last_durable = 0 /\ health.last_durable_seq = 0 /\ wk.pc \in {"recv", "dead"}
      /\ store.next_op_seq = 1 /\ rt.pc = "idle" /\ stable = {db} /\ db = EmptyDb
  BY DEF Init, NewWorker, NoWorker, NewHealth, NewStore, Idle
<1>2. /\ IsSeq(accepted) /\ DOMAIN accepted = {} /\ DOMAIN queue = {} /\ DOMAIN durable = {}
      /\ DOMAIN wk.buf = {}
  BY <1>1, SeqEmpty
<1>3. BufOps = {} /\ QueueOps = {} /\ Acknowledged = {} /\ ~InMutation
  BY <1>1, <1>2 DEF BufOps, QueueOps, Acknowledged, InMutation, ToSet
<1>4. AppliedOps = {}
  BY <1>3, AppliedIs
<1>5. DOMAIN EmptyDb.events = {} /\ EmptyDb.snapshot.next_op_seq = 1
  BY DEF EmptyDb, EmptyMap, ExportSnapshot, NewStore
<1>6. \A k \in Reached : k = 0
  BY <1>1, <1>2, <1>5 DEF Reached
<1>7. NumbersInv
  BY <1>1, <1>2, <1>3, <1>6 DEF NumbersInv
<1>8. PipelineInv /\ AloneInv /\ SnapshotInv
  BY <1>1, <1>2, <1>3 DEF PipelineInv, AloneInv, SnapshotInv
<1>9. EventsInv /\ AccountInv /\ CoverInv
  BY <1>1, <1>2, <1>4, <1>5 DEF EventsInv, AccountInv, CoverInv
<1> QED
  BY <1>7, <1>8, <1>9 DEF DataInv

(* The applied operations as a sequence.                                   *)
LEMMA AppliedSeq ==
  ASSUME ShapeInv, NumbersInv
  PROVE  /\ IsSeq(Applied) /\ ToSet(Applied) = AppliedOps
         /\ \A i \in DOMAIN Applied : Applied[i] \in AppliedOps /\ OpOK(Applied[i])
         /\ \A i, j \in DOMAIN Applied : i < j => Applied[i].seq < Applied[j].seq
<1>1. PICK S : accepted \in Seq(S)
  BY DEF NumbersInv, IsSeq
<1>2. CASE ~InMutation
  <2>1. InFlight = << >>
    BY <1>2 DEF InMutation, InFlight
  <2>2. Applied = accepted
    BY <1>1, <2>1, ConcatEmptySeq DEF Applied
  <2>3. AppliedOps = Acknowledged
    BY <1>2, AppliedIs
  <2>4. \A i \in DOMAIN accepted : accepted[i] \in Acknowledged
    BY DEF Acknowledged, ToSet
  <2> QED BY <2>2, <2>3, <2>4 DEF Acknowledged, NumbersInv
<1>3. CASE InMutation
  <2>1. InFlight = <<rt.stored>>
    BY <1>3 DEF InMutation, InFlight
  <2>2. Applied = Append(accepted, rt.stored)
    <3> DEFINE T == S \cup {rt.stored}
    <3>1. accepted \in Seq(T) /\ rt.stored \in T
      BY <1>1
    <3> HIDE DEF T
    <3> QED BY <2>1, <3>1, AppendIsConcat DEF Applied
  <2>3. IsSeq(accepted)
    BY DEF NumbersInv
  <2>4. /\ IsSeq(Applied) /\ DOMAIN Applied = 1..(Len(accepted) + 1)
        /\ \A i \in 1..Len(accepted) : Applied[i] = accepted[i]
        /\ Applied[Len(accepted) + 1] = rt.stored
        /\ Len(accepted) \in Nat /\ DOMAIN accepted = 1..Len(accepted)
    BY <2>2, <2>3, SeqAppend, SeqFacts
  <2> DEFINE N == Len(accepted)
  <2>5. N \in Nat /\ \A i \in DOMAIN Applied : i \in DOMAIN accepted \/ i = N + 1
    BY <2>4
  <2>6. AppliedOps = Acknowledged \cup {rt.stored}
    BY <1>3, AppliedIs
  <2>7. \A i \in DOMAIN accepted : accepted[i] \in Acknowledged
    BY DEF Acknowledged, ToSet
  <2>8. \A o \in Acknowledged : \E i \in DOMAIN accepted : o = accepted[i]
    BY DEF Acknowledged, ToSet
  <2>9. \A i \in DOMAIN Applied : Applied[i] \in AppliedOps
    BY <2>4, <2>5, <2>6, <2>7
  <2>10. \A o \in AppliedOps : \E i \in DOMAIN Applied : o = Applied[i]
    <3>1. N + 1 \in DOMAIN Applied /\ DOMAIN accepted \subseteq DOMAIN Applied
      BY <2>4
    <3> QED BY <2>4, <2>6, <2>8, <3>1
  <2>11. ToSet(Applied) = AppliedOps
    BY <2>9, <2>10 DEF ToSet
  <2>12. \A i \in DOMAIN Applied : OpOK(Applied[i])
    BY <2>9, AppliedNumbers
  <2>13. ASSUME NEW i \in DOMAIN Applied, NEW j \in DOMAIN Applied, i < j
         PROVE  Applied[i].seq < Applied[j].seq
    <3>1. i \in DOMAIN accepted
      BY <2>4, <2>13
    <3>2. CASE j \in DOMAIN accepted
      BY <2>4, <2>13, <3>1, <3>2 DEF NumbersInv
    <3>3. CASE j = N + 1
      BY <1>3, <2>4, <2>7, <3>1, <3>3 DEF NumbersInv
    <3> QED BY <2>5, <3>2, <3>3
  <2> QED BY <2>4, <2>9, <2>11, <2>12, <2>13
<1> QED
  BY <1>2, <1>3

(* The log is opened again.                                                *)
LEMMA DataReopen ==
  ASSUME ShapeInv, DataInv, Reopen
  PROVE  DataInv'
<1>1. PICK d \in stable : LET loaded == LoadStore(d) IN
        /\ store' = loaded.store
        /\ rt' = IF loaded.ok THEN Idle ELSE [pc |-> "unloadable"]
        /\ wk' = IF loaded.ok THEN NewWorker ELSE NoWorker
        /\ accepted' = Surviving(Applied, d)
        /\ db' = d /\ stable' = IF d = db THEN stable ELSE {d}
  BY DEF Reopen, Applied
<1>2. /\ health' = NewHealth /\ queue' = << >> /\ durable' = << >> /\ reported' = {}
      /\ UNCHANGED config
  BY DEF Reopen
<1>3. DbOK /\ NumbersInv /\ EventsInv
  BY DEF ShapeInv, TypeInv, DataInv
<1>4. Decodes(d, MaxOps) /\ MaxOps \in Nat /\ d.snapshot.next_op_seq \in Nat
  BY <1>3, FaultsAssumption DEF DbOK, Decodes, OpSeq
<1> DEFINE l == LoadStore(d)
           next == l.store.next_op_seq
<1>5. /\ l.ok \in BOOLEAN /\ next \in Nat /\ next >= d.snapshot.next_op_seq
      /\ l.ok => \A n \in DOMAIN d.events : n < next
  BY <1>4, LoadFrame DEF Frame, OpSeq
<1>6. /\ rt'.pc = (IF l.ok THEN "idle" ELSE "unloadable") /\ store'.next_op_seq = next
      /\ wk'.buf = << >> /\ wk'.last_durable = 0 /\ wk'.pc \in {"recv", "dead"}
  <2>1. CASE l.ok
    <3>1. rt' = Idle /\ wk' = NewWorker
      BY <1>1, <2>1
    <3> QED BY <1>1, <2>1, <3>1 DEF Idle, NewWorker
  <2>2. CASE ~ l.ok
    <3>1. rt' = [pc |-> "unloadable"] /\ wk' = NoWorker
      BY <1>1, <2>2
    <3> QED BY <1>1, <2>2, <3>1 DEF NoWorker, NewWorker
  <2> QED BY <2>1, <2>2
<1>7. db' = d /\ stable' = (IF d = db THEN stable ELSE {d}) /\ accepted' = Surviving(Applied, d)
  BY <1>1
<1> HIDE DEF l
<1>8. rt'.pc # "unloadable" => l.ok
  BY <1>5, <1>6
<1> HIDE DEF next
<1>9. /\ IsSeq(Applied) /\ ToSet(Applied) = AppliedOps
      /\ \A i \in DOMAIN Applied : Applied[i] \in AppliedOps /\ OpOK(Applied[i])
      /\ \A i, j \in DOMAIN Applied : i < j => Applied[i].seq < Applied[j].seq
  BY <1>3, AppliedSeq
<1>10. /\ IsSeq(accepted') /\ \A k \in DOMAIN accepted' : Journaled(d, accepted'[k])
       /\ \A i \in DOMAIN Applied : Journaled(d, Applied[i]) =>
            \E k \in DOMAIN accepted' : accepted'[k] = Applied[i]
  BY <1>7, <1>9, SurvivingFacts
<1>11. PICK at : /\ \A k \in DOMAIN accepted' : at[k] \in DOMAIN Applied /\ accepted'[k] = Applied[at[k]]
                 /\ \A k, m \in DOMAIN accepted' : k < m => at[k] < at[m]
  BY <1>7, <1>9, SurvivingFacts
<1>12. /\ \A k \in DOMAIN accepted' : OpOK(accepted'[k])
       /\ \A k, m \in DOMAIN accepted' : k < m => accepted'[k].seq < accepted'[m].seq
  BY <1>9, <1>11
<1>13. ~InMutation'
  BY <1>6 DEF InMutation
<1>14. AppliedOps' = Acknowledged' /\ \A o \in Acknowledged' : Journaled(d, o) /\ o.seq \in 1..MaxOps
  <2>1. AppliedOps' = Acknowledged'
    BY <1>13, AppliedIsNext
  <2>2. \A o \in Acknowledged' : \E k \in DOMAIN accepted' : o = accepted'[k]
    BY DEF Acknowledged, ToSet
  <2>3. \A k \in DOMAIN accepted' : accepted'[k].seq \in 1..MaxOps
    BY <1>12 DEF OpOK
  <2> QED BY <1>10, <2>1, <2>2, <2>3
<1>15. \A o \in AppliedOps : Journaled(d, o) => o \in Acknowledged'
  <2>1. \A k \in DOMAIN accepted' : accepted'[k] \in Acknowledged'
    BY DEF Acknowledged, ToSet
  <2>2. \A o \in AppliedOps : \E i \in DOMAIN Applied : o = Applied[i]
    BY <1>9 DEF ToSet
  <2> QED BY <1>10, <2>1, <2>2
<1>16. DOMAIN queue' = {} /\ DOMAIN durable' = {} /\ DOMAIN wk'.buf = {}
  BY <1>2, <1>6, SeqEmpty
<1>17. BufOps' = {} /\ QueueOps' = {}
  BY <1>16 DEF BufOps, QueueOps, ToSet
<1>18. \A e \in stable' : /\ e.snapshot.next_op_seq \in Nat /\ DOMAIN e.events \subseteq Nat
                          /\ e.snapshot.next_op_seq <= d.snapshot.next_op_seq
                          /\ \A n \in DOMAIN e.events : Journaled(d, StoredOp(n, e.events[n]))
                          /\ e \in stable
  <2>1. \A e \in stable : e.snapshot.next_op_seq \in Nat /\ DOMAIN e.events \subseteq Nat
    BY <1>3 DEF DbOK, Decodes, OpSeq
  <2>2. CASE d = db /\ stable' = stable
    BY <1>3, <2>1, <2>2 DEF EventsInv
  <2>3. CASE stable' = {d}
    <3>1. \A n \in DOMAIN d.events : Journaled(d, StoredOp(n, d.events[n]))
      BY DEF Journaled, StoredOp
    <3> QED BY <1>4, <2>1, <2>3, <3>1
  <2> QED BY <1>7, <2>2, <2>3
<1>19. l.ok => \A o : o.seq \in Nat /\ Journaled(d, o) => o.seq < next
  BY <1>4, <1>5 DEF Journaled
<1>20. l.ok => \A k \in Reached' : k < next
  <2> SUFFICES ASSUME l.ok, NEW k \in Reached' PROVE k < next
    OBVIOUS
  <2>1. \/ k = health'.last_durable_seq \/ k = wk'.last_durable
        \/ \E i \in DOMAIN durable' : durable'[i].ok /\ k = durable'[i].seq
        \/ \E e \in stable' : k \in DOMAIN e.events
        \/ \E e \in stable' : k = e.snapshot.next_op_seq - 1
    BY DEF Reached
  <2>2. CASE k = 0
    <3>1. d.snapshot.next_op_seq # 0
      BY <1>3 DEF DbOK, Decodes, OpSeq
    <3> QED BY <1>4, <1>5, <2>2, <3>1
  <2>3. CASE \E e \in stable' : k \in DOMAIN e.events
    <3>1. PICK e \in stable' : k \in DOMAIN e.events
      BY <2>3
    <3>2. StoredOp(k, e.events[k]).seq = k /\ k \in Nat
      BY <1>18, <3>1 DEF StoredOp
    <3> QED BY <1>18, <1>19, <3>1, <3>2
  <2>4. CASE \E e \in stable' : k = e.snapshot.next_op_seq - 1
    <3>1. PICK e \in stable' : k = e.snapshot.next_op_seq - 1
      BY <2>4
    <3>2. e.snapshot.next_op_seq \in Nat /\ e.snapshot.next_op_seq <= d.snapshot.next_op_seq
      BY <1>18
    <3> QED BY <1>4, <1>5, <3>1, <3>2
  <2> QED BY <1>2, <1>6, <1>16, <2>1, <2>2, <2>3, <2>4 DEF NewHealth
<1>21. NumbersInv'
  <2>1. \A o \in Acknowledged' : o.seq \in Nat
    BY <1>14
  <2>2. l.ok => \A o \in Acknowledged' : o.seq < next
    BY <1>14, <1>19, <2>1
  <2> QED BY <1>6, <1>8, <1>10, <1>12, <1>13, <1>20, <2>2 DEF NumbersInv
<1>22. PipelineInv' /\ AloneInv' /\ SnapshotInv'
  BY <1>6, <1>13, <1>16, <1>17 DEF PipelineInv, AloneInv, SnapshotInv
<1>23. EventsInv'
  BY <1>3, <1>7, <1>14, <1>15, <1>18 DEF EventsInv
<1>24. AccountInv' /\ CoverInv'
  BY <1>7, <1>14, <1>16 DEF AccountInv, CoverInv
<1> QED
  BY <1>21, <1>22, <1>23, <1>24 DEF DataInv

(* Every step.                                                             *)
LEMMA DataStep ==
  ASSUME ErrorsReturned, ShapeInv, DataInv, [Next]_vars
  PROVE  DataInv'
<1>1. CASE \E m \in Mutations : Perform(m)
  BY <1>1, DataPerform
<1>2. CASE \E m \in Mutations : PatchMissing(m)
  BY <1>2, DataPatchMissing
<1>3. CASE DropHandles \/ \E job \in {"flush", "checkpoint", "shutdown"} : Control(job)
  BY <1>3, DataControl
<1>4. CASE SendToWorker
  BY <1>4, DataSend
<1>5. CASE AwaitReply
  BY <1>5, DataAwait
<1>6. CASE ObserveDurable
  BY <1>6, DataObserve
<1>7. CASE Receive
  BY <1>7, DataReceive
<1>8. CASE DeadlineExpires \/ QueueClosed
  BY <1>8, DataWake
<1>9. CASE FlushBuf
  BY <1>9, DataFlushBuf
<1>10. CASE WriteSnapshot \/ CompactThrough
  BY <1>10, DataCheckpoint
<1>11. CASE Reopen
  BY <1>11, DataReopen
<1>12. CASE UNCHANGED vars
  <2>1. /\ UNCHANGED <<config, loopVars, queue, reply, durable, wk, db, stable>>
    BY <1>12 DEF vars, workerVars
  <2>2. UNCHANGED <<store, rt, health, accepted, reported>>
    BY <2>1 DEF loopVars
  <2>3. /\ Reached' = Reached /\ BufOps' = BufOps /\ QueueOps' = QueueOps /\ LostOps' = LostOps
        /\ Acknowledged' = Acknowledged /\ (InMutation' <=> InMutation)
    BY <2>1, <2>2 DEF Reached, BufOps, QueueOps, LostOps, Acknowledged, InMutation
  <2>4. AppliedOps' = AppliedOps
    BY <2>2, <2>3, AppliedIs, AppliedIsNext
  <2> QED BY <2>1, <2>2, <2>3, <2>4
             DEF DataInv, NumbersInv, PipelineInv, AloneInv, SnapshotInv, EventsInv, AccountInv, CoverInv
<1> QED
  BY <1>1, <1>2, <1>3, <1>4, <1>5, <1>6, <1>7, <1>8, <1>9, <1>10, <1>11, <1>12
     DEF Next, Runtime, Worker

------------------------------------------------------------------------------
(* What holds when every failure is an error that the sink returns         *)

(* Where every operation is: on its way in order, journaled, or accounted  *)
(* for as lost, with new sequence numbers beyond everything reached        *)
(* (runtime/handle.rs:745), through crashes and power failures.            *)
THEOREM DataInvariant ==
  ASSUME ErrorsReturned
  PROVE  Spec => []DataInv
<1>1. Init => DataInv
  BY DataInit, ShapeInit
<1>2. ShapeInv /\ DataInv /\ [Next]_vars => DataInv'
  BY DataStep
<1> QED
  BY <1>1, <1>2, ShapeInvariant, PTL DEF Spec

(* No accepted operation is dropped silently (README.md:57): whatever      *)
(* appends, snapshots and compactions fail, it is on its way, journaled or *)
(* announced as lost.                                                      *)
THEOREM NoSilentDrop ==
  ASSUME ErrorsReturned
  PROVE  Spec => []NothingSilentlyDropped
<1>1. ASSUME DataInv PROVE NothingSilentlyDropped
  <2> SUFFICES ASSUME config.sink, NEW o \in Acknowledged
               PROVE  Journaled(db, o) \/ InPipeline(o) \/ LossPending(o) \/ o \in reported
    BY DEF NothingSilentlyDropped
  <2>1. o \in AppliedOps
    BY DEF AppliedOps
  <2>2. Journaled(db, o) \/ o \in BufOps \cup QueueOps \cup LostOps \cup reported
    BY <1>1, <2>1 DEF DataInv, AccountInv
  <2>3. o \in BufOps \cup QueueOps => InPipeline(o)
    BY DEF BufOps, QueueOps, InPipeline
  <2>4. o \in LostOps => LossPending(o)
    BY DEF LostOps, LossPending
  <2> QED BY <2>2, <2>3, <2>4
<1> QED
  BY <1>1, DataInvariant, PTL

(* DurableUpTo(n) (runtime/handle.rs:232) vouches for every accepted       *)
(* operation up to n that was not announced as lost before it.             *)
THEOREM DurableUpToIsHonest ==
  ASSUME ErrorsReturned
  PROVE  Spec => []DurableUpToHonest
<1>1. ASSUME DataInv PROVE DurableUpToHonest
  BY <1>1 DEF DataInv, CoverInv, AppliedOps, DurableUpToHonest
<1> QED
  BY <1>1, DataInvariant, PTL

(* The journal holds nothing that was not accepted or is about to be       *)
(* answered: a rollback (core/store.rs:287) gives back a sequence number   *)
(* under which nothing was written.                                        *)
THEOREM JournalHoldsOnlyAccepted ==
  ASSUME ErrorsReturned
  PROVE  Spec => []JournalOnlyAccepted
<1>1. ASSUME ShapeInv, DataInv PROVE JournalOnlyAccepted
  <2> SUFFICES ASSUME NEW n \in DOMAIN db.events
               PROVE  StoredOp(n, db.events[n]) \in AppliedOps \/ n < db.snapshot.next_op_seq
    BY DEF JournalOnlyAccepted, AppliedOps
  <2>1. db \in stable /\ n \in Nat /\ db.snapshot.next_op_seq \in Nat
    BY <1>1 DEF ShapeInv, TypeInv, DbOK, Decodes, OpSeq
  <2>2. n >= db.snapshot.next_op_seq => StoredOp(n, db.events[n]) \in AppliedOps
    BY <1>1, <2>1 DEF DataInv, EventsInv
  <2> QED BY <2>1, <2>2
<1> QED
  BY <1>1, DataInvariant, ShapeInvariant, PTL

------------------------------------------------------------------------------
(* What an answer vouches for, when no batch fails                         *)

(* Snapshots and compactions may still fail.                               *)
NoBatchFails == ErrorsReturned /\ "append" \notin SinkFaults

(* Steps that leave the databases alone and after which no answer waits.   *)
LEMMA PromiseIdle ==
  ASSUME PromiseInv, UNCHANGED <<durable, stable, reported, promised>>, rt'.pc # "await"
  PROVE  PromiseInv'
  BY DEF PromiseInv, PromisesSurvive

(* The loop's steps on commands: no answer is given here that vouches for  *)
(* anything.                                                               *)
LEMMA PromiseCommand ==
  ASSUME ShapeInv, PromiseInv,
         \/ \E m \in Mutations : Perform(m) \/ PatchMissing(m)
         \/ DropHandles \/ \E job \in {"flush", "checkpoint", "shutdown"} : Control(job)
  PROVE  PromiseInv'
<1>1. CASE \E m \in Mutations : Perform(m)
  <2>1. PICK m \in Mutations : Perform(m)
    BY <1>1
  <2> DEFINE stored == StoredFor(store, m)
  <2>2. /\ rt.pc = "idle"
        /\ NotPersisted(stored) \/ Enqueued(stored) \/ QueueFull
        /\ UNCHANGED <<durable, stable, reported>>
    BY <2>1 DEF Perform, workerVars
  <2> HIDE DEF stored
  <2>3. ASSUME Accept(stored), ~config.sink \/ config.ack_mode = "InMemory"
        PROVE  rt'.pc # "await" /\ promised' = promised
    BY <2>3 DEF Accept, Idle
  <2>4. rt'.pc # "await" /\ promised' = promised
    BY <2>2, <2>3 DEF NotPersisted, Enqueued, QueueFull
  <2> QED BY <2>2, <2>4, PromiseIdle
<1>2. CASE \E m \in Mutations : PatchMissing(m)
  <2>1. rt'.pc # "await" /\ UNCHANGED <<durable, stable, reported, promised>>
    BY <1>2 DEF PatchMissing, workerVars
  <2> QED BY <2>1, PromiseIdle
<1>3. CASE DropHandles \/ \E job \in {"flush", "checkpoint", "shutdown"} : Control(job)
  <2>1. rt'.pc # "await" /\ UNCHANGED <<durable, stable, reported, promised>>
    BY <1>3 DEF DropHandles, Control, Stopped, Idle, workerVars
  <2> QED BY <2>1, PromiseIdle
<1> QED
  BY <1>1, <1>2, <1>3

(* A question is sent: nothing has been answered yet.                      *)
LEMMA PromiseSend ==
  ASSUME ShapeInv, PromiseInv, SendToWorker
  PROVE  PromiseInv'
<1>1. rt.pc = "send" /\ UNCHANGED <<durable, stable, reported, promised, reply, wk>>
  BY DEF SendToWorker, workerVars
<1>2. reply = None /\ wk.pc \notin {"snapshot", "compact"}
  BY <1>1 DEF ShapeInv, Flow, Quiet, Asked, Working, Answered
<1> QED
  BY <1>1, <1>2 DEF PromiseInv, PromisesSurvive, None

(* The answer arrives: what it vouches for is in every database.           *)
LEMMA PromiseAwait ==
  ASSUME ShapeInv, DataInv, PromiseInv, AwaitReply
  PROVE  PromiseInv'
<1>1. /\ rt.pc = "await"
      /\ MutationAnswer \/ ControlAnswer
      /\ UNCHANGED <<durable, stable, reported>>
  BY DEF AwaitReply, workerVars
<1>2. \A o \in AppliedOps : o.seq \in Nat
  BY AppliedNumbers DEF DataInv
<1>3. Acknowledged \subseteq AppliedOps /\ (rt.job = "mutation" => rt.stored \in AppliedOps)
  BY <1>1, AppliedIs DEF InMutation
<1>4. rt'.pc # "await"
  BY <1>1 DEF MutationAnswer, ControlAnswer, Accept, Idle, Stopped
<1>5. \/ promised' = promised
      \/ reply = "ok" /\ promised' \subseteq promised \cup AppliedOps
  BY <1>1, <1>3 DEF MutationAnswer, ControlAnswer, Accept
<1>6. CASE promised' = promised
  BY <1>1, <1>4, <1>6, PromiseIdle
<1>7. CASE reply = "ok" /\ promised' \subseteq promised \cup AppliedOps
  BY <1>1, <1>2, <1>4, <1>7 DEF PromiseInv, PromisesSurvive
<1> QED
  BY <1>5, <1>6, <1>7

(* A result is read: every one is good.                                    *)
LEMMA PromiseObserve ==
  ASSUME ShapeInv, PromiseInv, ObserveDurable
  PROVE  PromiseInv'
<1>1. /\ rt.pc = "idle" /\ durable # << >> /\ durable' = Tail(durable)
      /\ UNCHANGED <<rt, stable, promised>>
      /\ Head(durable).ok => UNCHANGED reported
  BY DEF ObserveDurable, LaterResults, workerVars
<1>2. IsSeq(durable)
  BY DEF ShapeInv, TypeInv, ResultsOK
<1>3. /\ Head(durable) = durable[1] /\ 1 \in DOMAIN durable
      /\ \A i \in DOMAIN durable' : i + 1 \in DOMAIN durable /\ durable'[i] = durable[i + 1]
  BY <1>1, <1>2, SeqTail
<1>4. \A i \in DOMAIN durable' : durable'[i].ok
  BY <1>3 DEF PromiseInv
<1>5. UNCHANGED reported
  BY <1>1, <1>3 DEF PromiseInv
<1> QED
  BY <1>1, <1>4, <1>5 DEF PromiseInv, PromisesSurvive

(* The worker takes a message, or is woken.                                *)
LEMMA PromiseTake ==
  ASSUME ShapeInv, PromiseInv, Receive \/ DeadlineExpires \/ QueueClosed
  PROVE  PromiseInv'
<1>1. /\ UNCHANGED <<loopVars, durable, stable, reply>> /\ wk.pc = "recv"
  BY DEF Receive, DeadlineExpires, QueueClosed, Wake
<1>2. UNCHANGED <<rt, accepted, reported, promised>>
  BY <1>1 DEF loopVars
<1>3. wk'.pc \in {"recv", "flush"}
  <2>1. DOMAIN wk = {"pc", "msg", "buf", "last_durable"}
    BY DEF ShapeInv, TypeInv, WorkerOK
  <2> QED BY <1>1, <2>1 DEF Receive, DeadlineExpires, QueueClosed, Wake
<1>4. AppliedOps' = AppliedOps
  BY <1>2, AppliedIs, AppliedIsNext DEF InMutation, Acknowledged
<1> QED
  BY <1>1, <1>2, <1>3, <1>4 DEF PromiseInv, PromisesSurvive

(* A batch never conflicts with the journal, and adds to it.               *)
LEMMA BatchIsNew ==
  ASSUME ShapeInv, DataInv
  PROVE  /\ ~Conflicts(db, wk.buf) /\ Keeps(db, AppendOps(db, wk.buf))
         /\ \A o \in BufOps : Journaled(AppendOps(db, wk.buf), o)
<1>1. NumbersInv /\ PipelineInv /\ WorkerOK /\ DbOK
  BY DEF ShapeInv, TypeInv, DataInv
<1>2. \A i \in DOMAIN wk.buf : wk.buf[i] \in BufOps
  BY DEF BufOps, ToSet
<1>3. \A o \in BufOps : \E i \in DOMAIN wk.buf : o = wk.buf[i]
  BY DEF BufOps, ToSet
<1>4. BufOps \subseteq AppliedOps
  BY <1>1 DEF PipelineInv
<1>5. db \in stable /\ DOMAIN db = {"events", "snapshot"} /\ DOMAIN db.events \subseteq Reached
  BY <1>1, ReachedNumbers DEF DbOK
<1>6. \A i \in DOMAIN wk.buf : wk.buf[i].seq \in Nat
  BY <1>1, <1>2, <1>4, AppliedNumbers
<1>7. ~Conflicts(db, wk.buf)
  <2>1. \A i \in DOMAIN wk.buf : \A k \in Reached : k < wk.buf[i].seq
    BY <1>1, <1>2 DEF PipelineInv
  <2>2. \A i \in DOMAIN wk.buf : wk.buf[i].seq \notin Reached
    BY <1>6, <2>1
  <2> QED BY <1>5, <2>2 DEF Conflicts
<1>8. \A i, j \in DOMAIN wk.buf : wk.buf[i].seq = wk.buf[j].seq => wk.buf[i] = wk.buf[j]
  BY <1>1, <1>2, <1>4, AppliedNumbers
<1>9. \A i \in DOMAIN wk.buf : wk.buf[i] = StoredOp(wk.buf[i].seq, wk.buf[i].op)
  BY <1>1 DEF WorkerOK, OpOK
<1>10. /\ Keeps(db, AppendOps(db, wk.buf))
       /\ \A i \in DOMAIN wk.buf : Journaled(AppendOps(db, wk.buf), wk.buf[i])
  BY <1>5, <1>7, <1>8, <1>9, AppendKeeps
<1> QED
  BY <1>3, <1>7, <1>10

(* flush_buf succeeds, and when it answers a question everything applied   *)
(* was synced.                                                             *)
LEMMA PromiseFlushBuf ==
  ASSUME NoBatchFails, ShapeInv, DataInv, PromiseInv, FlushBuf
  PROVE  PromiseInv'
<1> DEFINE D == AppendOps(db, wk.buf)
           reached == MaxOf(wk.last_durable, Last(wk.buf).seq)
           r == [ok |-> TRUE, seq |-> reached]
           t == wk.msg.t
<1>1. /\ wk.pc = "flush" /\ UNCHANGED <<loopVars, queue, config>>
  BY DEF FlushBuf
<1>2. UNCHANGED <<rt, accepted, reported, promised>>
  BY <1>1 DEF loopVars
<1>3. /\ ~Conflicts(db, wk.buf) /\ Keeps(db, D) /\ \A o \in BufOps : Journaled(D, o)
  BY BatchIsNew
<1>4. FlushSucceeds
  BY <1>3 DEF FlushBuf, AppendFails, SinkPanics, SinkFlushFails, Fault, NoBatchFails, ErrorsReturned
<1>5. /\ stable' \subseteq stable \cup {D} /\ (t # "Timer" => stable' = {D})
      /\ durable' = durable \/ durable' = Append(durable, r)
      /\ AfterFlush(TRUE, wk.last_durable) \/ AfterFlush(TRUE, reached)
  BY <1>4 DEF FlushSucceeds, Syncs, Commits, CallsFlush
<1>6. r.ok
  OBVIOUS
<1>7. WorkerOK /\ ResultsOK /\ LoopOK /\ DbOK /\ NumbersInv /\ AccountInv
  BY DEF ShapeInv, TypeInv, DataInv
<1> HIDE DEF D, r, reached
<1>8. wk'.pc = PcAfter(t, TRUE) /\ reply' = ReplyTo(t, TRUE)
  BY <1>5, <1>7 DEF AfterFlush, WorkerAfter, WorkerOK
<1>9. \A i \in DOMAIN durable' : durable'[i].ok
  <2>1. CASE durable' = durable
    BY <2>1 DEF PromiseInv
  <2>2. CASE durable' = Append(durable, r)
    <3>1. /\ durable'[Len(durable) + 1] = r /\ Len(durable) \in Nat
          /\ DOMAIN durable' = 1..(Len(durable) + 1) /\ DOMAIN durable = 1..Len(durable)
          /\ \A i \in 1..Len(durable) : durable'[i] = durable[i]
      BY <1>7, <2>2, SeqAppend, SeqFacts DEF ResultsOK
    <3>2. \A i \in DOMAIN durable' : i \in DOMAIN durable \/ i = Len(durable) + 1
      BY <3>1
    <3> QED BY <1>6, <3>1, <3>2 DEF PromiseInv
  <2> QED BY <1>5, <2>1, <2>2
<1>10. PromisesSurvive'
  <2>1. \A o \in promised : Journaled(db, o) /\ o.seq \in Nat
    BY <1>7 DEF PromiseInv, PromisesSurvive, DbOK
  <2> QED BY <1>2, <1>3, <1>5, <2>1 DEF PromiseInv, PromisesSurvive, Keeps
<1>11. AppliedOps' = AppliedOps
  BY <1>2, AppliedIs, AppliedIsNext DEF InMutation, Acknowledged
<1>12. ASSUME rt.pc = "await", reply' = "ok" \/ wk'.pc \in {"snapshot", "compact"}
       PROVE  \A o \in AppliedOps : \A d \in stable' : Journaled(d, o)
  <2>1. reply = None
    BY <1>1, <1>12 DEF ShapeInv, Flow, Quiet, Asked, Working, Answered
  <2>2. t \in {"Flush", "Checkpoint", "Shutdown"}
    BY <1>8, <1>12, <2>1 DEF ReplyTo, PcAfter, None
  <2>3. queue = << >> /\ config.sink
    BY <1>1, <1>7, <1>12, <2>1, <2>2 DEF ShapeInv, Flow, Quiet, Asked, Working, Answered, LoopOK
  <2>4. QueueOps = {} /\ LostOps = {} /\ reported = {}
    BY <2>3, NoOps DEF PromiseInv, LostOps
  <2>5. \A o \in AppliedOps : Journaled(db, o) \/ o \in BufOps
    BY <1>7, <2>3, <2>4 DEF AccountInv
  <2>6. \A o \in AppliedOps : o.seq \in Nat
    BY <1>7, AppliedNumbers
  <2>7. \A o \in AppliedOps : Journaled(D, o)
    BY <1>3, <2>5, <2>6 DEF Keeps
  <2> QED BY <1>5, <2>2, <2>7
<1> QED
  BY <1>2, <1>9, <1>10, <1>11, <1>12 DEF PromiseInv

(* The snapshot and the compaction of a checkpoint.                        *)
LEMMA PromiseCheckpoint ==
  ASSUME ShapeInv, DataInv, PromiseInv, WriteSnapshot \/ CompactThrough
  PROVE  PromiseInv'
<1>1. /\ wk.pc \in {"snapshot", "compact"} /\ UNCHANGED <<loopVars, durable>>
  BY DEF WriteSnapshot, CompactThrough
<1>2. UNCHANGED <<rt, accepted, reported, promised>>
  BY <1>1 DEF loopVars
<1>3. stable' \subseteq stable \cup {db'} /\ Keeps(db, db')
  BY CheckpointWrites
<1>4. rt.pc = "await" /\ db \in stable
  BY <1>1 DEF ShapeInv, TypeInv, DbOK, Flow, Quiet, Asked, Working, Answered
<1>5. AppliedOps' = AppliedOps
  BY <1>2, AppliedIs, AppliedIsNext DEF InMutation, Acknowledged
<1>6. \A o \in AppliedOps : o.seq \in Nat
  BY AppliedNumbers DEF DataInv
<1>7. \A o \in AppliedOps \cup promised : o.seq \in Nat /\ \A d \in stable : Journaled(d, o)
  BY <1>1, <1>4, <1>6 DEF PromiseInv, PromisesSurvive
<1>8. \A o \in AppliedOps \cup promised : \A d \in stable' : Journaled(d, o)
  BY <1>3, <1>4, <1>7 DEF Keeps
<1> QED
  BY <1>1, <1>2, <1>5, <1>8 DEF PromiseInv, PromisesSurvive

(* Every step.                                                             *)
LEMMA PromiseStep ==
  ASSUME NoBatchFails, ShapeInv, DataInv, PromiseInv, [Next]_vars
  PROVE  PromiseInv'
<1>1. CASE \/ \E m \in Mutations : Perform(m) \/ PatchMissing(m)
           \/ DropHandles \/ \E job \in {"flush", "checkpoint", "shutdown"} : Control(job)
  BY <1>1, PromiseCommand
<1>2. CASE SendToWorker
  BY <1>2, PromiseSend
<1>3. CASE AwaitReply
  BY <1>3, PromiseAwait
<1>4. CASE ObserveDurable
  BY <1>4, PromiseObserve
<1>5. CASE Receive \/ DeadlineExpires \/ QueueClosed
  BY <1>5, PromiseTake
<1>6. CASE FlushBuf
  BY <1>6, PromiseFlushBuf
<1>7. CASE WriteSnapshot \/ CompactThrough
  BY <1>7, PromiseCheckpoint
<1>8. CASE Reopen
  <2>1. stable' \subseteq stable /\ rt'.pc # "await"
    BY <1>8 DEF Reopen, Idle, ShapeInv, TypeInv, DbOK
  <2>2. DOMAIN durable' = {} /\ reported' = {} /\ promised' = promised
    BY <1>8, SeqEmpty DEF Reopen
  <2> QED BY <2>1, <2>2 DEF PromiseInv, PromisesSurvive
<1>9. CASE UNCHANGED vars
  <2>1. UNCHANGED <<loopVars, reply, durable, wk, stable>>
    BY <1>9 DEF vars, workerVars
  <2>2. UNCHANGED <<rt, accepted, reported, promised>>
    BY <2>1 DEF loopVars
  <2>3. AppliedOps' = AppliedOps
    BY <2>2, AppliedIs, AppliedIsNext DEF InMutation, Acknowledged
  <2> QED BY <2>1, <2>2, <2>3 DEF PromiseInv, PromisesSurvive
<1> QED
  BY <1>1, <1>2, <1>3, <1>4, <1>5, <1>6, <1>7, <1>8, <1>9 DEF Next, Runtime, Worker

(* What a Durable answer, flush(), checkpoint() or shutdown() vouched for  *)
(* (runtime/handle.rs:53, 612, 621) is in every database that a crash or a *)
(* power failure at any later moment can leave, if no batch fails; failing *)
(* snapshots and compactions do not matter.                                *)
THEOREM PromisesAreKept ==
  ASSUME NoBatchFails
  PROVE  Spec => []PromisesSurvive
<1>1. ErrorsReturned
  BY DEF NoBatchFails
<1>2. Init => PromiseInv
  BY SeqEmpty DEF Init, PromiseInv, PromisesSurvive, Idle
<1>3. ShapeInv /\ DataInv /\ PromiseInv /\ [Next]_vars => PromiseInv'
  BY PromiseStep
<1>4. PromiseInv => PromisesSurvive
  BY DEF PromiseInv
<1>5. Spec => []DataInv
  BY <1>1, DataInvariant
<1> QED
  BY <1>2, <1>3, <1>4, <1>5, ShapeInvariant, PTL DEF Spec

==============================================================================
