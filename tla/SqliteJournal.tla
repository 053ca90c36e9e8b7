----------------------------- MODULE SqliteJournal -----------------------------
(***************************************************************************)
(* The tables of SqliteOpSink (persist/sqlite.rs) as operators on a        *)
(* database value: the events by sequence number and the newest row of     *)
(* `snapshots`.  Payload encoding and time stamps are left out.            *)
(***************************************************************************)
EXTENDS QsoStoreOps

(* No row in `snapshots` loads like a snapshot of the empty store.         *)
EmptyDb == [events |-> EmptyMap, snapshot |-> ExportSnapshot(NewStore)]

(* events.seq is a PRIMARY KEY.                                            *)
Conflicts(d, buf) == \E i \in DOMAIN buf : buf[i].seq \in DOMAIN d.events

(* The transaction of append_ops, when no key conflicts.                   *)
AppendOps(d, buf) ==
  [d EXCEPT !.events =
     [n \in DOMAIN @ \cup {buf[i].seq : i \in DOMAIN buf} |->
        IF n \in DOMAIN @ THEN @[n]
        ELSE buf[CHOOSE i \in DOMAIN buf : buf[i].seq = n].op]]

InsertSnapshot(d, snapshot) == [d EXCEPT !.snapshot = snapshot]

DeleteEventsThrough(d, seq) ==
  [d EXCEPT !.events = [n \in {k \in DOMAIN @ : k > seq} |-> @[n]]]

(* Mutant: the event that the snapshot ends with is replayed as well.      *)
LoadEventsFrom(d, seq) ==
  LET at == Ascending({n \in DOMAIN d.events : n >= seq})
  IN  [k \in DOMAIN at |-> StoredOp(at[k], d.events[at[k]])]

LoadEventsAfter(d, seq) ==
  LET at == Ascending({n \in DOMAIN d.events : n > seq})
  IN  [k \in DOMAIN at |-> StoredOp(at[k], d.events[at[k]])]

(* apply_replayed_op of one event, unless an earlier one did not apply.     *)
LoadEvent(l, e) ==
  IF l.ok /\ Applicable(l.store, e.op)
  THEN [ok |-> TRUE, store |-> ApplyReplayedOp(l.store, e)]
  ELSE [l EXCEPT !.ok = FALSE]

LoadAll(base, events) ==
  LET load[n \in 0..Len(events)] ==
        IF n = 0 THEN [ok |-> TRUE, store |-> base] ELSE LoadEvent(load[n - 1], events[n])
  IN  load[Len(events)]

(* load_store, which stops at the first event that does not apply.         *)
LoadStore(d) ==
  LET base == FromSnapshot(d.snapshot)
  IN  LoadAll(base, LoadEventsAfter(d, LatestOpSeq(base)))

(* An operation is in the journal, or covered by the snapshot.             *)
Journaled(d, o) ==
  \/ o.seq \in DOMAIN d.events /\ d.events[o.seq] = o.op
  \/ o.seq < d.snapshot.next_op_seq

(* The operations of s that are, in their order.                           *)
Surviving(s, d) ==
  LET at == Ascending({i \in DOMAIN s : Journaled(d, s[i])})
  IN  [k \in DOMAIN at |-> s[at[k]]]

==============================================================================
