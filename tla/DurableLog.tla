------------------------------ MODULE DurableLog ------------------------------
(***************************************************************************)
(* What qsolog promises its callers, with no loop, queue, worker or        *)
(* database in sight: a log of operations, each of which is on its way to  *)
(* disk until it is saved or its loss is told, and which a crash cuts back *)
(* to what was saved.  QsoLog implements it (QsoLog!Abstract).             *)
(***************************************************************************)
EXTENDS Sequences, SequencesExt, Integers

CONSTANT Op    \* operations, with a sequence number each

VARIABLES log,      \* the operations applied, in order
          pending,  \* those on their way to disk
          saved,    \* those a restart finds
          told,     \* operations whose loss was announced
          upto      \* the sequence number DurableUpTo announced

vars == <<log, pending, saved, told, upto>>

Init == log = << >> /\ pending = {} /\ saved = {} /\ told = {} /\ upto = 0

(* A mutation is applied.  Its number is above those in the log and the    *)
(* one announced, and a loss told before was not that of this operation.   *)
Add == /\ log' # << >> /\ Last(log') \in Op
       /\ Last(log').seq \in Int /\ Last(log').seq > upto
       /\ \A o \in ToSet(log) : o.seq < Last(log').seq
       /\ Last(log') \notin told
       /\ log' = Append(log, Last(log'))
       /\ pending' = pending \cup {Last(log')}
       /\ UNCHANGED <<saved, told, upto>>

(* Operations reach the disk, by a batch or by a snapshot of the store,    *)
(* and none that did is ever taken away.                                   *)
Save == /\ saved \subseteq saved' /\ saved' \subseteq ToSet(log)
        /\ pending' \subseteq pending /\ pending \subseteq pending' \cup saved'
        /\ UNCHANGED <<log, told, upto>>

(* A loss is announced.                                                    *)
Tell == /\ told \subseteq told'
        /\ pending' \subseteq pending /\ pending \subseteq pending' \cup saved \cup told'
        /\ UNCHANGED <<log, saved, upto>>

(* Durability up to a sequence number is announced: what it does not cover *)
(* was told before.                                                        *)
Announce == /\ upto' \in Int /\ upto' >= upto
            /\ \A o \in ToSet(log) : o.seq <= upto' => o \in saved \cup told
            /\ UNCHANGED <<log, pending, saved, told>>

(* A mutation whose caller gets an error is taken back before anything of  *)
(* it reached the disk.                                                    *)
Withdraw == /\ log # << >> /\ Last(log) \notin saved
            /\ log' = Front(log)
            /\ pending' = pending \ {Last(log)}
            /\ UNCHANGED <<saved, told, upto>>

KeepsOrderOf(t, s) ==
  \A i, j \in DOMAIN t : i < j => \E m, n \in DOMAIN s : m < n /\ s[m] = t[i] /\ s[n] = t[j]

(* The process ends and starts again with what was saved.                  *)
Crash == /\ log' \in Seq(Op) /\ ToSet(log') = ToSet(log) \cap saved
         /\ KeepsOrderOf(log', log)
         /\ pending' = {} /\ told' = {} /\ upto' = 0
         /\ UNCHANGED saved

Next == Add \/ Save \/ Tell \/ Announce \/ Withdraw \/ Crash

Spec == Init /\ [][Next]_vars

------------------------------------------------------------------------------
(* No operation of the log is lost without a word (README.md:57), and what *)
(* was announced durable is saved, or was told before.                     *)
NothingLost ==
  /\ ToSet(log) \subseteq pending \cup saved \cup told
  /\ saved \subseteq ToSet(log)
  /\ \A o \in ToSet(log) : o.seq <= upto => o \in saved \cup told

==============================================================================
