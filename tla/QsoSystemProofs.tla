---------------------------- MODULE QsoSystemProofs ----------------------------
(***************************************************************************)
(* Proofs about QsoSystem, for any clients, requests and bounds, every     *)
(* configuration of the log and every failure of the sink: what a caller   *)
(* is told agrees with the log.                                            *)
(***************************************************************************)
EXTENDS QsoSystem, QsoLogProofs

Key(job) == <<job.client, job.n>>

CurrentKey(c) == <<c, calls[c].n>>

Busy == rt.pc \in {"send", "await"}

Owners == ToSet(owner)

(* A command in the channel or with the loop.  If it is its client's last  *)
(* call, that call waits for its answer or was cancelled.                  *)
JobIn(cs, job) ==
  /\ job.client \in Clients /\ job.n \in Nat /\ job.cmd \in Requests[job.client]
  /\ job.n <= cs[job.client].n
  /\ job.n = cs[job.client].n =>
       /\ cs[job.client].cmd = job.cmd
       /\ cs[job.client].pc = "sent" \/ cs[job.client].result = "cancelled"

CallsOK ==
  /\ DOMAIN calls = Clients
  /\ \A c \in Clients : /\ DOMAIN calls[c] = {"n", "pc", "cmd", "result"} /\ calls[c].n \in Nat
                        /\ calls[c].pc = "sent" => calls[c].result = None

(* Commands in the channel were not executed, and none is there twice.     *)
ChannelOK ==
  /\ IsSeq(cmds)
  /\ \A i \in DOMAIN cmds : JobIn(calls, cmds[i]) /\ Key(cmds[i]) \notin Owners
  /\ \A i, j \in DOMAIN cmds : Key(cmds[i]) = Key(cmds[j]) => i = j

(* The command the loop is busy with is no longer in the channel; its      *)
(* operation is accepted exactly if only the automatic checkpoint is left. *)
ServingOK ==
  Busy => LET job == serving.job IN
          /\ JobIn(calls, job) /\ \A i \in DOMAIN cmds : Key(cmds[i]) # Key(job)
          /\ rt.job = "auto" => serving.result = "ok" /\ Key(job) \in Owners
          /\ rt.job # "auto" => Key(job) \notin Owners
          /\ rt.job \notin {"auto", "mutation"} => ~IsMutation(job.cmd)

(* An accepted operation belongs to a call that was made, and one that     *)
(* still waits for its answer waits for the automatic checkpoint.          *)
OwnersOK ==
  /\ IsSeq(accepted) /\ IsSeq(owner)
  /\ \A k \in Owners : \E c \in Clients, n \in Nat : k = <<c, n>> /\ n <= calls[c].n
  /\ \A c \in Clients : calls[c].pc = "sent" /\ CurrentKey(c) \in Owners =>
       Busy /\ rt.job = "auto" /\ Key(serving.job) = CurrentKey(c)

SysInv == CallsOK /\ ChannelOK /\ ServingOK /\ OwnersOK /\ AnswersMatchLog

------------------------------------------------------------------------------
(* The system's steps are steps of the log                                 *)

(* Commands that are not mutations.                                        *)
LEMMA NotMutations ==
  ASSUME NEW q, q.cmd \in {"read", "flush", "checkpoint", "shutdown"}
  PROVE  ~IsMutation(q)
<1>1. ASSUME q \in Mutations PROVE q.cmd \in Cmds
  BY <1>1 DEF Mutations
<1> QED
  BY <1>1, LogInputsAssumption DEF IsMutation

(* Callers leave the log alone; the loop and the worker take its steps.    *)
LEMMA SysStepIsLogStep == ASSUME [SysNext]_allVars PROVE [Next]_vars
<1>1. ASSUME Take PROVE Next \/ UNCHANGED vars
  <2>1. PICK job : \/ IsMutation(job.cmd) /\ Mutated(job.cmd)
                   \/ job.cmd.cmd \in {"flush", "checkpoint", "shutdown"} /\ Control(job.cmd.cmd)
                   \/ UNCHANGED vars
    BY <1>1 DEF Take
  <2>2. CASE IsMutation(job.cmd) /\ Mutated(job.cmd)
    BY <2>2 DEF IsMutation, Mutated, Next, Runtime
  <2>3. CASE job.cmd.cmd \in {"flush", "checkpoint", "shutdown"} /\ Control(job.cmd.cmd)
    BY <2>3 DEF Next, Runtime
  <2> QED BY <2>1, <2>2, <2>3
<1>2. ASSUME Suspended \/ Resume \/ LastHandleDropped \/ ReadResult PROVE Next
  BY <1>2 DEF Suspended, Resume, LastHandleDropped, ReadResult, Next, Runtime
<1>3. ASSUME CloseChannel PROVE UNCHANGED vars
  BY <1>3 DEF CloseChannel
<1>4. ASSUME WorkerTask \/ Deadline PROVE Next
  BY <1>4 DEF WorkerTask, Deadline, Next, Worker
<1>5. ASSUME NEW c, NEW cmd, StartCall(c, cmd) PROVE UNCHANGED vars
  BY <1>5 DEF StartCall
<1>6. ASSUME NEW c, Cancel(c) \/ DropHandle(c) PROVE UNCHANGED vars
  BY <1>6 DEF Cancel, DropHandle
<1>7. ASSUME UNCHANGED allVars PROVE UNCHANGED vars
  BY <1>7 DEF allVars
<1> QED
  BY <1>1, <1>2, <1>3, <1>4, <1>5, <1>6, <1>7 DEF SysNext, LoopTask

(* Behind any callers, the loop and the worker (runtime/handle.rs:417,     *)
(* 671) behave as QsoLog says: what is proved of Spec holds of the system. *)
THEOREM SystemIsLog == SysSpec => Spec
<1>1. SysInit => Init
  BY DEF SysInit
<1>2. [SysNext]_allVars => [Next]_vars
  BY SysStepIsLogStep
<1> QED
  BY <1>1, <1>2, PTL DEF SysSpec, Spec

(* The log keeps its shape behind any callers.                             *)
LEMMA SysShape == SysSpec => []ShapeInv
<1>1. SysInit => ShapeInv
  BY ShapeInit DEF SysInit
<1>2. ShapeInv /\ [SysNext]_allVars => ShapeInv'
  BY SysStepIsLogStep, ShapeStep
<1> QED
  BY <1>1, <1>2, PTL DEF SysSpec

------------------------------------------------------------------------------
(* Sequences of commands                                                   *)

(* Keys are equal if their parts are.                                      *)
LEMMA KeyParts ==
  ASSUME NEW c, NEW n, NEW d, NEW m
  PROVE  <<c, n>> = <<d, m>> <=> c = d /\ n = m
  OBVIOUS

(* A channel from which commands were taken.                               *)
LEMMA FewerCommands ==
  ASSUME ChannelOK, IsSeq(cmds'), NEW at,
         \A i \in DOMAIN cmds' : at[i] \in DOMAIN cmds /\ cmds'[i] = cmds[at[i]],
         \A i, j \in DOMAIN cmds' : at[i] = at[j] => i = j
  PROVE  /\ \A i \in DOMAIN cmds' : \E j \in DOMAIN cmds : cmds'[i] = cmds[j]
         /\ \A i, j \in DOMAIN cmds' : Key(cmds'[i]) = Key(cmds'[j]) => i = j
  BY DEF ChannelOK

(* Taking the first command.                                               *)
LEMMA TakeFirst ==
  ASSUME ChannelOK, cmds # << >>, cmds' = Tail(cmds)
  PROVE  /\ IsSeq(cmds') /\ Head(cmds) = cmds[1] /\ 1 \in DOMAIN cmds
         /\ \A i \in DOMAIN cmds' : \E j \in DOMAIN cmds : cmds'[i] = cmds[j]
         /\ \A i, j \in DOMAIN cmds' : Key(cmds'[i]) = Key(cmds'[j]) => i = j
         /\ \A i \in DOMAIN cmds' : Key(cmds'[i]) # Key(Head(cmds))
<1>1. /\ IsSeq(cmds') /\ Head(cmds) = cmds[1] /\ 1 \in DOMAIN cmds
      /\ \A i \in DOMAIN cmds' : i + 1 \in DOMAIN cmds /\ cmds'[i] = cmds[i + 1]
  BY SeqTail DEF ChannelOK
<1>2. DOMAIN cmds' = 1..Len(cmds') /\ Len(cmds') \in Nat
  BY <1>1, SeqFacts
<1> DEFINE at == [i \in DOMAIN cmds' |-> i + 1]
<1>3. /\ \A i \in DOMAIN cmds' : at[i] # 1
      /\ \A i \in DOMAIN cmds' : at[i] \in DOMAIN cmds /\ cmds'[i] = cmds[at[i]]
      /\ \A i, j \in DOMAIN cmds' : at[i] = at[j] => i = j
  BY <1>1, <1>2
<1> HIDE DEF at
<1>4. /\ \A i \in DOMAIN cmds' : \E j \in DOMAIN cmds : cmds'[i] = cmds[j]
      /\ \A i, j \in DOMAIN cmds' : Key(cmds'[i]) = Key(cmds'[j]) => i = j
  BY <1>1, <1>3, FewerCommands
<1>5. \A i \in DOMAIN cmds' : Key(cmds'[i]) # Key(Head(cmds))
  <2> TAKE i \in DOMAIN cmds'
  <2>1. Key(cmds[at[i]]) # Key(cmds[1])
    BY <1>1, <1>3 DEF ChannelOK
  <2>2. cmds'[i] = cmds[at[i]] /\ Head(cmds) = cmds[1]
    BY <1>1, <1>3
  <2> QED BY <2>1, <2>2
<1> QED
  BY <1>1, <1>4, <1>5

(* Taking one out of the middle.                                           *)
LEMMA TakeOut ==
  ASSUME ChannelOK, NEW k \in DOMAIN cmds, cmds' = RemoveAt(cmds, k)
  PROVE  /\ IsSeq(cmds')
         /\ \A i \in DOMAIN cmds' : \E j \in DOMAIN cmds : cmds'[i] = cmds[j]
         /\ \A i, j \in DOMAIN cmds' : Key(cmds'[i]) = Key(cmds'[j]) => i = j
<1>1. PICK S : cmds \in Seq(S)
  BY DEF ChannelOK, IsSeq
<1>2. DOMAIN cmds = 1..Len(cmds) /\ Len(cmds) \in Nat /\ k \in 1..Len(cmds)
  BY <1>1
<1>3. /\ cmds' \in Seq(S) /\ Len(cmds') = Len(cmds) - 1
      /\ \A i \in 1..(Len(cmds) - 1) : cmds'[i] = IF i < k THEN cmds[i] ELSE cmds[i + 1]
  BY <1>1, <1>2, RemoveAtProps
<1>4. DOMAIN cmds' = 1..(Len(cmds) - 1)
  BY <1>3
<1> DEFINE at == [i \in DOMAIN cmds' |-> IF i < k THEN i ELSE i + 1]
<1>5. /\ \A i \in DOMAIN cmds' : at[i] \in DOMAIN cmds /\ cmds'[i] = cmds[at[i]]
      /\ \A i, j \in DOMAIN cmds' : at[i] = at[j] => i = j
  BY <1>2, <1>3, <1>4
<1> HIDE DEF at
<1>6. IsSeq(cmds')
  BY <1>3 DEF IsSeq
<1> QED
  BY <1>5, <1>6, FewerCommands

------------------------------------------------------------------------------
(* Preservation by callers, and by steps that concern nobody's call        *)

(* No caller and no command is involved.                                   *)
LEMMA QuietStep ==
  ASSUME SysInv, UNCHANGED <<sysVars, accepted>>, Busy' <=> Busy, Busy => rt'.job = rt.job
  PROVE  SysInv'
<1>1. UNCHANGED <<calls, cmds, serving, owner, accepted>>
  BY DEF sysVars
<1>2. Owners' = Owners
  BY <1>1 DEF Owners
<1>3. \A job : JobIn(calls', job) <=> JobIn(calls, job)
  BY <1>1 DEF JobIn
<1>4. \A c \in Clients : CurrentKey(c)' = CurrentKey(c)
  BY <1>1 DEF CurrentKey
<1>5. CallsOK' /\ AnswersMatchLog'
  BY <1>1 DEF SysInv, CallsOK, AnswersMatchLog
<1>6. ChannelOK'
  BY <1>1, <1>2, <1>3 DEF SysInv, ChannelOK
<1>7. ServingOK'
  BY <1>1, <1>2, <1>3 DEF SysInv, ServingOK
<1>8. OwnersOK'
  BY <1>1, <1>2, <1>4 DEF SysInv, OwnersOK
<1> QED
  BY <1>5, <1>6, <1>7, <1>8 DEF SysInv

(* One client starts, cancels or ends its use of the log.                  *)
LEMMA CallerStep ==
  ASSUME SysInv, UNCHANGED <<rt, accepted, serving, owner>>,
         NEW c \in Clients, NEW new, calls' = [calls EXCEPT ![c] = new],
         DOMAIN new = {"n", "pc", "cmd", "result"}, new.n \in Nat, new.n >= calls[c].n,
         new.n = calls[c].n => /\ new.cmd = calls[c].cmd
                               /\ calls[c].pc = "sent" \/ calls[c].result = "cancelled" =>
                                    new.pc = "sent" \/ new.result = "cancelled",
         new.pc = "sent" => new.result = None /\ <<c, new.n>> \notin Owners,
         new.result \in {"ok", "err", "closed"} /\ IsMutation(new.cmd) =>
           (new.result = "ok" <=> <<c, new.n>> \in Owners),
         IsSeq(cmds'),
         \A i, j \in DOMAIN cmds' : Key(cmds'[i]) = Key(cmds'[j]) => i = j,
         \A i \in DOMAIN cmds' :
           \/ \E j \in DOMAIN cmds : cmds'[i] = cmds[j]
           \/ /\ cmds'[i] = [client |-> c, n |-> new.n, cmd |-> new.cmd]
              /\ new.n > calls[c].n /\ new.cmd \in Requests[c] /\ new.pc = "sent"
  PROVE  SysInv'
<1>1. CallsOK /\ ChannelOK /\ ServingOK /\ OwnersOK /\ AnswersMatchLog
  BY DEF SysInv
<1>2. /\ DOMAIN calls' = Clients /\ calls'[c] = new
      /\ \A d \in Clients : d # c => calls'[d] = calls[d]
  BY <1>1 DEF CallsOK
<1>3. \A d \in Clients : calls[d].n \in Nat /\ calls'[d].n \in Nat /\ calls[d].n <= calls'[d].n
  BY <1>1, <1>2 DEF CallsOK
<1>4. ASSUME NEW job, JobIn(calls, job) PROVE JobIn(calls', job)
  <2>1. CASE job.client # c
    BY <1>2, <1>4, <2>1 DEF JobIn
  <2>2. CASE job.client = c /\ job.n = new.n
    <3>1. job.n = calls[c].n
      BY <1>3, <1>4, <2>2 DEF JobIn
    <3> QED BY <1>2, <1>4, <2>2, <3>1 DEF JobIn
  <2>3. CASE job.client = c /\ job.n # new.n
    <3>1. job.n <= new.n
      BY <1>3, <1>4, <2>3 DEF JobIn
    <3> QED BY <1>2, <1>4, <2>3, <3>1 DEF JobIn
  <2> QED BY <2>1, <2>2, <2>3
<1>5. Owners' = Owners /\ (Busy' <=> Busy)
  BY DEF Owners, Busy
<1>6. <<c, new.n>> \in Owners => new.n <= calls[c].n
  BY <1>1, KeyParts DEF OwnersOK
<1>7. CallsOK'
  BY <1>1, <1>2 DEF CallsOK
<1>8. ASSUME NEW i \in DOMAIN cmds', cmds'[i] = [client |-> c, n |-> new.n, cmd |-> new.cmd],
             new.n > calls[c].n, new.cmd \in Requests[c], new.pc = "sent"
      PROVE  JobIn(calls', cmds'[i]) /\ Key(cmds'[i]) \notin Owners /\ (Busy => Key(cmds'[i]) # Key(serving.job))
  <2> DEFINE job == cmds'[i]
  <2>1. job.client = c /\ job.n = new.n /\ job.cmd = new.cmd /\ Key(job) = <<c, new.n>>
    BY <1>8 DEF Key
  <2>2. new.n <= new.n
    OBVIOUS
  <2> HIDE DEF job
  <2>3. JobIn(calls', job)
    BY <1>2, <1>8, <2>1, <2>2 DEF JobIn
  <2>4. Key(job) \notin Owners
    BY <1>8, <2>1
  <2>5. Busy => Key(job) # Key(serving.job)
    <3>1. Busy => serving.job.client # c \/ serving.job.n <= calls[c].n
      BY <1>1 DEF ServingOK, JobIn
    <3>2. ~(new.n <= calls[c].n)
      BY <1>3, <1>8
    <3> QED BY <2>1, <3>1, <3>2, KeyParts DEF Key
  <2> QED BY <2>3, <2>4, <2>5 DEF job
<1>9. ChannelOK'
  BY <1>1, <1>4, <1>5, <1>8 DEF ChannelOK
<1>10. ServingOK'
  BY <1>1, <1>4, <1>5, <1>8 DEF ServingOK
<1>11. OwnersOK'
  <2>1. \A k \in Owners : \E d \in Clients, n \in Nat : k = <<d, n>> /\ n <= calls'[d].n
    <3> TAKE k \in Owners
    <3>1. PICK d \in Clients, n \in Nat : k = <<d, n>> /\ n <= calls[d].n
      BY <1>1 DEF OwnersOK
    <3>2. n <= calls'[d].n
      BY <1>3, <3>1
    <3> QED BY <3>1, <3>2
  <2>2. ASSUME NEW d \in Clients, calls'[d].pc = "sent", CurrentKey(d)' \in Owners
        PROVE  Busy /\ rt.job = "auto" /\ Key(serving.job) = CurrentKey(d)'
    <3>1. d # c
      BY <1>2, <2>2 DEF CurrentKey
    <3>2. CurrentKey(d)' = CurrentKey(d)
      BY <1>2, <3>1 DEF CurrentKey
    <3> QED BY <1>1, <1>2, <2>2, <3>1, <3>2 DEF OwnersOK
  <2> QED BY <1>1, <1>5, <2>1, <2>2 DEF OwnersOK
<1>12. AnswersMatchLog'
  <2>1. ASSUME NEW d \in Clients, calls'[d].result \in {"ok", "err", "closed"}, IsMutation(calls'[d].cmd)
        PROVE  calls'[d].result = "ok" <=> <<d, calls'[d].n>> \in Owners
    <3>1. CASE d = c
      BY <1>2, <2>1, <3>1
    <3>2. CASE d # c
      BY <1>1, <1>2, <2>1, <3>2 DEF AnswersMatchLog, Owners
    <3> QED BY <3>1, <3>2
  <2> QED BY <1>1, <1>5, <2>1 DEF AnswersMatchLog, Owners, IsMutation
<1> QED
  BY <1>7, <1>9, <1>10, <1>11, <1>12 DEF SysInv

(* A client calls.                                                         *)
LEMMA StartCallInv ==
  ASSUME SysInv, NEW c \in Clients, NEW cmd \in Requests[c], StartCall(c, cmd)
  PROVE  SysInv'
<1>1. CallsOK /\ ChannelOK /\ OwnersOK /\ UNCHANGED <<rt, accepted, serving, owner>>
  BY DEF SysInv, StartCall, vars, loopVars
<1>2. calls[c].n \in Nat /\ calls[c].n + 1 > calls[c].n /\ calls[c].n + 1 >= calls[c].n
      /\ calls[c].n + 1 # calls[c].n
  BY <1>1 DEF CallsOK
<1>3. <<c, calls[c].n + 1>> \notin Owners
  BY <1>1, <1>2, KeyParts DEF OwnersOK
<1>4. CASE ~closed
  <2> DEFINE new == NewCall(c, cmd)
             job == [client |-> c, n |-> calls[c].n + 1, cmd |-> cmd]
  <2>1. /\ calls' = [calls EXCEPT ![c] = new] /\ cmds' = Append(cmds, job)
    BY <1>4 DEF StartCall
  <2>2. /\ DOMAIN new = {"n", "pc", "cmd", "result"} /\ new.n = calls[c].n + 1 /\ new.pc = "sent"
        /\ new.cmd = cmd /\ new.result = None
    BY DEF NewCall
  <2>3. Key(job) = <<c, new.n>> /\ job = [client |-> c, n |-> new.n, cmd |-> new.cmd]
    BY <2>2 DEF Key
  <2> HIDE DEF new, job
  <2>4. /\ IsSeq(cmds') /\ cmds'[Len(cmds) + 1] = job /\ Len(cmds) \in Nat
        /\ DOMAIN cmds' = 1..(Len(cmds) + 1) /\ DOMAIN cmds = 1..Len(cmds)
        /\ \A i \in 1..Len(cmds) : cmds'[i] = cmds[i]
    BY <1>1, <2>1, SeqAppend, SeqFacts DEF ChannelOK
  <2>5. \A i \in DOMAIN cmds' : (i \in DOMAIN cmds /\ cmds'[i] = cmds[i]) \/ (i = Len(cmds) + 1 /\ cmds'[i] = job)
    BY <2>4
  <2>6. ASSUME NEW i \in DOMAIN cmds PROVE Key(cmds[i]) # Key(job)
    <3>1. cmds[i].client = c => cmds[i].n <= calls[c].n /\ cmds[i].n \in Nat
      BY <1>1 DEF ChannelOK, JobIn
    <3>2. cmds[i].client = c => cmds[i].n # new.n
      BY <1>2, <2>2, <3>1
    <3> QED BY <2>3, <3>2, KeyParts DEF Key
  <2>7. \A i, j \in DOMAIN cmds' : Key(cmds'[i]) = Key(cmds'[j]) => i = j
    <3> TAKE i, j \in DOMAIN cmds'
    <3> HAVE Key(cmds'[i]) = Key(cmds'[j])
    <3>1. CASE i \in DOMAIN cmds /\ j \in DOMAIN cmds
      BY <1>1, <2>4, <3>1 DEF ChannelOK
    <3> QED BY <2>5, <2>6, <3>1
  <2>8. new.result \notin {"ok", "err", "closed"}
    BY <2>2 DEF None
  <2>9. /\ new.n \in Nat /\ new.n > calls[c].n /\ new.n >= calls[c].n /\ new.n # calls[c].n
        /\ <<c, new.n>> \notin Owners
    BY <1>2, <1>3, <2>2
  <2>10. \A i \in DOMAIN cmds' :
           \/ \E j \in DOMAIN cmds : cmds'[i] = cmds[j]
           \/ /\ cmds'[i] = [client |-> c, n |-> new.n, cmd |-> new.cmd]
              /\ new.n > calls[c].n /\ new.cmd \in Requests[c] /\ new.pc = "sent"
    BY <2>2, <2>3, <2>5, <2>9
  <2> QED BY <1>1, <2>1, <2>2, <2>4, <2>7, <2>8, <2>9, <2>10, CallerStep
<1>5. CASE closed
  <2> DEFINE new == [NewCall(c, cmd) EXCEPT !.pc = "idle", !.result = "closed"]
  <2>1. /\ calls' = [calls EXCEPT ![c] = new] /\ cmds' = cmds
    BY <1>5 DEF StartCall
  <2>2. /\ DOMAIN new = {"n", "pc", "cmd", "result"} /\ new.n = calls[c].n + 1 /\ new.pc = "idle"
        /\ new.result = "closed"
    BY DEF NewCall
  <2> HIDE DEF new
  <2>3. /\ IsSeq(cmds') /\ \A i, j \in DOMAIN cmds' : Key(cmds'[i]) = Key(cmds'[j]) => i = j
        /\ \A i \in DOMAIN cmds' : \E j \in DOMAIN cmds : cmds'[i] = cmds[j]
    BY <1>1, <2>1 DEF ChannelOK
  <2>4. /\ new.n \in Nat /\ new.n >= calls[c].n /\ new.n # calls[c].n
        /\ <<c, new.n>> \notin Owners
    BY <1>2, <1>3, <2>2
  <2> QED BY <1>1, <2>1, <2>2, <2>3, <2>4, CallerStep
<1> QED
  BY <1>4, <1>5

(* A client gives up, or drops its handle.                                 *)
LEMMA CancelInv ==
  ASSUME SysInv, NEW c \in Clients, Cancel(c) \/ DropHandle(c)
  PROVE  SysInv'
<1>1. CallsOK /\ ChannelOK /\ AnswersMatchLog /\ UNCHANGED <<rt, accepted, serving, owner>>
  BY DEF SysInv, Cancel, DropHandle, vars, loopVars
<1>2. DOMAIN calls[c] = {"n", "pc", "cmd", "result"} /\ calls[c].n \in Nat /\ DOMAIN calls = Clients
  BY <1>1 DEF CallsOK
<1>3. calls[c].n >= calls[c].n
  BY <1>2
<1>4. CASE Cancel(c)
  <2> DEFINE new == [calls[c] EXCEPT !.pc = "idle", !.result = "cancelled"]
  <2>1. calls' = [calls EXCEPT ![c] = new]
    BY <1>2, <1>4 DEF Cancel
  <2>2. /\ DOMAIN new = {"n", "pc", "cmd", "result"} /\ new.n = calls[c].n /\ new.pc = "idle"
        /\ new.cmd = calls[c].cmd /\ new.result = "cancelled"
    BY <1>2
  <2> HIDE DEF new
  <2>3. /\ IsSeq(cmds') /\ \A i, j \in DOMAIN cmds' : Key(cmds'[i]) = Key(cmds'[j]) => i = j
        /\ \A i \in DOMAIN cmds' : \E j \in DOMAIN cmds : cmds'[i] = cmds[j]
    <3>1. CASE cmds' = cmds
      BY <1>1, <3>1 DEF ChannelOK
    <3>2. CASE \E i \in DOMAIN cmds : cmds' = RemoveAt(cmds, i)
      BY <1>1, <3>2, TakeOut
    <3> QED BY <1>4, <3>1, <3>2 DEF Cancel
  <2> QED BY <1>1, <1>2, <1>3, <2>1, <2>2, <2>3, CallerStep
<1>5. CASE DropHandle(c)
  <2> DEFINE new == [calls[c] EXCEPT !.pc = "dropped"]
  <2>1. calls' = [calls EXCEPT ![c] = new] /\ calls[c].pc = "idle" /\ cmds' = cmds
    BY <1>2, <1>5 DEF DropHandle
  <2>2. /\ DOMAIN new = {"n", "pc", "cmd", "result"} /\ new.n = calls[c].n /\ new.pc = "dropped"
        /\ new.cmd = calls[c].cmd /\ new.result = calls[c].result
    BY <1>2
  <2> HIDE DEF new
  <2>3. /\ IsSeq(cmds') /\ \A i, j \in DOMAIN cmds' : Key(cmds'[i]) = Key(cmds'[j]) => i = j
        /\ \A i \in DOMAIN cmds' : \E j \in DOMAIN cmds : cmds'[i] = cmds[j]
    BY <1>1, <2>1 DEF ChannelOK
  <2>4. new.result \in {"ok", "err", "closed"} /\ IsMutation(new.cmd) =>
          (new.result = "ok" <=> <<c, new.n>> \in Owners)
    BY <1>1, <2>2 DEF AnswersMatchLog, Owners
  <2>5. /\ new.n \in Nat /\ new.n >= calls[c].n /\ new.pc # "sent"
        /\ calls[c].pc = "sent" \/ calls[c].result = "cancelled" =>
             new.pc = "sent" \/ new.result = "cancelled"
    BY <1>2, <1>3, <2>1, <2>2
  <2> QED BY <1>1, <2>1, <2>2, <2>3, <2>4, <2>5, CallerStep
<1> QED
  BY <1>4, <1>5

(* The loop has gone, and with it the commands in the channel.             *)
LEMMA CloseInv ==
  ASSUME SysInv, CloseChannel
  PROVE  SysInv'
<1>1. /\ CallsOK /\ OwnersOK /\ AnswersMatchLog /\ UNCHANGED <<rt, accepted, serving, owner>>
      /\ cmds' = << >> /\ rt.pc = "stopped"
  BY DEF SysInv, CloseChannel, vars, loopVars
<1>2. ~Busy /\ ~Busy' /\ Owners' = Owners
  BY <1>1 DEF Busy, Owners
<1>3. /\ DOMAIN calls' = Clients
      /\ \A c \in Clients : calls[c].pc # "sent" => calls'[c] = calls[c]
      /\ \A c \in Clients : calls[c].pc = "sent" =>
           calls'[c] = [calls[c] EXCEPT !.pc = "idle", !.result = "closed"]
  BY DEF CloseChannel
<1>4. \A c \in Clients : /\ DOMAIN calls'[c] = {"n", "pc", "cmd", "result"} /\ calls'[c].n = calls[c].n
                         /\ calls'[c].cmd = calls[c].cmd /\ calls'[c].pc # "sent"
                         /\ \/ calls'[c].result = calls[c].result
                            \/ calls[c].pc = "sent" /\ calls'[c].result = "closed"
  <2> TAKE c \in Clients
  <2>1. DOMAIN calls[c] = {"n", "pc", "cmd", "result"}
    BY <1>1 DEF CallsOK
  <2>2. CASE calls[c].pc = "sent"
    BY <1>3, <2>1, <2>2
  <2>3. CASE calls[c].pc # "sent"
    BY <1>3, <2>1, <2>3
  <2> QED BY <2>2, <2>3
<1>5. CallsOK'
  BY <1>1, <1>3, <1>4 DEF CallsOK
<1>6. ChannelOK' /\ ServingOK'
  BY <1>1, <1>2, SeqEmpty DEF ChannelOK, ServingOK
<1>7. OwnersOK'
  BY <1>1, <1>2, <1>4 DEF OwnersOK
<1>8. ASSUME NEW c \in Clients, calls[c].pc = "sent" PROVE <<c, calls[c].n>> \notin Owners
  BY <1>1, <1>2, <1>8 DEF OwnersOK, CurrentKey
<1>9. AnswersMatchLog'
  <2>1. ASSUME NEW c \in Clients, calls'[c].result \in {"ok", "err", "closed"}, IsMutation(calls'[c].cmd)
        PROVE  calls'[c].result = "ok" <=> <<c, calls'[c].n>> \in Owners
    BY <1>1, <1>4, <1>8, <2>1 DEF AnswersMatchLog, Owners
  <2> QED BY <1>1, <1>2, <2>1 DEF AnswersMatchLog, Owners, IsMutation
<1> QED
  BY <1>5, <1>6, <1>7, <1>9 DEF SysInv

------------------------------------------------------------------------------
(* Preservation by the loop                                                *)

(* An operation gets its owner.                                            *)
LEMMA OwnerPush ==
  ASSUME IsSeq(owner), IsInjective(owner), NEW k, k \notin Owners, owner' = Append(owner, k)
  PROVE  IsSeq(owner') /\ IsInjective(owner') /\ Owners' = Owners \cup {k}
<1>1. /\ IsSeq(owner') /\ Len(owner) \in Nat
      /\ DOMAIN owner' = 1..(Len(owner) + 1) /\ DOMAIN owner = 1..Len(owner)
      /\ \A i \in 1..Len(owner) : owner'[i] = owner[i]
      /\ owner'[Len(owner) + 1] = k
  BY SeqAppend, SeqFacts
<1>2. Owners = {owner[i] : i \in 1..Len(owner)}
  BY <1>1 DEF Owners, ToSet
<1>3. Owners' = {owner'[i] : i \in 1..(Len(owner) + 1)}
  BY <1>1 DEF Owners, ToSet
<1>4. \A i \in 1..(Len(owner) + 1) : i \in 1..Len(owner) \/ i = Len(owner) + 1
  BY <1>1
<1>5. 1..Len(owner) \subseteq 1..(Len(owner) + 1) /\ Len(owner) + 1 \in 1..(Len(owner) + 1)
  BY <1>1
<1>6. \A i \in 1..Len(owner) : owner'[i] # k
  BY <1>1, <1>2
<1>7. \A i, j \in 1..(Len(owner) + 1) : owner'[i] = owner'[j] => i = j
  <2> TAKE i, j \in 1..(Len(owner) + 1)
  <2> HAVE owner'[i] = owner'[j]
  <2>1. CASE i \in 1..Len(owner) /\ j \in 1..Len(owner)
    BY <1>1, <2>1 DEF IsInjective
  <2> QED BY <1>1, <1>4, <1>6, <2>1
<1>8. IsInjective(owner')
  BY <1>1, <1>7 DEF IsInjective
<1>9. Owners' = Owners \cup {k}
  BY <1>1, <1>2, <1>3, <1>4, <1>5
<1> QED
  BY <1>1, <1>8, <1>9

(* The loop works on command J: it suspends, or answers R.                 *)
LEMMA HandlerStep ==
  ASSUME SysInv, NEW J, NEW R, JobIn(calls, J), IsSeq(accepted'),
         IsSeq(cmds'),
         \A i \in DOMAIN cmds' : \E j \in DOMAIN cmds : cmds'[i] = cmds[j],
         \A i, j \in DOMAIN cmds' : Key(cmds'[i]) = Key(cmds'[j]) => i = j,
         \A i \in DOMAIN cmds' : Key(cmds'[i]) # Key(J),
         \/ owner' = owner
         \/ owner' = Append(owner, Key(J)) /\ Key(J) \notin Owners,
         \A c \in Clients : calls[c].pc = "sent" /\ CurrentKey(c) \in Owners => CurrentKey(c) = Key(J),
         Proceed(J, R), R \in {"ok", "err"},
         Busy' /\ rt'.job = "auto" => R = "ok" /\ Key(J) \in Owners',
         Busy' /\ rt'.job # "auto" => Key(J) \notin Owners',
         Busy' /\ rt'.job \notin {"auto", "mutation"} => ~IsMutation(J.cmd),
         ~Busy' /\ IsMutation(J.cmd) => (R = "ok" <=> Key(J) \in Owners')
  PROVE  SysInv'
<1>1. CallsOK /\ ChannelOK /\ OwnersOK /\ AnswersMatchLog
  BY DEF SysInv
<1>2. /\ IsSeq(owner') /\ IsInjective(owner')
      /\ Owners' = Owners \/ Owners' = Owners \cup {Key(J)}
  <2>1. CASE owner' = owner
    BY <1>1, <2>1 DEF OwnersOK, AnswersMatchLog, Owners
  <2>2. CASE owner' = Append(owner, Key(J)) /\ Key(J) \notin Owners
    BY <1>1, <2>2, OwnerPush DEF OwnersOK, AnswersMatchLog
  <2> QED BY <2>1, <2>2
<1>3. Owners \subseteq Owners' /\ \A k \in Owners' : k \in Owners \/ k = Key(J)
  BY <1>2
<1>4. J.client \in Clients /\ J.n \in Nat /\ J.n <= calls[J.client].n /\ Key(J) = <<J.client, J.n>>
  BY DEF JobIn, Key
<1>5. \A c \in Clients : CurrentKey(c) = Key(J) <=> c = J.client /\ calls[c].n = J.n
  BY <1>4, KeyParts DEF CurrentKey
<1> DEFINE hears == calls[J.client].pc = "sent" /\ calls[J.client].n = J.n
<1>6. \/ Busy' /\ serving' = [job |-> J, result |-> R] /\ calls' = calls
      \/ /\ ~Busy'
         /\ calls' = IF hears THEN [calls EXCEPT ![J.client].pc = "idle", ![J.client].result = R] ELSE calls
  BY DEF Proceed, Answer, Busy
<1>7. /\ DOMAIN calls' = Clients
      /\ \A c \in Clients : c # J.client => calls'[c] = calls[c]
      /\ Busy' \/ ~hears => calls' = calls
      /\ ~Busy' /\ hears =>
           /\ DOMAIN calls'[J.client] = {"n", "pc", "cmd", "result"}
           /\ calls'[J.client].n = calls[J.client].n /\ calls'[J.client].cmd = calls[J.client].cmd
           /\ calls'[J.client].pc = "idle" /\ calls'[J.client].result = R
  BY <1>1, <1>4, <1>6 DEF CallsOK
<1>8. \A c \in Clients : calls'[c].n = calls[c].n /\ calls'[c].cmd = calls[c].cmd /\ CurrentKey(c)' = CurrentKey(c)
  BY <1>7 DEF CurrentKey
<1>9. CallsOK'
  BY <1>1, <1>7 DEF CallsOK
<1>10. ASSUME NEW job, JobIn(calls, job), Key(job) # Key(J) PROVE JobIn(calls', job)
  <2>1. CASE calls' = calls
    BY <1>10, <2>1
  <2>2. CASE job.client # J.client
    BY <1>7, <1>10, <2>2 DEF JobIn
  <2>3. CASE hears /\ job.client = J.client
    <3>1. job.n # J.n
      BY <1>10, <2>3 DEF Key
    <3> QED BY <1>8, <1>10, <2>3, <3>1 DEF JobIn
  <2> QED BY <1>7, <2>1, <2>2, <2>3
<1>11. ChannelOK'
  <2>1. \A i \in DOMAIN cmds' : JobIn(calls', cmds'[i]) /\ Key(cmds'[i]) \notin Owners'
    BY <1>1, <1>3, <1>10 DEF ChannelOK
  <2> QED BY <2>1 DEF ChannelOK
<1>12. ServingOK'
  <2>1. CASE Busy'
    <3>1. serving'.job = J /\ serving'.result = R /\ calls' = calls
      BY <1>6, <2>1
    <3> QED BY <2>1, <3>1 DEF ServingOK
  <2> QED BY <2>1 DEF ServingOK
<1>13. OwnersOK'
  <2>1. \A k \in Owners' : \E c \in Clients, n \in Nat : k = <<c, n>> /\ n <= calls'[c].n
    <3> TAKE k \in Owners'
    <3>1. CASE k = Key(J)
      BY <1>4, <1>8, <3>1
    <3>2. CASE k \in Owners
      BY <1>1, <1>8, <3>2 DEF OwnersOK
    <3> QED BY <1>3, <3>1, <3>2
  <2>2. ASSUME NEW c \in Clients, calls'[c].pc = "sent", CurrentKey(c)' \in Owners'
        PROVE  Busy' /\ rt'.job = "auto" /\ Key(serving'.job) = CurrentKey(c)'
    <3>1. calls[c].pc = "sent" /\ calls'[c] = calls[c]
      BY <1>7, <2>2
    <3>2. CurrentKey(c) = Key(J)
      BY <1>3, <1>8, <2>2, <3>1
    <3>3. hears
      BY <1>5, <3>1, <3>2
    <3>4. Busy'
      BY <1>5, <1>7, <2>2, <3>2, <3>3
    <3>5. serving'.job = J
      BY <1>6, <3>4
    <3> QED BY <1>8, <2>2, <3>2, <3>4, <3>5
  <2> QED BY <1>2, <2>1, <2>2 DEF OwnersOK
<1>14. ASSUME NEW c \in Clients, calls'[c].result \in {"ok", "err", "closed"}, IsMutation(calls'[c].cmd)
       PROVE  calls'[c].result = "ok" <=> <<c, calls'[c].n>> \in Owners'
  <2>1. CASE ~Busy' /\ hears /\ c = J.client
    <3>1. calls[c].cmd = J.cmd
      BY <2>1 DEF JobIn
    <3> QED BY <1>4, <1>7, <1>8, <1>14, <2>1, <3>1
  <2>2. CASE calls'[c] = calls[c]
    <3>1. calls[c].pc # "sent" /\ calls[c].result # "cancelled"
      BY <1>1, <1>14, <2>2 DEF CallsOK, None
    <3>2. CurrentKey(c) # Key(J)
      BY <1>5, <3>1 DEF JobIn
    <3>3. <<c, calls[c].n>> \in Owners' <=> <<c, calls[c].n>> \in Owners
      BY <1>3, <3>2 DEF CurrentKey
    <3> QED BY <1>1, <1>14, <2>2, <3>3 DEF AnswersMatchLog, Owners
  <2> QED BY <1>7, <2>1, <2>2
<1>15. AnswersMatchLog'
  BY <1>2, <1>14 DEF AnswersMatchLog, Owners, IsMutation
<1> QED
  BY <1>9, <1>11, <1>12, <1>13, <1>15 DEF SysInv

(* What an accepted mutation leaves to do: nothing, or its automatic       *)
(* checkpoint.                                                             *)
LEMMA AcceptEffect ==
  ASSUME NEW stored, Accept(stored), config \in Configs, IsSeq(accepted)
  PROVE  /\ IsSeq(accepted') /\ accepted' # accepted
         /\ Busy' => rt'.job = "auto"
<1>1. accepted' = Append(accepted, stored)
  BY DEF Accept
<1>2. IsSeq(accepted') /\ Len(accepted') = Len(accepted) + 1 /\ Len(accepted) \in Nat
  BY <1>1, SeqAppend, SeqFacts
<1>3. Busy' => rt'.job = "auto"
  BY AcceptRt DEF Busy
<1>4. accepted' # accepted
  BY <1>2
<1> QED
  BY <1>2, <1>3, <1>4

(* handle_command on a mutation: the log grows if and only if it is        *)
(* answered Ok at once or only its automatic checkpoint is left.           *)
LEMMA MutatedEffect ==
  ASSUME NEW m, Mutated(m), rt.pc = "idle", config \in Configs, IsSeq(accepted)
  PROVE  /\ IsSeq(accepted')
         /\ Busy' => rt'.job \in {"auto", "mutation"}
         /\ Busy' /\ rt'.job = "auto" => accepted' # accepted
         /\ Busy' /\ rt'.job = "mutation" => accepted' = accepted
         /\ Busy' /\ rt'.job = "auto" => MutationResult(m) = "ok"
         /\ ~Busy' => (MutationResult(m) = "ok" <=> accepted' # accepted)
<1>1. ~Busy /\ "auto" # "mutation" /\ "ok" # "err"
  BY DEF Busy
<1>2. CASE Perform(m)
  <2>1. EnsureMutationAllowed /\ Succeeds(store, m)
    BY <1>2 DEF Perform
  <2>2. PICK stored : NotPersisted(stored) \/ Enqueued(stored) \/ QueueFull
    BY <1>2 DEF Perform
  <2>3. CASE NotPersisted(stored)
    <3>1. ~config.sink /\ Accept(stored)
      BY <2>3 DEF NotPersisted
    <3>2. MutationResult(m) = "ok"
      BY <2>1, <3>1 DEF MutationResult
    <3> QED BY <1>1, <3>1, <3>2, AcceptEffect
  <2>4. CASE Enqueued(stored)
    <3>1. MutationResult(m) = "ok"
      BY <2>1, <2>4 DEF MutationResult, Enqueued
    <3>2. CASE Accept(stored)
      BY <1>1, <3>1, <3>2, AcceptEffect
    <3>3. CASE /\ rt' = [pc |-> "send", job |-> "mutation", stored |-> stored,
                         checkpoint |-> MutationCheckpoint(store)]
               /\ accepted' = accepted
      <4>1. Busy' /\ rt'.job = "mutation"
        BY <3>3 DEF Busy
      <4> QED BY <1>1, <3>3, <4>1
    <3> QED BY <2>4, <3>2, <3>3 DEF Enqueued
  <2>5. CASE QueueFull
    <3>1. MutationResult(m) = "err" /\ accepted' = accepted /\ rt' = rt
      BY <2>5 DEF QueueFull, MutationResult
    <3>2. ~Busy'
      BY <1>1, <3>1 DEF Busy
    <3> QED BY <1>1, <3>1, <3>2
  <2> QED BY <2>2, <2>3, <2>4, <2>5
<1>3. CASE ~Perform(m)
  <2>1. /\ ~EnsureMutationAllowed \/ ~Succeeds(store, m)
        /\ accepted' = accepted /\ rt' = rt
    BY <1>3 DEF Mutated, PatchMissing, vars, loopVars
  <2>2. MutationResult(m) = "err"
    BY <2>1 DEF MutationResult
  <2>3. ~Busy'
    BY <1>1, <2>1 DEF Busy
  <2> QED BY <1>1, <2>1, <2>2, <2>3
<1> QED
  BY <1>2, <1>3

(* The loop takes a command.                                               *)
LEMMA TakeInv ==
  ASSUME SysInv, ShapeInv, Take
  PROVE  SysInv'
<1> DEFINE J == Head(cmds)
<1>1. CallsOK /\ ChannelOK /\ OwnersOK /\ config \in Configs
  BY DEF SysInv, ShapeInv, TypeInv
<1>2. cmds # << >> /\ cmds' = Tail(cmds) /\ Attribute(J)
  BY DEF Take
<1>3. /\ IsSeq(cmds') /\ J = cmds[1] /\ 1 \in DOMAIN cmds
      /\ \A i \in DOMAIN cmds' : \E j \in DOMAIN cmds : cmds'[i] = cmds[j]
      /\ \A i, j \in DOMAIN cmds' : Key(cmds'[i]) = Key(cmds'[j]) => i = j
      /\ \A i \in DOMAIN cmds' : Key(cmds'[i]) # Key(J)
  BY <1>1, <1>2, TakeFirst
<1>4. JobIn(calls, J) /\ Key(J) \notin Owners
  BY <1>1, <1>3 DEF ChannelOK
<1>5. PICK R :
        /\ Proceed(J, R)
        /\ \/ IsMutation(J.cmd) /\ Mutated(J.cmd) /\ R = MutationResult(J.cmd)
           \/ J.cmd.cmd \in {"flush", "checkpoint", "shutdown"} /\ Control(J.cmd.cmd) /\ R = "ok"
           \/ J.cmd.cmd = "read" /\ rt.pc = "idle" /\ UNCHANGED vars /\ R = "ok"
  BY DEF Take
<1>6. rt.pc = "idle"
  BY <1>5 DEF Mutated, Perform, PatchMissing, Control
<1>7. ~Busy /\ "auto" # "mutation"
  BY <1>6 DEF Busy
<1>8. \A c \in Clients : calls[c].pc = "sent" /\ CurrentKey(c) \in Owners => CurrentKey(c) = Key(J)
  BY <1>1, <1>7 DEF OwnersOK
<1>9. owner' = IF accepted' = accepted THEN owner ELSE Append(owner, Key(J))
  BY <1>2 DEF Attribute, Key
<1>10. /\ accepted' = accepted => Owners' = Owners
       /\ accepted' # accepted => Owners' = Owners \cup {Key(J)}
       /\ owner' = owner \/ owner' = Append(owner, Key(J))
  <2>1. CASE accepted' = accepted
    BY <1>9, <2>1 DEF Owners
  <2>2. CASE accepted' # accepted
    <3>1. owner' = Append(owner, Key(J)) /\ IsSeq(owner) /\ IsInjective(owner)
      BY <1>1, <1>9, <2>2 DEF OwnersOK, SysInv, AnswersMatchLog
    <3> QED BY <1>4, <2>2, <3>1, OwnerPush
  <2> QED BY <2>1, <2>2
<1> HIDE DEF J
<1>11. CASE IsMutation(J.cmd) /\ Mutated(J.cmd) /\ R = MutationResult(J.cmd)
  <2>1. /\ IsSeq(accepted')
        /\ Busy' => rt'.job \in {"auto", "mutation"}
        /\ Busy' /\ rt'.job = "auto" => accepted' # accepted
        /\ Busy' /\ rt'.job = "mutation" => accepted' = accepted
        /\ Busy' /\ rt'.job = "auto" => R = "ok"
        /\ ~Busy' => (R = "ok" <=> accepted' # accepted)
    BY <1>1, <1>6, <1>11, MutatedEffect DEF OwnersOK
  <2>2. Key(J) \in Owners' <=> accepted' # accepted
    BY <1>4, <1>10
  <2>3. R \in {"ok", "err"}
    BY <1>11 DEF MutationResult
  <2> QED BY <1>3, <1>4, <1>5, <1>7, <1>8, <1>10, <2>1, <2>2, <2>3, HandlerStep
<1>12. CASE J.cmd.cmd \in {"flush", "checkpoint", "shutdown", "read"} /\ R = "ok" /\ accepted' = accepted
            /\ (Busy' => rt'.job = J.cmd.cmd)
  <2>1. ~IsMutation(J.cmd)
    BY <1>12, NotMutations
  <2>2. IsSeq(accepted')
    BY <1>1, <1>12 DEF OwnersOK
  <2>3. Key(J) \notin Owners' /\ (Busy' => rt'.job # "auto")
    BY <1>4, <1>10, <1>12
  <2> QED BY <1>3, <1>4, <1>5, <1>8, <1>10, <1>12, <2>1, <2>2, <2>3, HandlerStep
<1>13. CASE J.cmd.cmd \in {"flush", "checkpoint", "shutdown"} /\ Control(J.cmd.cmd) /\ R = "ok"
  <2>1. accepted' = accepted
    BY <1>13 DEF Control
  <2>2. CASE config.sink
    <3>1. rt'.job = J.cmd.cmd
      BY <1>13, <2>2 DEF Control
    <3> QED BY <1>12, <1>13, <2>1, <3>1
  <2>3. CASE ~config.sink
    <3>1. ~Busy'
      BY <1>13, <2>3 DEF Control, Busy, Idle, Stopped
    <3> QED BY <1>12, <1>13, <2>1, <3>1
  <2> QED BY <2>2, <2>3
<1>14. CASE J.cmd.cmd = "read" /\ rt.pc = "idle" /\ UNCHANGED vars /\ R = "ok"
  <2>1. accepted' = accepted /\ rt' = rt
    BY <1>14 DEF vars, loopVars
  <2>2. ~Busy'
    BY <1>7, <2>1 DEF Busy
  <2> QED BY <1>12, <1>14, <2>1, <2>2
<1> QED
  BY <1>5, <1>11, <1>13, <1>14

(* The worker's answer arrives.                                            *)
LEMMA ResumeInv ==
  ASSUME SysInv, ShapeInv, Resume
  PROVE  SysInv'
<1> DEFINE J == serving.job
           R == ResultAfter
<1>1. CallsOK /\ ChannelOK /\ ServingOK /\ OwnersOK /\ config \in Configs
  BY DEF SysInv, ShapeInv, TypeInv
<1>2. /\ Proceed(J, R) /\ cmds' = cmds
      /\ owner' = IF accepted' = accepted THEN owner ELSE Append(owner, Key(J))
  BY DEF Resume, Attribute, Key
<1>3. rt.pc = "await" /\ Busy /\ reply # None /\ (MutationAnswer \/ ControlAnswer)
  BY DEF Resume, AwaitReply, Busy
<1>4. reply \in {"ok", "err"}
  BY <1>3 DEF ShapeInv, Flow, Quiet, Asked, Working, Answered
<1>5. /\ JobIn(calls, J)
      /\ rt.job = "auto" => serving.result = "ok" /\ Key(J) \in Owners
      /\ rt.job # "auto" => Key(J) \notin Owners
      /\ rt.job \notin {"auto", "mutation"} => ~IsMutation(J.cmd)
  BY <1>1, <1>3 DEF ServingOK
<1>6. /\ IsSeq(cmds')
      /\ \A i \in DOMAIN cmds' : \E j \in DOMAIN cmds : cmds'[i] = cmds[j]
      /\ \A i, j \in DOMAIN cmds' : Key(cmds'[i]) = Key(cmds'[j]) => i = j
      /\ \A i \in DOMAIN cmds' : Key(cmds'[i]) # Key(J)
  BY <1>1, <1>2, <1>3 DEF ChannelOK, ServingOK
<1>7. \A c \in Clients : calls[c].pc = "sent" /\ CurrentKey(c) \in Owners => CurrentKey(c) = Key(J)
  BY <1>1 DEF OwnersOK
<1>8. R = (IF rt.job = "auto" THEN serving.result ELSE reply)
  BY DEF ResultAfter
<1> HIDE DEF J, R
<1>9. R \in {"ok", "err"}
  BY <1>4, <1>5, <1>8
<1>10. CASE rt.job = "mutation"
  <2>1. Key(J) \notin Owners /\ R = reply
    BY <1>5, <1>8, <1>10
  <2>2. MutationAnswer
    BY <1>3, <1>10 DEF ControlAnswer
  <2>3. CASE reply = "ok" /\ Accept(rt.stored)
    <3>1. IsSeq(accepted') /\ accepted' # accepted /\ (Busy' => rt'.job = "auto")
      BY <1>1, <2>3, AcceptEffect DEF OwnersOK
    <3>2. owner' = Append(owner, Key(J)) /\ IsSeq(owner) /\ IsInjective(owner)
      BY <1>1, <1>2, <3>1 DEF OwnersOK, SysInv, AnswersMatchLog
    <3>3. Key(J) \in Owners'
      BY <2>1, <3>2, OwnerPush
    <3> QED BY <1>2, <1>5, <1>6, <1>7, <1>9, <2>1, <2>3, <3>1, <3>2, <3>3, HandlerStep
  <2>4. CASE reply = "err" /\ rt' = Idle /\ accepted' = accepted
    <3>1. ~Busy' /\ IsSeq(accepted') /\ owner' = owner
      BY <1>1, <1>2, <2>4 DEF Busy, Idle, OwnersOK
    <3>2. Key(J) \notin Owners' /\ R # "ok"
      BY <2>1, <2>4, <3>1 DEF Owners
    <3> QED BY <1>2, <1>5, <1>6, <1>7, <1>9, <3>1, <3>2, HandlerStep
  <2> QED BY <2>2, <2>3, <2>4 DEF MutationAnswer
<1>11. CASE rt.job # "mutation"
  <2>1. ControlAnswer
    BY <1>3, <1>11 DEF MutationAnswer
  <2>2. ~Busy' /\ accepted' = accepted
    BY <2>1 DEF ControlAnswer, Busy, Idle, Stopped
  <2>3. owner' = owner /\ Owners' = Owners /\ IsSeq(accepted')
    BY <1>1, <1>2, <2>2 DEF Owners, OwnersOK
  <2>4. IsMutation(J.cmd) => (R = "ok" <=> Key(J) \in Owners')
    BY <1>5, <1>8, <1>11, <2>3
  <2> QED BY <1>2, <1>5, <1>6, <1>7, <1>9, <2>2, <2>3, <2>4, HandlerStep
<1> QED
  BY <1>10, <1>11

------------------------------------------------------------------------------
(* The theorem                                                             *)

(* No call was made and nothing is in the log.                             *)
LEMMA SysInitInv == ASSUME SysInit PROVE SysInv
<1>1. /\ calls = [c \in Clients |-> NoCall] /\ cmds = << >> /\ owner = << >>
      /\ rt = Idle /\ accepted = << >>
  BY DEF SysInit, Init
<1>2. IsSeq(<< >>) /\ DOMAIN << >> = {}
  BY SeqEmpty
<1>3. Owners = {}
  BY <1>1, <1>2 DEF Owners, ToSet
<1>4. DOMAIN calls = Clients /\ \A c \in Clients : calls[c] = NoCall
  BY <1>1
<1>5. CallsOK
  BY <1>4 DEF CallsOK, NoCall
<1>6. ChannelOK
  BY <1>1, <1>2 DEF ChannelOK
<1>7. ServingOK
  BY <1>1 DEF ServingOK, Busy, Idle
<1>8. OwnersOK
  BY <1>1, <1>2, <1>3 DEF OwnersOK
<1>9. AnswersMatchLog
  BY <1>1, <1>2, <1>4 DEF AnswersMatchLog, IsInjective, NoCall, None
<1> QED
  BY <1>5, <1>6, <1>7, <1>8, <1>9 DEF SysInv

(* Steps of the worker, and those of the loop that serve no command.       *)
LEMMA BackgroundInv ==
  ASSUME SysInv, ShapeInv,
         Suspended \/ LastHandleDropped \/ ReadResult \/ WorkerTask \/ Deadline
  PROVE  SysInv'
<1>1. CASE Suspended
  <2>1. UNCHANGED <<sysVars, accepted>> /\ rt.pc = "send" /\ rt' = [rt EXCEPT !.pc = "await"]
    BY <1>1 DEF Suspended, SendToWorker
  <2>2. "pc" \in DOMAIN rt
    BY DEF ShapeInv, TypeInv, LoopOK
  <2>3. Busy /\ Busy' /\ rt'.job = rt.job
    BY <2>1, <2>2 DEF Busy
  <2> QED BY <2>1, <2>3, QuietStep
<1>2. CASE LastHandleDropped
  <2>1. UNCHANGED <<sysVars, accepted>> /\ rt.pc = "idle" /\ rt' = Stopped("drop")
    BY <1>2 DEF LastHandleDropped, DropHandles
  <2>2. ~Busy /\ ~Busy'
    BY <2>1 DEF Busy, Stopped
  <2> QED BY <2>1, <2>2, QuietStep
<1>3. CASE UNCHANGED <<sysVars, accepted, rt>>
  BY <1>3, QuietStep DEF Busy
<1>4. CASE ReadResult
  BY <1>3, <1>4 DEF ReadResult, ObserveDurable
<1>5. CASE WorkerTask
  <2>1. UNCHANGED <<sysVars, loopVars>>
    BY <1>5 DEF WorkerTask, Receive, QueueClosed, Wake, FlushBuf, WriteSnapshot, CompactThrough
  <2> QED BY <1>3, <2>1 DEF loopVars
<1>6. CASE Deadline
  <2>1. UNCHANGED <<sysVars, loopVars>>
    BY <1>6 DEF Deadline, DeadlineExpires, Wake
  <2> QED BY <1>3, <2>1 DEF loopVars
<1> QED
  BY <1>1, <1>2, <1>4, <1>5, <1>6

(* Every step of the system.                                               *)
LEMMA SysStep ==
  ASSUME SysInv, ShapeInv, [SysNext]_allVars
  PROVE  SysInv'
<1>1. ASSUME NEW c \in Clients, NEW cmd \in Requests[c], StartCall(c, cmd) PROVE SysInv'
  BY <1>1, StartCallInv
<1>2. ASSUME NEW c \in Clients, Cancel(c) \/ DropHandle(c) PROVE SysInv'
  BY <1>2, CancelInv
<1>3. CASE Take
  BY <1>3, TakeInv
<1>4. CASE Resume
  BY <1>4, ResumeInv
<1>5. CASE CloseChannel
  BY <1>5, CloseInv
<1>6. CASE Suspended \/ LastHandleDropped \/ ReadResult \/ WorkerTask \/ Deadline
  BY <1>6, BackgroundInv
<1>7. CASE UNCHANGED allVars
  <2>1. UNCHANGED <<sysVars, accepted>> /\ rt' = rt
    BY <1>7 DEF allVars, vars, loopVars
  <2>2. Busy' <=> Busy
    BY <2>1 DEF Busy
  <2> QED BY <2>1, <2>2, QuietStep
<1> QED
  BY <1>1, <1>2, <1>3, <1>4, <1>5, <1>6, <1>7 DEF SysNext, LoopTask

(* Every call, in whatever order calls, cancellations, dropped handles,    *)
(* the worker's answers and the end of the loop come, and whatever the     *)
(* sink does: a caller is told Ok exactly if its mutation is in the log,   *)
(* and no command is executed twice (runtime/handle.rs:445-462).           *)
THEOREM AnswersMatch == SysSpec => []AnswersMatchLog
<1>1. SysInit => SysInv
  BY SysInitInv
<1>2. SysInv /\ ShapeInv /\ [SysNext]_allVars => SysInv'
  BY SysStep
<1>3. SysInv => AnswersMatchLog
  BY DEF SysInv
<1> QED
  BY <1>1, <1>2, <1>3, SysShape, PTL DEF SysSpec

==============================================================================
