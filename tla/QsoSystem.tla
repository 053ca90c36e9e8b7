------------------------------- MODULE QsoSystem -------------------------------
(***************************************************************************)
(* Callers of QsoLogHandle (runtime/handle.rs:284) in front of the loop    *)
(* and the worker of QsoLog.  A method sends a Command over a bounded      *)
(* channel and awaits its oneshot answer; the loop takes one command at a  *)
(* time.  Callers cancel (their future is dropped), drop their handle, and *)
(* call after the loop has gone.                                           *)
(*                                                                         *)
(* tokio hands out the places of a bounded channel in the order in which   *)
(* the senders asked, so `cmds` holds the queued commands followed by      *)
(* those whose sender waits for room: the first ChannelBound are in the    *)
(* channel.  Answers carry no data: a read is answered Ok.                 *)
(***************************************************************************)
EXTENDS QsoLog

CONSTANTS Clients,       \* holders of a handle
          Requests,      \* the commands each of them issues
          ChannelBound,  \* capacity of the command channel
          MaxCalls       \* bound: calls of each client

ASSUME ClientsAssumption ==
  /\ \A c \in Clients : \A q \in Requests[c] :
       q \in Mutations \/ q.cmd \in {"read", "flush", "checkpoint", "shutdown"}
  /\ ChannelBound \in Nat \ {0}
  /\ MaxCalls \in [Clients -> Nat]

VARIABLES calls,    \* per client: how many calls, and the state of the last
          cmds,     \* cmd_tx / cmd_rx, and the senders waiting for room
          serving,  \* the command the loop is busy with, and its result so far
          closed,   \* cmd_rx was dropped
          owner     \* history: which call each accepted operation is from

sysVars == <<calls, cmds, serving, closed, owner>>
allVars == <<vars, sysVars>>

NoCmd == [cmd |-> None]

NoCall == [n |-> 0, pc |-> "idle", cmd |-> NoCmd, result |-> None]

Nobody == [job |-> [client |-> None, n |-> 0, cmd |-> NoCmd], result |-> None]

SysInit ==
  /\ Init
  /\ calls = [c \in Clients |-> NoCall]
  /\ cmds = << >> /\ serving = Nobody /\ closed = FALSE /\ owner = << >>

------------------------------------------------------------------------------
(* The handle                                                              *)

NewCall(c, cmd) == [n |-> calls[c].n + 1, pc |-> "sent", cmd |-> cmd, result |-> None]

(* cmd_tx.send(..).await, which fails when the loop is gone.               *)
StartCall(c, cmd) ==
  /\ calls[c].pc = "idle" /\ calls[c].n < MaxCalls[c]
  /\ \/ /\ ~closed
        /\ calls' = [calls EXCEPT ![c] = NewCall(c, cmd)]
        /\ cmds' = Append(cmds, [client |-> c, n |-> calls[c].n + 1, cmd |-> cmd])
     \/ /\ closed
        /\ calls' = [calls EXCEPT ![c] = [NewCall(c, cmd) EXCEPT !.pc = "idle", !.result = "closed"]]
        /\ UNCHANGED cmds
  /\ UNCHANGED <<vars, serving, closed, owner>>

(* The caller's future is dropped: a command in the channel stays there, a *)
(* command that was waiting for room does not.                             *)
Cancel(c) ==
  LET waiting == {i \in DOMAIN cmds : i > ChannelBound /\ cmds[i].client = c /\ cmds[i].n = calls[c].n}
  IN
  /\ calls[c].pc = "sent"
  /\ calls' = [calls EXCEPT ![c].pc = "idle", ![c].result = "cancelled"]
  /\ cmds' = IF waiting = {} THEN cmds ELSE RemoveAt(cmds, CHOOSE i \in waiting : TRUE)
  /\ UNCHANGED <<vars, serving, closed, owner>>

DropHandle(c) ==
  /\ calls[c].pc = "idle"
  /\ calls' = [calls EXCEPT ![c].pc = "dropped"]
  /\ UNCHANGED <<vars, cmds, serving, closed, owner>>

------------------------------------------------------------------------------
(* The loop                                                                *)

(* resp.send(..): nobody is there if the caller cancelled.                 *)
Answer(job, result) ==
  calls' = IF calls[job.client].pc = "sent" /\ calls[job.client].n = job.n
           THEN [calls EXCEPT ![job.client].pc = "idle", ![job.client].result = result]
           ELSE calls

(* The handler goes on if it suspended, and answers otherwise.             *)
Proceed(job, result) ==
  \/ /\ rt'.pc \in {"send", "await"}
     /\ serving' = [job |-> job, result |-> result]
     /\ UNCHANGED calls
  \/ /\ rt'.pc \notin {"send", "await"}
     /\ serving' = Nobody
     /\ Answer(job, result)

Attribute(job) ==
  owner' = IF accepted' = accepted THEN owner ELSE Append(owner, <<job.client, job.n>>)

IsMutation(cmd) == cmd \in Mutations

Mutated(m) ==
  \/ Perform(m)
  \/ PatchMissing(m)
  \/ /\ rt.pc = "idle"
     /\ ~EnsureMutationAllowed \/ (~Succeeds(store, m) /\ m.cmd # "patch")
     /\ UNCHANGED vars

MutationResult(m) ==
  IF EnsureMutationAllowed /\ Succeeds(store, m) /\ (config.sink => RoomInQueue) THEN "ok" ELSE "err"

(* cmd_rx.recv() and handle_command up to its first suspension.            *)
Take ==
  LET job == Head(cmds) IN
  /\ cmds # << >> /\ ~closed
  /\ cmds' = Tail(cmds)
  /\ \/ IsMutation(job.cmd) /\ Mutated(job.cmd) /\ Proceed(job, MutationResult(job.cmd))
     \/ job.cmd.cmd \in {"flush", "checkpoint", "shutdown"} /\ Control(job.cmd.cmd) /\ Proceed(job, "ok")
     \/ job.cmd.cmd = "read" /\ rt.pc = "idle" /\ UNCHANGED vars /\ Proceed(job, "ok")
  /\ Attribute(job)
  /\ UNCHANGED closed

Suspended == SendToWorker /\ UNCHANGED sysVars

(* Mutant: an insert fails when the checkpoint it triggered does.          *)
ResultAfterCheckpoint == reply

(* An insert is answered after the automatic checkpoint it triggered,      *)
(* whose own result is ignored.                                            *)
ResultAfter == IF rt.job = "auto" THEN serving.result ELSE reply

Resume ==
  /\ AwaitReply
  /\ Proceed(serving.job, ResultAfter)
  /\ Attribute(serving.job)
  /\ UNCHANGED <<cmds, closed>>

ReadResult == ObserveDurable /\ UNCHANGED sysVars

LastHandleDropped ==
  /\ \A c \in Clients : calls[c].pc = "dropped"
  /\ cmds = << >>
  /\ DropHandles
  /\ UNCHANGED sysVars

(* The loop's task ends: cmd_rx and the commands in it are dropped, and    *)
(* with them the answers their callers wait for.                           *)
CloseChannel ==
  /\ rt.pc = "stopped" /\ ~closed
  /\ closed' = TRUE
  /\ cmds' = << >>
  /\ calls' = [c \in Clients |->
                 IF calls[c].pc = "sent" THEN [calls[c] EXCEPT !.pc = "idle", !.result = "closed"]
                 ELSE calls[c]]
  /\ UNCHANGED <<vars, serving, owner>>

(* Both tasks are scheduled, the sink calls return and the deadline comes. *)
(* tokio::select! picks among its ready branches at random, so the result  *)
(* of a batch is read in the end however many commands arrive.  Callers    *)
(* owe nothing: they may stop calling, cancel or keep their handle.        *)
LoopTask == Take \/ Suspended \/ Resume \/ LastHandleDropped \/ CloseChannel

WorkerTask == (Receive \/ QueueClosed \/ FlushBuf \/ WriteSnapshot \/ CompactThrough)
                /\ UNCHANGED sysVars

Deadline == DeadlineExpires /\ UNCHANGED sysVars

SysNext ==
  \/ \E c \in Clients : \E cmd \in Requests[c] : StartCall(c, cmd)
  \/ \E c \in Clients : Cancel(c)
  \/ \E c \in Clients : DropHandle(c)
  \/ LoopTask \/ ReadResult
  \/ WorkerTask \/ Deadline

Fairness ==
  /\ WF_allVars(LoopTask) /\ SF_allVars(ReadResult)
  /\ WF_allVars(WorkerTask) /\ WF_allVars(Deadline)

SysSpec == SysInit /\ [][SysNext]_allVars /\ Fairness

------------------------------------------------------------------------------
(* Properties                                                              *)

(* Every call returns (runtime/handle.rs:296-414), with an answer or with  *)
(* ChannelClosed, whatever the sink does: the loop never stays suspended   *)
(* on the worker, and nobody waits for a loop that has gone.               *)
EveryCallReturns == \A c \in Clients : (calls[c].pc = "sent") ~> (calls[c].pc # "sent")

Under(n, P(_)) == \E o \in Acknowledged : o.seq = n /\ P(o)

(* An accepted operation does not stay in the queue or in the buffer       *)
(* (batch_max_latency_ms, runtime/handle.rs:736), and its loss does not    *)
(* stay unread unless the loop stopped first.                              *)
AcceptedOpsSettle ==
  \A n \in 1..MaxOps :
    /\ Under(n, InPipeline) ~> ~Under(n, InPipeline)
    /\ Under(n, LossPending) ~> (~Under(n, LossPending) \/ rt.pc = "stopped")

(* A caller is told Ok exactly if its mutation is in the log; after any    *)
(* error, ChannelClosed too, it is not, and no command runs twice          *)
(* (runtime/handle.rs:445-462).                                            *)
AnswersMatchLog ==
  /\ IsInjective(owner)
  /\ \A c \in Clients :
       (calls[c].result \in {"ok", "err", "closed"} /\ IsMutation(calls[c].cmd)) =>
         (calls[c].result = "ok" <=> <<c, calls[c].n>> \in ToSet(owner))

==============================================================================
