----------------------------- MODULE RunInvariant -----------------------------
(***************************************************************************)
(* The inductive invariant of DispatchRun: how the program counter of each *)
(* handler relates to the ledger, the log and the calls.  The properties   *)
(* of RunProperties follow from it (RunProofs).                            *)
(*                                                                         *)
(* A handler that appends events stands, for what it owns and may do next, *)
(* at the place it goes to when the events are in the log: At(h).          *)
(***************************************************************************)
EXTENDS RunProperties

At(h) == IF at[h].pc = "append" THEN at[h].then ELSE at[h].pc

LogEvents == {log[i] : i \in 1..Len(log)}
Queue(h) == {at[h].todo[i] : i \in 1..Len(at[h].todo)}
Events == LogEvents \cup UNION {Queue(h) : h \in Handlers}

-----------------------------------------------------------------------------
(* What a handler can be doing.                                            *)

(* The places where a handler owns a command that is still requested, the  *)
(* ones it reaches only after that request is in the log, and those where  *)
(* it serves a control or schedules.                                       *)
OwnerPlaces == {"rotate", "call", "accepted", "refused", "lost", "stop", "stopAck", "retryAck"}
RecordedPlaces == OwnerPlaces \ {"rotate"}
AdapterPlaces == {"rotate", "call", "accepted", "refused", "lost", "doubt"}
ControlPlaces == {"commit", "controlRequest", "stop", "stopAck", "retryRequest", "retryAck"}
LoopPlaces == {"guard", "request", "advance", "scheduled"}

Scheduler(op) == op.kind \in {"start", "approve", "result", "reconcile"}

(* The request a handler serves and the tasks it has left to schedule suit *)
(* the place it is at.                                                     *)
Suits(pc, op, rest) ==
  /\ pc \in Places \ {"append"}
  /\ rest # {} => Scheduler(op) /\ pc \in AdapterPlaces \cup LoopPlaces
  /\ pc \in LoopPlaces => rest # {}
  /\ pc \in ControlPlaces => op.kind = "control"
  /\ pc \in AdapterPlaces /\ rest = {} => op.kind = "control" /\ op.what # "emergency-stop"
  /\ pc = "schedule" => Scheduler(op)
  /\ pc \in {"claim", "poll"} => op.kind = "result"
  /\ pc = "claimDecision" => op.kind = "approve"
  /\ pc \in {"settle", "pending"} => op.kind = "reconcile"
  /\ pc \in {"stop", "stopAck"} => op.what = "emergency-stop"
  /\ pc = "retryRequest" => op.what = "retry"

PlaceFits(h) ==
  /\ at[h].pc = "append" <=> at[h].todo # <<>>
  /\ Suits(At(h), at[h].op, at[h].rest)

-----------------------------------------------------------------------------
(* The ledger, the log and the calls.                                      *)

(* A command belongs to the task its key names, and no fence of a command  *)
(* is above its task's.                                                    *)
CommandSound(k) == Known(k) =>
  /\ commands[k].task = k[2]
  /\ commands[k].fence <= fences[commands[k].task]

(* An event that records a command, logged or about to be, shows the task  *)
(* and the fence the command has now.                                      *)
EventSound(e) ==
  IF e.state = "" THEN e.fence = 0
  ELSE /\ e.key \in Keys /\ Known(e.key)
       /\ commands[e.key].task = e.task /\ commands[e.key].fence = e.fence

(* Event e records the request of command c.                               *)
Records(e, c) == e.state = "requested" /\ e.key = c.key /\ e.task = c.task /\ e.fence = c.fence

CallSound(n) ==
  /\ calls[n].logged <= Len(log)
  /\ \E i \in 1..calls[n].logged : Records(log[i], calls[n])

Owns(h) == At(h) \in OwnerPlaces
Polls(h) == At(h) = "poll"

(* No event shows command k yet, and the runtime has not heard of it.      *)
NeverCalled(k) == \A n \in 1..Len(calls) : calls[n].key # k
NeverShown(k) == \A e \in Events : e.state # "" => e.key # k

(* What a handler knows of the command in its hand.                        *)
HandSound(h) ==
  LET a == at[h]
      k == a.cmd.key IN
  /\ Owns(h) => k \in Keys /\ commands[k].state = "requested" /\ commands[k].task = a.cmd.task
  /\ Owns(h) \/ At(h) = "retryRequest" =>
       /\ a.cmd.fence <= fences[a.cmd.task]
       /\ a.rest = {} => a.cmd.task = a.op.task
  /\ At(h) = "rotate" => a.cmd.state = "requested" /\ NeverShown(k) /\ NeverCalled(k)
  /\ At(h) = "call" => NeverCalled(k) /\ a.cmd.fence # 0
  /\ a.pc \in RecordedPlaces => \E e \in LogEvents : Records(e, a.cmd)
  /\ a.pc = "append" /\ At(h) \in RecordedPlaces => Len(a.todo) = 1 /\ Records(a.todo[1], a.cmd)
  /\ At(h) \in {"claim", "poll", "doubt"} => k \in Keys
  /\ At(h) \in {"claim", "poll"} => Known(k) /\ commands[k].task = a.op.task
  /\ Polls(h) => commands[k].state = "polling"
  /\ At(h) = "controlRequest" => a.token <= fences[a.op.task]

(* A command is in the hand of one owner and of one poller.                *)
HandsApart == \A g, h \in Handlers : at[g].cmd.key = at[h].cmd.key =>
  /\ Owns(g) /\ Owns(h) => g = h
  /\ Polls(g) /\ Polls(h) => g = h

LedgerInv ==
  /\ \A k \in Keys : CommandSound(k)
  /\ \A e \in Events : EventSound(e)
  /\ \A n \in 1..Len(calls) : CallSound(n)
  /\ \A m, n \in 1..Len(calls) : calls[m].key = calls[n].key => m = n
  /\ \A h \in Handlers : HandSound(h)
  /\ HandsApart

-----------------------------------------------------------------------------
(* The emergency stop.                                                     *)

(* Once the stop is acknowledged or on record, the controller is stopped.  *)
StopInv ==
  /\ \A h \in Handlers : At(h) = "stopAck" => stopped
  /\ \A e \in Events : e.type = "dispatch.emergency_stopped" => stopped

-----------------------------------------------------------------------------
(* Decisions on approvals.                                                 *)

Decision == {"approval.granted", "approval.denied"}
Decided == {t \in TaskIDs : \E e \in LogEvents : e.type \in Decision /\ e.task = t}
Deciding(h) == \E e \in Queue(h) : e.type \in Decision

(* A decision about to be appended is of a claimed task not decided yet,   *)
(* and of that handler alone; a handler that is yet to claim a decided     *)
(* task finds it claimed.                                                  *)
DecisionInv ==
  /\ \A e \in Events : e.type \in Decision \cup {"approval.requested"} => e.task \in Guarded
  /\ \A h \in Handlers : Deciding(h) =>
       /\ at[h].todo[1].type \in Decision /\ at[h].todo[1].task = at[h].op.task
       /\ \A i \in 2..Len(at[h].todo) : at[h].todo[i].type \notin Decision
       /\ at[h].op.task \in claims \ Decided
  /\ \A g, h \in Handlers :
       Deciding(g) /\ Deciding(h) /\ at[g].op.task = at[h].op.task => g = h
  /\ \A h \in Handlers : At(h) = "claimDecision" =>
       /\ at[h].op.task \in Guarded
       /\ at[h].op.task \in Decided => at[h].op.task \in claims
  /\ claims \subseteq Guarded
  /\ DecidedOnce

-----------------------------------------------------------------------------
(* The promise about tasks.                                                *)

Supported(t) == DependsOn[t] \subseteq CompletedTasks /\ (t \in Guarded => t \in Granted)

(* A command of a task, other than its dispatch before the answer of the   *)
(* runtime, exists only after the task was released.                       *)
CommandReleased(k) == Known(k) =>
  /\ commands[k].fence # 0 => commands[k].task \in Tasks
  /\ commands[k].task \in Tasks =>
       \/ commands[k].task \in Released
       \/ k = DispatchKey(commands[k].task) /\ commands[k].state = "requested"

(* The event that releases a task, and an event that ends the run: the     *)
(* handler that brings it has seen every task completed, if it knew the    *)
(* DAG.                                                                    *)
Releases(e, t) == e.type = "command.requested" /\ e.key = DispatchKey(t)
EndPromised(e) == e.type = "dispatch.completed" /\ "dag" \in found => AllCompleted

EventPromised(e) ==
  /\ e.state # "" /\ e.task \in Tasks => e.task \in Released \/ Releases(e, e.task)
  /\ \A t \in Tasks : Releases(e, t) => Supported(t)
  /\ e.type = "task.completed" /\ e.task \in Tasks => e.task \in Released

HandlerPromised(h) ==
  LET a == at[h] IN
  /\ \A t \in a.rest : DependsOn[t] \subseteq CompletedTasks
  /\ a.snap.granted \subseteq Granted
  /\ At(h) \in {"request", "rotate"} /\ a.rest # {} => Supported(First(a.rest))
  /\ At(h) = "rotate" /\ a.rest # {} => a.cmd.key = DispatchKey(First(a.rest))
  /\ At(h) \in AdapterPlaces /\ a.rest # {} => a.cmd.task \in Tasks
  /\ At(h) \in AdapterPlaces \cup ControlPlaces /\ a.op.kind = "control" =>
       IF a.op.what = "emergency-stop" THEN a.token = 0
       ELSE a.token # 0 /\ a.op.task \in Released

PromiseInv ==
  /\ \A k \in Keys : CommandReleased(k)
  /\ \A e \in Events : EventPromised(e)
  /\ \A h \in Handlers : \A e \in Queue(h) : EndPromised(e)
  /\ \A h \in Handlers : HandlerPromised(h)

-----------------------------------------------------------------------------
(* The ends of handlers.                                                   *)

(* Once a handler no longer owns the command in its hand, the command is   *)
(* not requested any more, and never will be again in this process.        *)
HandClosed(h) ==
  /\ at[h].cmd.key \in Keys /\ ~Owns(h)
       => commands[at[h].cmd.key].state \notin {"absent", "requested"}
  /\ At(h) = "idle" => at[h].cmd.key \notin Keys

(* Who records a request finds an adapter to call, but for the controls    *)
(* that do not look for one before.                                        *)
HandEquipped(h) ==
  /\ At(h) = "request" => Connected
  /\ At(h) \in {"rotate", "call"} /\ at[h].op.what \notin Rotating => Connected
  /\ At(h) = "controlRequest" /\ at[h].op.what \notin Rotating \cup {"emergency-stop"} => Connected

EndInv == \A h \in Handlers : HandClosed(h) /\ HandEquipped(h)

-----------------------------------------------------------------------------
RunInv ==
  /\ TypeOK
  /\ \A h \in Handlers : PlaceFits(h)
  /\ LedgerInv
  /\ StopInv
  /\ DecisionInv
  /\ PromiseInv

-----------------------------------------------------------------------------
(* What the log and the queues owe to the ledger.                          *)

(* The states that no event shows.                                         *)
Unlogged == {"polling", "reconciled"}

(* An event that a handler is about to append shows a state that its       *)
(* command has or has left behind; the request of a command is shown by the*)
(* handler that owns it, and a command whose acknowledgement is not yet on *)
(* record has never been in doubt and is not about to be.                  *)
QueueTrails(h) == \A e \in Queue(h) : e.state # "" =>
  /\ e.state \notin Unlogged /\ commands[e.key].state \in After(e.state)
  /\ e.state = "requested" => Owns(h) /\ at[h].cmd.key = e.key
  /\ e.state = "acknowledged" =>
       /\ \A f \in Events : f.key = e.key => f.state # "outcome_unknown"
       /\ \A g \in Handlers : At(g) = "doubt" => at[g].cmd.key # e.key

(* A doubt on record is a doubt of the ledger, or has been reconciled, and *)
(* no other state is shown after it.                                       *)
DoubtTrails(i) == log[i].state = "outcome_unknown" =>
  /\ commands[log[i].key].state \in {"outcome_unknown", "reconciled"}
  /\ \A j \in (i + 1)..Len(log) :
       log[j].key = log[i].key => log[j].state \in {"", "outcome_unknown"}

(* The end of a doubt is on record or about to be, unless the database has *)
(* refused it.                                                             *)
Settled(k) == commands[k].state = "reconciled" => fatal \/ Resolved(k)

(* What a restart would give a command is behind what it has.              *)
SavedTrails(k) == Saved[k].state # "absent" => commands[k].state \in After(Saved[k].state)

TrailInv ==
  /\ \A h \in Handlers : QueueTrails(h)
  /\ \A i \in 1..Len(log) : log[i].state \notin Unlogged
  /\ \A i \in 1..Len(log) : DoubtTrails(i)
  /\ \A k \in Keys : Settled(k) /\ SavedTrails(k)
=============================================================================
