----------------------------- MODULE DispatchRun -----------------------------
(***************************************************************************)
(* One run of n0ding-dispatch: the HTTP handlers of                        *)
(* internal/httpapi/dispatch.go, running concurrently over the command     *)
(* ledger (CommandControl), the durable event log (core.Store) and the     *)
(* external runtime behind adapters.Adapter, with crashes and restarts.    *)
(*                                                                         *)
(* A handler is a goroutine that serves one request.  Its program counter  *)
(* stands before its next access to shared state: one call of the          *)
(* controller (atomic under Controller.mu), one append to or read of the   *)
(* log (atomic under Store.mu), one call of the adapter (no lock held).    *)
(* What it computes between two accesses belongs to the first of them.     *)
(* Events that follow each other without any other access in between are   *)
(* queued in `todo` and appended one by one.                               *)
(***************************************************************************)
EXTENDS CommandControl, Sequences

CONSTANTS
  Order,           \* the tasks of the DAG, as topological() sorts them
  DependsOn,       \* Task.DependsOn, by task
  Guarded,         \* tasks that require a side-effecting capability
  Routable,        \* tasks for which dispatch.Route finds an eligible agent
  RunTask,         \* the TaskID "run" of a control that names no task
  Start,           \* the handler of POST /dispatch/run
  Requests,        \* the later requests
  Menu,            \* the operations each of them may be, by request
  AdapterOutcomes, \* outcomes of a side-effecting adapter call
  ResultOutcomes,  \* outcomes of Adapter.Result
  MayLapse,        \* approvals whose 15 minutes may pass
  Survivals,       \* which Parts of the run a restarted server may find
  MaxActive,       \* bound: requests served at the same time
  MaxCrashes,      \* bound: crashes of the process
  MaxFaults        \* bound: appends that the database refuses

Tasks == {Order[i] : i \in 1..Len(Order)}
Handlers == {Start} \cup Requests

(* What a server finds of the run: its adapter, and the definitions it was *)
(* started with.                                                           *)
Parts == {"adapter", "catalog", "dag"}

ASSUME OrderAssumption == Order \in Seq(TaskIDs \ {RunTask})
ASSUME RunTaskAssumption == RunTask \in TaskIDs
ASSUME DependsOnAssumption == DependsOn \in [Tasks -> SUBSET Tasks]
ASSUME TopologicalAssumption == \A i \in 1..Len(Order) :
         DependsOn[Order[i]] \subseteq {Order[j] : j \in 1..(i - 1)}
ASSUME SurvivalsAssumption == Survivals \subseteq SUBSET Parts /\ Survivals # {}
ASSUME StartAssumption == Start \notin Requests
ASSUME ResultsAssumption == Results = {"done"}
ASSUME AdapterOutcomesAssumption == AdapterOutcomes \subseteq {"accepted", "refused", "lost"}
ASSUME BoundsAssumption == MaxCrashes \in Nat /\ MaxFaults \in Nat

VARIABLES
  log,     \* the events of the run, in the order of their sequence numbers
  at,      \* the handlers
  claims,  \* Server.approvalClaims, by task: one action digest per task
  fatal,   \* Server.fatalErr is set
  calls,   \* side-effecting calls the adapter received, in order
  lapsed,  \* approvals that have expired
  found,   \* the Parts in Server.adapters, Server.catalogs and Server.dags
  crashes, faults

runVars == <<log, at, claims, fatal, calls, lapsed, found, crashes, faults>>
vars == <<commands, fences, results, stopped, commandCount, newer,
          log, at, claims, fatal, calls, lapsed, found, crashes, faults>>

-----------------------------------------------------------------------------
(* Keys and operations.  A key is the kind of command, its task and a tag  *)
(* that tells client-chosen idempotency keys apart.                        *)

DispatchKey(t) == <<"dispatch", t, "">>
RetryKey(t, tag) == <<"dispatch:retry", t, tag>>
NoKey == <<"", RunTask, "">>

Rotating == {"resume", "retry", "reassign"}
Controls == {"pause", "cancel", "emergency-stop"} \cup Rotating

Operation(kind, what, task, key) == [kind |-> kind, what |-> what, task |-> task, key |-> key]
StartOp == Operation("start", "", RunTask, NoKey)
ResultOp(t) == Operation("result", "", t, NoKey)
ApproveOp(t, decision) == Operation("approve", decision, t, NoKey)
ControlOp(action, t, tag) == Operation("control", action, t, <<action, t, tag>>)
ReconcileOp(key, disposition) == Operation("reconcile", disposition, key[2], key)

(* Every key that can be used is one of Keys, and every operation is one a *)
(* client can send: tasks of the DAG, keys that name the control and its   *)
(* task, and an emergency stop without a task.                             *)
ASSUME KeyFormAssumption == NoKey \notin Keys /\ \A t \in Tasks : DispatchKey(t) \in Keys
ASSUME MenuAssumption == \A r \in Requests : \A op \in Menu[r] :
  \/ op.task \in Tasks /\ op = ResultOp(op.task)
  \/ op.task \in Tasks /\ op.what \in {"grant", "deny"} /\ op = ApproveOp(op.task, op.what)
  \/ /\ op.what \in Controls /\ op.task \in TaskIDs /\ op.key \in Keys
     /\ op = ControlOp(op.what, op.task, op.key[3])
     /\ op.what = "emergency-stop" => op.task = RunTask
     /\ op.what = "retry" => RetryKey(op.task, op.key[3]) \in Keys
  \/ /\ op.what \in {"applied", "not_applied", "still_unknown"}
     /\ op.key \in Keys /\ op.key[2] \in TaskIDs /\ op = ReconcileOp(op.key, op.what)

-----------------------------------------------------------------------------
(* Events.  commandData writes key, task, state and fence of a command; an *)
(* empty Command{}, which Transition returns with an error, writes blanks. *)

Event(type, task) == [type |-> type, task |-> task, key |-> NoKey, state |-> "", fence |-> 0]
RunEvent(type) == Event(type, RunTask)

NoCmd == [key |-> NoKey, task |-> RunTask, state |-> "", fence |-> 0]
CommandEvent(type, cmd) == [type |-> type, task |-> cmd.task, key |-> cmd.key,
                            state |-> cmd.state, fence |-> cmd.fence]

(* What the controller returns for command k once it is in state s.        *)
Cmd(k, s) == [key |-> k, task |-> commands[k].task, state |-> s, fence |-> commands[k].fence]

Connected == "adapter" \in found
Defined == {"catalog", "dag"} \subseteq found   \* runDefinitions

Logged(type, task) == \E i \in 1..Len(log) : log[i].type = type /\ log[i].task = task
HasEvent(type) == \E i \in 1..Len(log) : log[i].type = type

CompletedTasks == {t \in Tasks : Logged("task.completed", t)}
Asked == {t \in Tasks : Logged("approval.requested", t)}
Granted == {t \in Tasks : Logged("approval.granted", t)}
Denied == {t \in Tasks : Logged("approval.denied", t)}
AllCompleted == Tasks \subseteq CompletedTasks

Closing == {"command.completed", "command.cancelled", "command.failed", "command.outcome_unknown"}

(* Tasks whose last acknowledgement has not been closed, in log order.     *)
ActiveTasks == {t \in Tasks : \E i \in 1..Len(log) :
  /\ log[i].type = "command.acknowledged" /\ log[i].task = t
  /\ \A j \in (i + 1)..Len(log) : ~(log[j].type \in Closing /\ log[j].task = t)}

(* Fencing tokens an operator can have read from the events of a task.     *)
PublishedFences(t) == {log[i].fence : i \in {j \in 1..Len(log) : log[j].task = t}} \ {0}

(* core.nextStatus and Replay, for the event types of this module.         *)
StatusOf(type) ==
  CASE type \in {"dispatch.started", "dispatch.resumed"} -> "running"
    [] type = "dispatch.completed" -> "completed"
    [] type = "dispatch.failed" -> "failed"
    [] type = "dispatch.cancelled" -> "cancelled"
    [] type = "dispatch.interrupted" -> "interrupted"
    [] type = "dispatch.emergency_stopped" -> "stopped"
    [] OTHER -> ""

Status ==
  LET marks == {i \in 1..Len(log) : StatusOf(log[i].type) # ""}
  IN  IF marks = {} THEN "created"
      ELSE StatusOf(log[CHOOSE i \in marks : \A j \in marks : j <= i].type)

-----------------------------------------------------------------------------
(* Handlers.                                                               *)

NoSnap == [granted |-> {}, asked |-> {}]

(* pc: next access; op: the request; cmd: the command in hand; token: the  *)
(* fencing token the operator presented; rest: the tasks scheduleRun still *)
(* has to visit, the current one included; snap: what it read from the     *)
(* log; todo: events to append before pc goes to `then`.                   *)
Idle == [pc |-> "idle", op |-> StartOp, cmd |-> NoCmd, token |-> 0, rest |-> {},
         snap |-> NoSnap, todo |-> <<>>, then |-> ""]
Done == [Idle EXCEPT !.pc = "done"]

(* What happens to the record of a handler between two accesses.           *)
Serve(op, pc) == [Idle EXCEPT !.pc = pc, !.op = op]
Goto(a, pc) == [a EXCEPT !.pc = pc]
Emit(a, events, then) == [a EXCEPT !.pc = "append", !.todo = events, !.then = then]
Emptied(a) == [a EXCEPT !.todo = <<>>, !.then = ""]
Hold(a, cmd) == [a EXCEPT !.cmd = cmd]
OutOfLoop(a) == [a EXCEPT !.rest = {}, !.snap = NoSnap, !.cmd = NoCmd]

(* scheduleRun returns an error: startDispatch and approve append          *)
(* dispatch.failed, taskResult answers 500, reconcile ignores it.          *)
ScheduleFailed(a) ==
  LET b == OutOfLoop(a) IN
  CASE a.op.kind \in {"start", "approve"} -> Emit(b, <<RunEvent("dispatch.failed")>>, "done")
    [] a.op.kind = "result" -> Done
    [] a.op.kind = "reconcile" -> Goto(b, "pending")

(* scheduleRun returns nil.                                                *)
ScheduleEnded(a) ==
  LET b == OutOfLoop(a) IN
  CASE a.op.kind \in {"start", "approve"} -> Done
    [] a.op.kind = "result" -> Goto(b, "finish")
    [] a.op.kind = "reconcile" -> Goto(b, "pending")

(* The task of `rest` that comes first in the order of the DAG.            *)
First(rest) == Order[CHOOSE i \in 1..Len(Order) :
  Order[i] \in rest /\ \A j \in 1..(i - 1) : Order[j] \notin rest]

(* The loop of scheduleRun at the tasks `rest`: route the first one.       *)
Visit(a, rest) ==
  IF rest = {} THEN ScheduleEnded(a)
  ELSE IF First(rest) \notin Routable THEN ScheduleFailed(a)
  ELSE Emit(Hold([a EXCEPT !.rest = rest], NoCmd), <<Event("routing.decided", First(rest))>>, "guard")

VisitNext(a) == Visit(a, a.rest \ {First(a.rest)})

(* Where a handler stands once the events in hand are appended.            *)
Appended(a) ==
  LET b == Emptied(a) IN
  CASE a.then = "done" -> Done
    [] a.then = "advance" -> VisitNext(b)
    [] a.then = "scheduled" -> ScheduleEnded(b)
    [] OTHER -> Goto(b, a.then)

Step(h, a) == at' = [at EXCEPT ![h] = a]
Stay == UNCHANGED <<log, claims, fatal, calls, lapsed, found, crashes, faults>>

(* The result text matters only where the code records it.                 *)
ResultFor(to) == IF to \in Answered THEN "done" ELSE NoResult

(* A controller call whose error is ignored: cmd becomes Command{}.        *)
TryTransition(k, to) ==
  IF TransitionAllowed(k, to) THEN Transition(k, to, ResultFor(to)) ELSE UNCHANGED controlVars
(* Takes the move for granted.                                             *)
ReturnedAnyway(k, to) == Cmd(k, to)

Returned(k, to) == IF TransitionAllowed(k, to) THEN Cmd(k, to) ELSE NoCmd

-----------------------------------------------------------------------------
(* Appending (Server.appendCritical).                                      *)

AppendEvent(h) ==
  LET a == at[h] IN
  /\ a.pc = "append"
  /\ log' = Append(log, Head(a.todo))
  /\ Step(h, IF Len(a.todo) = 1 THEN Appended(a) ELSE [a EXCEPT !.todo = Tail(a.todo)])
  /\ UNCHANGED <<controlVars, claims, fatal, calls, lapsed, found, crashes, faults>>

(* The database refuses the append: mutations are refused from now on, the *)
(* handler gives up (inside scheduleRun: returns the error), and a claim   *)
(* whose decision was not recorded is released.                            *)
AppendFails(h) ==
  LET a == at[h] IN
  /\ a.pc = "append"
  /\ faults < MaxFaults
  /\ faults' = faults + 1
  /\ fatal' = TRUE
  /\ claims' = IF Head(a.todo).type \in {"approval.granted", "approval.denied"}
               THEN claims \ {a.op.task} ELSE claims
  /\ Step(h, IF a.rest # {} THEN ScheduleFailed(Emptied(a))
             ELSE Done)
  /\ UNCHANGED <<controlVars, log, calls, lapsed, found, crashes>>

-----------------------------------------------------------------------------
(* A request arrives.  Server.security refuses mutations once fatalErr is  *)
(* set; Server.owns wants the run to exist.                                *)

Serving == {h \in Handlers : at[h].pc \notin {"idle", "done"}}

MayArrive(h) ==
  /\ at[h].pc = "idle"
  /\ ~fatal
  /\ Cardinality(Serving) < MaxActive

Arrives(h, op) ==
  /\ MayArrive(h)
  /\ h \in Requests /\ at[Start].pc # "idle"
  /\ op \in Menu[h]

(* startDispatch: the run is created and its controller installed.         *)
StartDispatch ==
  /\ MayArrive(Start)
  /\ Step(Start, Emit(Idle, <<RunEvent("dispatch.started")>>, "schedule"))
  /\ UNCHANGED controlVars /\ Stay

-----------------------------------------------------------------------------
(* scheduleRun and dispatchTask.                                           *)

(* Forgets the dependencies of the task.                                   *)
ReadyTooEarly(t) == t \notin CompletedTasks \cup ActiveTasks

Ready(t) == t \notin CompletedTasks \cup ActiveTasks /\ DependsOn[t] \subseteq CompletedTasks

(* A server without the definitions of the run schedules nothing and goes  *)
(* on as if nothing were ready.                                            *)
Schedule(h) ==
  LET a == at[h] IN
  /\ a.pc = "schedule"
  /\ Step(h, Visit([a EXCEPT !.snap = [granted |-> Granted, asked |-> Asked]],
                   {t \in Tasks : Defined /\ Ready(t)}))
  /\ UNCHANGED controlVars /\ Stay

NeedsApproval(a) == First(a.rest) \in Guarded \ a.snap.granted

AskApproval(h) ==
  LET a == at[h] IN
  /\ a.pc = "guard" /\ NeedsApproval(a)
  /\ Step(h, IF First(a.rest) \in a.snap.asked THEN ScheduleEnded(a)
             ELSE Emit(a, <<Event("approval.requested", First(a.rest))>>, "scheduled"))
  /\ UNCHANGED controlVars /\ Stay

LookUp(h) ==
  LET a == at[h] IN
  /\ a.pc = "guard" /\ ~NeedsApproval(a)
  /\ Step(h, IF ~Connected THEN ScheduleFailed(a)
             ELSE IF Known(DispatchKey(First(a.rest))) THEN VisitNext(a)
             ELSE Goto(a, "request"))
  /\ UNCHANGED controlVars /\ Stay

RequestDispatch(h) ==
  LET a == at[h]
      t == First(a.rest)
      k == DispatchKey(t) IN
  /\ a.pc = "request"
  /\ \/ /\ RequestFails(k) /\ Step(h, ScheduleFailed(a)) /\ UNCHANGED controlVars
     \/ /\ RequestRepeats(k) /\ Step(h, VisitNext(a)) /\ UNCHANGED controlVars
     \/ /\ RequestOnce(k, t, 0)
        /\ Step(h, Goto(Hold(a, [key |-> k, task |-> t, state |-> "requested", fence |-> 0]),
                        "rotate"))
  /\ Stay

IsDispatch(a) == a.rest # {}
Family(a) ==
  IF IsDispatch(a)
  THEN [requested |-> "command.requested", acknowledged |-> "command.acknowledged",
        failed |-> "command.failed", outcome_unknown |-> "command.outcome_unknown"]
  ELSE [requested |-> "control.requested", acknowledged |-> "control.acknowledged",
        failed |-> "control.failed", outcome_unknown |-> "control.outcome_unknown"]

(* Keeps the command as it was before its fence was rotated.               *)
RotateDiscardsCommand(h) ==
  LET a == at[h] IN
  /\ a.pc = "rotate"
  /\ RotateFenceForCommand(a.cmd.key, a.cmd.task)
  /\ Step(h, Emit(a, <<CommandEvent(Family(a).requested, a.cmd)>>, "call"))
  /\ Stay

(* Calls the adapter before the request is durable.                        *)
RotateCallsFirst(h) ==
  LET a == at[h] IN
  /\ a.pc = "rotate"
  /\ RotateFenceForCommand(a.cmd.key, a.cmd.task)
  /\ Step(h, [a EXCEPT !.pc = "call", !.cmd.fence = fences[a.cmd.task] + 1])
  /\ Stay

(* RotateFenceForCommand, for a dispatch and for a rotating control; the   *)
(* adapter is called once the request is durable.                          *)
Rotate(h) ==
  LET a == at[h]
      cmd == [a.cmd EXCEPT !.fence = fences[a.cmd.task] + 1] IN
  /\ a.pc = "rotate"
  /\ RotateFenceForCommand(a.cmd.key, a.cmd.task)
  /\ Step(h, Emit(Hold(a, cmd), <<CommandEvent(Family(a).requested, cmd)>>, "call"))
  /\ Stay

(* Without an adapter the call panics, and net/http ends the handler: the  *)
(* case of a resume, a retry or a reassignment after a restart.            *)
CallNobody(h) ==
  /\ at[h].pc = "call" /\ ~Connected
  /\ Step(h, Done)
  /\ UNCHANGED controlVars /\ Stay

(* The adapter receives the call; the handler learns one of the outcomes   *)
(* the code tells apart (contract.go, IsOutcomeUnknown).                   *)
CallAdapter(h) ==
  LET a == at[h] IN
  /\ a.pc = "call" /\ Connected
  /\ \E outcome \in AdapterOutcomes : Step(h, Goto(a, outcome))
  /\ calls' = Append(calls, [what |-> IF IsDispatch(a) THEN "dispatch" ELSE a.op.what,
                             task |-> a.cmd.task, key |-> a.cmd.key,
                             fence |-> a.cmd.fence, logged |-> Len(log)])
  /\ UNCHANGED <<controlVars, log, claims, fatal, lapsed, found, crashes, faults>>

(* What a control that the adapter accepted appends.                       *)
ControlEvents(a) ==
  LET t == a.op.task IN
  CASE a.op.what = "pause" -> <<Event("task.paused", t)>>
    [] a.op.what = "cancel" -> <<Event("task.cancelled", t)>>
    [] a.op.what = "resume" -> <<Event("task.resumed", t)>>
    [] a.op.what = "reassign" -> <<Event("task.reassigned", t), Event("routing.decided", t)>>
    [] a.op.what = "retry" -> <<Event("task.retried", t), Event("dispatch.resumed", t)>>

Accepted(h) ==
  LET a == at[h]
      ack == CommandEvent(Family(a).acknowledged, Returned(a.cmd.key, "acknowledged")) IN
  /\ a.pc = "accepted"
  /\ TryTransition(a.cmd.key, "acknowledged")
  /\ Step(h, IF IsDispatch(a)
             THEN Emit(a, <<ack, Event("task.delegated", a.cmd.task)>>, "advance")
             ELSE Emit(a, <<ack>> \o ControlEvents(a),
                       IF a.op.what = "retry" THEN "retryRequest" ELSE "done"))
  /\ Stay

Refused(h) ==
  LET a == at[h]
      failed == CommandEvent(Family(a).failed, Returned(a.cmd.key, "failed")) IN
  /\ a.pc = "refused"
  /\ TryTransition(a.cmd.key, "failed")
  /\ Step(h, IF IsDispatch(a) THEN Emit(a, <<failed, RunEvent("dispatch.failed")>>, "advance")
             ELSE Emit(a, <<failed>>, "done"))
  /\ Stay

(* An unknown outcome takes two transitions, each under its own lock.      *)
Lost(h) ==
  /\ at[h].pc = "lost"
  /\ TryTransition(at[h].cmd.key, "acknowledged")
  /\ Step(h, Goto(at[h], "doubt"))
  /\ Stay

Doubt(h) ==
  LET a == at[h]
      unknown == CommandEvent(Family(a).outcome_unknown, Returned(a.cmd.key, "outcome_unknown")) IN
  /\ a.pc = "doubt"
  /\ TryTransition(a.cmd.key, "outcome_unknown")
  /\ Step(h, IF IsDispatch(a)
             THEN Emit(a, <<unknown, RunEvent("dispatch.interrupted")>>, "advance")
             ELSE Emit(a, <<unknown>>, "done"))
  /\ Stay

-----------------------------------------------------------------------------
(* control: pause, resume, cancel, retry, reassign, emergency-stop.        *)

InDoubt(t) == \E k \in Keys : commands[k].state = "outcome_unknown" /\ commands[k].task = t

(* Lets a retry pass while an outcome of the task is unknown.              *)
AnswerableInDoubt(op) == (op.what = "reassign" /\ ~Defined) \/ Known(op.key)

(* A reassignment needs the definitions of the run, a retry is refused     *)
(* while a command of the task is in doubt, and a known key is answered    *)
(* with its command.  The token is one the operator has read.              *)
Answerable(op) ==
  \/ op.what = "reassign" /\ ~Defined
  \/ op.what = "retry" /\ InDoubt(op.task)
  \/ Known(op.key)

ControlArrives(h, op) ==
  /\ Arrives(h, op) /\ op.kind = "control"
  /\ \/ Answerable(op) /\ Step(h, Done)
     \/ /\ ~Answerable(op)
        /\ IF op.what = "emergency-stop" THEN Step(h, Serve(op, "controlRequest"))
           ELSE \E token \in PublishedFences(op.task) :
                  Step(h, [Serve(op, "commit") EXCEPT !.token = token])
  /\ UNCHANGED controlVars /\ Stay

(* Looks at the token only.                                                *)
CommitTokenAlone(h) ==
  LET a == at[h] IN
  /\ a.pc = "commit"
  /\ Step(h, IF Commit(a.op.task, a.token) THEN Goto(a, "controlRequest") ELSE Done)
  /\ UNCHANGED controlVars /\ Stay

(* The token must be the current one, and a pause or a cancel needs an     *)
(* adapter.                                                                *)
CommitToken(h) ==
  LET a == at[h] IN
  /\ a.pc = "commit"
  /\ Step(h, IF Commit(a.op.task, a.token) /\ (Connected \/ a.op.what \in Rotating)
             THEN Goto(a, "controlRequest") ELSE Done)
  /\ UNCHANGED controlVars /\ Stay

RequestControl(h) ==
  LET a == at[h]
      k == a.op.key
      cmd == [key |-> k, task |-> a.op.task, state |-> "requested", fence |-> a.token] IN
  /\ a.pc = "controlRequest"
  /\ \/ /\ RequestFails(k) \/ RequestRepeats(k)
        /\ Step(h, Done) /\ UNCHANGED controlVars
     \/ /\ RequestOnce(k, a.op.task, a.token)
        /\ Step(h, IF a.op.what \in Rotating THEN Goto(Hold(a, cmd), "rotate")
                   ELSE Emit(Hold(a, cmd), <<CommandEvent("control.requested", cmd)>>,
                             IF a.op.what = "emergency-stop" THEN "stop" ELSE "call"))
  /\ Stay

Stop(h) ==
  /\ at[h].pc = "stop"
  /\ EmergencyStop
  /\ Step(h, Goto(at[h], "stopAck"))
  /\ Stay

StopAck(h) ==
  LET a == at[h] IN
  /\ a.pc = "stopAck"
  /\ TryTransition(a.cmd.key, "acknowledged")
  /\ Step(h, Emit(a, <<CommandEvent("control.acknowledged", Returned(a.cmd.key, "acknowledged")),
                       RunEvent("dispatch.emergency_stopped")>>, "done"))
  /\ Stay

(* The second half of a retry: a command of its own, acknowledged at once. *)
RequestRetry(h) ==
  LET a == at[h]
      k == RetryKey(a.op.task, a.op.key[3])
      cmd == [key |-> k, task |-> a.op.task, state |-> "requested", fence |-> a.cmd.fence] IN
  /\ a.pc = "retryRequest"
  /\ \/ /\ RequestFails(k) \/ RequestRepeats(k)
        /\ Step(h, Done) /\ UNCHANGED controlVars
     \/ /\ RequestOnce(k, a.op.task, a.cmd.fence)
        /\ Step(h, Emit(Hold(a, cmd), <<CommandEvent("command.requested", cmd)>>,
                        "retryAck"))
  /\ Stay

RetryAck(h) ==
  LET a == at[h] IN
  /\ a.pc = "retryAck"
  /\ TryTransition(a.cmd.key, "acknowledged")
  /\ Step(h, Emit(a, <<CommandEvent("command.acknowledged",
                                    Returned(a.cmd.key, "acknowledged"))>>, "done"))
  /\ Stay

-----------------------------------------------------------------------------
(* taskResult.                                                             *)

(* The command whose result is asked for: the dispatch of the task, or the *)
(* acknowledged command of the task updated last, if that is newer.        *)
Awaited(t) ==
  LET d == DispatchKey(t)
      acked == {k \in Keys : commands[k].task = t /\ commands[k].state = "acknowledged"}
      known == {k \in {d} : Known(k)}
  IN  {k \in acked \cup known :
         /\ \A j \in known : k = j \/ <<k, j>> \in newer
         /\ \A j \in acked : <<j, k>> \notin newer}

ResultArrives(h, op) ==
  /\ Arrives(h, op) /\ op.kind = "result"
  /\ \/ \E k \in Awaited(op.task) :
          /\ Connected /\ commands[k].state = "acknowledged"
          /\ Step(h, Hold(Serve(op, "claim"), Cmd(k, "acknowledged")))
     \/ /\ ~Connected \/ \A k \in Awaited(op.task) : commands[k].state # "acknowledged"
        /\ Step(h, Done)
  /\ UNCHANGED controlVars /\ Stay

(* Waits for the other poller in place of answering 409.                   *)
ClaimPollWaits(h) ==
  /\ at[h].pc = "claim"
  /\ TransitionAllowed(at[h].cmd.key, "polling")
  /\ TryTransition(at[h].cmd.key, "polling")
  /\ Step(h, Goto(at[h], "poll"))
  /\ Stay

ClaimPoll(h) ==
  LET a == at[h] IN
  /\ a.pc = "claim"
  /\ TryTransition(a.cmd.key, "polling")
  /\ Step(h, IF TransitionAllowed(a.cmd.key, "polling") THEN Goto(a, "poll") ELSE Done)
  /\ Stay

(* Adapter.Result reads; its answer decides the next transition at once,   *)
(* and the event of the command is followed by `others`.                   *)
Polled(h, to, closing, others, then) ==
  LET a == at[h] IN
  /\ a.pc = "poll"
  /\ TryTransition(a.cmd.key, to)
  /\ Step(h, Emit(Hold(a, NoCmd),
                  <<CommandEvent(closing, Returned(a.cmd.key, to))>> \o others, then))
  /\ Stay

(* Answers without giving the command back.                                *)
ResultPendingKeeps(h) ==
  /\ ResultOutcomes \cap {"error", "running"} # {}
  /\ at[h].pc = "poll"
  /\ Step(h, Done)
  /\ UNCHANGED controlVars /\ Stay

ResultPending(h) ==
  /\ ResultOutcomes \cap {"error", "running"} # {}
  /\ at[h].pc = "poll"
  /\ TryTransition(at[h].cmd.key, "acknowledged")
  /\ Step(h, Done)
  /\ Stay
ResultFailed(h) ==
  /\ "failed" \in ResultOutcomes
  /\ Polled(h, "failed", "command.failed",
            <<Event("task.failed", at[h].op.task), RunEvent("dispatch.failed")>>, "done")
ResultCancelled(h) ==
  /\ "cancelled" \in ResultOutcomes
  /\ Polled(h, "cancelled", "command.cancelled",
            <<Event("task.cancelled", at[h].op.task), RunEvent("dispatch.cancelled")>>, "done")
(* Does not look for tasks that the completed one releases.                *)
ResultCompletedUnscheduled(h) ==
  /\ "completed" \in ResultOutcomes
  /\ Polled(h, "completed", "command.completed", <<Event("task.completed", at[h].op.task)>>, "finish")

ResultCompleted(h) ==
  /\ "completed" \in ResultOutcomes
  /\ Polled(h, "completed", "command.completed", <<Event("task.completed", at[h].op.task)>>,
            "schedule")

(* taskResult and reconcile end the run when every task is completed.      *)
(* Without the DAG of the run reconcile does not; taskResult, whose loop   *)
(* then has no task to look at, does.                                      *)
RunEnds(op) ==
  IF op.kind = "result" THEN "dag" \in found => AllCompleted
  ELSE Defined /\ AllCompleted

Finish(h) ==
  LET a == at[h] IN
  /\ a.pc = "finish"
  /\ Step(h, IF RunEnds(a.op) THEN Emit(a, <<RunEvent("dispatch.completed")>>, "done") ELSE Done)
  /\ UNCHANGED controlVars /\ Stay

-----------------------------------------------------------------------------
(* approve.  The digest of a task's action does not change, so an approval *)
(* is named by its task.  A grant needs an adapter.                        *)

ApproveArrives(h, op) ==
  /\ Arrives(h, op) /\ op.kind = "approve"
  /\ Step(h, IF op.task \in Asked \ (lapsed \cup Granted \cup Denied)
             /\ (Connected \/ op.what = "deny")
             THEN Serve(op, "claimDecision") ELSE Done)
  /\ UNCHANGED controlVars /\ Stay

(* Decides without looking at the claims.                                  *)
ClaimDecisionUnclaimed(h) ==
  LET a == at[h] IN
  /\ a.pc = "claimDecision"
  /\ claims' = claims \cup {a.op.task}
  /\ Step(h, IF a.op.what = "grant"
             THEN Emit(a, <<Event("approval.granted", a.op.task),
                            Event("dispatch.resumed", a.op.task)>>, "schedule")
             ELSE Emit(a, <<Event("approval.denied", a.op.task),
                            RunEvent("dispatch.failed")>>, "done"))
  /\ UNCHANGED <<controlVars, log, fatal, calls, lapsed, found, crashes, faults>>

(* Records the grant and leaves the scheduling to nobody.                  *)
ClaimDecisionUnscheduled(h) ==
  LET a == at[h] IN
  /\ a.pc = "claimDecision"
  /\ a.op.task \notin claims
  /\ claims' = claims \cup {a.op.task}
  /\ Step(h, Emit(a, IF a.op.what = "grant"
                     THEN <<Event("approval.granted", a.op.task),
                            Event("dispatch.resumed", a.op.task)>>
                     ELSE <<Event("approval.denied", a.op.task),
                            RunEvent("dispatch.failed")>>, "done"))
  /\ UNCHANGED <<controlVars, log, fatal, calls, lapsed, found, crashes, faults>>

ClaimDecision(h) ==
  LET a == at[h] IN
  /\ a.pc = "claimDecision"
  /\ IF a.op.task \in claims THEN Step(h, Done) /\ UNCHANGED claims
     ELSE /\ claims' = claims \cup {a.op.task}
          /\ Step(h, IF a.op.what = "grant"
                     THEN Emit(a, <<Event("approval.granted", a.op.task),
                                    Event("dispatch.resumed", a.op.task)>>, "schedule")
                     ELSE Emit(a, <<Event("approval.denied", a.op.task),
                                    RunEvent("dispatch.failed")>>, "done"))
  /\ UNCHANGED <<controlVars, log, fatal, calls, lapsed, found, crashes, faults>>

(* Approval.Expires passes.                                                *)
Lapse(t) ==
  /\ t \in MayLapse \ lapsed
  /\ t \in Asked
  /\ lapsed' = lapsed \cup {t}
  /\ UNCHANGED <<controlVars, log, at, claims, fatal, calls, found, crashes, faults>>

-----------------------------------------------------------------------------
(* reconcile.  The operator's evidence names the command, its fence and    *)
(* the event that reported the doubt; evidence that does not is refused.   *)

ReconcileArrives(h, op) ==
  LET a == Serve(op, "append")
      evidence == [Event("reconciliation.requested", op.task) EXCEPT !.key = op.key] IN
  /\ Arrives(h, op) /\ op.kind = "reconcile"
  /\ Step(h, IF commands[op.key].state # "outcome_unknown" THEN Done
             ELSE IF op.what = "still_unknown"
             THEN Emit(a, <<evidence, [evidence EXCEPT !.type = "reconciliation.still_unknown"]>>,
                       "done")
             ELSE Emit(a, <<evidence>>, "settle"))
  /\ UNCHANGED controlVars /\ Stay

Settle(h) ==
  LET a == at[h]
      t == a.op.task
      settled == [Event("reconciliation.completed", t) EXCEPT !.key = a.op.key] IN
  /\ a.pc = "settle"
  /\ IF TransitionAllowed(a.op.key, "reconciled")
     THEN /\ Reconcile(a.op.key, "done")
          /\ Step(h, IF a.op.what = "applied"
                     THEN Emit(a, <<settled, Event("task.completed", t)>>, "schedule")
                     ELSE Emit(a, <<settled, Event("task.retry_allowed", t)>>, "pending"))
     ELSE Step(h, Done) /\ UNCHANGED controlVars
  /\ Stay

AnyIn(state) == \E k \in Keys : commands[k].state = state

Pending(h) ==
  LET a == at[h] IN
  /\ a.pc = "pending"
  /\ Step(h, CASE AnyIn("outcome_unknown") -> Done
               [] ~AnyIn("outcome_unknown") /\ AnyIn("failed")
                    -> Emit(a, <<RunEvent("dispatch.failed")>>, "done")
               [] OTHER -> IF a.op.what = "applied" THEN Goto(a, "finish") ELSE Done)
  /\ UNCHANGED controlVars /\ Stay

-----------------------------------------------------------------------------
(* The process dies at any point and starts again: recoverControllers and  *)
(* recoverAdapters read the log, then recoverInterrupted marks the run.    *)
(* A run of the OpenClaw adapter has none if the new server is started     *)
(* without the endpoint; definitions that OpenStore cannot read are gone   *)
(* (module Definitions).                                                   *)

Saved == [k \in Keys |->
  LET marks == {i \in 1..Len(log) : log[i].key = k /\ log[i].state # ""} IN
  IF marks = {} THEN NoCommand
  ELSE LET last == log[CHOOSE i \in marks : \A j \in marks : j <= i]
       IN  [state |-> last.state, task |-> last.task, fence |-> last.fence,
            result |-> ResultFor(last.state)]]

StopRecorded == HasEvent("dispatch.emergency_stopped")

Restart ==
  /\ crashes < MaxCrashes
  /\ at[Start].pc # "idle"
  /\ crashes' = crashes + 1
  /\ RestoreCommands(Saved, StopRecorded)
  /\ at' = [h \in Handlers |-> IF at[h].pc = "idle" THEN at[h] ELSE Done]
  /\ claims' = {}
  /\ fatal' = FALSE
  /\ found' \in Survivals
  /\ log' = IF Status = "running" THEN Append(log, RunEvent("dispatch.interrupted")) ELSE log
  /\ UNCHANGED <<calls, lapsed, faults>>

-----------------------------------------------------------------------------
Init ==
  /\ commands = [k \in Keys |-> NoCommand]
  /\ fences = [t \in TaskIDs |-> 0]
  /\ results = [k \in Keys |-> NoResult]
  /\ stopped = FALSE
  /\ commandCount = 0
  /\ newer = {}
  /\ log = <<>>
  /\ at = [h \in Handlers |-> Idle]
  /\ claims = {}
  /\ fatal = FALSE
  /\ calls = <<>>
  /\ lapsed = {}
  /\ found = Parts
  /\ crashes = 0
  /\ faults = 0

RequestArrives(h) == \E op \in Menu[h] :
  \/ ResultArrives(h, op)
  \/ ControlArrives(h, op)
  \/ ApproveArrives(h, op)
  \/ ReconcileArrives(h, op)

(* The steps of a handler that has started; the Go scheduler runs every    *)
(* goroutine that can run, so they are weakly fair.                        *)
HandlerStep(h) ==
  \/ AppendEvent(h)
  \/ Schedule(h) \/ AskApproval(h) \/ LookUp(h) \/ RequestDispatch(h) \/ Rotate(h)
  \/ CallAdapter(h) \/ CallNobody(h) \/ Accepted(h) \/ Refused(h) \/ Lost(h) \/ Doubt(h)
  \/ CommitToken(h) \/ RequestControl(h) \/ Stop(h) \/ StopAck(h)
  \/ RequestRetry(h) \/ RetryAck(h)
  \/ ClaimPoll(h) \/ ResultPending(h) \/ ResultFailed(h) \/ ResultCancelled(h)
  \/ ResultCompleted(h) \/ Finish(h)
  \/ ClaimDecision(h) \/ Settle(h) \/ Pending(h)

Next ==
  \/ StartDispatch
  \/ \E h \in Requests : RequestArrives(h)
  \/ \E h \in Handlers : HandlerStep(h)
  \/ \E h \in Handlers : AppendFails(h)
  \/ \E t \in Tasks : Lapse(t)
  \/ Restart

Spec == Init /\ [][Next]_vars

FairSpec == Spec /\ \A h \in Handlers : WF_vars(HandlerStep(h))
=============================================================================
