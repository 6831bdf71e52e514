---------------------------- MODULE RunProperties ----------------------------
(* Properties of DispatchRun.                                              *)
EXTENDS DispatchRun

-----------------------------------------------------------------------------
(* Types.                                                                  *)

EventTypes ==
  {"dispatch.started", "dispatch.resumed", "dispatch.completed", "dispatch.failed",
   "dispatch.cancelled", "dispatch.interrupted", "dispatch.emergency_stopped", "routing.decided",
   "approval.requested", "approval.granted", "approval.denied",
   "command.requested", "command.acknowledged", "command.completed", "command.failed",
   "command.cancelled", "command.outcome_unknown",
   "control.requested", "control.acknowledged", "control.failed", "control.outcome_unknown",
   "task.delegated", "task.completed", "task.failed", "task.cancelled", "task.paused",
   "task.resumed", "task.reassigned", "task.retried", "task.retry_allowed",
   "reconciliation.requested", "reconciliation.still_unknown", "reconciliation.completed"}

Places ==
  {"idle", "done", "append", "schedule", "guard", "request", "advance", "scheduled",
   "rotate", "call", "accepted", "refused", "lost", "doubt", "commit", "controlRequest",
   "stop", "stopAck", "retryRequest", "retryAck", "claim", "poll", "finish",
   "claimDecision", "settle", "pending"}

EventType == [type : EventTypes, task : TaskIDs, key : Keys \cup {NoKey},
              state : CommandState \cup {""}, fence : Nat]
AllOperations == {StartOp} \cup UNION {Menu[r] : r \in Requests}
CmdType == [key : Keys \cup {NoKey}, task : TaskIDs, state : CommandState \cup {""}, fence : Nat]
HandlerType == [pc : Places, op : AllOperations, cmd : CmdType, token : Nat, rest : SUBSET Tasks,
                snap : [granted : SUBSET Tasks, asked : SUBSET Tasks],
                todo : Seq(EventType), then : Places \cup {""}]
CallType == [what : Controls \cup {"dispatch"}, task : Tasks, key : Keys, fence : Nat \ {0},
             logged : Nat]

(* Every variable has its type; in particular the controller has commands  *)
(* within its bound, whatever the handlers request concurrently and        *)
(* whatever recoverControllers restores.                                   *)
TypeOK ==
  /\ commands \in [Keys -> Command]
  /\ fences \in [TaskIDs -> Nat]
  /\ results \in [Keys -> Results \cup {NoResult}]
  /\ stopped \in BOOLEAN /\ fatal \in BOOLEAN
  /\ commandCount \in 0..MaxCommands
  /\ newer \subseteq Keys \X Keys
  /\ log \in Seq(EventType)
  /\ calls \in Seq(CallType)
  /\ at \in [Handlers -> HandlerType]
  /\ claims \subseteq Guarded
  /\ lapsed \subseteq MayLapse /\ found \subseteq Parts
  /\ crashes \in 0..MaxCrashes /\ faults \in 0..MaxFaults

-----------------------------------------------------------------------------
(* Scheduling, approvals, adapter calls.                                   *)

Released == {t \in Tasks : \E i \in 1..Len(log) :
               log[i].type = "command.requested" /\ log[i].key = DispatchKey(t)}

Promise == INSTANCE RunPromise WITH
  granted <- Granted, denied <- Denied, released <- Released, done <- CompletedTasks,
  ended <- HasEvent("dispatch.completed"), planned <- "dag" \in found

(* The durable log keeps the promise of RunPromise through concurrent      *)
(* scheduleRuns, polls, approvals, reconciliations, crashes and restarts.  *)
PromiseKept == Promise!Spec

(* The runtime never hears of a command before its request is durable: an  *)
(* adapter call of a key comes after command.requested or control.requested*)
(* for that key and with the fence recorded there.                         *)
CallsDurable == \A n \in 1..Len(calls) : \E i \in 1..calls[n].logged :
  /\ log[i].key = calls[n].key
  /\ log[i].state = "requested"
  /\ log[i].fence = calls[n].fence

(* An idempotency key reaches the runtime at most once, also when the      *)
(* request is repeated, raced, or repeated after a restart.                *)
OneCallPerKey == \A m, n \in 1..Len(calls) : calls[m].key = calls[n].key => m = n

(* No fence the runtime or the log has seen is above the current fence of  *)
(* its task, so the next one is newer than all of them, restarts included. *)
FencesCoverAll ==
  /\ \A n \in 1..Len(calls) : calls[n].fence <= fences[calls[n].task]
  /\ \A i \in 1..Len(log) : log[i].fence <= fences[log[i].task]

(* One decision per approval digest, however many clients decide at once   *)
(* and although approvalClaims is lost in a crash.                         *)
DecidedOnce == \A i, j \in 1..Len(log) :
  /\ log[i].type \in {"approval.granted", "approval.denied"}
  /\ log[j].type \in {"approval.granted", "approval.denied"}
  /\ log[i].task = log[j].task
  => i = j

(* A command is polled by one handler at a time, and while it is nobody    *)
(* else moves it.                                                          *)
PollExclusive ==
  /\ \A h \in Handlers : at[h].pc = "poll" => commands[at[h].cmd.key].state = "polling"
  /\ \A g, h \in Handlers :
       at[g].pc = "poll" /\ at[h].pc = "poll" /\ at[g].cmd.key = at[h].cmd.key => g = h

(* Once dispatch.emergency_stopped is durable no command is ever created   *)
(* again, in this process or in a later one.                               *)
StopIsFinal ==
  [][StopRecorded => stopped' /\ \A k \in Keys : Known(k)' => Known(k)]_vars

-----------------------------------------------------------------------------
(* Unknown outcomes and recovery.                                          *)

(* The doubt about key k, of task t, is on record in the first n events.   *)
DoubtRecorded(t, n) == \E i \in 1..n :
  /\ log[i].state = "outcome_unknown" /\ log[i].task = t
  /\ \A j \in (i + 1)..n : ~(log[j].type = "reconciliation.completed" /\ log[j].key = log[i].key)

(* The states a command can be in later, in one process, once it was in s. *)
After(s) ==
  CASE s \in {"absent", "requested"} -> CommandState \cup {s}
    [] s \in {"acknowledged", "polling"} -> CommandState \ {"requested"}
    [] s = "outcome_unknown" -> {"outcome_unknown", "reconciled"}
    [] s \in Terminal -> {s}

(* A restart takes a command back, never forward: at every moment, the     *)
(* command that the log would restore is one the ledger has, with its task *)
(* and its fence, in the state it is restored to or a later one.  It can be*)
(* earlier: a claim to poll and the answer of a reconciliation are in no   *)
(* event, and the event of a step comes after the step.                    *)
LedgerAhead == \A k \in Keys : Saved[k].state # "absent" =>
  /\ Saved[k].task = commands[k].task /\ Saved[k].fence = commands[k].fence
  /\ commands[k].state \in After(Saved[k].state)

(* The reconciliation of command k is on record, or a handler is about to  *)
(* append it.                                                              *)
Resolution(e, k) == e.type = "reconciliation.completed" /\ e.key = k
Resolved(k) ==
  \/ \E i \in 1..Len(log) : Resolution(log[i], k)
  \/ \E h \in Handlers : \E i \in 1..Len(at[h].todo) : Resolution(at[h].todo[i], k)

(* A retry is admitted only when each outcome of its task that is on record*)
(* as unknown was reconciled, whatever other requests are in service and   *)
(* however often the process has died; the doubt that is recorded after the*)
(* retry was admitted is another matter (UnknownNotRetried).               *)
(* (dispatch.go:513)                                                       *)
RetryAfterResolution == [][\A h \in Handlers :
  at[h].pc = "idle" /\ at'[h].pc = "commit" /\ at'[h].op.what = "retry" =>
    \A i \in 1..Len(log) :
      log[i].state = "outcome_unknown" /\ log[i].task = at'[h].op.task => Resolved(log[i].key)]_vars

(* No retry reaches the runtime while an outcome of the task is on record  *)
(* as unknown and not reconciled.  (docs/security.md:5)                    *)
UnknownNotRetried == \A n \in 1..Len(calls) :
  calls[n].what = "retry" => ~DoubtRecorded(calls[n].task, calls[n].logged)

(* Handler h ends by itself and its command stays requested.               *)
LeavesRequested(h) ==
  /\ at[h].pc # "done" /\ at'[h].pc = "done"
  /\ crashes' = crashes /\ faults' = faults
  /\ at[h].cmd.key \in Keys /\ commands'[at[h].cmd.key].state = "requested"

(* A request that ends by itself does not leave a command of its own as    *)
(* requested, a state out of which no later request can bring it; except   *)
(* for a resume, a retry or a reassignment that finds no adapter after a   *)
(* restart (dispatch.go:535, 583).                                         *)
NoneLeftRequested == [][\A h \in Handlers :
  Connected \/ at[h].op.what \notin Rotating => ~LeavesRequested(h)]_vars

(* A completed task stays completed: no later result turns it into a       *)
(* failure or completes it again.  (docs/dispatch-state-machine.md:7)      *)
SucceededIsTerminal == \A i, j \in 1..Len(log) :
  i < j /\ log[i].type = "task.completed" /\ log[i].task = log[j].task
    => log[j].type \notin {"task.completed", "task.failed"}

(* A run that is reported as completed has completed every task: a result  *)
(* releases the dependants of its task before it ends the run.             *)
(* (README.md:51, "A persisted `task.completed` result releases its        *)
(* dependants")                                                            *)
RunEndsCompleted == HasEvent("dispatch.completed") => AllCompleted

(* An acknowledged emergency stop is in force in every later process.      *)
(* (internal/dispatch/control.go:325)                                      *)
AcknowledgedStopRecovered ==
  crashes > 0 /\ (\E k \in Keys : k[1] = "emergency-stop" /\ Saved[k].state = "acknowledged")
    => stopped

-----------------------------------------------------------------------------
(* Liveness, under FairSpec.                                               *)

(* Every request ends: no handler waits for another one forever.           *)
RequestsEnd == \A h \in Handlers : at[h].pc # "idle" ~> at[h].pc = "done"

(* A command claimed for polling is given back, whatever the runtime       *)
(* answers, so a later result check can find it.                           *)
PollReleased == \A k \in Keys : commands[k].state = "polling" ~> commands[k].state # "polling"

(* A persisted task.completed releases the dependants, or asks for their   *)
(* approval, unless the run is stopped.  (README.md, Result checks)        *)
DependantsReleased == \A t \in Tasks :
  DependsOn[t] # {} /\ DependsOn[t] \subseteq CompletedTasks
    ~> t \in Released \/ t \in Guarded \cap Asked \/ stopped

(* A granted approval releases its task and, although the first guarded   *)
(* task ended the schedule before it came to them, the tasks that wait for *)
(* nothing at all, unless the run is stopped.                              *)
Unheld == {u \in Tasks \ Guarded : DependsOn[u] = {}}
GrantReleases == \A t \in Guarded :
  t \in Granted ~> {t} \cup Unheld \subseteq Released \/ stopped
=============================================================================
