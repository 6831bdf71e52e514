--------------------------- MODULE CommandControl ---------------------------
(***************************************************************************)
(* The command ledger of internal/dispatch/control.go: the part of         *)
(* dispatch.Controller that the HTTP layer drives.  Every operation of the *)
(* Go type runs under one mutex, so every operation is one action here.    *)
(* An operation that the code refuses (it returns an error, or the command *)
(* recorded earlier) changes nothing; the guard says when it is accepted.  *)
(*                                                                         *)
(* The module declares operations only.  Controller.tla adds leases and a  *)
(* specification; DispatchRun.tla drives the operations from the handlers. *)
(***************************************************************************)
EXTENDS Naturals, FiniteSets

CONSTANTS
  Keys,         \* idempotency keys
  TaskIDs,      \* values of Command.TaskID
  Results,      \* values of Command.Result
  NoResult,     \* no result recorded
  MaxCommands   \* Controller.maxCommands

ASSUME KeysAssumption == IsFiniteSet(Keys)
ASSUME TaskIDsAssumption == TaskIDs # {}
ASSUME NoResultAssumption == NoResult \notin Results
ASSUME MaxCommandsAssumption == MaxCommands \in Nat \ {0}

VARIABLES
  commands,     \* Controller.commands; an "absent" record for a key never requested
  fences,       \* Controller.fences; 0 for a task that has no entry in the Go map
  results,      \* Controller.results
  stopped,      \* Controller.stopped
  commandCount, \* Controller.commandCount
  newer         \* <<a, b>> when Command a has a later UpdatedAt than Command b

controlVars == <<commands, fences, results, stopped, commandCount, newer>>

-----------------------------------------------------------------------------
(* Commands and the transition table.                                      *)

CommandState == {"requested", "acknowledged", "polling", "completed", "failed",
                 "cancelled", "outcome_unknown", "reconciled"}

Command == [state : CommandState \cup {"absent"}, task : TaskIDs, fence : Nat,
            result : Results \cup {NoResult}]

NoCommand == [state |-> "absent", task |-> CHOOSE t \in TaskIDs : TRUE,
              fence |-> 0, result |-> NoResult]

Answered == {"completed", "reconciled"}
Terminal == {"completed", "failed", "cancelled", "reconciled"}

(* A table in which a failed command can be acknowledged again.            *)
MovesWithRevival ==
       ({"requested", "failed"} \X {"acknowledged", "failed", "cancelled"})
  \cup ({"acknowledged"} \X {"completed", "failed", "outcome_unknown", "cancelled", "polling"})
  \cup ({"polling"} \X {"acknowledged", "completed", "failed", "cancelled"})
  \cup ({"outcome_unknown"} \X {"reconciled"})

(* A table in which two pollers can claim one command.                     *)
MovesWithSharedPolling ==
       ({"requested"} \X {"acknowledged", "failed", "cancelled"})
  \cup ({"acknowledged", "polling"} \X
          {"acknowledged", "completed", "failed", "outcome_unknown", "cancelled", "polling"})
  \cup ({"outcome_unknown"} \X {"reconciled"})

(* The map "allowed" in Transition.                                        *)
Moves ==
       ({"requested"} \X {"acknowledged", "failed", "cancelled"})
  \cup ({"acknowledged"} \X {"completed", "failed", "outcome_unknown", "cancelled", "polling"})
  \cup ({"polling"} \X {"acknowledged", "completed", "failed", "cancelled"})
  \cup ({"outcome_unknown"} \X {"reconciled"})

Known(k) == commands[k].state # "absent"
KnownKeys == {k \in Keys : Known(k)}

(* The order of UpdatedAt after command k is stamped with the current time. *)
Stamped(k) ==
  {p \in newer : p[1] # k /\ p[2] # k} \cup ({k} \X (Keys \ {k}))

-----------------------------------------------------------------------------
(* Operations.                                                             *)

(* What RequestOnce answers: an error while stopped, the recorded command  *)
(* for a key it knows, an error at the bound on commands, else a new one.  *)
RequestFails(k) == stopped \/ (~Known(k) /\ commandCount >= MaxCommands)
RequestRepeats(k) == ~stopped /\ Known(k)
RequestCreates(k) == ~stopped /\ ~Known(k) /\ commandCount < MaxCommands

Requested(k, t, f) ==
  /\ commands' = [commands EXCEPT ![k] =
                    [state |-> "requested", task |-> t, fence |-> f, result |-> NoResult]]
  /\ commandCount' = commandCount + 1
  /\ newer' = Stamped(k)
  /\ UNCHANGED <<fences, results, stopped>>

(* Checks no bound; records a known key anew.                              *)
RequestOnceUnbounded(k, t, f) == ~stopped /\ ~Known(k) /\ Requested(k, t, f)
RequestOnceRepeated(k, t, f) ==
  ~stopped /\ (Known(k) \/ commandCount < MaxCommands) /\ Requested(k, t, f)

RequestOnce(k, t, f) == RequestCreates(k) /\ Requested(k, t, f)

(* Records the result of a completed command but not of a reconciled one.  *)
TransitionForgetsResult(k, to, r) ==
  /\ <<commands[k].state, to>> \in Moves
  /\ commands' = [commands EXCEPT ![k].state = to, ![k].result = r]
  /\ results' = IF to = "completed" THEN [results EXCEPT ![k] = r] ELSE results
  /\ newer' = Stamped(k)
  /\ UNCHANGED <<fences, stopped, commandCount>>

TransitionAllowed(k, to) == <<commands[k].state, to>> \in Moves

Transition(k, to, r) ==
  /\ TransitionAllowed(k, to)
  /\ commands' = [commands EXCEPT ![k].state = to, ![k].result = r]
  /\ results' = IF to \in Answered THEN [results EXCEPT ![k] = r] ELSE results
  /\ newer' = Stamped(k)
  /\ UNCHANGED <<fences, stopped, commandCount>>

Reconcile(k, r) == Transition(k, "reconciled", r)

(* Hands out the next fence without moving to it.                          *)
RotateFenceKeepsFence(k, t) ==
  /\ Known(k) /\ commands[k].task = t
  /\ commands' = [commands EXCEPT ![k].fence = fences[t] + 1]
  /\ newer' = Stamped(k)
  /\ UNCHANGED <<fences, results, stopped, commandCount>>

RotateFenceForCommand(k, t) ==
  /\ Known(k) /\ commands[k].task = t
  /\ fences' = [fences EXCEPT ![t] = @ + 1]
  /\ commands' = [commands EXCEPT ![k].fence = fences[t] + 1]
  /\ newer' = Stamped(k)
  /\ UNCHANGED <<results, stopped, commandCount>>

(* Commit reads only: the token an operator presents must be the current   *)
(* fence of the task, and 0 never is.                                      *)
Commit(t, token) == ~stopped /\ token # 0 /\ token = fences[t]

(* The loop raises the fences that have an entry in the Go map.            *)
EmergencyStop ==
  /\ stopped' = TRUE
  /\ fences' = [t \in TaskIDs |-> IF fences[t] = 0 THEN 0 ELSE fences[t] + 1]
  /\ UNCHANGED <<commands, results, commandCount, newer>>

RestoreEmergencyStop ==
  /\ stopped' = TRUE
  /\ UNCHANGED <<commands, fences, results, commandCount, newer>>

(* RestoreFence raises a fence and never lowers it.                        *)
RestoreFence(t, token) ==
  /\ token # 0
  /\ fences' = [fences EXCEPT ![t] = IF token > @ THEN token ELSE @]
  /\ UNCHANGED <<commands, results, stopped, commandCount, newer>>

-----------------------------------------------------------------------------
(* A new controller filled by RestoreCommands from the commands `saved`:   *)
(* each fence is the highest one a command of the task carries, and every  *)
(* UpdatedAt is the zero time.                                             *)

SavedKeys(saved) == {k \in Keys : saved[k].state # "absent"}

(* Forgets RestoreFence.                                                   *)
HighestFencesForgotten(saved) == {[t \in TaskIDs |-> 0]}

HighestFences(saved) ==
  {f \in [TaskIDs -> {0} \cup {saved[k].fence : k \in Keys}] :
     \A t \in TaskIDs :
       LET own == {k \in SavedKeys(saved) : saved[k].task = t} IN
       /\ \A k \in own : saved[k].fence <= f[t]
       /\ f[t] = 0 \/ \E k \in own : saved[k].fence = f[t]}

RecordedResults(saved) ==
  [k \in Keys |-> IF saved[k].state \in Answered THEN saved[k].result ELSE NoResult]

RestoreFits(saved) == Cardinality(SavedKeys(saved)) <= MaxCommands

(* Forgets RestoreEmergencyStop.                                           *)
RestoreCommandsRunning(saved, halt) ==
  /\ RestoreFits(saved)
  /\ commands' = saved
  /\ fences' \in HighestFences(saved)
  /\ results' = RecordedResults(saved)
  /\ commandCount' = Cardinality(SavedKeys(saved))
  /\ stopped' = FALSE
  /\ newer' = {}

RestoreCommands(saved, halt) ==
  /\ RestoreFits(saved)
  /\ commands' = saved
  /\ fences' \in HighestFences(saved)
  /\ results' = RecordedResults(saved)
  /\ commandCount' = Cardinality(SavedKeys(saved))
  /\ stopped' = halt
  /\ newer' = {}
=============================================================================
