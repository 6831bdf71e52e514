----------------------------- MODULE Controller -----------------------------
(***************************************************************************)
(* dispatch.Controller as a component of its own: the command ledger of    *)
(* CommandControl with ExecuteOnce and the leases, called by any number of *)
(* clients.  A client is any caller of the Go API, so the specification    *)
(* lets every operation be called at any time with any key, task, token    *)
(* and result of the small sets.  `clock` is the time the callers pass in. *)
(***************************************************************************)
EXTENDS CommandControl

CONSTANTS
  Holders,      \* values of Lease.Holder
  NoHolder,     \* the holder of a task that has no lease
  SavedFences,  \* fences carried by the commands a controller is restored from
  Tokens,       \* fences that callers request with
  MaxFence,     \* bound: the highest fence a step may create
  MaxClock,     \* bound: the last instant
  TTLs          \* lease durations, positive

ASSUME TTLsAssumption == TTLs \subseteq Nat \ {0}
ASSUME SavedFencesAssumption == SavedFences \subseteq Nat
ASSUME TokensAssumption == Tokens \subseteq Nat
ASSUME NoHolderAssumption == NoHolder \notin Holders

VARIABLES
  leases,     \* Controller.leases
  clock,      \* the now of the callers
  issued,     \* history: every lease AcquireLease returned
  handed,     \* history: the last token the controller handed out, by task
  committed,  \* history: the last token CommitLease accepted, by task
  executed    \* history: how often ExecuteOnce ran its function to success, by key

leaseVars == <<leases, clock, issued, handed, committed, executed>>
vars == <<commands, fences, results, stopped, commandCount, newer,
          leases, clock, issued, handed, committed, executed>>

Lease == [token : Nat, holder : Holders \cup {NoHolder}, expires : Nat]
NoLease == [token |-> 0, holder |-> NoHolder, expires |-> 0]
IssuedLease == [task : TaskIDs, token : Nat, holder : Holders]

-----------------------------------------------------------------------------
(* Operations that CommandControl does not have.                           *)

(* ExecuteOnce runs its function under the lock, and only for a key that   *)
(* has no recorded result; a function that returns an error records none.  *)
ExecuteOnce(k, r) ==
  /\ ~stopped
  /\ results[k] = NoResult
  /\ results' = [results EXCEPT ![k] = r]
  /\ executed' = [executed EXCEPT ![k] = @ + 1]
  /\ UNCHANGED <<commands, fences, stopped, commandCount, newer,
                 leases, clock, issued, handed, committed>>

(* RotateFenceForCommand, RenewLease and AcquireLease return the token they *)
(* rotated to.                                                             *)
HandsOut(t, token) == handed' = [handed EXCEPT ![t] = token]

RenewLease(t) ==
  /\ fences' = [fences EXCEPT ![t] = @ + 1]
  /\ HandsOut(t, fences[t] + 1)
  /\ UNCHANGED <<commands, results, stopped, commandCount, newer,
                 leases, clock, issued, committed, executed>>

LeaseGranted(t, h, token, ttl) ==
  /\ leases' = [leases EXCEPT ![t] =
                  [token |-> token, holder |-> h, expires |-> clock + ttl]]
  /\ issued' = issued \cup {[task |-> t, token |-> token, holder |-> h]}
  /\ HandsOut(t, token)
  /\ UNCHANGED <<commands, results, stopped, commandCount, newer,
                 clock, committed, executed>>

HeldByOther(t, h) == leases[t].holder \notin {NoHolder, h} /\ clock < leases[t].expires

(* Does not look at the holder.                                            *)
AcquireLeaseSteals(t, h, ttl) ==
  /\ ~stopped
  /\ fences' = [fences EXCEPT ![t] = @ + 1]
  /\ LeaseGranted(t, h, fences[t] + 1, ttl)

(* Does not rotate the fence.                                              *)
AcquireLeaseSameToken(t, h, ttl) ==
  /\ ~stopped
  /\ ~HeldByOther(t, h)
  /\ fences' = fences
  /\ LeaseGranted(t, h, fences[t], ttl)

(* Does not look at the emergency stop.                                    *)
AcquireLeaseWhileStopped(t, h, ttl) ==
  /\ ~HeldByOther(t, h)
  /\ fences' = [fences EXCEPT ![t] = @ + 1]
  /\ LeaseGranted(t, h, fences[t] + 1, ttl)

AcquireLease(t, h, ttl) ==
  /\ ~stopped
  /\ ~HeldByOther(t, h)
  /\ fences' = [fences EXCEPT ![t] = @ + 1]
  /\ LeaseGranted(t, h, fences[t] + 1, ttl)

(* Does not compare the token.                                             *)
CommitLeaseAnyToken(l) ==
  /\ ~stopped
  /\ leases[l.task].holder # NoHolder
  /\ clock < leases[l.task].expires
  /\ committed' = [committed EXCEPT ![l.task] = l.token]
  /\ UNCHANGED <<controlVars, leases, clock, issued, handed, executed>>

(* CommitLease accepts the current lease of the task until it expires.     *)
CommitLease(l) ==
  /\ ~stopped
  /\ leases[l.task].token = l.token /\ leases[l.task].holder = l.holder
  /\ clock < leases[l.task].expires
  /\ committed' = [committed EXCEPT ![l.task] = l.token]
  /\ UNCHANGED <<controlVars, leases, clock, issued, handed, executed>>

Tick ==
  /\ clock < MaxClock
  /\ clock' = clock + 1
  /\ UNCHANGED <<controlVars, leases, issued, handed, committed, executed>>

-----------------------------------------------------------------------------
(* The specification.  A controller starts empty or restored from commands *)
(* that the caller saved; polling is never saved (httpapi/dispatch.go      *)
(* appends no event when it claims a poll).                                *)

SavedCommand ==
  {c \in [state : CommandState \ {"polling"}, task : TaskIDs, fence : SavedFences,
          result : Results \cup {NoResult}] : c.state \in Answered => c.result # NoResult}

(* Any fence that a saved command of the task carries may have been handed *)
(* out, and be the last one.                                               *)
HandedOut(saved) ==
  {h \in [TaskIDs -> {0} \cup {saved[k].fence : k \in Keys}] :
     \A t \in TaskIDs :
       h[t] = 0 \/ \E k \in SavedKeys(saved) : saved[k].task = t /\ saved[k].fence = h[t]}

Init ==
  /\ commands \in [Keys -> SavedCommand \cup {NoCommand}]
  /\ RestoreFits(commands)
  /\ fences \in HighestFences(commands)
  /\ results = RecordedResults(commands)
  /\ commandCount = Cardinality(SavedKeys(commands))
  /\ stopped \in BOOLEAN
  /\ newer = {}
  /\ leases = [t \in TaskIDs |-> NoLease]
  /\ clock = 0
  /\ issued = {}
  /\ handed \in HandedOut(commands)
  /\ committed = [t \in TaskIDs |-> 0]
  /\ executed = [k \in Keys |-> 0]

(* RequestOnce looks at no fence.  Most handlers request with fence 0 or   *)
(* with a token that Commit accepted, but an emergency stop requests with  *)
(* whatever fencing token its caller sent.                                 *)
RequestStep == \E k \in Keys, t \in TaskIDs, f \in Tokens :
  RequestOnce(k, t, f) /\ UNCHANGED leaseVars

TransitionStep == \E k \in Keys, to \in CommandState, r \in Results :
  Transition(k, to, r) /\ UNCHANGED leaseVars

RotateStep == \E k \in Keys, t \in TaskIDs :
  /\ fences[t] < MaxFence
  /\ RotateFenceForCommand(k, t)
  /\ HandsOut(t, commands'[k].fence)
  /\ UNCHANGED <<leases, clock, issued, committed, executed>>

RestoreFenceStep == \E t \in TaskIDs, token \in 1..MaxFence :
  RestoreFence(t, token) /\ UNCHANGED leaseVars

StopStep ==
  /\ \A t \in TaskIDs : fences[t] < MaxFence
  /\ EmergencyStop
  /\ UNCHANGED leaseVars

RestoreStopStep == RestoreEmergencyStop /\ UNCHANGED leaseVars

RenewStep == \E t \in TaskIDs : fences[t] < MaxFence /\ RenewLease(t)

AcquireStep == \E t \in TaskIDs, h \in Holders, ttl \in TTLs :
  fences[t] < MaxFence /\ AcquireLease(t, h, ttl)

CommitLeaseStep == \E l \in issued : CommitLease(l)

ExecuteStep == \E k \in Keys, r \in Results : ExecuteOnce(k, r)

Next ==
  \/ RequestStep
  \/ TransitionStep
  \/ RotateStep
  \/ RestoreFenceStep
  \/ StopStep
  \/ RestoreStopStep
  \/ RenewStep
  \/ AcquireStep
  \/ CommitLeaseStep
  \/ ExecuteStep
  \/ Tick

Spec == Init /\ [][Next]_vars

-----------------------------------------------------------------------------
(* Properties.                                                             *)

(* Every variable has its type, and the ledger stays within the bound that *)
(* NewBoundedController was given.                                         *)
TypeOK ==
  /\ commands \in [Keys -> Command]
  /\ fences \in [TaskIDs -> Nat]
  /\ results \in [Keys -> Results \cup {NoResult}]
  /\ stopped \in BOOLEAN
  /\ commandCount \in 0..MaxCommands
  /\ newer \subseteq Keys \X Keys
  /\ leases \in [TaskIDs -> Lease]
  /\ clock \in Nat
  /\ issued \subseteq IssuedLease
  /\ handed \in [TaskIDs -> Nat]
  /\ committed \in [TaskIDs -> Nat]
  /\ executed \in [Keys -> Nat]

(* commandCount is the number of commands, however they came to be there   *)
(* (requested, repeated or restored), so the runaway bound of RequestOnce  *)
(* really bounds the map.                                                  *)
CommandsCounted == commandCount = Cardinality(KnownKeys)

(* A command that is completed or reconciled has its own result on record, *)
(* so a repeat of its key through ExecuteOnce returns that outcome.        *)
AnswersRecorded == \A k \in Keys :
  commands[k].state \in Answered
    => results[k] = commands[k].result /\ results[k] # NoResult

(* Every token the controller handed out for a task, to the runtime with a *)
(* command or to the holder of a lease, before or after a restore, is at   *)
(* most the fence of the task, so the next one is newer than all of them.  *)
(* A token that a caller sends (Tokens) may lie above the fence: until a   *)
(* restore raises the fence to it, it was handed out to nobody.            *)
FencesCover ==
  /\ \A t \in TaskIDs : handed[t] <= fences[t]
  /\ \A l \in issued : l.token <= fences[l.task]

(* Two leases on one task never carry the same token.                      *)
LeaseTokensUnique == \A l, m \in issued :
  l.task = m.task /\ l.token = m.token => l = m

(* Only the newest lease of a task can commit: every other lease that was  *)
(* issued has a lower token than the one Controller.leases holds.          *)
NewestLeaseHeld == \A l \in issued :
  /\ l.token <= leases[l.task].token
  /\ l.token = leases[l.task].token => l.holder = leases[l.task].holder

(* ExecuteOnce runs the function of a key to success at most once.         *)
ExecutedOnce == \A k \in Keys : executed[k] <= 1

(* The conjuncts that make the invariants above inductive: a key whose     *)
(* function ran has a result, a lease carries at most the current fence,   *)
(* and what committed was at most the lease that is held.                  *)
ExecutedAnswered == \A k \in Keys : executed[k] > 0 => results[k] # NoResult
LeasesBelowFence == \A t \in TaskIDs : leases[t].token <= fences[t]
CommitsBelowLease == \A t \in TaskIDs : committed[t] <= leases[t].token

LedgerInv == CommandsCounted /\ AnswersRecorded /\ ExecutedOnce /\ ExecutedAnswered
FenceInv == FencesCover /\ LeasesBelowFence
LeaseInv == LeaseTokensUnique /\ NewestLeaseHeld /\ CommitsBelowLease

ControllerInv == TypeOK /\ LedgerInv /\ FenceInv /\ LeaseInv

(* Commits of leases go forward: once a lease has committed, no lease      *)
(* acquired before it commits again, whatever expires or is reacquired.    *)
LeaseCommitsOrdered == [][\A t \in TaskIDs : committed'[t] >= committed[t]]_vars

(* Nobody takes over a task whose lease has not expired.                   *)
LeaseExclusive ==
  [][\A t \in TaskIDs :
       leases[t].holder # NoHolder /\ leases'[t].holder # leases[t].holder
         => clock >= leases[t].expires]_vars

(* An emergency stop is final for the life of the controller: from then on *)
(* no command is created, no lease is issued or committed, nothing runs.   *)
StoppedGrantsNothing ==
  [][stopped => /\ stopped'
                /\ \A k \in Keys : Known(k)' => Known(k)
                /\ issued' = issued
                /\ committed' = committed
                /\ executed' = executed]_vars

(* The ledger keeps the promise of CommandLifecycle for every key.         *)
PhaseOf(state) ==
  CASE state = "absent" -> "absent"
    [] state \in {"requested", "acknowledged", "polling"} -> "open"
    [] state = "outcome_unknown" -> "inDoubt"
    [] state \in Terminal -> "closed"

phaseOf == [k \in Keys |-> PhaseOf(commands[k].state)]

answerOf == [k \in Keys |->
  IF commands[k].state \in Answered THEN results[k] ELSE NoResult]

Lifecycle == INSTANCE CommandLifecycle WITH phase <- phaseOf, answer <- answerOf

LifecycleSpec == Lifecycle!Spec
=============================================================================
