-------------------------- MODULE ControllerProofs --------------------------
(***************************************************************************)
(* Theorems about Controller, for every value of its constants.            *)
(***************************************************************************)
EXTENDS Controller, FiniteSetTheorems, TLAPS

-----------------------------------------------------------------------------
(* Type correctness.                                                       *)

(* The record of a key that was never requested is a command record.       *)
LEMMA NoCommandType == NoCommand \in Command
  BY TaskIDsAssumption DEF NoCommand, Command

(* A controller that was just created or restored has the right types.     *)
LEMMA InitTypeOK == Init => TypeOK
<1> SUFFICES ASSUME Init PROVE TypeOK
  OBVIOUS
<1>1. commands \in [Keys -> Command]
  <2>1. SavedCommand \subseteq Command
    BY SavedFencesAssumption DEF SavedCommand, Command, Answered
  <2> QED
    BY <2>1, NoCommandType DEF Init
<1>2. fences \in [TaskIDs -> Nat]
  <2>1. {0} \cup {commands[k].fence : k \in Keys} \subseteq Nat
    BY <1>1 DEF Command
  <2>2. fences \in [TaskIDs -> {0} \cup {commands[k].fence : k \in Keys}]
    BY DEF Init, HighestFences
  <2> QED
    BY <2>1, <2>2
<1>3. results \in [Keys -> Results \cup {NoResult}]
  BY <1>1 DEF Init, RecordedResults, Command
<1>4. commandCount \in 0..MaxCommands
  <2>1. IsFiniteSet(SavedKeys(commands))
    BY KeysAssumption, FS_Subset DEF SavedKeys
  <2>2. Cardinality(SavedKeys(commands)) \in Nat
    BY <2>1, FS_CardinalityType
  <2> QED
    BY <2>2, MaxCommandsAssumption DEF Init, RestoreFits
<1>5. leases \in [TaskIDs -> Lease]
  BY DEF Init, Lease, NoLease
<1>6. handed \in [TaskIDs -> Nat]
  <2>1. {0} \cup {commands[k].fence : k \in Keys} \subseteq Nat
    BY <1>1 DEF Command
  <2>2. handed \in [TaskIDs -> {0} \cup {commands[k].fence : k \in Keys}]
    BY DEF Init, HandedOut
  <2> QED
    BY <2>1, <2>2
<1> QED
  BY <1>1, <1>2, <1>3, <1>4, <1>5, <1>6 DEF Init, TypeOK

(* Every operation keeps the types.                                        *)
LEMMA NextTypeOK == TypeOK /\ [Next]_vars => TypeOK'
<1> SUFFICES ASSUME TypeOK, [Next]_vars PROVE TypeOK'
  OBVIOUS
<1> USE DEF TypeOK
<1>1. CASE RequestStep
  BY <1>1, MaxCommandsAssumption, TokensAssumption
  DEF RequestStep, RequestOnce, RequestCreates, Requested, leaseVars, Command, CommandState, Stamped
<1>2. CASE TransitionStep
  <2> PICK k \in Keys, to \in CommandState, r \in Results :
        Transition(k, to, r) /\ UNCHANGED leaseVars
    BY <1>2 DEF TransitionStep
  <2>1. commands' \in [Keys -> Command]
    <3>1. commands' = [commands EXCEPT ![k].state = to, ![k].result = r]
      BY DEF Transition
    <3>2. [commands[k] EXCEPT !.state = to, !.result = r] \in Command
      BY DEF Command
    <3> QED
      BY <3>1, <3>2
  <2>2. results' \in [Keys -> Results \cup {NoResult}]
    BY DEF Transition
  <2>3. newer' \subseteq Keys \X Keys
    BY DEF Transition, Stamped
  <2> QED
    BY <2>1, <2>2, <2>3 DEF Transition, leaseVars
<1>3. CASE RotateStep
  <2> PICK k \in Keys, t \in TaskIDs :
        /\ RotateFenceForCommand(k, t)
        /\ HandsOut(t, commands'[k].fence)
        /\ UNCHANGED <<leases, clock, issued, committed, executed>>
    BY <1>3 DEF RotateStep
  <2>1. fences' \in [TaskIDs -> Nat] /\ newer' \subseteq Keys \X Keys
    BY DEF RotateFenceForCommand, Stamped
  <2>2. commands' \in [Keys -> Command]
    <3>1. commands' = [commands EXCEPT ![k].fence = fences[t] + 1]
      BY DEF RotateFenceForCommand
    <3>2. [commands[k] EXCEPT !.fence = fences[t] + 1] \in Command
      BY DEF Command
    <3> QED
      BY <3>1, <3>2
  <2>3. handed' \in [TaskIDs -> Nat]
    <3>1. commands'[k].fence \in Nat
      BY <2>2 DEF Command
    <3> QED
      BY <3>1 DEF HandsOut
  <2> QED
    BY <2>1, <2>2, <2>3 DEF RotateFenceForCommand
<1>4. CASE RestoreFenceStep
  BY <1>4 DEF RestoreFenceStep, RestoreFence, leaseVars
<1>5. CASE StopStep
  BY <1>5 DEF StopStep, EmergencyStop, leaseVars
<1>6. CASE RestoreStopStep
  BY <1>6 DEF RestoreStopStep, RestoreEmergencyStop, leaseVars
<1>7. CASE RenewStep
  BY <1>7 DEF RenewStep, RenewLease, HandsOut
<1>8. CASE AcquireStep
  BY <1>8, TTLsAssumption
  DEF AcquireStep, AcquireLease, LeaseGranted, HandsOut, Lease, IssuedLease
<1>9. CASE CommitLeaseStep
  BY <1>9 DEF CommitLeaseStep, CommitLease, controlVars, IssuedLease
<1>10. CASE ExecuteStep
  BY <1>10 DEF ExecuteStep, ExecuteOnce
<1>11. CASE Tick
  BY <1>11 DEF Tick, controlVars
<1>12. CASE UNCHANGED vars
  BY <1>12 DEF vars
<1> QED
  BY <1>1, <1>2, <1>3, <1>4, <1>5, <1>6, <1>7, <1>8, <1>9, <1>10, <1>11, <1>12 DEF Next

(* Every state of a controller has the types TypeOK lists; in particular   *)
(* the count of commands never passes the bound (control.go, RequestOnce). *)
THEOREM TypeCorrect == Spec => []TypeOK
<1>1. Init => TypeOK
  BY InitTypeOK
<1>2. TypeOK /\ [Next]_vars => TypeOK'
  BY NextTypeOK
<1> QED
  BY <1>1, <1>2, PTL DEF Spec
-----------------------------------------------------------------------------
(* Commands, their count and their answers.                                *)

(* Adding one unknown key to the ledger raises the number of keys by one.  *)
LEMMA OneMoreKey ==
  ASSUME NEW k \in Keys, TypeOK, ~Known(k), KnownKeys' = KnownKeys \cup {k}
  PROVE  Cardinality(KnownKeys)' = Cardinality(KnownKeys) + 1
<1>1. IsFiniteSet(KnownKeys)
  BY KeysAssumption, FS_Subset DEF KnownKeys
<1>2. k \notin KnownKeys
  BY DEF KnownKeys
<1> QED
  BY <1>1, <1>2, FS_AddElement

(* A new or restored controller has counted its commands and recorded the  *)
(* answers of those that have one.                                         *)
LEMMA InitLedgerInv == Init => LedgerInv
<1> SUFFICES ASSUME Init PROVE LedgerInv
  OBVIOUS
<1>1. CommandsCounted
  BY DEF Init, CommandsCounted, SavedKeys, KnownKeys, Known
<1>2. AnswersRecorded
  <2>1. \A k \in Keys : commands[k].state \in Answered => commands[k].result # NoResult
    BY DEF Init, SavedCommand, NoCommand, Answered
  <2> QED
    BY <2>1 DEF Init, AnswersRecorded, RecordedResults
<1>3. ExecutedOnce /\ ExecutedAnswered
  BY DEF Init, ExecutedOnce, ExecutedAnswered
<1> QED
  BY <1>1, <1>2, <1>3 DEF LedgerInv

(* Every step keeps the count and the recorded answers.                    *)
LEMMA NextLedgerInv == TypeOK /\ LedgerInv /\ [Next]_vars => LedgerInv'
<1> SUFFICES ASSUME TypeOK, LedgerInv, [Next]_vars PROVE LedgerInv'
  OBVIOUS
<1> USE DEF LedgerInv
<1>1. CASE RequestStep
  <2> PICK k \in Keys, t \in TaskIDs, f \in Tokens :
        RequestOnce(k, t, f) /\ UNCHANGED leaseVars
    BY <1>1 DEF RequestStep
  <2>1. commands' = [commands EXCEPT ![k] = [state |-> "requested", task |-> t,
                                             fence |-> f, result |-> NoResult]]
    BY DEF RequestOnce, Requested
  <2>2. CommandsCounted'
    <3>1. ~Known(k)
      BY DEF RequestOnce, RequestCreates
    <3>2. KnownKeys' = KnownKeys \cup {k}
      BY <2>1 DEF KnownKeys, Known, TypeOK
    <3>3. Cardinality(KnownKeys)' = Cardinality(KnownKeys) + 1
      BY <3>1, <3>2, OneMoreKey
    <3> QED
      BY <3>3 DEF CommandsCounted, RequestOnce, Requested
  <2>3. AnswersRecorded'
    BY <2>1 DEF AnswersRecorded, Answered, TypeOK, RequestOnce, Requested
  <2>4. (ExecutedOnce /\ ExecutedAnswered)'
    BY DEF ExecutedOnce, ExecutedAnswered, RequestOnce, Requested, leaseVars
  <2> QED
    BY <2>2, <2>3, <2>4
<1>2. CASE TransitionStep
  <2> PICK k \in Keys, to \in CommandState, r \in Results :
        Transition(k, to, r) /\ UNCHANGED leaseVars
    BY <1>2 DEF TransitionStep
  <2>1. commands' = [commands EXCEPT ![k].state = to, ![k].result = r]
    BY DEF Transition
  <2>2. KnownKeys' = KnownKeys
    BY <2>1 DEF Transition, TransitionAllowed, Moves, CommandState, KnownKeys, Known, TypeOK, Command
  <2>3. CommandsCounted'
    BY <2>2 DEF CommandsCounted, Transition
  <2>4. AnswersRecorded'
    <3> SUFFICES ASSUME NEW j \in Keys, (commands[j].state \in Answered)'
                 PROVE  (results[j] = commands[j].result /\ results[j] # NoResult)'
      BY DEF AnswersRecorded
    <3>1. CASE j = k
      BY <2>1, <3>1, NoResultAssumption DEF Transition, TypeOK, Command
    <3>2. CASE j # k
      BY <2>1, <3>2 DEF Transition, TypeOK, AnswersRecorded
    <3> QED
      BY <3>1, <3>2
  <2>5. (ExecutedOnce /\ ExecutedAnswered)'
    BY NoResultAssumption DEF ExecutedOnce, ExecutedAnswered, Transition, leaseVars, TypeOK
  <2> QED
    BY <2>3, <2>4, <2>5
<1>3. CASE RotateStep
  <2> PICK k \in Keys, t \in TaskIDs :
        RotateFenceForCommand(k, t) /\ UNCHANGED <<leases, clock, issued, committed, executed>>
    BY <1>3 DEF RotateStep
  <2>1. \A j \in Keys : /\ commands'[j].state = commands[j].state
                        /\ commands'[j].result = commands[j].result
    BY DEF RotateFenceForCommand, TypeOK, Command
  <2>2. KnownKeys' = KnownKeys
    BY <2>1 DEF KnownKeys, Known
  <2> QED
    BY <2>1, <2>2 DEF CommandsCounted, AnswersRecorded, ExecutedOnce, ExecutedAnswered,
                      RotateFenceForCommand
<1>4. CASE ExecuteStep
  <2> PICK k \in Keys, r \in Results : ExecuteOnce(k, r)
    BY <1>4 DEF ExecuteStep
  <2>1. CommandsCounted'
    BY DEF ExecuteOnce, CommandsCounted, KnownKeys, Known
  <2>2. AnswersRecorded'
    <3>1. \A j \in Keys : commands[j].state \in Answered => j # k
      BY DEF ExecuteOnce, AnswersRecorded, TypeOK, Command
    <3> QED
      BY <3>1 DEF ExecuteOnce, AnswersRecorded, TypeOK
  <2>3. ExecutedOnce'
    BY DEF ExecuteOnce, ExecutedOnce, ExecutedAnswered, TypeOK
  <2>4. ExecutedAnswered'
    BY NoResultAssumption DEF ExecuteOnce, ExecutedAnswered, TypeOK
  <2> QED
    BY <2>1, <2>2, <2>3, <2>4
<1>5. ASSUME UNCHANGED <<commands, results, commandCount, executed>> PROVE LedgerInv'
  BY <1>5 DEF CommandsCounted, KnownKeys, Known, AnswersRecorded, ExecutedOnce, ExecutedAnswered
<1>6. CASE RestoreFenceStep \/ StopStep \/ RestoreStopStep
  BY <1>5, <1>6 DEF RestoreFenceStep, RestoreFence, StopStep, EmergencyStop, RestoreStopStep,
                    RestoreEmergencyStop, leaseVars
<1>7. CASE RenewStep \/ AcquireStep \/ CommitLeaseStep \/ Tick
  BY <1>5, <1>7 DEF RenewStep, RenewLease, AcquireStep, AcquireLease, LeaseGranted,
                    CommitLeaseStep, CommitLease, Tick, leaseVars, controlVars
<1>8. CASE UNCHANGED vars
  BY <1>5, <1>8 DEF vars
<1> QED
  BY <1>1, <1>2, <1>3, <1>4, <1>6, <1>7, <1>8 DEF Next
-----------------------------------------------------------------------------
(* Fences.                                                                 *)

(* No operation lowers a fence.                                            *)
LEMMA FencesNeverFall == TypeOK /\ [Next]_vars => \A t \in TaskIDs : fences'[t] >= fences[t]
<1> SUFFICES ASSUME TypeOK, [Next]_vars PROVE \A t \in TaskIDs : fences'[t] >= fences[t]
  OBVIOUS
<1> USE DEF TypeOK
<1>1. CASE RequestStep \/ TransitionStep \/ RestoreStopStep
  <2>1. fences' = fences
    BY <1>1 DEF RequestStep, RequestOnce, Requested, TransitionStep, Transition,
                RestoreStopStep, RestoreEmergencyStop
  <2> QED
    BY <2>1
<1>2. CASE RotateStep \/ RenewStep
  BY <1>2 DEF RotateStep, RotateFenceForCommand, RenewStep, RenewLease
<1>3. CASE RestoreFenceStep
  BY <1>3 DEF RestoreFenceStep, RestoreFence
<1>4. CASE StopStep
  BY <1>4 DEF StopStep, EmergencyStop
<1>5. CASE AcquireStep
  BY <1>5 DEF AcquireStep, AcquireLease
<1>6. CASE CommitLeaseStep \/ ExecuteStep \/ Tick
  BY <1>6 DEF CommitLeaseStep, CommitLease, ExecuteStep, ExecuteOnce, Tick, controlVars
<1>7. CASE UNCHANGED vars
  BY <1>7 DEF vars
<1> QED
  BY <1>1, <1>2, <1>3, <1>4, <1>5, <1>6, <1>7 DEF Next

(* Restored fences are at least the fence of every restored command.       *)
LEMMA InitFenceInv == Init => FenceInv
<1> SUFFICES ASSUME Init PROVE FenceInv
  OBVIOUS
<1>1. \A t \in TaskIDs : handed[t] <= fences[t]
  <2> SUFFICES ASSUME NEW t \in TaskIDs PROVE handed[t] <= fences[t]
    OBVIOUS
  <2>1. \/ handed[t] = 0
        \/ \E k \in SavedKeys(commands) :
             commands[k].task = t /\ commands[k].fence = handed[t]
    BY DEF Init, HandedOut
  <2>2. \A k \in SavedKeys(commands) : commands[k].task = t => commands[k].fence <= fences[t]
    BY DEF Init, HighestFences
  <2>3. fences[t] \in Nat
    BY InitTypeOK DEF TypeOK
  <2> QED
    BY <2>1, <2>2, <2>3
<1>2. \A l \in issued : l.token <= fences[l.task]
  BY DEF Init
<1>3. LeasesBelowFence
  BY InitTypeOK DEF Init, TypeOK, LeasesBelowFence, NoLease
<1> QED
  BY <1>1, <1>2, <1>3 DEF FenceInv, FencesCover

(* A fence that was at or below the fence of its task stays there.         *)
LEMMA FencesStayCovered ==
  ASSUME TypeOK, [Next]_vars, NEW t \in TaskIDs, NEW f \in Nat, f <= fences[t]
  PROVE  f <= fences'[t]
<1>1. fences[t] \in Nat /\ fences'[t] \in Nat
  BY NextTypeOK DEF TypeOK
<1>2. fences'[t] >= fences[t]
  BY FencesNeverFall
<1> QED
  BY <1>1, <1>2

(* Every step keeps what was handed out at or below the fence.             *)
LEMMA NextFenceInv == TypeOK /\ FenceInv /\ [Next]_vars => FenceInv'
<1> SUFFICES ASSUME TypeOK, FenceInv, [Next]_vars PROVE FenceInv'
  OBVIOUS
<1> USE DEF FenceInv
<1>1. \A t \in TaskIDs : handed[t] <= fences'[t]
  BY FencesStayCovered DEF TypeOK, FencesCover
<1>2. \A l \in issued : l.token <= fences'[l.task]
  BY FencesStayCovered DEF TypeOK, IssuedLease, FencesCover
<1>3. \A t \in TaskIDs : leases[t].token <= fences'[t]
  BY FencesStayCovered DEF TypeOK, Lease, LeasesBelowFence
<1>4. \A t \in TaskIDs : fences[t] \in Nat /\ fences'[t] \in Nat
  BY NextTypeOK DEF TypeOK
<1>5. ASSUME NEW t \in TaskIDs, fences'[t] = fences[t] + 1, HandsOut(t, fences[t] + 1)
      PROVE  \A u \in TaskIDs : handed'[u] <= fences'[u]
  <2>1. handed'[t] = fences'[t] /\ \A u \in TaskIDs : u # t => handed'[u] = handed[u]
    BY <1>5 DEF HandsOut, TypeOK
  <2> QED
    BY <1>1, <1>4, <2>1
<1>6. ASSUME UNCHANGED <<leases, issued>>, \A t \in TaskIDs : handed'[t] <= fences'[t]
      PROVE  FenceInv'
  BY <1>2, <1>3, <1>6 DEF FencesCover, LeasesBelowFence
<1>7. CASE RotateStep
  <2> PICK k \in Keys, t \in TaskIDs :
        /\ RotateFenceForCommand(k, t)
        /\ HandsOut(t, commands'[k].fence)
        /\ UNCHANGED <<leases, clock, issued, committed, executed>>
    BY <1>7 DEF RotateStep
  <2>1. fences'[t] = fences[t] + 1 /\ commands'[k].fence = fences[t] + 1
    BY DEF RotateFenceForCommand, TypeOK, Command
  <2>2. \A u \in TaskIDs : handed'[u] <= fences'[u]
    BY <1>5, <2>1
  <2> QED
    BY <1>6, <2>2
<1>8. CASE RenewStep
  <2> PICK t \in TaskIDs : RenewLease(t)
    BY <1>8 DEF RenewStep
  <2>1. \A u \in TaskIDs : handed'[u] <= fences'[u]
    BY <1>5 DEF RenewLease, TypeOK
  <2> QED
    BY <1>6, <2>1 DEF RenewLease
<1>9. CASE AcquireStep
  <2> PICK t \in TaskIDs, h \in Holders, ttl \in TTLs : AcquireLease(t, h, ttl)
    BY <1>9 DEF AcquireStep
  <2>1. fences'[t] = fences[t] + 1
    BY DEF AcquireLease, TypeOK
  <2>2. issued' = issued \cup {[task |-> t, token |-> fences'[t], holder |-> h]}
    BY <2>1 DEF AcquireLease, LeaseGranted
  <2>3. \A u \in TaskIDs : leases'[u].token = IF u = t THEN fences'[t] ELSE leases[u].token
    BY <2>1 DEF AcquireLease, LeaseGranted, TypeOK
  <2>4. \A u \in TaskIDs : handed'[u] <= fences'[u]
    BY <1>5, <2>1 DEF AcquireLease, LeaseGranted
  <2>5. \A l \in issued' : l.token <= fences'[l.task]
    BY <1>2, <1>4, <2>2
  <2>6. LeasesBelowFence'
    BY <1>3, <1>4, <2>3 DEF LeasesBelowFence
  <2> QED
    BY <2>4, <2>5, <2>6 DEF FencesCover
<1>10. CASE RequestStep \/ TransitionStep
  BY <1>1, <1>6, <1>10 DEF RequestStep, TransitionStep, leaseVars
<1>11. CASE RestoreFenceStep \/ StopStep \/ RestoreStopStep
  BY <1>1, <1>6, <1>11 DEF RestoreFenceStep, StopStep, RestoreStopStep, leaseVars
<1>12. CASE CommitLeaseStep \/ ExecuteStep \/ Tick
  BY <1>1, <1>6, <1>12 DEF CommitLeaseStep, CommitLease, ExecuteStep, ExecuteOnce, Tick
<1>13. CASE UNCHANGED vars
  BY <1>1, <1>6, <1>13 DEF vars
<1> QED
  BY <1>7, <1>8, <1>9, <1>10, <1>11, <1>12, <1>13 DEF Next

-----------------------------------------------------------------------------
(* Leases.                                                                 *)

(* Without leases there is nothing to violate.                             *)
LEMMA InitLeaseInv == Init => LeaseInv
  BY DEF Init, LeaseInv, LeaseTokensUnique, NewestLeaseHeld, CommitsBelowLease, NoLease

(* Every step keeps the newest lease the one that is held, its token its   *)
(* own, and what committed at or below it.                                 *)
LEMMA NextLeaseInv == TypeOK /\ FenceInv /\ LeaseInv /\ [Next]_vars => LeaseInv'
<1> SUFFICES ASSUME TypeOK, FenceInv, LeaseInv, [Next]_vars PROVE LeaseInv'
  OBVIOUS
<1> USE DEF LeaseInv
<1>1. CASE AcquireStep
  <2> PICK t \in TaskIDs, h \in Holders, ttl \in TTLs : AcquireLease(t, h, ttl)
    BY <1>1 DEF AcquireStep
  <2> DEFINE token == fences[t] + 1
  <2> DEFINE new == [task |-> t, token |-> token, holder |-> h]
  <2>1. fences[t] \in Nat /\ token \in Nat
    BY DEF TypeOK
  <2>2. issued' = issued \cup {new} /\ committed' = committed
    BY DEF AcquireLease, LeaseGranted
  <2>3. /\ leases'[t].token = token
        /\ leases'[t].holder = h
        /\ \A u \in TaskIDs : u # t => leases'[u] = leases[u]
    BY DEF AcquireLease, LeaseGranted, TypeOK
  <2>4. \A l \in issued : l.task = t => l.token < token
    BY <2>1 DEF FenceInv, FencesCover, TypeOK, IssuedLease
  <2>5. LeaseTokensUnique'
    <3> SUFFICES ASSUME NEW l \in issued', NEW m \in issued', l.task = m.task, l.token = m.token
                 PROVE  l = m
      BY DEF LeaseTokensUnique
    <3>1. CASE l \in issued /\ m \in issued
      BY <3>1 DEF LeaseTokensUnique
    <3>2. CASE l = new /\ m \in issued
      BY <3>2, <2>1, <2>4 DEF TypeOK, IssuedLease
    <3>3. CASE l \in issued /\ m = new
      BY <3>3, <2>1, <2>4 DEF TypeOK, IssuedLease
    <3> QED
      BY <3>1, <3>2, <3>3, <2>2
  <2>6. NewestLeaseHeld'
    <3> SUFFICES ASSUME NEW l \in issued'
                 PROVE  /\ l.token <= leases'[l.task].token
                        /\ l.token = leases'[l.task].token => l.holder = leases'[l.task].holder
      BY DEF NewestLeaseHeld
    <3>1. CASE l = new
      BY <3>1, <2>1, <2>3
    <3>2. CASE l \in issued /\ l.task = t
      BY <3>2, <2>1, <2>3, <2>4 DEF TypeOK, IssuedLease
    <3>3. CASE l \in issued /\ l.task # t
      BY <3>3, <2>3 DEF NewestLeaseHeld, TypeOK, IssuedLease
    <3> QED
      BY <3>1, <3>2, <3>3, <2>2
  <2>7. CommitsBelowLease'
    <3>1. committed[t] <= token
      BY <2>1 DEF CommitsBelowLease, FenceInv, LeasesBelowFence, TypeOK, Lease
    <3> QED
      BY <3>1, <2>2, <2>3 DEF CommitsBelowLease
  <2> QED
    BY <2>5, <2>6, <2>7
<1>2. CASE CommitLeaseStep
  <2> PICK l \in issued : CommitLease(l)
    BY <1>2 DEF CommitLeaseStep
  <2>1. CommitsBelowLease'
    BY DEF CommitLease, CommitsBelowLease, TypeOK, Lease
  <2> QED
    BY <2>1 DEF CommitLease, LeaseTokensUnique, NewestLeaseHeld
<1>3. ASSUME UNCHANGED <<leases, issued, committed>> PROVE LeaseInv'
  BY <1>3 DEF LeaseTokensUnique, NewestLeaseHeld, CommitsBelowLease
<1>4. CASE RequestStep \/ TransitionStep \/ RotateStep
  BY <1>3, <1>4 DEF RequestStep, TransitionStep, RotateStep, leaseVars
<1>5. CASE RestoreFenceStep \/ StopStep \/ RestoreStopStep \/ RenewStep
  BY <1>3, <1>5 DEF RestoreFenceStep, StopStep, RestoreStopStep, RenewStep, RenewLease, leaseVars
<1>6. CASE ExecuteStep \/ Tick
  BY <1>3, <1>6 DEF ExecuteStep, ExecuteOnce, Tick
<1>7. CASE UNCHANGED vars
  BY <1>3, <1>7 DEF vars
<1> QED
  BY <1>1, <1>2, <1>4, <1>5, <1>6, <1>7 DEF Next

-----------------------------------------------------------------------------
(* The invariants.                                                         *)

(* The inductive invariant holds in every state.                           *)
THEOREM Invariance == Spec => []ControllerInv
<1>1. Init => ControllerInv
  BY InitTypeOK, InitLedgerInv, InitFenceInv, InitLeaseInv DEF ControllerInv
<1>2. ControllerInv /\ [Next]_vars => ControllerInv'
  BY NextTypeOK, NextLedgerInv, NextFenceInv, NextLeaseInv DEF ControllerInv
<1> QED
  BY <1>1, <1>2, PTL DEF Spec

(* The runaway bound counts every command, and an answered key keeps its   *)
(* recorded outcome (RequestOnce, Transition, RestoreCommands).            *)
THEOREM LedgerSafety == Spec => [](CommandsCounted /\ AnswersRecorded /\ ExecutedOnce)
<1>1. ControllerInv => CommandsCounted /\ AnswersRecorded /\ ExecutedOnce
  BY DEF ControllerInv, LedgerInv
<1> QED
  BY <1>1, Invariance, PTL

(* Every token that the controller handed out is covered by the current    *)
(* fence, whatever tokens the callers request with, and no two leases      *)
(* share one (AcquireLease, RotateFenceForCommand, RestoreCommands).       *)
THEOREM FenceSafety == Spec => [](FencesCover /\ LeaseTokensUnique /\ NewestLeaseHeld)
<1>1. ControllerInv => FencesCover /\ LeaseTokensUnique /\ NewestLeaseHeld
  BY DEF ControllerInv, FenceInv, LeaseInv
<1> QED
  BY <1>1, Invariance, PTL

(* No two leases of a task have the same token (AcquireLease).             *)
THEOREM TokensUnique == Spec => []LeaseTokensUnique
<1>1. ControllerInv => LeaseTokensUnique
  BY DEF ControllerInv, LeaseInv
<1> QED
  BY <1>1, Invariance, PTL

(* Commits of leases go forward: a stale lease never commits after a newer *)
(* one (CommitLease).                                                      *)
THEOREM CommitsOrdered == Spec => LeaseCommitsOrdered
<1>1. ControllerInv /\ [Next]_vars => [\A t \in TaskIDs : committed'[t] >= committed[t]]_vars
  <2> SUFFICES ASSUME ControllerInv, [Next]_vars, NEW t \in TaskIDs
               PROVE  committed'[t] >= committed[t]
    OBVIOUS
  <2>1. TypeOK /\ CommitsBelowLease
    BY DEF ControllerInv, LeaseInv
  <2>2. CASE CommitLeaseStep
    BY <2>1, <2>2 DEF CommitLeaseStep, CommitLease, CommitsBelowLease, TypeOK, Lease, IssuedLease
  <2>3. CASE committed' = committed
    BY <2>1, <2>3 DEF TypeOK
  <2>4. CASE RequestStep \/ TransitionStep \/ RotateStep \/ RestoreFenceStep
    BY <2>3, <2>4 DEF RequestStep, TransitionStep, RotateStep, RestoreFenceStep, leaseVars
  <2>5. CASE StopStep \/ RestoreStopStep \/ RenewStep \/ AcquireStep
    BY <2>3, <2>5 DEF StopStep, RestoreStopStep, RenewStep, RenewLease, AcquireStep,
                      AcquireLease, LeaseGranted, leaseVars
  <2>6. CASE ExecuteStep \/ Tick
    BY <2>3, <2>6 DEF ExecuteStep, ExecuteOnce, Tick
  <2>7. CASE UNCHANGED vars
    BY <2>3, <2>7 DEF vars
  <2> QED
    BY <2>2, <2>4, <2>5, <2>6, <2>7 DEF Next
<1> QED
  BY <1>1, Invariance, PTL DEF Spec, LeaseCommitsOrdered

-----------------------------------------------------------------------------
(* Leases are exclusive, and the emergency stop is final.                  *)

(* In every step, a holder whose lease has not expired keeps it            *)
(* (control.go, AcquireLease).                                             *)
THEOREM LeasesExclusive == Spec => LeaseExclusive
<1>1. TypeOK /\ [Next]_vars =>
        [\A t \in TaskIDs : leases[t].holder # NoHolder /\ leases'[t].holder # leases[t].holder
           => clock >= leases[t].expires]_vars
  <2> SUFFICES ASSUME TypeOK, [Next]_vars, NEW t \in TaskIDs,
                      leases[t].holder # NoHolder, leases'[t].holder # leases[t].holder
               PROVE  clock >= leases[t].expires
    OBVIOUS
  <2>1. leases' # leases
    OBVIOUS
  <2>2. CASE AcquireStep
    <3> PICK u \in TaskIDs, h \in Holders, ttl \in TTLs : AcquireLease(u, h, ttl)
      BY <2>2 DEF AcquireStep
    <3>1. u = t /\ leases'[t].holder = h
      BY DEF AcquireLease, LeaseGranted, TypeOK
    <3>2. ~(clock < leases[t].expires)
      BY <3>1 DEF AcquireLease, HeldByOther
    <3> QED
      BY <3>2 DEF TypeOK, Lease
  <2>3. CASE RequestStep \/ TransitionStep \/ RotateStep \/ RestoreFenceStep
    BY <2>1, <2>3 DEF RequestStep, TransitionStep, RotateStep, RestoreFenceStep, leaseVars
  <2>4. CASE StopStep \/ RestoreStopStep \/ RenewStep
    BY <2>1, <2>4 DEF StopStep, RestoreStopStep, RenewStep, RenewLease, leaseVars
  <2>5. CASE CommitLeaseStep \/ ExecuteStep \/ Tick
    BY <2>1, <2>5 DEF CommitLeaseStep, CommitLease, ExecuteStep, ExecuteOnce, Tick
  <2>6. CASE UNCHANGED vars
    BY <2>1, <2>6 DEF vars
  <2> QED
    BY <2>2, <2>3, <2>4, <2>5, <2>6 DEF Next
<1> QED
  BY <1>1, TypeCorrect, PTL DEF Spec, LeaseExclusive

(* What a step of a stopped controller leaves as it is.                    *)
NothingMoves ==
  /\ stopped'
  /\ \A k \in Keys : Known(k)' => Known(k)
  /\ issued' = issued
  /\ committed' = committed
  /\ executed' = executed

(* In every step a stopped controller creates no command, issues and       *)
(* commits no lease and runs no function (control.go, EmergencyStop).      *)
THEOREM StopFinal == Spec => StoppedGrantsNothing
<1>1. TypeOK /\ [Next]_vars => [stopped => NothingMoves]_vars
  <2> SUFFICES ASSUME TypeOK, [Next]_vars, stopped PROVE NothingMoves
    OBVIOUS
  <2>1. CASE TransitionStep
    <3> PICK k \in Keys, to \in CommandState, r \in Results :
          Transition(k, to, r) /\ UNCHANGED leaseVars
      BY <2>1 DEF TransitionStep
    <3>1. Known(k)
      BY DEF Transition, TransitionAllowed, Moves, Known
    <3>2. \A j \in Keys \ {k} : commands'[j] = commands[j]
      BY DEF Transition, TypeOK
    <3> QED
      BY <3>1, <3>2 DEF Transition, NothingMoves, Known, leaseVars
  <2>2. CASE RotateStep
    BY <2>2 DEF RotateStep, RotateFenceForCommand, NothingMoves, Known, TypeOK, Command
  <2>3. CASE RestoreFenceStep \/ StopStep \/ RestoreStopStep \/ RenewStep
    BY <2>3 DEF RestoreFenceStep, RestoreFence, StopStep, EmergencyStop, RestoreStopStep,
                RestoreEmergencyStop, RenewStep, RenewLease, NothingMoves, Known, leaseVars
  <2>4. CASE RequestStep \/ AcquireStep \/ CommitLeaseStep \/ ExecuteStep
    BY <2>4 DEF RequestStep, RequestOnce, RequestCreates, AcquireStep, AcquireLease,
                CommitLeaseStep, CommitLease, ExecuteStep, ExecuteOnce
  <2>5. CASE Tick \/ UNCHANGED vars
    BY <2>5 DEF Tick, vars, controlVars, NothingMoves, Known
  <2> QED
    BY <2>1, <2>2, <2>3, <2>4, <2>5 DEF Next
<1> QED
  BY <1>1, TypeCorrect, PTL DEF Spec, StoppedGrantsNothing, NothingMoves

-----------------------------------------------------------------------------
(* The ledger implements CommandLifecycle.                                 *)

(* The phases of the states.                                               *)
LEMMA Phase ==
  /\ PhaseOf("absent") = "absent"
  /\ PhaseOf("requested") = "open"
  /\ PhaseOf("acknowledged") = "open"
  /\ PhaseOf("polling") = "open"
  /\ PhaseOf("outcome_unknown") = "inDoubt"
  /\ \A s \in Terminal : PhaseOf(s) = "closed"
  BY DEF PhaseOf, Terminal

(* A step that changes neither states nor recorded answers is a stutter.   *)
LEMMA SameStatesStutter ==
  ASSUME \A k \in Keys : commands'[k].state = commands[k].state,
         \A k \in Keys : commands[k].state \in Answered => results'[k] = results[k]
  PROVE  UNCHANGED Lifecycle!vars
<1>1. phaseOf' = phaseOf
  BY DEF phaseOf
<1>2. answerOf' = answerOf
  BY DEF answerOf
<1> QED
  BY <1>1, <1>2 DEF Lifecycle!vars

(* A new or restored controller is an initial state of the lifecycle.      *)
LEMMA InitLifecycle == TypeOK => Lifecycle!Init
<1> SUFFICES ASSUME TypeOK PROVE Lifecycle!Init
  OBVIOUS
<1>1. \A k \in Keys : PhaseOf(commands[k].state) \in Lifecycle!Phases
  BY Phase DEF TypeOK, Command, CommandState, Terminal, Lifecycle!Phases
<1>2. \A k \in Keys : results[k] \in Results \cup {NoResult}
  BY DEF TypeOK
<1> QED
  BY <1>1, <1>2 DEF Lifecycle!Init, phaseOf, answerOf

(* Changing the state of one command changes its phase and no other.       *)
LEMMA OnePhase ==
  ASSUME TypeOK, NEW k \in Keys, NEW s,
         commands'[k].state = s,
         \A j \in Keys : j # k => commands'[j] = commands[j]
  PROVE  phaseOf' = [phaseOf EXCEPT ![k] = PhaseOf(s)]
  BY DEF phaseOf

(* A transition is a step of the lifecycle, or a stutter.                  *)
LEMMA TransitionLifecycle ==
  ASSUME TypeOK, NEW k \in Keys, NEW to \in CommandState, NEW r \in Results,
         Transition(k, to, r)
  PROVE  Lifecycle!Next \/ UNCHANGED Lifecycle!vars
<1> DEFINE from == commands[k].state
<1>1. <<from, to>> \in Moves
  BY DEF Transition, TransitionAllowed
<1>2. /\ commands'[k].state = to
      /\ \A j \in Keys : j # k => commands'[j] = commands[j]
  BY DEF Transition, TypeOK, Command
<1>3. phaseOf' = [phaseOf EXCEPT ![k] = PhaseOf(to)]
  BY <1>2, OnePhase
<1>4. phaseOf[k] = PhaseOf(from)
  BY DEF phaseOf
<1>5. results' = IF to \in Answered THEN [results EXCEPT ![k] = r] ELSE results
  BY DEF Transition
<1>6. from \notin Answered
  BY <1>1 DEF Moves, Answered
<1>7. CASE to \in Answered
  <2>1. answerOf' = [answerOf EXCEPT ![k] = r]
    BY <1>2, <1>5, <1>7 DEF answerOf, TypeOK
  <2>2. phaseOf[k] \in {"open", "inDoubt"} /\ PhaseOf(to) = "closed"
    BY <1>1, <1>4, <1>7, Phase DEF Moves, Answered, Terminal
  <2>3. Lifecycle!CloseAnswered(k, r)
    BY <1>3, <2>1, <2>2 DEF Lifecycle!CloseAnswered
  <2> QED
    BY <2>3 DEF Lifecycle!Next
<1>8. CASE to \notin Answered
  <2>1. answerOf' = answerOf
    BY <1>2, <1>5, <1>6, <1>8 DEF answerOf
  <2>2. CASE to \in {"acknowledged", "polling"}
    <3>1. phaseOf[k] = PhaseOf(to)
      BY <1>1, <1>4, <2>2, Phase DEF Moves
    <3>2. phaseOf' = phaseOf
      BY <1>3, <3>1 DEF phaseOf
    <3> QED
      BY <2>1, <3>2 DEF Lifecycle!vars
  <2>3. CASE to = "outcome_unknown"
    <3>1. phaseOf[k] = "open" /\ PhaseOf(to) = "inDoubt"
      BY <1>1, <1>4, <2>3, Phase DEF Moves
    <3> QED
      BY <1>3, <2>1, <3>1 DEF Lifecycle!Doubt, Lifecycle!Next
  <2>4. CASE to \in {"failed", "cancelled"}
    <3>1. phaseOf[k] = "open" /\ PhaseOf(to) = "closed"
      BY <1>1, <1>4, <2>4, Phase DEF Moves, Terminal
    <3> QED
      BY <1>3, <2>1, <3>1 DEF Lifecycle!CloseUnanswered, Lifecycle!Next
  <2> QED
    BY <1>1, <1>8, <2>2, <2>3, <2>4 DEF Moves, Answered
<1> QED
  BY <1>7, <1>8

(* Every step of the controller is a step of the lifecycle, or a stutter.  *)
LEMMA StepLifecycle ==
  TypeOK /\ LedgerInv /\ [Next]_vars => [Lifecycle!Next]_(Lifecycle!vars)
<1> SUFFICES ASSUME TypeOK, LedgerInv, [Next]_vars
             PROVE  Lifecycle!Next \/ UNCHANGED Lifecycle!vars
  OBVIOUS
<1>1. CASE RequestStep
  <2> PICK k \in Keys, t \in TaskIDs, f \in Tokens :
        RequestOnce(k, t, f) /\ UNCHANGED leaseVars
    BY <1>1 DEF RequestStep
  <2>1. /\ commands[k].state = "absent"
        /\ commands'[k].state = "requested"
        /\ \A j \in Keys : j # k => commands'[j] = commands[j]
        /\ results' = results
    BY DEF RequestOnce, RequestCreates, Requested, Known, TypeOK
  <2>2. phaseOf[k] = "absent" /\ phaseOf' = [phaseOf EXCEPT ![k] = "open"]
    <3>1. phaseOf' = [phaseOf EXCEPT ![k] = PhaseOf("requested")]
      BY <2>1, OnePhase
    <3> QED
      BY <2>1, <3>1, Phase DEF phaseOf
  <2>3. answerOf' = answerOf
    BY <2>1 DEF answerOf, Answered
  <2> QED
    BY <2>2, <2>3 DEF Lifecycle!Open, Lifecycle!Next
<1>2. CASE TransitionStep
  BY <1>2, TransitionLifecycle DEF TransitionStep
<1>3. CASE RotateStep
  <2>1. results' = results /\ \A k \in Keys : commands'[k].state = commands[k].state
    BY <1>3 DEF RotateStep, RotateFenceForCommand, TypeOK, Command
  <2> QED
    BY <2>1, SameStatesStutter
<1>4. CASE ExecuteStep
  <2> PICK k \in Keys, r \in Results : ExecuteOnce(k, r)
    BY <1>4 DEF ExecuteStep
  <2>1. commands' = commands /\ results' = [results EXCEPT ![k] = r] /\ results[k] = NoResult
    BY DEF ExecuteOnce
  <2>2. \A j \in Keys : commands[j].state \in Answered => j # k
    BY <2>1 DEF LedgerInv, AnswersRecorded
  <2> QED
    BY <2>1, <2>2, SameStatesStutter DEF TypeOK
<1>5. CASE commands' = commands /\ results' = results
  BY <1>5, SameStatesStutter
<1>6. CASE RestoreFenceStep \/ StopStep \/ RestoreStopStep
  BY <1>5, <1>6 DEF RestoreFenceStep, RestoreFence, StopStep, EmergencyStop, RestoreStopStep,
                    RestoreEmergencyStop
<1>7. CASE RenewStep \/ AcquireStep \/ CommitLeaseStep \/ Tick
  BY <1>5, <1>7 DEF RenewStep, RenewLease, AcquireStep, AcquireLease, LeaseGranted,
                    CommitLeaseStep, CommitLease, Tick, controlVars
<1>8. CASE UNCHANGED vars
  BY <1>5, <1>8 DEF vars
<1> QED
  BY <1>1, <1>2, <1>3, <1>4, <1>6, <1>7, <1>8 DEF Next

(* For every idempotency key the controller implements CommandLifecycle: a *)
(* command in doubt leaves doubt only by reconciliation, with its answer   *)
(* recorded, and a closed command and its answer never change.             *)
THEOREM LifecycleRefinement == Spec => LifecycleSpec
<1>1. Init => Lifecycle!Init
  BY InitTypeOK, InitLifecycle
<1>2. ControllerInv /\ [Next]_vars => [Lifecycle!Next]_(Lifecycle!vars)
  BY StepLifecycle DEF ControllerInv
<1> QED
  BY <1>1, <1>2, Invariance, PTL DEF Spec, LifecycleSpec, Lifecycle!Spec
=============================================================================
