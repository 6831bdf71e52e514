------------------------------- MODULE RunProofs -------------------------------
(***************************************************************************)
(* The theorems about DispatchRun: RunInv is an invariant, and the         *)
(* properties of RunProperties follow from it.                             *)
(***************************************************************************)
EXTENDS RunPromiseProofs

-----------------------------------------------------------------------------
(* The invariant.                                                          *)

LEMMA InitEmpty ==
  ASSUME Init
  PROVE  /\ LogEvents = {} /\ Events = {}
         /\ \A h \in Handlers : at[h] = Idle /\ At(h) = "idle" /\ Queue(h) = {}
         /\ \A k \in Keys : ~Known(k)
<1>1. \A h \in Handlers : at[h] = Idle
  BY DEF Init
<1>2. Idle.pc = "idle" /\ Idle.todo = <<>>
  BY DEF Idle
<1>3. \A h \in Handlers : At(h) = "idle" /\ Queue(h) = {}
  BY <1>1, <1>2 DEF At, Queue
<1>4. LogEvents = {}
  BY DEF Init, LogEvents
<1>5. \A k \in Keys : ~Known(k)
  BY DEF Init, Known, NoCommand
<1> QED
  BY <1>1, <1>3, <1>4, <1>5 DEF Events

LEMMA InitFits == Init => Fits
<1> SUFFICES ASSUME Init
             PROVE  Fits
  OBVIOUS
<1>1. NoCommand \in Command
  BY TaskIDsAssumption DEF NoCommand, Command
<1>2. TypeOK
  <2>1. commands \in [Keys -> Command] /\ fences \in [TaskIDs -> Nat]
    BY <1>1 DEF Init
  <2>2. results \in [Keys -> Results \cup {NoResult}] /\ at \in [Handlers -> HandlerType]
    BY IdleFields DEF Init
  <2>3. commandCount \in 0..MaxCommands /\ crashes \in 0..MaxCrashes /\ faults \in 0..MaxFaults
    BY MaxCommandsAssumption, BoundsAssumption DEF Init
  <2>4. log \in Seq(EventType) /\ calls \in Seq(CallType)
    BY DEF Init
  <2> QED
    BY <2>1, <2>2, <2>3, <2>4 DEF Init, TypeOK
<1>3. ASSUME NEW h \in Handlers
      PROVE  PlaceFits(h)
  <2>1. at[h].pc = "idle" /\ at[h].todo = <<>> /\ at[h].rest = {} /\ At(h) = "idle"
    BY InitEmpty, IdleFields DEF Fields
  <2> QED
    BY <2>1 DEF PlaceFits, Suits, Places, AdapterPlaces, ControlPlaces, LoopPlaces
<1> QED
  BY <1>2, <1>3 DEF Fits

LEMMA InitLedger == Init => LedgerInv
<1> SUFFICES ASSUME Init
             PROVE  LedgerInv
  OBVIOUS
<1>1. calls = <<>>
  BY DEF Init
<1>2. \A h \in Handlers : at[h].pc = "idle" /\ At(h) = "idle"
  BY InitEmpty, IdleFields DEF Fields
<1>3. \A h \in Handlers : ~Owns(h) /\ ~Polls(h) /\ HandSound(h)
  BY <1>2 DEF Owns, Polls, HandSound, OwnerPlaces, RecordedPlaces
<1> QED
  BY <1>1, <1>3, InitEmpty DEF LedgerInv, CommandSound, HandsApart

LEMMA InitKept == Init => Kept
<1> SUFFICES ASSUME Init
             PROVE  Kept
  OBVIOUS
<1>1. log = <<>> /\ claims = {}
  BY DEF Init
<1>2. \A h \in Handlers : at[h].rest = {} /\ at[h].snap = NoSnap /\ At(h) = "idle" /\ ~Deciding(h)
  BY InitEmpty, IdleFields DEF Fields, Deciding
<1>3. StopInv
  BY <1>2, InitEmpty DEF StopInv
<1>4. DecisionInv
  BY <1>1, <1>2, InitEmpty DEF DecisionInv, DecidedOnce
<1>5. \A h \in Handlers : HandlerPromised(h)
  BY <1>2, NoSnapFields DEF HandlerPromised, AdapterPlaces, ControlPlaces
<1>6. PromiseInv
  BY <1>5, InitEmpty DEF PromiseInv, CommandReleased
<1> QED
  BY <1>3, <1>4, <1>6 DEF Kept

(* The handlers, the ledger, the log and the calls agree with each other   *)
(* as RunInv says, however the requests, the answers of the runtime, the   *)
(* failures of the database and the restarts interleave.                   *)
THEOREM RunInvariance == Spec => []RunInv
<1>1. Init => RunInv
  BY InitFits, InitLedger, InitKept DEF RunInv, Fits, Kept
<1>2. RunInv /\ [Next]_vars => RunInv'
  BY StepFits, StepLedger, StepPromise DEF RunInv, Fits, Kept
<1> QED
  BY <1>1, <1>2, PTL DEF Spec

-----------------------------------------------------------------------------
(* Invariants of the runs.                                                 *)

(* Every variable of a run keeps its type: the commands stay within the    *)
(* bound of the controller, and no handler leaves the control flow of the  *)
(* code (dispatch.go), whatever recoverControllers restores.               *)
THEOREM RunTypes == Spec => []TypeOK
<1>1. RunInv => TypeOK
  BY DEF RunInv
<1> QED
  BY <1>1, RunInvariance, PTL

(* The runtime hears of a command only after its request is durable.       *)
(* (dispatchTask and runtimeControl append before they call the adapter)   *)
THEOREM CallsAreDurable == Spec => []CallsDurable
<1>1. RunInv => CallsDurable
  BY DEF RunInv, LedgerInv, CallSound, Records, CallsDurable
<1> QED
  BY <1>1, RunInvariance, PTL

(* No idempotency key reaches the runtime twice, also across restarts.     *)
THEOREM CallsAreUnique == Spec => []OneCallPerKey
<1>1. RunInv => OneCallPerKey
  BY DEF RunInv, LedgerInv, OneCallPerKey
<1> QED
  BY <1>1, RunInvariance, PTL

LEMMA FencesCovered == RunInv => FencesCoverAll
<1> SUFFICES ASSUME RunInv
             PROVE  FencesCoverAll
  OBVIOUS
<1>1. fences \in [TaskIDs -> Nat] /\ log \in Seq(EventType) /\ calls \in Seq(CallType)
  BY LedgerNow DEF TypeOK
<1>2. ASSUME NEW i \in 1..Len(log)
      PROVE  log[i].fence <= fences[log[i].task]
  <2>1. log[i] \in EventType /\ EventSound(log[i])
    BY <1>1, LedgerNow DEF Events, LogEvents
  <2>2. log[i].task \in TaskIDs /\ fences[log[i].task] \in Nat
    BY <1>1, <2>1 DEF EventType
  <2>3. CASE log[i].state = ""
    <3>1. log[i].fence = 0
      BY <2>1, <2>3 DEF EventSound
    <3> QED
      BY <2>2, <3>1
  <2>4. CASE log[i].state # ""
    <3>1. /\ log[i].key \in Keys /\ Known(log[i].key)
          /\ commands[log[i].key].task = log[i].task
          /\ commands[log[i].key].fence = log[i].fence
      BY <2>1, <2>4 DEF EventSound
    <3> QED
      BY <3>1, LedgerNow DEF CommandSound
  <2> QED
    BY <2>3, <2>4
<1>3. ASSUME NEW n \in 1..Len(calls)
      PROVE  calls[n].fence <= fences[calls[n].task]
  <2>0. calls[n] \in CallType
    BY <1>1
  <2>1. calls[n].logged \in Nat /\ Len(log) \in Nat
    BY <1>1, <2>0 DEF CallType
  <2>2. calls[n].logged <= Len(log)
    BY LedgerNow DEF CallSound
  <2>3. PICK i \in 1..calls[n].logged : Records(log[i], calls[n])
    BY LedgerNow DEF CallSound
  <2>4. i \in 1..Len(log)
    BY <2>1, <2>2
  <2> QED
    BY <1>2, <2>3, <2>4 DEF Records
<1> QED
  BY <1>2, <1>3 DEF FencesCoverAll

(* The next fence of a task is above every one the runtime or the log has  *)
(* seen, although a restart rebuilds the fences from the log.              *)
THEOREM FencesAreHighest == Spec => []FencesCoverAll
  BY FencesCovered, RunInvariance, PTL

LEMMA PollingExclusive == RunInv => PollExclusive
<1> SUFFICES ASSUME RunInv
             PROVE  PollExclusive
  OBVIOUS
<1>1. \A h \in Handlers : at[h].pc = "poll" => Polls(h)
  BY DEF Polls, At
<1>2. \A h \in Handlers : Polls(h) => commands[at[h].cmd.key].state = "polling"
  BY LedgerNow DEF HandSound
<1>3. \A g, h \in Handlers : at[g].cmd.key = at[h].cmd.key /\ Polls(g) /\ Polls(h) => g = h
  BY LedgerNow DEF HandsApart
<1> QED
  BY <1>1, <1>2, <1>3 DEF PollExclusive

(* Two result checks never poll the runtime for the same command at once,  *)
(* and nobody else moves the command meanwhile. (taskResult)               *)
THEOREM PollingIsExclusive == Spec => []PollExclusive
  BY PollingExclusive, RunInvariance, PTL

(* An approval is granted or denied once, however many clients decide at   *)
(* the same time, and although a crash forgets the claims. (approve)       *)
THEOREM DecisionsAreFinal == Spec => []DecidedOnce
<1>1. RunInv => DecidedOnce
  BY DEF RunInv, DecisionInv
<1> QED
  BY <1>1, RunInvariance, PTL

-----------------------------------------------------------------------------
(* The emergency stop.                                                     *)

(* A step that creates no command and does not lift the stop.              *)
Barred == stopped' /\ \A k \in Keys : Known(k)' => Known(k)

LEMMA SameBarred ==
  ASSUME stopped, UNCHANGED controlVars
  PROVE  Barred
  BY DEF Barred, Known, controlVars

LEMMA TryBarred ==
  ASSUME TypeOK, stopped, NEW k, NEW to, TryTransition(k, to)
  PROVE  Barred
<1>1. CASE ~TransitionAllowed(k, to)
  BY <1>1, SameBarred DEF TryTransition
<1>2. CASE TransitionAllowed(k, to)
  <2>1. Transition(k, to, ResultFor(to))
    BY <1>2 DEF TryTransition
  <2>2. stopped' /\ \A j \in Keys \ {k} : commands'[j] = commands[j]
    BY <2>1 DEF Transition, TypeOK
  <2>3. commands[k].state # "absent"
    BY <1>2 DEF TransitionAllowed, Moves
  <2> QED
    BY <2>2, <2>3 DEF Barred, Known
<1> QED
  BY <1>1, <1>2

LEMMA RotateBarred ==
  ASSUME TypeOK, stopped, NEW k, NEW t, RotateFenceForCommand(k, t)
  PROVE  Barred
  BY DEF RotateFenceForCommand, Barred, Known, TypeOK

LEMMA NotRequested ==
  ASSUME stopped
  PROVE  \A k, t, f : ~RequestOnce(k, t, f)
  BY DEF RequestOnce, RequestCreates

LEMMA HandlerBarred ==
  ASSUME TypeOK, stopped, NEW h \in Handlers, HandlerStep(h)
  PROVE  Barred
<1>1. CASE \/ AppendEvent(h) \/ Schedule(h) \/ AskApproval(h) \/ LookUp(h) \/ CallAdapter(h)
           \/ CallNobody(h) \/ CommitToken(h) \/ Finish(h) \/ ClaimDecision(h) \/ Pending(h)
  <2>1. UNCHANGED controlVars
    BY <1>1 DEF AppendEvent, Schedule, AskApproval, LookUp, CallAdapter, CallNobody, CommitToken,
                Finish, ClaimDecision, Pending, controlVars
  <2> QED
    BY <2>1, SameBarred
<1>2. CASE RequestDispatch(h) \/ RequestControl(h) \/ RequestRetry(h)
  <2>1. UNCHANGED controlVars
    BY <1>2, NotRequested DEF RequestDispatch, RequestControl, RequestRetry
  <2> QED
    BY <2>1, SameBarred
<1>3. CASE \/ Accepted(h) \/ Refused(h) \/ Lost(h) \/ Doubt(h) \/ StopAck(h) \/ RetryAck(h)
           \/ ClaimPoll(h) \/ ResultPending(h) \/ ResultFailed(h) \/ ResultCancelled(h)
           \/ ResultCompleted(h)
  <2>1. \E to : TryTransition(at[h].cmd.key, to)
    BY <1>3 DEF Accepted, Refused, Lost, Doubt, StopAck, RetryAck, ClaimPoll, ResultPending,
                ResultFailed, ResultCancelled, ResultCompleted, Polled
  <2> QED
    BY <2>1, TryBarred
<1>4. CASE Rotate(h)
  BY <1>4, RotateBarred DEF Rotate
<1>5. CASE Stop(h)
  BY <1>5 DEF Stop, EmergencyStop, Barred, Known
<1>6. CASE Settle(h)
  <2>1. TryTransition(at[h].op.key, "reconciled") \/ UNCHANGED controlVars
    BY <1>6 DEF Settle, Reconcile, TryTransition, ResultFor, Answered
  <2> QED
    BY <2>1, TryBarred, SameBarred
<1> QED
  BY <1>1, <1>2, <1>3, <1>4, <1>5, <1>6 DEF HandlerStep

LEMMA StepBarred ==
  ASSUME RunInv, [Next]_vars, StopRecorded
  PROVE  Barred
<1>1. stopped /\ TypeOK
  <2>1. \E e \in Events : e.type = "dispatch.emergency_stopped"
    BY DEF StopRecorded, HasEvent, Events, LogEvents
  <2> QED
    BY <2>1, DecisionNow, LedgerNow
<1>2. CASE Restart
  <2>1. commands' = Saved /\ stopped' = StopRecorded
    BY <1>2 DEF Restart, RestoreCommands
  <2> QED
    BY <2>1, SavedAgrees DEF Barred, Known
<1>3. ASSUME NEW h \in Handlers, HandlerStep(h)
      PROVE  Barred
  BY <1>1, <1>3, HandlerBarred
<1>4. CASE \/ StartDispatch
           \/ \E h \in Requests : RequestArrives(h)
           \/ \E h \in Handlers : AppendFails(h)
           \/ \E t \in Tasks : Lapse(t)
           \/ UNCHANGED vars
  <2>1. UNCHANGED controlVars
    BY <1>4 DEF StartDispatch, RequestArrives, ResultArrives, ControlArrives, ApproveArrives,
                ReconcileArrives, AppendFails, Lapse, vars, controlVars
  <2> QED
    BY <1>1, <2>1, SameBarred
<1> QED
  BY <1>2, <1>3, <1>4 DEF Next

(* Once the emergency stop is on record it is never lifted and no command  *)
(* is created, in this process or a later one.                             *)
(* (EmergencyStop and RequestOnce; recoverControllers)                     *)
THEOREM StopStays == Spec => StopIsFinal
<1>1. RunInv /\ [Next]_vars => (StopRecorded => stopped' /\ \A k \in Keys : Known(k)' => Known(k))
  BY StepBarred DEF Barred
<1> QED
  BY <1>1, RunInvariance, PTL DEF Spec, StopIsFinal

-----------------------------------------------------------------------------
(* The promise about tasks.                                                *)

(* Event e tells of task t what the sets of the promise collect.           *)
Completes(e, t) == e.type = "task.completed" /\ e.task = t
Grants(e, t) == e.type = "approval.granted" /\ e.task = t
Denies(e, t) == e.type = "approval.denied" /\ e.task = t

Collected ==
  /\ Released = {t \in Tasks : \E e \in LogEvents : Releases(e, t)}
  /\ CompletedTasks = {t \in Tasks : \E e \in LogEvents : Completes(e, t)}
  /\ Granted = {t \in Tasks : \E e \in LogEvents : Grants(e, t)}
  /\ Denied = {t \in Tasks : \E e \in LogEvents : Denies(e, t)}
  /\ HasEvent("dispatch.completed") <=> \E e \in LogEvents : e.type = "dispatch.completed"

LEMMA LogCollected == Collected
  BY DEF Collected, Released, CompletedTasks, Granted, Denied, HasEvent, Logged, LogEvents,
         Releases, Completes, Grants, Denies

(* One more event in the log adds to the sets what it tells.               *)
LEMMA LogCollects ==
  ASSUME NEW e, LogEvents' = LogEvents \cup {e}
  PROVE  /\ Released' = Released \cup {t \in Tasks : Releases(e, t)}
         /\ CompletedTasks' = CompletedTasks \cup {t \in Tasks : Completes(e, t)}
         /\ Granted' = Granted \cup {t \in Tasks : Grants(e, t)}
         /\ Denied' = Denied \cup {t \in Tasks : Denies(e, t)}
         /\ HasEvent("dispatch.completed")'
              <=> HasEvent("dispatch.completed") \/ e.type = "dispatch.completed"
<1>1. Collected
  BY LogCollected
<1>2. Collected'
  BY LogCollected, PTL
<1> QED
  BY <1>1, <1>2 DEF Collected, Releases, Completes, Grants, Denies

(* What a step that appends e has to know of it.                           *)
LEMMA EventKeepsPromise ==
  ASSUME NEW e, LogEvents' = LogEvents \cup {e}, found' = found, EventPromised(e), EndPromised(e),
         e.type \in Decision => e.task \in Guarded \ Decided
  PROVE  Promise!Next \/ UNCHANGED Promise!vars
<1>1. /\ Released' = Released \cup {t \in Tasks : Releases(e, t)}
      /\ CompletedTasks' = CompletedTasks \cup {t \in Tasks : Completes(e, t)}
      /\ Granted' = Granted \cup {t \in Tasks : Grants(e, t)}
      /\ Denied' = Denied \cup {t \in Tasks : Denies(e, t)}
      /\ HasEvent("dispatch.completed")'
           <=> HasEvent("dispatch.completed") \/ e.type = "dispatch.completed"
  BY LogCollects
<1>2. CASE e.type = "command.requested"
  <2>1. /\ CompletedTasks' = CompletedTasks /\ Granted' = Granted /\ Denied' = Denied
        /\ HasEvent("dispatch.completed")' = HasEvent("dispatch.completed")
    BY <1>1, <1>2 DEF Completes, Grants, Denies, HasEvent
  <2>2. CASE \E t \in Tasks : e.key = DispatchKey(t)
    <3> PICK t \in Tasks : e.key = DispatchKey(t)
      BY <2>2
    <3>1. Released' = Released \cup {t}
      <4>1. \A u \in Tasks : Releases(e, u) <=> u = t
        BY <1>2, DispatchKeys DEF Releases
      <4> QED
        BY <1>1, <4>1
    <3>2. Supported(t)
      BY <1>2 DEF EventPromised, Releases
    <3>3. CASE t \in Released
      BY <2>1, <3>1, <3>3 DEF Promise!vars
    <3>4. CASE t \notin Released
      BY <2>1, <3>1, <3>2, <3>4 DEF Promise!Release, Promise!Next, Supported
    <3> QED
      BY <3>3, <3>4
  <2>3. CASE ~\E t \in Tasks : e.key = DispatchKey(t)
    <3>1. Released' = Released
      BY <1>1, <2>3 DEF Releases
    <3> QED
      BY <2>1, <3>1 DEF Promise!vars
  <2> QED
    BY <2>2, <2>3
<1>3. CASE e.type = "task.completed"
  <2>1. /\ Released' = Released /\ Granted' = Granted /\ Denied' = Denied
        /\ HasEvent("dispatch.completed")' = HasEvent("dispatch.completed")
    BY <1>1, <1>3 DEF Releases, Grants, Denies, HasEvent
  <2>2. CASE e.task \in Tasks \ CompletedTasks
    <3>1. CompletedTasks' = CompletedTasks \cup {e.task} /\ e.task \in Released
      BY <1>1, <1>3, <2>2 DEF Completes, EventPromised
    <3> QED
      BY <2>1, <2>2, <3>1 DEF Promise!Complete, Promise!Next
  <2>3. CASE e.task \notin Tasks \ CompletedTasks
    <3>1. CompletedTasks' = CompletedTasks
      BY <1>1, <1>3, <2>3 DEF Completes
    <3> QED
      BY <2>1, <3>1 DEF Promise!vars
  <2> QED
    BY <2>2, <2>3
<1>4. CASE e.type = "approval.granted"
  <2>1. /\ Released' = Released /\ CompletedTasks' = CompletedTasks /\ Denied' = Denied
        /\ HasEvent("dispatch.completed")' = HasEvent("dispatch.completed")
    BY <1>1, <1>4 DEF Releases, Completes, Denies, HasEvent
  <2>2. CASE e.task \in Tasks
    <3>1. Granted' = Granted \cup {e.task} /\ e.task \in Guarded \ Decided
      BY <1>1, <1>4, <2>2 DEF Grants, Decision
    <3>2. e.task \notin Granted \cup Denied
      BY <2>2, <3>1, LogCollected, TasksAreIDs DEF Collected, Grants, Denies, Decided, Decision
    <3> QED
      BY <2>1, <2>2, <3>1, <3>2 DEF Promise!Grant, Promise!Next
  <2>3. CASE e.task \notin Tasks
    <3>1. Granted' = Granted
      BY <1>1, <2>3 DEF Grants
    <3> QED
      BY <2>1, <3>1 DEF Promise!vars
  <2> QED
    BY <2>2, <2>3
<1>5. CASE e.type = "approval.denied"
  <2>1. /\ Released' = Released /\ CompletedTasks' = CompletedTasks /\ Granted' = Granted
        /\ HasEvent("dispatch.completed")' = HasEvent("dispatch.completed")
    BY <1>1, <1>5 DEF Releases, Completes, Grants, HasEvent
  <2>2. CASE e.task \in Tasks
    <3>1. Denied' = Denied \cup {e.task} /\ e.task \in Guarded \ Decided
      BY <1>1, <1>5, <2>2 DEF Denies, Decision
    <3>2. e.task \notin Granted \cup Denied
      BY <2>2, <3>1, LogCollected, TasksAreIDs DEF Collected, Grants, Denies, Decided, Decision
    <3> QED
      BY <2>1, <2>2, <3>1, <3>2 DEF Promise!Deny, Promise!Next
  <2>3. CASE e.task \notin Tasks
    <3>1. Denied' = Denied
      BY <1>1, <2>3 DEF Denies
    <3> QED
      BY <2>1, <3>1 DEF Promise!vars
  <2> QED
    BY <2>2, <2>3
<1>6. CASE e.type \notin Decision \cup {"command.requested", "task.completed"}
  <2>1. /\ Released' = Released /\ CompletedTasks' = CompletedTasks
        /\ Granted' = Granted /\ Denied' = Denied
    BY <1>1, <1>6 DEF Releases, Completes, Grants, Denies, Decision
  <2>2. CASE e.type = "dispatch.completed"
    <3>1. /\ "dag" \in found => Tasks \subseteq CompletedTasks
          /\ HasEvent("dispatch.completed")' = TRUE
      BY <1>1, <2>2 DEF EndPromised, AllCompleted, HasEvent
    <3> QED
      BY <2>1, <3>1 DEF Promise!End, Promise!Next
  <2>3. CASE e.type # "dispatch.completed"
    <3>1. HasEvent("dispatch.completed")' = HasEvent("dispatch.completed")
      BY <1>1, <2>3 DEF HasEvent
    <3> QED
      BY <2>1, <3>1 DEF Promise!vars
  <2> QED
    BY <2>2, <2>3
<1> QED
  BY <1>2, <1>3, <1>4, <1>5, <1>6 DEF Decision

LEMMA LogStep ==
  ASSUME [Next]_vars
  PROVE  log' = log \/ (\E h \in Handlers : AppendEvent(h)) \/ Restart
<1>1. ASSUME NEW h \in Handlers, HandlerStep(h)
      PROVE  AppendEvent(h) \/ log' = log
  BY <1>1 DEF HandlerStep, Schedule, AskApproval, LookUp, RequestDispatch, Rotate, CallAdapter,
     CallNobody, Accepted, Refused, Lost, Doubt, CommitToken, RequestControl, Stop, StopAck,
     RequestRetry, RetryAck, ClaimPoll, ResultPending, ResultFailed, ResultCancelled,
     ResultCompleted, Polled, Finish, ClaimDecision, Settle, Pending, Stay
<1>2. ASSUME NEW h \in Handlers, AppendFails(h)
      PROVE  log' = log
  BY <1>2 DEF AppendFails
<1>3. ASSUME NEW h \in Requests, RequestArrives(h)
      PROVE  log' = log
  BY <1>3 DEF RequestArrives, ResultArrives, ControlArrives, ApproveArrives, ReconcileArrives, Stay
<1>4. ASSUME NEW t \in Tasks, Lapse(t)
      PROVE  log' = log
  BY <1>4 DEF Lapse
<1>5. StartDispatch => log' = log
  BY DEF StartDispatch, Stay
<1>6. UNCHANGED vars => log' = log
  BY DEF vars
<1> QED
  BY <1>1, <1>2, <1>3, <1>4, <1>5, <1>6 DEF Next

(* Other steps leave the definitions that the server found alone.          *)
LEMMA FoundStep ==
  ASSUME [Next]_vars
  PROVE  found' = found \/ Restart
<1>1. ASSUME NEW h \in Handlers, HandlerStep(h)
      PROVE  found' = found
  BY <1>1 DEF HandlerStep, AppendEvent, Schedule, AskApproval, LookUp, RequestDispatch, Rotate,
     CallAdapter, CallNobody, Accepted, Refused, Lost, Doubt, CommitToken, RequestControl, Stop,
     StopAck, RequestRetry, RetryAck, ClaimPoll, ResultPending, ResultFailed, ResultCancelled,
     ResultCompleted, Polled, Finish, ClaimDecision, Settle, Pending, Stay
<1>2. ASSUME NEW h \in Handlers, AppendFails(h)
      PROVE  found' = found
  BY <1>2 DEF AppendFails
<1>3. ASSUME NEW h \in Requests, RequestArrives(h)
      PROVE  found' = found
  BY <1>3 DEF RequestArrives, ResultArrives, ControlArrives, ApproveArrives, ReconcileArrives, Stay
<1>4. ASSUME NEW t \in Tasks, Lapse(t)
      PROVE  found' = found
  BY <1>4 DEF Lapse
<1>5. StartDispatch => found' = found
  BY DEF StartDispatch, Stay
<1>6. UNCHANGED vars => found' = found
  BY DEF vars
<1> QED
  BY <1>1, <1>2, <1>3, <1>4, <1>5, <1>6 DEF Next

(* An interruption adds nothing to the sets.                               *)
LEMMA SameCollected ==
  ASSUME \/ LogEvents' = LogEvents
         \/ \E e : LogEvents' = LogEvents \cup {e} /\ e.type = "dispatch.interrupted"
  PROVE  /\ UNCHANGED <<Released, CompletedTasks, Granted, Denied, HasEvent("dispatch.completed")>>
         /\ found' = found => UNCHANGED Promise!vars
<1>1. Collected
  BY LogCollected
<1>2. Collected'
  BY LogCollected, PTL
<1>3. /\ Released' = Released /\ CompletedTasks' = CompletedTasks
      /\ Granted' = Granted /\ Denied' = Denied
  BY <1>1, <1>2 DEF Collected, Releases, Completes, Grants, Denies
<1>4. HasEvent("dispatch.completed")' = HasEvent("dispatch.completed")
  BY <1>1, <1>2 DEF Collected, HasEvent
<1> QED
  BY <1>3, <1>4 DEF Promise!vars, HasEvent

LEMMA StepKeepsPromise ==
  ASSUME RunInv, [Next]_vars
  PROVE  [Promise!Next]_(Promise!vars)
<1> SUFFICES Promise!Next \/ UNCHANGED Promise!vars
  OBVIOUS
<1>1. CASE log' = log /\ found' = found
  BY <1>1, SameCollected DEF LogEvents
<1>2. ASSUME NEW h \in Handlers, AppendEvent(h)
      PROVE  Promise!Next \/ UNCHANGED Promise!vars
  <2> PICK e : e = at[h].todo[1]
    OBVIOUS
  <2>1. LogEvents' = LogEvents \cup {e} /\ e \in Queue(h) /\ found' = found
    BY <1>2, AppendEvents DEF AppendEvent
  <2>2. EventPromised(e) /\ EndPromised(e)
    BY <2>1, PromiseNow DEF Events
  <2>3. e.type \in Decision => e.task \in Guarded \ Decided
    <3> SUFFICES ASSUME e.type \in Decision
                 PROVE  e.task \in Guarded \ Decided
      OBVIOUS
    <3>1. Deciding(h)
      BY <2>1 DEF Deciding
    <3>2. at[h].todo[1].task = at[h].op.task /\ at[h].op.task \in claims \ Decided
      BY <3>1, DecisionNow
    <3> QED
      BY <3>2, DecisionNow
  <2> QED
    BY <2>1, <2>2, <2>3, EventKeepsPromise
<1>3. CASE Restart
  <2> PICK e : e = RunEvent("dispatch.interrupted")
    OBVIOUS
  <2>1. log' = log \/ log' = Append(log, e)
    BY <1>3 DEF Restart
  <2>2. log \in Seq(EventType)
    BY LedgerNow DEF TypeOK
  <2>3. LogEvents' = LogEvents \/ LogEvents' = LogEvents \cup {e}
    BY <2>1, <2>2, AppendProperties DEF LogEvents
  <2>4. e.type = "dispatch.interrupted"
    BY DEF RunEvent, Event
  <2>5. UNCHANGED <<Released, CompletedTasks, Granted, Denied, HasEvent("dispatch.completed")>>
    BY <2>3, <2>4, SameCollected
  <2> QED
    BY <2>5 DEF Promise!Reload, Promise!Next
<1> QED
  BY <1>1, <1>2, <1>3, LogStep, FoundStep

(* A run implements RunPromise: dependencies are completed and approvals   *)
(* granted before a task is released, a task is released before it         *)
(* completes, all are completed before a process that knows the DAG ends   *)
(* the run, a decision is final, and no request, failure or restart takes  *)
(* any of it back.                                                         *)
(* (scheduleRun, dispatchTask, taskResult, approve, reconcile)             *)
THEOREM PromiseRefinement == Spec => PromiseKept
<1>1. Init => Promise!Init
  <2> SUFFICES ASSUME Init
               PROVE  Promise!Init
    OBVIOUS
  <2>1. LogEvents = {}
    BY InitEmpty
  <2>2. ~HasEvent("dispatch.completed")
    BY <2>1, LogCollected DEF Collected
  <2>3. HasEvent("dispatch.completed") = FALSE
    BY <2>2 DEF HasEvent
  <2>4. ("dag" \in found) = TRUE
    BY DEF Init, Parts
  <2> QED
    BY <2>1, <2>3, <2>4, LogCollected DEF Collected, Promise!Init
<1>2. RunInv /\ [Next]_vars => [Promise!Next]_(Promise!vars)
  BY StepKeepsPromise
<1> QED
  BY <1>1, <1>2, RunInvariance, PTL DEF Spec, PromiseKept, Promise!Spec

-----------------------------------------------------------------------------
(* The ends of handlers.                                                   *)

(* A command that is no longer requested does not become so again, unless  *)
(* the process starts again.                                               *)
Open == {"absent", "requested"}
Forward == \A k \in Keys : commands[k].state \notin Open => commands'[k].state \notin Open

LEMMA SameForward ==
  ASSUME commands' = commands
  PROVE  Forward
  BY DEF Forward

LEMMA TryForward ==
  ASSUME TypeOK, NEW k \in Keys, NEW to, TryTransition(k, to)
  PROVE  /\ Forward
         /\ TransitionAllowed(k, to) => commands'[k].state \notin Open
<1>1. CASE ~TransitionAllowed(k, to)
  BY <1>1 DEF TryTransition, controlVars, Forward
<1>2. CASE TransitionAllowed(k, to)
  <2>1. Transition(k, to, ResultFor(to))
    BY <1>2 DEF TryTransition
  <2>2. commands \in [Keys -> Command]
    BY DEF TypeOK
  <2>3. commands'[k].state = to /\ \A j \in Keys \ {k} : commands'[j] = commands[j]
    BY <2>1, <2>2 DEF Transition, Command
  <2>4. to \notin Open
    BY <1>2 DEF TransitionAllowed, Moves, Open
  <2> QED
    BY <2>3, <2>4 DEF Forward
<1> QED
  BY <1>1, <1>2

LEMMA RequestForward ==
  ASSUME TypeOK, NEW k \in Keys, NEW t \in TaskIDs, NEW f \in Nat, RequestOnce(k, t, f)
  PROVE  Forward
  BY TypedLedger, RequestEffect DEF Forward, Open, Known

LEMMA RotateForward ==
  ASSUME TypeOK, NEW k \in Keys, NEW t \in TaskIDs, RotateFenceForCommand(k, t)
  PROVE  Forward
<1>1. \A j \in Keys : commands'[j].state = commands[j].state
  BY TypedLedger, RotateFenceEffect
<1> QED
  BY <1>1 DEF Forward

(* What a step of h has to do so that the ends stay in order.              *)
Ends(h) ==
  /\ Moved(h) /\ Forward /\ found' = found
  /\ HandClosed(h)' /\ HandEquipped(h)'
  /\ Owns(h) /\ at'[h].pc = "done" => at[h].pc = "call" /\ ~Connected

LEMMA EndsFrame ==
  ASSUME EndInv, NEW h \in Handlers, Moved(h), Forward, found' = found,
         HandClosed(h)', HandEquipped(h)'
  PROVE  EndInv'
<1> SUFFICES ASSUME NEW g \in Handlers
             PROVE  HandClosed(g)' /\ HandEquipped(g)'
  BY DEF EndInv
<1>1. CASE g = h
  BY <1>1
<1>2. CASE g # h
  <2>1. at'[g] = at[g]
    BY <1>2 DEF Moved
  <2>2. At(g)' = At(g) /\ (Owns(g)' <=> Owns(g))
    BY <2>1 DEF At, Owns
  <2>3. HandClosed(g) /\ HandEquipped(g)
    BY DEF EndInv
  <2> QED
    BY <2>1, <2>2, <2>3 DEF HandClosed, HandEquipped, Connected, Forward, Open
<1> QED
  BY <1>1, <1>2

(* Places from which no request is recorded and no call is made.           *)
Unequipped == Places \ {"append", "idle", "request", "rotate", "call", "controlRequest"}

LEMMA EmptyHand ==
  ASSUME NEW h \in Handlers, at'[h].cmd = NoCmd, At(h)' \in Unequipped
  PROVE  HandClosed(h)' /\ HandEquipped(h)'
<1>1. NoCmd.key = NoKey
  BY DEF NoCmd
<1>2. at'[h].cmd.key \notin Keys
  BY <1>1, KeyFormAssumption
<1> QED
  BY <1>2 DEF HandClosed, HandEquipped, Unequipped

LEMMA EmptyHandEnds ==
  ASSUME NEW h \in Handlers, Moved(h), Forward, found' = found, ~Owns(h),
         at'[h].cmd = NoCmd, At(h)' \in Unequipped
  PROVE  Ends(h)
  BY EmptyHand DEF Ends

LEMMA IdlesEnds ==
  ASSUME NEW h \in Handlers, Idles(h), Forward, found' = found, ~Owns(h)
  PROVE  Ends(h)
<1>1. Moved(h) /\ at'[h].cmd = NoCmd
  BY DEF Idles, Becomes, Fields
<1>2. At(h)' \in Unequipped
  BY IdlesQueue DEF Unequipped, Places
<1> QED
  BY <1>1, <1>2, EmptyHandEnds

LEMMA LoopEnds ==
  ASSUME NEW op, NEW snap, NEW rest, rest \subseteq Tasks, NEW h \in Handlers, Moved(h),
         LeavesLoop(op, at'[h]) \/ Visits(op, snap, rest, at'[h]),
         Forward, found' = found, ~Owns(h)
  PROVE  Ends(h)
<1>1. at'[h].cmd = NoCmd
  BY DEF LeavesLoop, Visits
<1>2. At(h)' \in Unequipped
  BY LeavesQueue, VisitsQueue DEF Unequipped, Places
<1> QED
  BY <1>1, <1>2, EmptyHandEnds

(* A handler keeps its command, and goes to a place that owns it, or has   *)
(* moved it, or did not own it before.                                     *)
LEMMA HandEnds ==
  ASSUME RunInv, EndInv, NEW h \in Handlers, Moved(h), Forward, found' = found,
         at'[h].cmd = at[h].cmd, at'[h].pc # "done", At(h)' # "idle",
         \/ Owns(h)'
         \/ ~Owns(h)
         \/ commands'[at[h].cmd.key].state \notin Open,
         HandEquipped(h)'
  PROVE  Ends(h)
<1>1. HandClosed(h)
  BY DEF EndInv
<1>2. HandClosed(h)'
  BY <1>1 DEF HandClosed, Forward, Open
<1> QED
  BY <1>2 DEF Ends

LEMMA UnequippedEnds ==
  ASSUME RunInv, EndInv, NEW h \in Handlers, Moved(h), Forward, found' = found,
         at'[h].cmd = at[h].cmd, at'[h].pc \notin {"idle", "done"}, At(h)' \in Unequipped,
         \/ Owns(h)'
         \/ ~Owns(h)
         \/ commands'[at[h].cmd.key].state \notin Open
  PROVE  Ends(h)
<1>1. HandEquipped(h)'
  BY DEF HandEquipped, Unequipped
<1>2. At(h)' # "idle"
  BY DEF Unequipped
<1> QED
  BY <1>1, <1>2, HandEnds

(* Handlers at work in scheduleRun.                                        *)
LEMMA LoopSteps ==
  ASSUME RunInv, EndInv, NEW h \in Handlers, Schedule(h) \/ AskApproval(h) \/ LookUp(h)
  PROVE  Ends(h)
<1> PICK a : a = at[h]
  OBVIOUS
<1>1. UNCHANGED controlVars /\ Stay /\ a.pc \in {"schedule", "guard"} /\ Moved(h)
  BY RunFits, ScheduleEffect, AskEffect, LookUpEffect
<1>2. ~Owns(h) /\ Forward /\ found' = found
  BY <1>1, SameForward DEF Owns, At, OwnerPlaces, Stay, controlVars
<1>3. a.rest \subseteq Tasks
  BY LedgerNow, HandlerTyped
<1>4. CASE Schedule(h)
  <2>1. {t \in Tasks : Defined /\ Ready(t)} \subseteq Tasks
    OBVIOUS
  <2> QED
    BY <1>1, <1>2, <1>4, <2>1, RunFits, ScheduleEffect, LoopEnds
<1>5. CASE AskApproval(h)
  <2>1. CASE LeavesLoop(a.op, at'[h])
    BY <1>1, <1>2, <1>3, <2>1, LoopEnds
  <2>2. CASE /\ First(a.rest) \in Guarded
             /\ Fields(at'[h]) = <<"append", a.op, a.cmd, a.token, a.rest, a.snap,
                                   <<Event("approval.requested", First(a.rest))>>, "scheduled">>
    <3>1. at'[h].cmd = a.cmd /\ at'[h].pc = "append" /\ at'[h].then = "scheduled"
      BY <2>2 DEF Fields
    <3>2. At(h)' \in Unequipped
      BY <3>1 DEF At, Unequipped, Places
    <3> QED
      BY <1>1, <1>2, <3>1, <3>2, UnequippedEnds
  <2> QED
    BY <1>5, <2>1, <2>2, RunFits, AskEffect
<1>6. CASE LookUp(h)
  <2>1. CASE LeavesLoop(a.op, at'[h])
    BY <1>1, <1>2, <1>3, <2>1, LoopEnds
  <2>2. CASE Visits(a.op, a.snap, a.rest \ {First(a.rest)}, at'[h])
    <3>1. a.rest \ {First(a.rest)} \subseteq Tasks
      BY <1>3
    <3> QED
      BY <1>1, <1>2, <2>2, <3>1, LoopEnds
  <2>3. CASE ~Connected
    <3>1. Step(h, ScheduleFailed(a))
      BY <1>6, <2>3 DEF LookUp
    <3>2. a \in HandlerType /\ Scheduler(a.op) /\ a.todo = <<>>
      <4>1. a.pc = "guard" /\ a.rest # {}
        BY <1>6, RunFits, LookUpEffect
      <4> QED
        BY <4>1, LedgerNow, HandlerTyped, PlaceNow DEF PlaceFits, Suits, At
    <3>3. LeavesLoop(a.op, at'[h])
      BY <3>1, <3>2, LedgerNow, LeaveStep
    <3> QED
      BY <2>1, <3>3
  <2>4. CASE Connected /\ Fields(at'[h])
                            = <<"request", a.op, a.cmd, a.token, a.rest, a.snap, a.todo, a.then>>
    <3>1. at'[h].cmd = a.cmd /\ at'[h].pc = "request"
      BY <2>4 DEF Fields
    <3>2. HandEquipped(h)' /\ At(h)' # "idle"
      BY <1>2, <2>4, <3>1 DEF HandEquipped, Connected, At
    <3> QED
      BY <1>1, <1>2, <3>1, <3>2, HandEnds
  <2> QED
    BY <1>6, <2>1, <2>2, <2>3, <2>4, RunFits, LookUpEffect
<1> QED
  BY <1>4, <1>5, <1>6

(* Handlers that request a command.                                        *)
LEMMA RequestDispatchEnds ==
  ASSUME RunInv, EndInv, NEW h \in Handlers, RequestDispatch(h)
  PROVE  Ends(h)
<1> PICK a : a = at[h]
  OBVIOUS
<1> PICK t : t = First(a.rest)
  OBVIOUS
<1> PICK k : k = DispatchKey(t)
  OBVIOUS
<1> PICK cmd : cmd = [key |-> k, task |-> t, state |-> "requested", fence |-> 0]
  OBVIOUS
<1>1. /\ a.pc = "request" /\ Moved(h) /\ Stay /\ t \in TaskIDs /\ k \in Keys
      /\ \/ UNCHANGED controlVars /\ LeavesLoop(a.op, at'[h])
         \/ UNCHANGED controlVars /\ Visits(a.op, a.snap, a.rest \ {t}, at'[h])
         \/ /\ RequestOnce(k, t, 0)
            /\ Fields(at'[h]) = <<"rotate", a.op, cmd, a.token, a.rest, a.snap, a.todo, a.then>>
  BY RunFits, RequestDispatchEffect
<1>2. ~Owns(h) /\ found' = found /\ Connected
  BY <1>1 DEF Owns, At, OwnerPlaces, Stay, EndInv, HandEquipped
<1>3. CASE UNCHANGED controlVars /\ LeavesLoop(a.op, at'[h])
  BY <1>1, <1>2, <1>3, SameForward, LoopEnds, LedgerNow, HandlerTyped DEF controlVars
<1>4. CASE UNCHANGED controlVars /\ Visits(a.op, a.snap, a.rest \ {t}, at'[h])
  <2>1. a.rest \ {t} \subseteq Tasks
    BY LedgerNow, HandlerTyped
  <2> QED
    BY <1>1, <1>2, <1>4, <2>1, SameForward, LoopEnds DEF controlVars
<1>5. CASE /\ RequestOnce(k, t, 0)
           /\ Fields(at'[h]) = <<"rotate", a.op, cmd, a.token, a.rest, a.snap, a.todo, a.then>>
  <2>1. at'[h].pc = "rotate"
    BY <1>5 DEF Fields
  <2>2. At(h)' = "rotate"
    BY <2>1 DEF At
  <2>3. HandClosed(h)' /\ HandEquipped(h)'
    BY <1>2, <2>1, <2>2 DEF HandClosed, HandEquipped, Connected, Owns, OwnerPlaces
  <2>4. Forward
    BY <1>1, <1>5, LedgerNow, RequestForward
  <2> QED
    BY <1>1, <1>2, <2>1, <2>3, <2>4 DEF Ends
<1> QED
  BY <1>1, <1>3, <1>4, <1>5

LEMMA RequestControlEnds ==
  ASSUME RunInv, EndInv, NEW h \in Handlers, RequestControl(h)
  PROVE  Ends(h)
<1> PICK a : a = at[h]
  OBVIOUS
<1> PICK k : k = a.op.key
  OBVIOUS
<1> PICK cmd : cmd = [key |-> k, task |-> a.op.task, state |-> "requested", fence |-> a.token]
  OBVIOUS
<1> PICK e : e = CommandEvent("control.requested", cmd)
  OBVIOUS
<1>1. /\ a.pc = "controlRequest" /\ k \in Keys /\ a.op.task \in TaskIDs /\ Stay
      /\ \/ UNCHANGED controlVars /\ Idles(h)
         \/ /\ RequestOnce(k, a.op.task, a.token)
            /\ \/ /\ a.op.what # "emergency-stop"
                  /\ Becomes(h, <<"rotate", a.op, cmd, a.token, a.rest, a.snap, a.todo, a.then>>)
               \/ a.op.what = "emergency-stop" /\ Queues(h, cmd, <<e>>, "stop")
               \/ a.op.what # "emergency-stop" /\ Queues(h, cmd, <<e>>, "call")
  BY RunFits, RequestControlEffect
<1>2. /\ ~Owns(h) /\ found' = found
      /\ a.op.what \notin Rotating \cup {"emergency-stop"} => Connected
  BY <1>1 DEF Owns, At, OwnerPlaces, Stay, EndInv, HandEquipped
<1>3. CASE UNCHANGED controlVars /\ Idles(h)
  BY <1>2, <1>3, SameForward, IdlesEnds DEF controlVars
<1>4. ASSUME RequestOnce(k, a.op.task, a.token), Moved(h), at'[h].op = a.op,
             At(h)' \in OwnerPlaces, at'[h].pc \notin {"idle", "done"},
             At(h)' # "stop" => a.op.what # "emergency-stop"
      PROVE  Ends(h)
  <2>1. HandClosed(h)'
    BY <1>4 DEF HandClosed, Owns, OwnerPlaces
  <2>2. HandEquipped(h)'
    BY <1>2, <1>4 DEF HandEquipped, Connected, OwnerPlaces
  <2>3. Forward
    BY <1>1, <1>4, LedgerNow, HandlerTyped, RequestForward
  <2> QED
    BY <1>2, <1>4, <2>1, <2>2, <2>3 DEF Ends
<1>5. CASE /\ RequestOnce(k, a.op.task, a.token) /\ a.op.what # "emergency-stop"
           /\ Becomes(h, <<"rotate", a.op, cmd, a.token, a.rest, a.snap, a.todo, a.then>>)
  <2>1. Moved(h) /\ at'[h].op = a.op /\ at'[h].pc = "rotate"
    BY <1>5 DEF Becomes, Fields
  <2>2. At(h)' = "rotate"
    BY <2>1 DEF At
  <2> QED
    BY <1>4, <1>5, <2>1, <2>2 DEF OwnerPlaces
<1>6. ASSUME NEW then \in {"stop", "call"}, RequestOnce(k, a.op.task, a.token),
             Queues(h, cmd, <<e>>, then), then = "call" => a.op.what # "emergency-stop"
      PROVE  Ends(h)
  <2>1. Moved(h) /\ at'[h].op = a.op /\ at'[h].pc = "append" /\ at'[h].then = then
    BY <1>6 DEF Queues, Becomes, Fields
  <2>2. At(h)' = then
    BY <2>1 DEF At
  <2> QED
    BY <1>4, <1>6, <2>1, <2>2 DEF OwnerPlaces
<1> QED
  BY <1>1, <1>3, <1>5, <1>6

LEMMA RequestRetryEnds ==
  ASSUME RunInv, EndInv, NEW h \in Handlers, RequestRetry(h)
  PROVE  Ends(h)
<1> PICK a : a = at[h]
  OBVIOUS
<1> PICK k : k = RetryKey(a.op.task, a.op.key[3])
  OBVIOUS
<1> PICK cmd : cmd = [key |-> k, task |-> a.op.task, state |-> "requested", fence |-> a.cmd.fence]
  OBVIOUS
<1> PICK e : e = CommandEvent("command.requested", cmd)
  OBVIOUS
<1>1. /\ a.pc = "retryRequest" /\ k \in Keys /\ a.op.task \in TaskIDs /\ Stay
      /\ \/ UNCHANGED controlVars /\ Idles(h)
         \/ RequestOnce(k, a.op.task, a.cmd.fence) /\ Queues(h, cmd, <<e>>, "retryAck")
  BY RunFits, RequestRetryEffect
<1>2. ~Owns(h) /\ found' = found
  BY <1>1 DEF Owns, At, OwnerPlaces, Stay
<1>3. CASE UNCHANGED controlVars /\ Idles(h)
  BY <1>2, <1>3, SameForward, IdlesEnds DEF controlVars
<1>4. CASE RequestOnce(k, a.op.task, a.cmd.fence) /\ Queues(h, cmd, <<e>>, "retryAck")
  <2>1. Moved(h) /\ at'[h].pc = "append" /\ at'[h].then = "retryAck"
    BY <1>4 DEF Queues, Becomes, Fields
  <2>2. At(h)' = "retryAck"
    BY <2>1 DEF At
  <2>3. HandClosed(h)' /\ HandEquipped(h)'
    BY <2>1, <2>2 DEF HandClosed, HandEquipped, Owns, OwnerPlaces
  <2>4. Forward
    BY <1>1, <1>4, LedgerNow, HandlerTyped, RequestForward
  <2> QED
    BY <1>2, <2>1, <2>3, <2>4 DEF Ends
<1> QED
  BY <1>1, <1>3, <1>4

(* Handlers that learn what became of a command.                           *)
LEMMA OwnedMove ==
  ASSUME RunInv, NEW h \in Handlers, Owns(h), NEW to \in {"acknowledged", "failed"},
         TryTransition(at[h].cmd.key, to)
  PROVE  Forward /\ commands'[at[h].cmd.key].state \notin Open
<1>1. at[h].cmd.key \in Keys /\ commands[at[h].cmd.key].state = "requested"
  BY LedgerNow DEF HandSound
<1>2. TransitionAllowed(at[h].cmd.key, to)
  BY <1>1 DEF TransitionAllowed, Moves
<1> QED
  BY <1>1, <1>2, LedgerNow, TryForward

LEMMA ReportsEnds ==
  ASSUME RunInv, EndInv, NEW h \in Handlers, NEW to, NEW type,
         NEW then \in Unequipped, ReportsMove(h, at[h].cmd, to, type, then), Stay,
         Owns(h) => to \in {"acknowledged", "failed"}
  PROVE  Ends(h)
<1>1. at[h].cmd.key \in Keys /\ TryTransition(at[h].cmd.key, to)
  BY DEF ReportsMove
<1>2. Forward /\ (Owns(h) => commands'[at[h].cmd.key].state \notin Open)
  BY <1>1, LedgerNow, TryForward, OwnedMove
<1>3. then \in Places \ {"append"}
  BY DEF Unequipped
<1>4. Moved(h) /\ at'[h].pc = "append" /\ At(h)' = then /\ at'[h].cmd = at[h].cmd
  BY <1>3, ReportsMoveFields
<1> QED
  BY <1>2, <1>4, UnequippedEnds DEF Stay

LEMMA ReportSteps ==
  ASSUME RunInv, EndInv, NEW h \in Handlers,
         Accepted(h) \/ Refused(h) \/ Doubt(h) \/ RetryAck(h)
  PROVE  Ends(h)
<1> PICK a : a = at[h]
  OBVIOUS
<1>0. {"advance", "retryRequest", "done"} \subseteq Unequipped
  BY DEF Unequipped, Places
<1>1. CASE Accepted(h)
  <2>1. PICK type \in PlainTypes : \E then \in {"advance", "retryRequest", "done"} :
          ReportsMove(h, a.cmd, "acknowledged", type, then)
    BY <1>1, RunFits, LedgerNow, AcceptedEffect
  <2>2. PICK then \in {"advance", "retryRequest", "done"} :
          ReportsMove(h, a.cmd, "acknowledged", type, then)
    BY <2>1
  <2>3. Stay
    BY <1>1 DEF Accepted
  <2> QED
    BY <1>0, <2>2, <2>3, ReportsEnds
<1>2. CASE Refused(h)
  <2>1. PICK type \in PlainTypes : \E then \in {"advance", "done"} :
          ReportsMove(h, a.cmd, "failed", type, then)
    BY <1>2, LedgerNow, RefusedEffect
  <2>2. PICK then \in {"advance", "done"} : ReportsMove(h, a.cmd, "failed", type, then)
    BY <2>1
  <2>3. Stay
    BY <1>2 DEF Refused
  <2> QED
    BY <1>0, <2>2, <2>3, ReportsEnds
<1>3. CASE Doubt(h)
  <2>1. PICK type \in PlainTypes : \E then \in {"advance", "done"} :
          ReportsMove(h, a.cmd, "outcome_unknown", type, then)
    BY <1>3, LedgerNow, DoubtEffect
  <2>2. PICK then \in {"advance", "done"} : ReportsMove(h, a.cmd, "outcome_unknown", type, then)
    BY <2>1
  <2>3. Stay /\ ~Owns(h)
    BY <1>3 DEF Doubt, Owns, At, OwnerPlaces
  <2> QED
    BY <1>0, <2>2, <2>3, ReportsEnds
<1>4. CASE RetryAck(h)
  <2>1. ReportsMove(h, a.cmd, "acknowledged", "command.acknowledged", "done") /\ Stay
    BY <1>4, LedgerNow, RetryAckEffect
  <2> QED
    BY <1>0, <2>1, ReportsEnds
<1> QED
  BY <1>1, <1>2, <1>3, <1>4

LEMMA OwnerSteps ==
  ASSUME RunInv, EndInv, NEW h \in Handlers,
         Rotate(h) \/ CallAdapter(h) \/ CallNobody(h) \/ Lost(h) \/ Stop(h) \/ StopAck(h)
  PROVE  Ends(h)
<1> PICK a : a = at[h]
  OBVIOUS
<1>1. CASE Rotate(h)
  <2> PICK cmd : cmd = [a.cmd EXCEPT !.fence = fences[a.cmd.task] + 1]
    OBVIOUS
  <2>1. /\ a.pc = "rotate" /\ a.cmd.key \in Keys /\ a.cmd.task \in TaskIDs
        /\ RotateFenceForCommand(a.cmd.key, a.cmd.task) /\ Stay
        /\ \E events : Queues(h, cmd, events, "call")
    BY <1>1, LedgerNow, RotateEffect
  <2>2. /\ Moved(h) /\ at'[h].pc = "append" /\ at'[h].then = "call" /\ at'[h].op = a.op
    BY <2>1 DEF Queues, Becomes, Fields
  <2>3. At(h)' = "call" /\ At(h) = "rotate"
    BY <2>1, <2>2 DEF At
  <2>4. HandClosed(h)'
    BY <2>2, <2>3 DEF HandClosed, Owns, OwnerPlaces
  <2>5. HandEquipped(h)'
    BY <2>1, <2>2, <2>3 DEF HandEquipped, Connected, EndInv, Stay
  <2>6. Forward
    BY <2>1, LedgerNow, RotateForward
  <2> QED
    BY <2>1, <2>2, <2>4, <2>5, <2>6 DEF Ends, Stay
<1>2. CASE CallAdapter(h)
  <2>1. PICK outcome \in {"accepted", "refused", "lost"} :
          Becomes(h, <<outcome, a.op, a.cmd, a.token, a.rest, a.snap, a.todo, a.then>>)
    BY <1>2, LedgerNow, CallAdapterEffect
  <2>2. Moved(h) /\ at'[h].pc = outcome /\ at'[h].cmd = a.cmd
    BY <2>1 DEF Becomes, Fields
  <2>3. At(h)' = outcome
    BY <2>2 DEF At
  <2>4. At(h)' \in Unequipped /\ Owns(h)'
    BY <2>3 DEF Unequipped, Places, Owns, OwnerPlaces
  <2>5. Forward /\ found' = found
    BY <1>2, SameForward DEF CallAdapter, controlVars
  <2> QED
    BY <2>2, <2>4, <2>5, UnequippedEnds
<1>3. CASE CallNobody(h)
  <2>1. a.pc = "call" /\ ~Connected /\ found' = found /\ UNCHANGED controlVars /\ Idles(h)
    BY <1>3, LedgerNow, CallNobodyEffect DEF CallNobody, Stay, Idles
  <2>2. Moved(h) /\ at'[h].cmd = NoCmd /\ at'[h].pc = "done"
    BY <2>1 DEF Idles, Becomes, Fields
  <2>3. HandClosed(h)'
    <3>1. NoCmd.key = NoKey
      BY DEF NoCmd
    <3> QED
      BY <2>2, <3>1, KeyFormAssumption DEF HandClosed
  <2>4. HandEquipped(h)'
    BY <2>2 DEF HandEquipped, At
  <2> QED
    BY <2>1, <2>2, <2>3, <2>4, SameForward DEF Ends, controlVars
<1>4. CASE Lost(h)
  <2>1. /\ a.pc = "lost" /\ Stay /\ TryTransition(a.cmd.key, "acknowledged")
        /\ Becomes(h, <<"doubt", a.op, a.cmd, a.token, a.rest, a.snap, a.todo, a.then>>)
    BY <1>4, LedgerNow, LostEffect
  <2>2. Moved(h) /\ at'[h].pc = "doubt" /\ at'[h].cmd = a.cmd
    BY <2>1 DEF Becomes, Fields
  <2>3. At(h)' \in Unequipped /\ Owns(h)
    BY <2>1, <2>2 DEF At, Unequipped, Places, Owns, OwnerPlaces
  <2>4. Forward /\ commands'[a.cmd.key].state \notin Open
    BY <2>1, <2>3, OwnedMove
  <2> QED
    BY <2>1, <2>2, <2>3, <2>4, UnequippedEnds DEF Stay
<1>5. CASE Stop(h)
  <2>1. /\ a.pc = "stop" /\ EmergencyStop /\ Stay
        /\ Becomes(h, <<"stopAck", a.op, a.cmd, a.token, a.rest, a.snap, a.todo, a.then>>)
    BY <1>5, LedgerNow, EmergencyStopEffect
  <2>2. Moved(h) /\ at'[h].pc = "stopAck" /\ at'[h].cmd = a.cmd
    BY <2>1 DEF Becomes, Fields
  <2>3. At(h)' \in Unequipped /\ Owns(h)'
    BY <2>2 DEF At, Unequipped, Places, Owns, OwnerPlaces
  <2>4. Forward
    BY <2>1, SameForward DEF EmergencyStop
  <2> QED
    BY <2>1, <2>2, <2>3, <2>4, UnequippedEnds DEF Stay
<1>6. CASE StopAck(h)
  <2>1. /\ a.pc = "stopAck" /\ Stay /\ TryTransition(a.cmd.key, "acknowledged")
        /\ \E events : Queues(h, a.cmd, events, "done")
    BY <1>6, LedgerNow, StopAckEffect
  <2>2. Moved(h) /\ at'[h].pc = "append" /\ at'[h].then = "done" /\ at'[h].cmd = a.cmd
    BY <2>1 DEF Queues, Becomes, Fields
  <2>3. At(h)' \in Unequipped /\ Owns(h)
    BY <2>1, <2>2 DEF At, Unequipped, Places, Owns, OwnerPlaces
  <2>4. Forward /\ commands'[a.cmd.key].state \notin Open
    BY <2>1, <2>3, OwnedMove
  <2> QED
    BY <2>1, <2>2, <2>3, <2>4, UnequippedEnds DEF Stay
<1> QED
  BY <1>1, <1>2, <1>3, <1>4, <1>5, <1>6

(* Handlers that check a result.                                           *)
LEMMA PollSteps ==
  ASSUME RunInv, EndInv, NEW h \in Handlers,
         \/ ClaimPoll(h) \/ ResultPending(h) \/ ResultFailed(h) \/ ResultCancelled(h)
         \/ ResultCompleted(h)
  PROVE  Ends(h)
<1> PICK a : a = at[h]
  OBVIOUS
<1>1. CASE ClaimPoll(h)
  <2>1. /\ a.pc = "claim" /\ a.cmd.key \in Keys /\ Stay /\ TryTransition(a.cmd.key, "polling")
        /\ \/ Idles(h)
           \/ Becomes(h, <<"poll", a.op, a.cmd, a.token, a.rest, a.snap, a.todo, a.then>>)
    BY <1>1, LedgerNow, ClaimPollEffect
  <2>2. ~Owns(h) /\ Forward /\ found' = found
    BY <2>1, LedgerNow, TryForward DEF Owns, At, OwnerPlaces, Stay
  <2>3. CASE Idles(h)
    BY <2>2, <2>3, IdlesEnds
  <2>4. CASE Becomes(h, <<"poll", a.op, a.cmd, a.token, a.rest, a.snap, a.todo, a.then>>)
    <3>1. Moved(h) /\ at'[h].pc = "poll" /\ at'[h].cmd = a.cmd
      BY <2>4 DEF Becomes, Fields
    <3>2. At(h)' \in Unequipped
      BY <3>1 DEF At, Unequipped, Places
    <3> QED
      BY <2>2, <3>1, <3>2, UnequippedEnds
  <2> QED
    BY <2>1, <2>3, <2>4
<1>2. CASE ResultPending(h)
  <2>1. /\ a.pc = "poll" /\ a.cmd.key \in Keys /\ Stay
        /\ TryTransition(a.cmd.key, "acknowledged") /\ Idles(h)
    BY <1>2, LedgerNow, ResultPendingEffect
  <2>2. ~Owns(h) /\ Forward /\ found' = found
    BY <2>1, LedgerNow, TryForward DEF Owns, At, OwnerPlaces, Stay
  <2> QED
    BY <2>1, <2>2, IdlesEnds
<1>3. CASE ResultFailed(h) \/ ResultCancelled(h) \/ ResultCompleted(h)
  <2>1. /\ a.pc = "poll" /\ a.cmd.key \in Keys /\ Stay
        /\ \E to : TryTransition(a.cmd.key, to)
        /\ \E events : \E then \in {"done", "schedule"} : Queues(h, NoCmd, events, then)
    BY <1>3, RunFits, LedgerNow, ResultEndsEffect, ResultCompletedEffect DEF ReportsMove
  <2>2. ~Owns(h) /\ Forward /\ found' = found
    BY <2>1, LedgerNow, TryForward DEF Owns, At, OwnerPlaces, Stay
  <2>3. PICK then \in {"done", "schedule"} : \E events : Queues(h, NoCmd, events, then)
    BY <2>1
  <2>4. Moved(h) /\ at'[h].pc = "append" /\ at'[h].then = then /\ at'[h].cmd = NoCmd
    BY <2>3 DEF Queues, Becomes, Fields
  <2>5. At(h)' \in Unequipped
    BY <2>4 DEF At, Unequipped, Places
  <2> QED
    BY <2>2, <2>4, <2>5, EmptyHandEnds
<1> QED
  BY <1>1, <1>2, <1>3

(* Handlers of controls, approvals and reconciliations between two owners. *)
LEMMA GoesOnEnds ==
  ASSUME RunInv, EndInv, NEW h \in Handlers, ~Owns(h), Forward, found' = found,
         NEW then \in Unequipped \ {"done"},
         \/ /\ then # "append"
            /\ Becomes(h, <<then, at[h].op, at[h].cmd, at[h].token, at[h].rest, at[h].snap,
                            at[h].todo, at[h].then>>)
         \/ \E events : Queues(h, at[h].cmd, events, then)
         \/ \E events : Queues(h, at[h].cmd, events, "done")
  PROVE  Ends(h)
<1>1. \/ Moved(h) /\ at'[h].pc = then /\ at'[h].cmd = at[h].cmd
      \/ /\ Moved(h) /\ at'[h].pc = "append" /\ at'[h].cmd = at[h].cmd
         /\ at'[h].then = then \/ at'[h].then = "done"
  BY DEF Becomes, Queues, Fields
<1>2. "done" \in Unequipped /\ then \notin {"idle", "done", "append"}
  BY DEF Unequipped, Places
<1>3. At(h)' \in Unequipped /\ at'[h].pc \notin {"idle", "done"}
  BY <1>1, <1>2 DEF At
<1> QED
  BY <1>1, <1>3, UnequippedEnds

LEMMA OtherSteps ==
  ASSUME RunInv, EndInv, NEW h \in Handlers,
         CommitToken(h) \/ Finish(h) \/ ClaimDecision(h) \/ Settle(h) \/ Pending(h)
  PROVE  Ends(h)
<1> PICK a : a = at[h]
  OBVIOUS
<1>0. {"schedule", "pending", "finish"} \subseteq Unequipped \ {"done", "append"}
  BY DEF Unequipped, Places
<1>1. CASE CommitToken(h)
  <2>1. /\ a.pc = "commit" /\ UNCHANGED controlVars /\ Stay
        /\ \/ Idles(h)
           \/ Becomes(h, <<"controlRequest", a.op, a.cmd, a.token, a.rest, a.snap, a.todo, a.then>>)
    BY <1>1, LedgerNow, CommitTokenEffect
  <2>2. ~Owns(h) /\ Forward /\ found' = found
    BY <2>1, SameForward DEF Owns, At, OwnerPlaces, Stay, controlVars
  <2>3. CASE Idles(h)
    BY <2>2, <2>3, IdlesEnds
  <2>4. CASE Becomes(h, <<"controlRequest", a.op, a.cmd, a.token, a.rest, a.snap, a.todo, a.then>>)
    <3>1. Moved(h) /\ at'[h].pc = "controlRequest" /\ at'[h].cmd = a.cmd /\ at'[h].op = a.op
      BY <2>4 DEF Becomes, Fields
    <3>2. Connected \/ a.op.what \in Rotating
      <4>1. CASE ~(Connected \/ a.op.what \in Rotating)
        <5>1. Step(h, Done)
          BY <1>1, <4>1 DEF CommitToken
        <5>2. at'[h].pc = "done"
          BY <5>1, LedgerNow, DoneStep DEF Becomes, Fields
        <5> QED
          BY <3>1, <5>2
      <4> QED
        BY <4>1
    <3>3. HandEquipped(h)' /\ At(h)' # "idle"
      BY <2>2, <3>1, <3>2 DEF HandEquipped, Connected, At
    <3> QED
      BY <2>2, <3>1, <3>3, HandEnds
  <2> QED
    BY <2>1, <2>3, <2>4
<1>2. CASE Finish(h)
  <2>1. /\ a.pc = "finish" /\ UNCHANGED controlVars /\ Stay
        /\ Idles(h) \/ \E events : Queues(h, a.cmd, events, "done")
    BY <1>2, LedgerNow, FinishEffect
  <2>2. ~Owns(h) /\ Forward /\ found' = found
    BY <2>1, SameForward DEF Owns, At, OwnerPlaces, Stay, controlVars
  <2> QED
    BY <1>0, <2>1, <2>2, IdlesEnds, GoesOnEnds
<1>3. CASE ClaimDecision(h)
  <2>1. /\ a.pc = "claimDecision" /\ commands' = commands /\ found' = found
        /\ \/ Idles(h)
           \/ \E events : \E then \in {"schedule", "done"} : Queues(h, a.cmd, events, then)
    BY <1>3, RunFits, LedgerNow, ClaimDecisionEffect DEF controlVars
  <2>2. ~Owns(h) /\ Forward
    BY <2>1, SameForward DEF Owns, At, OwnerPlaces
  <2>3. CASE Idles(h)
    BY <2>1, <2>2, <2>3, IdlesEnds
  <2>4. ASSUME NEW events, NEW then \in {"schedule", "done"}, Queues(h, a.cmd, events, then)
        PROVE  Ends(h)
    <3>1. (\E ev : Queues(h, a.cmd, ev, "schedule")) \/ \E ev : Queues(h, a.cmd, ev, "done")
      BY <2>4
    <3> QED
      BY <1>0, <2>1, <2>2, <3>1, GoesOnEnds
  <2> QED
    BY <2>1, <2>3, <2>4
<1>4. CASE Settle(h)
  <2>1. /\ a.pc = "settle" /\ Stay /\ a.op.key \in Keys
        /\ \/ UNCHANGED controlVars /\ Idles(h)
           \/ /\ TryTransition(a.op.key, "reconciled")
              /\ \E events : \E then \in {"schedule", "pending"} : Queues(h, a.cmd, events, then)
    BY <1>4, RunFits, LedgerNow, SettleEffect
  <2>2. ~Owns(h) /\ Forward /\ found' = found
    BY <2>1, LedgerNow, SameForward, TryForward DEF Owns, At, OwnerPlaces, Stay, controlVars
  <2>3. CASE Idles(h)
    BY <2>2, <2>3, IdlesEnds
  <2>4. ASSUME NEW events, NEW then \in {"schedule", "pending"}, Queues(h, a.cmd, events, then)
        PROVE  Ends(h)
    BY <1>0, <2>2, <2>4, GoesOnEnds
  <2> QED
    BY <2>1, <2>3, <2>4
<1>5. CASE Pending(h)
  <2>1. /\ a.pc = "pending" /\ UNCHANGED controlVars /\ Stay
        /\ \/ Idles(h)
           \/ Becomes(h, <<"finish", a.op, a.cmd, a.token, a.rest, a.snap, a.todo, a.then>>)
           \/ \E events : Queues(h, a.cmd, events, "done")
    BY <1>5, LedgerNow, PendingEffect
  <2>2. ~Owns(h) /\ Forward /\ found' = found
    BY <2>1, SameForward DEF Owns, At, OwnerPlaces, Stay, controlVars
  <2> QED
    BY <1>0, <2>1, <2>2, IdlesEnds, GoesOnEnds
<1> QED
  BY <1>1, <1>2, <1>3, <1>4, <1>5

(* A handler whose event is in the log.                                    *)
LEMMA AppendEnds ==
  ASSUME RunInv, EndInv, NEW h \in Handlers, AppendEvent(h)
  PROVE  Ends(h)
<1> PICK a : a = at[h]
  OBVIOUS
<1>1. /\ a.pc = "append" /\ At(h) = a.then /\ found' = found /\ Forward
      /\ \/ Resumes(h)
         \/ Becomes(h, <<"append", a.op, a.cmd, a.token, a.rest, a.snap, Tail(a.todo), a.then>>)
  BY RunFits, AppendEventEffect, SameForward DEF At, controlVars
<1>2. HandClosed(h) /\ HandEquipped(h) /\ a.rest \subseteq Tasks
  BY LedgerNow, HandlerTyped DEF EndInv
<1>3. ASSUME Moved(h), at'[h].cmd = a.cmd, at'[h].op = a.op, At(h)' = a.then,
             at'[h].pc # "done"
      PROVE  Ends(h)
  <2>1. Owns(h)' <=> Owns(h)
    BY <1>1, <1>3 DEF Owns
  <2>2. HandEquipped(h)'
    BY <1>1, <1>2, <1>3 DEF HandEquipped, Connected
  <2>3. HandClosed(h)'
    BY <1>1, <1>2, <1>3, <2>1 DEF HandClosed, Forward, Open
  <2> QED
    BY <1>1, <1>3, <2>2, <2>3 DEF Ends
<1>4. CASE Becomes(h, <<"append", a.op, a.cmd, a.token, a.rest, a.snap, Tail(a.todo), a.then>>)
  <2>1. /\ Moved(h) /\ at'[h].cmd = a.cmd /\ at'[h].op = a.op
        /\ at'[h].pc = "append" /\ at'[h].then = a.then
    BY <1>4 DEF Becomes, Fields
  <2> QED
    BY <1>3, <2>1 DEF At
<1>5. CASE a.then = "done" /\ Idles(h)
  <2>1. ~Owns(h)
    BY <1>1, <1>5 DEF Owns, OwnerPlaces
  <2> QED
    BY <1>1, <1>5, <2>1, IdlesEnds
<1>6. CASE /\ a.then \in {"advance", "scheduled"} /\ Moved(h)
           /\ LeavesLoop(a.op, at'[h]) \/ Visits(a.op, a.snap, a.rest \ {First(a.rest)}, at'[h])
  <2>1. ~Owns(h) /\ a.rest \ {First(a.rest)} \subseteq Tasks
    BY <1>1, <1>2, <1>6 DEF Owns, OwnerPlaces
  <2> QED
    BY <1>1, <1>6, <2>1, LoopEnds
<1>7. CASE /\ a.then \in Places \ {"append", "done", "advance", "scheduled"}
           /\ Becomes(h, <<a.then, a.op, a.cmd, a.token, a.rest, a.snap, <<>>, "">>)
  <2>1. /\ Moved(h) /\ at'[h].cmd = a.cmd /\ at'[h].op = a.op /\ at'[h].pc = a.then
    BY <1>7 DEF Becomes, Fields
  <2>2. At(h)' = a.then
    BY <1>7, <2>1 DEF At
  <2> QED
    BY <1>3, <1>7, <2>1, <2>2
<1> QED
  BY <1>1, <1>4, <1>5, <1>6, <1>7 DEF Resumes

(* A request that arrives.                                                 *)
LEMMA StartEnds ==
  ASSUME RunInv, EndInv, StartDispatch
  PROVE  Start \in Handlers /\ Ends(Start)
<1>1. /\ at[Start].pc = "idle" /\ Start \in Handlers /\ UNCHANGED controlVars /\ Stay
      /\ Becomes(Start, <<"append", StartOp, NoCmd, 0, {}, NoSnap,
                          <<RunEvent("dispatch.started")>>, "schedule">>)
  BY LedgerNow, StartEffect
<1>2. /\ Moved(Start) /\ at'[Start].pc = "append" /\ at'[Start].then = "schedule"
      /\ at'[Start].cmd = NoCmd
  BY <1>1 DEF Becomes, Fields
<1>3. At(Start)' \in Unequipped /\ ~Owns(Start)
  BY <1>1, <1>2 DEF At, Unequipped, Places, Owns, OwnerPlaces
<1>4. Forward /\ found' = found
  BY <1>1, SameForward DEF controlVars, Stay
<1> QED
  BY <1>1, <1>2, <1>3, <1>4, EmptyHandEnds

LEMMA ArrivalEnds ==
  ASSUME RunInv, EndInv, NEW h \in Requests, RequestArrives(h)
  PROVE  h \in Handlers /\ Ends(h)
<1> PICK op \in Menu[h] :
      ResultArrives(h, op) \/ ControlArrives(h, op) \/ ApproveArrives(h, op) \/ ReconcileArrives(h, op)
  BY DEF RequestArrives
<1>0. h \in Handlers
  BY MenuTyped
<1>1. at[h].pc = "idle" /\ UNCHANGED controlVars /\ Stay
  BY LedgerNow, ResultArrivesEffect, ControlArrivesEffect, ApproveArrivesEffect,
     ReconcileArrivesEffect
<1>2. ~Owns(h) /\ Forward /\ found' = found
  BY <1>1, SameForward DEF Owns, At, OwnerPlaces, controlVars, Stay
<1>3. ASSUME NEW pc \in Unequipped, NEW token, Serves(h, op, NoCmd, token, pc)
      PROVE  Ends(h)
  <2>1. Moved(h) /\ at'[h].pc = pc /\ at'[h].cmd = NoCmd
    BY <1>3 DEF Serves, Becomes, Fields
  <2>2. At(h)' \in Unequipped
    BY <2>1 DEF At, Unequipped
  <2> QED
    BY <1>0, <1>2, <2>1, <2>2, EmptyHandEnds
<1>4. CASE ResultArrives(h, op)
  <2>1. CASE Idles(h)
    BY <1>0, <1>2, <2>1, IdlesEnds
  <2>2. ASSUME NEW k \in Keys, commands[k].state = "acknowledged",
               Serves(h, op, Cmd(k, "acknowledged"), 0, "claim")
        PROVE  Ends(h)
    <3>1. Moved(h) /\ at'[h].pc = "claim" /\ at'[h].cmd = Cmd(k, "acknowledged")
      BY <2>2 DEF Serves, Becomes, Fields
    <3>2. At(h)' = "claim" /\ at'[h].cmd.key = k
      BY <3>1 DEF At, Cmd
    <3>3. commands'[k].state = "acknowledged"
      BY <1>1, <2>2 DEF controlVars
    <3>4. HandClosed(h)' /\ HandEquipped(h)'
      BY <3>2, <3>3 DEF HandClosed, HandEquipped
    <3> QED
      BY <1>0, <1>2, <3>1, <3>4 DEF Ends
  <2>3. \/ Idles(h)
        \/ \E k \in Keys : /\ commands[k].state = "acknowledged"
                          /\ Serves(h, op, Cmd(k, "acknowledged"), 0, "claim")
    BY <1>4, LedgerNow, ResultArrivesEffect
  <2> QED
    BY <1>0, <2>1, <2>2, <2>3
<1>5. CASE ControlArrives(h, op)
  <2>1. CASE Idles(h)
    BY <1>0, <1>2, <2>1, IdlesEnds
  <2>2. CASE op.what = "emergency-stop" /\ Serves(h, op, NoCmd, 0, "controlRequest")
    <3>1. Moved(h) /\ at'[h].pc = "controlRequest" /\ at'[h].cmd = NoCmd /\ at'[h].op = op
      BY <2>2 DEF Serves, Becomes, Fields
    <3>2. NoCmd.key = NoKey
      BY DEF NoCmd
    <3>3. at'[h].cmd.key \notin Keys /\ At(h)' = "controlRequest"
      BY <3>1, <3>2, KeyFormAssumption DEF At
    <3>4. HandClosed(h)' /\ HandEquipped(h)'
      BY <2>2, <3>1, <3>3 DEF HandClosed, HandEquipped
    <3> QED
      BY <1>0, <1>2, <3>1, <3>4 DEF Ends
  <2>3. "commit" \in Unequipped
    BY DEF Unequipped, Places
  <2>4. \/ Idles(h)
        \/ op.what = "emergency-stop" /\ Serves(h, op, NoCmd, 0, "controlRequest")
        \/ \E token : Serves(h, op, NoCmd, token, "commit")
    BY <1>5, LedgerNow, ControlArrivesEffect
  <2> QED
    BY <1>0, <1>3, <2>1, <2>2, <2>3, <2>4
<1>6. CASE ApproveArrives(h, op)
  <2>1. CASE Idles(h)
    BY <1>0, <1>2, <2>1, IdlesEnds
  <2>2. "claimDecision" \in Unequipped
    BY DEF Unequipped, Places
  <2>3. Idles(h) \/ Serves(h, op, NoCmd, 0, "claimDecision")
    BY <1>6, LedgerNow, ApproveArrivesEffect
  <2> QED
    BY <1>0, <1>3, <2>1, <2>2, <2>3
<1>7. CASE ReconcileArrives(h, op)
  <2>1. CASE Idles(h)
    BY <1>0, <1>2, <2>1, IdlesEnds
  <2>2. ASSUME NEW events, NEW then \in {"done", "settle"},
               Becomes(h, <<"append", op, NoCmd, 0, {}, NoSnap, events, then>>)
        PROVE  Ends(h)
    <3>1. /\ Moved(h) /\ at'[h].pc = "append" /\ at'[h].then = then /\ at'[h].cmd = NoCmd
      BY <2>2 DEF Becomes, Fields
    <3>2. At(h)' \in Unequipped
      BY <3>1 DEF At, Unequipped, Places
    <3> QED
      BY <1>0, <1>2, <3>1, <3>2, EmptyHandEnds
  <2> QED
    BY <1>7, <2>1, <2>2, LedgerNow, ReconcileArrivesEffect
<1> QED
  BY <1>0, <1>4, <1>5, <1>6, <1>7

(* A handler whose event the database refuses, and a restart: the command  *)
(* in hand may be left as requested, and no handler has it in hand.        *)
LEMMA AppendFailsEnds ==
  ASSUME RunInv, EndInv, NEW h \in Handlers, AppendFails(h)
  PROVE  EndInv' /\ faults' # faults
<1>1. /\ Moved(h) /\ LeavesLoop(at[h].op, at'[h]) /\ UNCHANGED controlVars
      /\ found' = found
  BY RunFits, LedgerNow, AppendFailsEffect
<1>2. at'[h].cmd = NoCmd /\ At(h)' \in Unequipped
  BY <1>1, LeavesQueue DEF LeavesLoop, Unequipped, Places
<1>3. HandClosed(h)' /\ HandEquipped(h)'
  BY <1>2, EmptyHand
<1>4. EndInv'
  BY <1>1, <1>3, SameForward, EndsFrame DEF controlVars
<1>5. faults \in 0..MaxFaults /\ faults' = faults + 1
  BY LedgerNow DEF TypeOK, AppendFails
<1> QED
  BY <1>4, <1>5, BoundsAssumption

LEMMA RestartEnds ==
  ASSUME RunInv, EndInv, Restart
  PROVE  EndInv' /\ crashes' # crashes
<1>1. \A h \in Handlers : at'[h] = IF at[h].pc = "idle" THEN at[h] ELSE Done
  BY LedgerNow, RestartEffect
<1>2. Done.pc = "done" /\ Done.cmd = NoCmd
  BY DoneFields DEF Fields
<1>3. ASSUME NEW h \in Handlers
      PROVE  HandClosed(h)' /\ HandEquipped(h)'
  <2>1. CASE at[h].pc = "idle"
    <3>1. at[h].cmd.key \notin Keys
      BY <2>1 DEF EndInv, HandClosed, At
    <3>2. at'[h] = at[h] /\ At(h)' = "idle"
      BY <1>1, <2>1 DEF At
    <3> QED
      BY <3>1, <3>2 DEF HandClosed, HandEquipped
  <2>2. CASE at[h].pc # "idle"
    <3>1. at'[h].cmd = NoCmd /\ At(h)' \in Unequipped
      BY <1>1, <1>2, <2>2 DEF At, Unequipped, Places
    <3> QED
      BY <3>1, EmptyHand
  <2> QED
    BY <2>1, <2>2
<1>4. crashes \in 0..MaxCrashes /\ crashes' = crashes + 1
  BY LedgerNow DEF TypeOK, Restart
<1> QED
  BY <1>3, <1>4, BoundsAssumption DEF EndInv

LEMMA NextEnds ==
  ASSUME RunInv, EndInv, [Next]_vars
  PROVE  \/ \E h \in Handlers : Ends(h)
         \/ EndInv' /\ (at' = at \/ faults' # faults \/ crashes' # crashes)
<1>1. CASE UNCHANGED vars
  BY <1>1 DEF vars, EndInv, HandClosed, HandEquipped, Connected, At, Owns
<1>2. ASSUME NEW h \in Handlers, HandlerStep(h)
      PROVE  Ends(h)
  BY <1>2, LoopSteps, RequestDispatchEnds, RequestControlEnds, RequestRetryEnds, ReportSteps,
     OwnerSteps, PollSteps, OtherSteps, AppendEnds DEF HandlerStep
<1>3. ASSUME NEW t \in Tasks, Lapse(t)
      PROVE  EndInv' /\ at' = at
  BY <1>3 DEF Lapse, controlVars, EndInv, HandClosed, HandEquipped, Connected, At, Owns
<1> QED
  BY <1>1, <1>2, <1>3, StartEnds, ArrivalEnds, AppendFailsEnds, RestartEnds DEF Next

LEMMA InitEnds == Init => EndInv
<1> SUFFICES ASSUME Init
             PROVE  EndInv
  OBVIOUS
<1>1. NoCmd.key = NoKey
  BY DEF NoCmd
<1>2. \A h \in Handlers : at[h].cmd.key \notin Keys /\ At(h) = "idle"
  BY <1>1, InitEmpty, IdleFields, KeyFormAssumption DEF Fields
<1> QED
  BY <1>2 DEF EndInv, HandClosed, HandEquipped

(* A request that ends by itself leaves no command of its own as requested *)
(* (dispatchTask, runtimeControl), but for the rotating controls that find *)
(* no adapter after a restart.                                             *)
THEOREM RequestsAreClosed == Spec => NoneLeftRequested
<1>1. Init => RunInv /\ EndInv
  BY InitFits, InitLedger, InitKept, InitEnds DEF RunInv, Fits, Kept
<1>2. RunInv /\ EndInv /\ [Next]_vars => RunInv' /\ EndInv'
  BY StepFits, StepLedger, StepPromise, NextEnds, EndsFrame DEF RunInv, Fits, Kept, Ends
<1>3. RunInv /\ EndInv /\ [Next]_vars =>
        \A h \in Handlers : Connected \/ at[h].op.what \notin Rotating => ~LeavesRequested(h)
  <2> SUFFICES ASSUME RunInv, EndInv, [Next]_vars, NEW g \in Handlers,
                      at[g].pc # "done", at'[g].pc = "done", crashes' = crashes, faults' = faults,
                      at[g].cmd.key \in Keys, Connected \/ at[g].op.what \notin Rotating
               PROVE  commands'[at[g].cmd.key].state # "requested"
    BY DEF LeavesRequested
  <2>1. PICK h \in Handlers : Ends(h)
    BY NextEnds
  <2>2. g = h
    BY <2>1 DEF Ends, Moved
  <2>3. HandClosed(g) /\ HandEquipped(g) /\ Ends(g)
    BY <2>1, <2>2 DEF EndInv
  <2>4. CASE Owns(g)
    <3>1. At(g) = "call" /\ ~Connected
      BY <2>3, <2>4 DEF Ends, At
    <3> QED
      BY <2>3, <3>1 DEF HandEquipped
  <2>5. CASE ~Owns(g)
    BY <2>3, <2>5 DEF HandClosed, Ends, Forward, Open
  <2> QED
    BY <2>4, <2>5
<1> QED
  BY <1>1, <1>2, <1>3, PTL DEF Spec, NoneLeftRequested

-----------------------------------------------------------------------------
(* The log and the queues trail the ledger.                                *)

(* A handler that does not append has nothing queued.                      *)
LEMMA EmptyNow ==
  ASSUME RunInv, NEW h \in Handlers, at[h].pc # "append"
  PROVE  Queue(h) = {}
<1>1. at[h].todo = <<>>
  BY PlaceNow
<1> QED
  BY <1>1 DEF Queue

LEMMA SameSaved ==
  ASSUME log' = log
  PROVE  Saved' = Saved
  BY DEF Saved

LEMMA LoggedKey ==
  ASSUME RunInv, NEW i \in 1..Len(log), log[i].state # ""
  PROVE  /\ log[i] \in Events
         /\ log[i].key \in Keys /\ Known(log[i].key)
         /\ commands[log[i].key].task = log[i].task /\ commands[log[i].key].fence = log[i].fence
<1>1. log[i] \in Events
  BY DEF Events, LogEvents
<1> QED
  BY <1>1, LedgerNow DEF EventSound

LEMMA QueuedKey ==
  ASSUME RunInv, NEW h \in Handlers, NEW e \in Queue(h), e.state # ""
  PROVE  e \in Events /\ e.key \in Keys /\ Known(e.key) /\ e.state \in CommandState
<1>1. e \in Events
  BY DEF Events
<1>2. PICK i \in 1..Len(at[h].todo) : e = at[h].todo[i]
  BY DEF Queue
<1>3. at[h].todo \in Seq(EventType)
  BY LedgerNow, HandlerTyped
<1>4. e \in EventType
  BY <1>2, <1>3, LenProperties
<1> QED
  BY <1>1, <1>4, LedgerNow DEF EventSound, EventType

(* After is the order of the states in time.                               *)
LEMMA AfterOn ==
  ASSUME NEW r \in CommandState \cup {"absent"}, NEW s, NEW t, s \in After(r), t \in After(s)
  PROVE  t \in After(r)
<1>1. CASE r \in {"absent", "requested"}
  <2>1. After(r) = CommandState \cup {r}
    BY <1>1 DEF After, CommandState, Terminal
  <2>2. s \in CommandState \cup {"absent"}
    BY <1>1, <2>1 DEF CommandState
  <2>3. s # r => t \in CommandState
    BY <1>1, <2>1, <2>2 DEF After, CommandState, Terminal
  <2> QED
    BY <2>1, <2>3
<1>2. CASE r \in {"acknowledged", "polling"}
  <2>1. After(r) = CommandState \ {"requested"}
    BY <1>2 DEF After, CommandState, Terminal
  <2> QED
    BY <2>1 DEF After, CommandState, Terminal
<1>3. CASE r \in CommandState \ {"requested", "acknowledged", "polling"}
  BY <1>3 DEF After, CommandState, Terminal
<1> QED
  BY <1>1, <1>2, <1>3

LEMMA AfterMoves ==
  /\ \A s \in CommandState \cup {"absent"} : s \in After(s)
  /\ \A s, t : <<s, t>> \in Moves => t \in After(s)
  /\ "requested" \in After("absent")
  /\ \A s \in {"completed", "failed", "cancelled"} : After(s) = {s}
<1>1. \A s \in CommandState \cup {"absent"} : s \in After(s)
  BY DEF After, CommandState, Terminal
<1>2. \A s, t : <<s, t>> \in Moves => t \in After(s)
  BY DEF After, CommandState, Terminal, Moves
<1>3. After("absent") = CommandState \cup {"absent"}
  BY DEF After, CommandState, Terminal
<1>4. \A s \in {"completed", "failed", "cancelled"} : After(s) = {s}
  BY DEF After, Terminal
<1> QED
  BY <1>1, <1>2, <1>3, <1>4 DEF CommandState

(* A command of the ledger, in its present and in its next state.          *)
LEMMA StatesTyped ==
  ASSUME TypeOK, TypeOK', NEW k \in Keys
  PROVE  /\ commands[k].state \in CommandState \cup {"absent"}
         /\ commands'[k].state \in CommandState \cup {"absent"}
         /\ Saved[k].state \in CommandState \cup {"absent"}
<1>1. commands[k] \in Command /\ commands'[k] \in Command /\ Saved[k] \in Command
  BY SavedFromLog DEF TypeOK
<1> QED
  BY <1>1 DEF Command

(* What an event that handler h brings says of the ledger.                 *)
Brings(h, e) ==
  /\ e.key \in Keys /\ e.state \notin Unlogged /\ e.state = commands'[e.key].state
  /\ e.state = "requested" => Owns(h)' /\ at'[h].cmd.key = e.key
  /\ e.state = "acknowledged" => commands[e.key].state = "requested"
  /\ e.state = "outcome_unknown" => At(h) = "doubt" /\ at[h].cmd.key = e.key

(* A step of handler h that neither appends nor restarts.                  *)
Trails(h) ==
  /\ Moved(h) /\ at[h].pc # "append" /\ UNCHANGED <<log, fatal>>
  /\ \A k \in Keys : commands'[k].state \in After(commands[k].state)
  /\ \A k \in Keys : commands'[k].state = "reconciled" =>
       commands[k].state = "reconciled" \/ \E e \in Queue(h)' : Resolution(e, k)
  /\ At(h)' = "doubt" =>
       Queue(h)' = {} /\ at'[h].cmd.key \in Keys /\ commands[at'[h].cmd.key].state = "requested"
  /\ \A e \in Queue(h)' : e.state # "" => Brings(h, e)

LEMMA TrailNow ==
  ASSUME TrailInv
  PROVE  /\ \A h \in Handlers : QueueTrails(h)
         /\ \A i \in 1..Len(log) : log[i].state \notin Unlogged /\ DoubtTrails(i)
         /\ \A k \in Keys : Settled(k) /\ SavedTrails(k)
  BY DEF TrailInv

(* A command in doubt was requested and is not any more.                   *)
LEMMA DoubtClosed ==
  ASSUME RunInv, EndInv, NEW g \in Handlers, At(g) = "doubt"
  PROVE  at[g].cmd.key \in Keys /\ commands[at[g].cmd.key].state \notin {"absent", "requested"}
<1>1. HandSound(g) /\ HandClosed(g)
  BY LedgerNow DEF EndInv
<1>2. at[g].cmd.key \in Keys /\ ~Owns(g)
  BY <1>1 DEF HandSound, Owns, OwnerPlaces
<1> QED
  BY <1>1, <1>2 DEF HandClosed

(* What the other handlers have queued still trails the ledger.            *)
LEMMA OthersTrail ==
  ASSUME RunInv, EndInv, TypeOK', TrailInv, NEW h \in Handlers, Trails(h),
         NEW g \in Handlers, g # h
  PROVE  QueueTrails(g)'
<1> SUFFICES ASSUME NEW e \in Queue(g)', e.state # ""
             PROVE  /\ e.state \notin Unlogged /\ commands'[e.key].state \in After(e.state)
                    /\ e.state = "requested" => Owns(g)' /\ at'[g].cmd.key = e.key
                    /\ e.state = "acknowledged" =>
                         /\ \A f \in Events' : f.key = e.key => f.state # "outcome_unknown"
                         /\ \A d \in Handlers : At(d)' = "doubt" => at'[d].cmd.key # e.key
  BY DEF QueueTrails
<1>0. Moved(h) /\ log' = log
  BY DEF Trails
<1>1. at'[g] = at[g] /\ Queue(g)' = Queue(g) /\ At(g)' = At(g)
  BY <1>0 DEF Moved, Queue, At
<1>2. e \in Queue(g) /\ e.key \in Keys /\ e.state \in CommandState
  BY <1>1, QueuedKey
<1>3. /\ e.state \notin Unlogged /\ commands[e.key].state \in After(e.state)
      /\ e.state = "requested" => Owns(g) /\ at[g].cmd.key = e.key
      /\ e.state = "acknowledged" =>
           /\ \A f \in Events : f.key = e.key => f.state # "outcome_unknown"
           /\ \A d \in Handlers : At(d) = "doubt" => at[d].cmd.key # e.key
  BY <1>2, TrailNow DEF QueueTrails
<1>4. commands'[e.key].state \in After(e.state)
  <2> PICK r, s, t : r = e.state /\ s = commands[e.key].state /\ t = commands'[e.key].state
    OBVIOUS
  <2>1. t \in After(s) /\ s \in After(r) /\ r \in CommandState
    BY <1>2, <1>3 DEF Trails
  <2>2. t \in After(r)
    BY <2>1, AfterOn
  <2> QED
    BY <2>2
<1>5. ASSUME e.state = "acknowledged", NEW f \in Events', f.key = e.key, f.state = "outcome_unknown"
      PROVE  FALSE
  <2>1. f \in Events \/ f \in Queue(h)'
    BY <1>0, EventsFrom
  <2>2. f \in Queue(h)' => At(h) = "doubt" /\ at[h].cmd.key = f.key
    BY <1>5 DEF Trails, Brings
  <2> QED
    BY <1>3, <1>5, <2>1, <2>2
<1>6. ASSUME e.state = "acknowledged", NEW d \in Handlers, At(d)' = "doubt", at'[d].cmd.key = e.key
      PROVE  FALSE
  <2>1. CASE d = h
    <3>1. commands[e.key].state = "requested"
      BY <1>6, <2>1 DEF Trails
    <3>2. "requested" \notin After("acknowledged")
      BY DEF After, CommandState, Terminal
    <3> QED
      BY <1>3, <1>6, <3>1, <3>2
  <2>2. CASE d # h
    <3>1. at'[d] = at[d]
      BY <1>0, <2>2 DEF Moved
    <3>2. At(d) = "doubt" /\ at[d].cmd.key = e.key
      BY <1>6, <3>1 DEF At
    <3> QED
      BY <1>3, <1>6, <3>2
  <2> QED
    BY <2>1, <2>2
<1>7. Owns(g)' <=> Owns(g)
  BY <1>1 DEF Owns
<1> QED
  BY <1>1, <1>3, <1>4, <1>5, <1>6, <1>7

(* And so does what handler h brings.                                      *)
LEMMA OwnTrails ==
  ASSUME RunInv, EndInv, TypeOK', TrailInv, NEW h \in Handlers, Trails(h)
  PROVE  QueueTrails(h)'
<1> SUFFICES ASSUME NEW e \in Queue(h)', e.state # ""
             PROVE  /\ e.state \notin Unlogged /\ commands'[e.key].state \in After(e.state)
                    /\ e.state = "requested" => Owns(h)' /\ at'[h].cmd.key = e.key
                    /\ e.state = "acknowledged" =>
                         /\ \A f \in Events' : f.key = e.key => f.state # "outcome_unknown"
                         /\ \A d \in Handlers : At(d)' = "doubt" => at'[d].cmd.key # e.key
  BY DEF QueueTrails
<1>0. Moved(h) /\ log' = log /\ Queue(h) = {}
  BY EmptyNow DEF Trails
<1>1. Brings(h, e)
  BY DEF Trails
<1>2. e.key \in Keys /\ e.state \notin Unlogged /\ e.state = commands'[e.key].state
  BY <1>1 DEF Brings
<1>3. commands'[e.key].state \in After(e.state)
  BY <1>2, AfterMoves, LedgerNow, StatesTyped
<1>4. "requested" \notin After("outcome_unknown")
  BY DEF After, CommandState, Terminal
<1>5. ASSUME e.state = "acknowledged", NEW f \in Events', f.key = e.key, f.state = "outcome_unknown"
      PROVE  FALSE
  <2>0. commands[e.key].state = "requested"
    BY <1>1, <1>5 DEF Brings
  <2>1. f \in Events \/ f \in Queue(h)'
    BY <1>0, EventsFrom
  <2>2. CASE f \in LogEvents
    <3>1. PICK i \in 1..Len(log) : f = log[i]
      BY <2>2 DEF LogEvents
    <3>2. DoubtTrails(i)
      BY TrailNow
    <3> QED
      BY <1>5, <2>0, <3>1, <3>2 DEF DoubtTrails
  <2>3. ASSUME NEW g \in Handlers, f \in Queue(g)
        PROVE  FALSE
    <3>1. QueueTrails(g)
      BY TrailNow
    <3>2. commands[f.key].state \in After(f.state)
      BY <1>5, <2>3, <3>1 DEF QueueTrails
    <3> QED
      BY <1>4, <1>5, <2>0, <3>2
  <2>4. CASE f \in Queue(h)'
    <3>1. f.state = commands'[f.key].state
      BY <1>5, <2>4 DEF Trails, Brings
    <3> QED
      BY <1>2, <1>5, <3>1
  <2> QED
    BY <2>1, <2>2, <2>3, <2>4 DEF Events
<1>6. ASSUME e.state = "acknowledged", NEW d \in Handlers, At(d)' = "doubt", at'[d].cmd.key = e.key
      PROVE  FALSE
  <2>0. commands[e.key].state = "requested"
    BY <1>1, <1>6 DEF Brings
  <2>1. d # h
    BY <1>6 DEF Trails
  <2>2. at'[d] = at[d]
    BY <1>0, <2>1 DEF Moved
  <2>3. At(d) = "doubt" /\ at[d].cmd.key = e.key
    BY <1>6, <2>2 DEF At
  <2> QED
    BY <2>0, <2>3, DoubtClosed
<1> QED
  BY <1>1, <1>2, <1>3, <1>5, <1>6 DEF Brings

(* The resolution of a command stays on record, or on its way there.       *)
LEMMA ResolvedQueue ==
  ASSUME NEW k
  PROVE  /\ Resolved(k) <=> \/ \E i \in 1..Len(log) : Resolution(log[i], k)
                            \/ \E h \in Handlers : \E e \in Queue(h) : Resolution(e, k)
         /\ Resolved(k)' <=> \/ \E i \in 1..Len(log') : Resolution(log'[i], k)
                             \/ \E h \in Handlers : \E e \in Queue(h)' : Resolution(e, k)
<1>1. \A h : (\E i \in 1..Len(at[h].todo) : Resolution(at[h].todo[i], k))
               <=> \E e \in Queue(h) : Resolution(e, k)
  BY DEF Queue
<1>2. \A h : (\E i \in 1..Len(at'[h].todo) : Resolution(at'[h].todo[i], k))
               <=> \E e \in Queue(h)' : Resolution(e, k)
  BY DEF Queue
<1> QED
  BY <1>1, <1>2 DEF Resolved, Resolution

LEMMA TrailFrame ==
  ASSUME RunInv, EndInv, TypeOK', TrailInv, NEW h \in Handlers, Trails(h)
  PROVE  TrailInv'
<1>0. Moved(h) /\ UNCHANGED <<log, fatal>> /\ Queue(h) = {} /\ TypeOK
  BY EmptyNow, LedgerNow DEF Trails
<1>1. \A g \in Handlers : QueueTrails(g)'
  BY OthersTrail, OwnTrails
<1>2. \A i \in 1..Len(log') : log'[i].state \notin Unlogged
  BY <1>0, TrailNow
<1>3. ASSUME NEW i \in 1..Len(log')
      PROVE  DoubtTrails(i)'
  <2> SUFFICES ASSUME log[i].state = "outcome_unknown"
               PROVE  /\ commands'[log[i].key].state \in {"outcome_unknown", "reconciled"}
                      /\ \A j \in (i + 1)..Len(log) :
                           log[j].key = log[i].key => log[j].state \in {"", "outcome_unknown"}
    BY <1>0 DEF DoubtTrails
  <2>1. i \in 1..Len(log) /\ DoubtTrails(i)
    BY <1>0, TrailNow
  <2> PICK k : k = log[i].key
    OBVIOUS
  <2>2. k \in Keys
    BY <2>1, LoggedKey
  <2>3. commands[k].state \in {"outcome_unknown", "reconciled"}
    BY <2>1 DEF DoubtTrails
  <2>4. commands'[k].state \in After(commands[k].state)
    BY <2>2 DEF Trails
  <2>5. commands'[k].state \in {"outcome_unknown", "reconciled"}
    BY <2>3, <2>4 DEF After, CommandState, Terminal
  <2> QED
    BY <2>1, <2>5 DEF DoubtTrails
<1>4. ASSUME NEW k \in Keys
      PROVE  Settled(k)'
  <2> SUFFICES ASSUME commands'[k].state = "reconciled"
               PROVE  fatal \/ Resolved(k)'
    BY <1>0 DEF Settled
  <2>1. CASE \E e \in Queue(h)' : Resolution(e, k)
    BY <2>1, ResolvedQueue
  <2>2. CASE commands[k].state = "reconciled"
    <3>1. fatal \/ Resolved(k)
      BY <2>2, TrailNow DEF Settled
    <3>2. \A g \in Handlers : g # h => Queue(g)' = Queue(g)
      BY <1>0 DEF Moved, Queue
    <3> QED
      BY <1>0, <3>1, <3>2, ResolvedQueue
  <2> QED
    BY <2>1, <2>2 DEF Trails
<1>5. ASSUME NEW k \in Keys
      PROVE  SavedTrails(k)'
  <2>1. Saved' = Saved /\ SavedTrails(k)
    BY <1>0, SameSaved, TrailNow
  <2>2. commands'[k].state \in After(commands[k].state) /\ Saved[k].state \in CommandState \cup {"absent"}
    BY <1>0, StatesTyped DEF Trails
  <2> QED
    BY <2>1, <2>2, AfterOn DEF SavedTrails
<1> QED
  BY <1>1, <1>2, <1>3, <1>4, <1>5 DEF TrailInv

-----------------------------------------------------------------------------
(* Steps that leave the commands alone.                                    *)

Calm(h) == Moved(h) /\ at[h].pc # "append" /\ UNCHANGED <<commands, log, fatal>>

LEMMA CalmTrails ==
  ASSUME RunInv, TypeOK', NEW h \in Handlers, Calm(h),
         \A e \in Queue(h)' : e.state = "", At(h)' # "doubt"
  PROVE  Trails(h)
<1>1. \A k \in Keys : commands'[k].state \in After(commands[k].state)
  BY LedgerNow, StatesTyped, AfterMoves DEF Calm
<1> QED
  BY <1>1 DEF Trails, Calm

LEMMA LoopTrails ==
  ASSUME RunInv, TypeOK', NEW h \in Handlers, Calm(h), NEW op, NEW snap,
         NEW rest, rest \subseteq Tasks, LeavesLoop(op, at'[h]) \/ Visits(op, snap, rest, at'[h])
  PROVE  Trails(h)
<1>1. At(h)' \in {"done", "finish", "pending", "guard"} /\ \A e \in Queue(h)' : Plain(e)
  BY LeavesQueue, VisitsQueue
<1> QED
  BY <1>1, CalmTrails DEF Plain

LEMMA IdlesTrails ==
  ASSUME RunInv, TypeOK', NEW h \in Handlers, Calm(h), Idles(h)
  PROVE  Trails(h)
  BY IdlesQueue, CalmTrails

LEMMA GoesTrails ==
  ASSUME RunInv, TypeOK', NEW h \in Handlers, Calm(h), NEW pc \in Places \ {"append", "doubt"},
         NEW op, NEW cmd, NEW token, NEW rest, NEW snap, NEW then,
         Becomes(h, <<pc, op, cmd, token, rest, snap, <<>>, then>>)
  PROVE  Trails(h)
<1>1. at'[h].pc = pc /\ at'[h].todo = <<>>
  BY DEF Becomes, Fields
<1>2. At(h)' = pc /\ Queue(h)' = {}
  BY <1>1, EmptyQueue DEF At
<1> QED
  BY <1>2, CalmTrails

LEMMA EmitsTrails ==
  ASSUME RunInv, TypeOK', NEW h \in Handlers, Calm(h), NEW pc, pc # "doubt", NEW op,
         NEW cmd, NEW token, NEW rest, NEW snap, NEW events,
         Becomes(h, <<"append", op, cmd, token, rest, snap, events, pc>>),
         \A i \in 1..Len(events) : events[i].state = ""
  PROVE  Trails(h)
<1>1. at'[h].pc = "append" /\ at'[h].then = pc /\ at'[h].todo = events
  BY DEF Becomes, Fields
<1>2. At(h)' = pc /\ \A e \in Queue(h)' : e.state = ""
  BY <1>1 DEF At, Queue
<1> QED
  BY <1>2, CalmTrails

LEMMA EmitsOneTrails ==
  ASSUME RunInv, TypeOK', NEW h \in Handlers, Calm(h), NEW pc, pc # "doubt", NEW op,
         NEW cmd, NEW token, NEW rest, NEW snap, NEW e, e.state = "",
         Becomes(h, <<"append", op, cmd, token, rest, snap, <<e>>, pc>>)
  PROVE  Trails(h)
<1>1. at'[h].pc = "append" /\ at'[h].then = pc /\ at'[h].todo = <<e>>
  BY DEF Becomes, Fields
<1>2. At(h)' = pc /\ Queue(h)' = {e}
  BY <1>1, SingleQueue DEF At
<1> QED
  BY <1>2, CalmTrails

-----------------------------------------------------------------------------
(* Steps that move one command.                                            *)

LEMMA ReturnedEvent ==
  ASSUME RunInv, NEW k \in Keys, NEW to \in CommandState, TryTransition(k, to), NEW e,
         \E type : e = CommandEvent(type, Returned(k, to))
  PROVE  IF TransitionAllowed(k, to)
         THEN e.key = k /\ e.state = to /\ commands'[k].state = to
         ELSE e.state = ""
<1> PICK c : c = Returned(k, to)
  OBVIOUS
<1>1. e.key = c.key /\ e.state = c.state
  BY CommandEventFields
<1>2. CASE TransitionAllowed(k, to)
  <2>1. c = [key |-> k, task |-> commands'[k].task, state |-> to, fence |-> commands'[k].fence]
    BY <1>2, RunFits, TryEffect
  <2>2. commands'[k].state = to
    BY <1>2, RunFits, TryEffect
  <2>3. c.key = k /\ c.state = to
    BY <2>1, CmdFields
  <2> QED
    BY <1>1, <1>2, <2>2, <2>3
<1>3. CASE ~TransitionAllowed(k, to)
  BY <1>1, <1>3, RunFits, TryEffect, NoCmdFields
<1> QED
  BY <1>2, <1>3

(* Handler h brings the event of a move that it may make: it acknowledges  *)
(* what was requested, and doubts what it has in hand.                     *)
Warranted(h, k, to) ==
  /\ to \notin Unlogged \cup {"requested"}
  /\ to = "acknowledged" => commands[k].state = "requested"
  /\ to = "outcome_unknown" => At(h) = "doubt" /\ at[h].cmd.key = k

LEMMA TryTrails ==
  ASSUME RunInv, TypeOK', NEW h \in Handlers, Moved(h), at[h].pc # "append",
         UNCHANGED <<log, fatal>>, NEW k \in Keys, NEW to \in CommandState, TryTransition(k, to),
         TransitionAllowed(k, to) /\ to = "reconciled" => \E e \in Queue(h)' : Resolution(e, k),
         At(h)' = "doubt" =>
           Queue(h)' = {} /\ at'[h].cmd.key = k /\ commands[k].state = "requested",
         \A e \in Queue(h)' : \/ e.state = ""
                              \/ /\ Warranted(h, k, to) \/ ~TransitionAllowed(k, to)
                                 /\ \E type : e = CommandEvent(type, Returned(k, to))
  PROVE  Trails(h)
<1>1. OnlyState(k) /\ IF TransitionAllowed(k, to) THEN commands'[k].state = to ELSE commands' = commands
  BY RunFits, TryEffect DEF controlVars
<1>2. ASSUME NEW j \in Keys
      PROVE  commands'[j].state \in After(commands[j].state)
  <2>1. CASE j = k /\ TransitionAllowed(k, to)
    BY <1>1, <2>1, AfterMoves DEF TransitionAllowed
  <2>2. CASE commands'[j] = commands[j]
    BY <2>2, LedgerNow, StatesTyped, AfterMoves
  <2> QED
    BY <1>1, <2>1, <2>2 DEF OnlyState
<1>3. ASSUME NEW j \in Keys, commands'[j].state = "reconciled", commands[j].state # "reconciled"
      PROVE  \E e \in Queue(h)' : Resolution(e, j)
  <2>1. j = k /\ TransitionAllowed(k, to) /\ to = "reconciled"
    BY <1>1, <1>3 DEF OnlyState
  <2> QED
    BY <2>1
<1>4. ASSUME NEW e \in Queue(h)', e.state # ""
      PROVE  Brings(h, e)
  <2>1. \E type : e = CommandEvent(type, Returned(k, to))
    BY <1>4
  <2>2. TransitionAllowed(k, to) /\ e.key = k /\ e.state = to /\ commands'[k].state = to
    BY <1>4, <2>1, ReturnedEvent
  <2>3. Warranted(h, k, to)
    BY <1>4, <2>2
  <2> QED
    BY <2>2, <2>3 DEF Brings, Warranted
<1> QED
  BY <1>2, <1>3, <1>4 DEF Trails

LEMMA ReportsTrails ==
  ASSUME RunInv, TypeOK', NEW h \in Handlers, Stay, at[h].pc # "append",
         NEW cmd, NEW to \in CommandState, NEW type, NEW then \in Places \ {"doubt", "append"},
         ReportsMove(h, cmd, to, type, then), Warranted(h, at[h].cmd.key, to)
  PROVE  Trails(h)
<1> PICK k : k = at[h].cmd.key
  OBVIOUS
<1>1. k \in Keys /\ TryTransition(k, to)
  BY DEF ReportsMove
<1>2. Moved(h) /\ At(h)' = then
  BY ReportsMoveFields
<1>3. \A e \in Queue(h)' : e.state = "" \/ \E ty : e = CommandEvent(ty, Returned(k, to))
  BY ReportsQueue
<1>4. UNCHANGED <<log, fatal>> /\ to # "reconciled"
  BY DEF Stay, Warranted, Unlogged
<1> QED
  BY <1>1, <1>2, <1>3, <1>4, TryTrails

(* A report and one more event, about no command.                          *)
LEMMA PairTrails ==
  ASSUME RunInv, TypeOK', NEW h \in Handlers, Stay, at[h].pc # "append",
         NEW k \in Keys, NEW cmd, NEW to \in CommandState, TryTransition(k, to), Warranted(h, k, to),
         NEW type, NEW e, e = CommandEvent(type, Returned(k, to)), NEW f, f.state = "",
         NEW then \in Places \ {"doubt", "append"}, Queues(h, cmd, <<e, f>>, then)
  PROVE  Trails(h)
<1>1. /\ Moved(h) /\ at'[h].pc = "append" /\ at'[h].then = then /\ at'[h].todo = <<e, f>>
  BY DEF Queues, Becomes, Fields
<1>2. At(h)' = then /\ Queue(h)' = {e, f}
  BY <1>1, PairQueue DEF At
<1>3. UNCHANGED <<log, fatal>> /\ to # "reconciled"
  BY DEF Stay, Warranted, Unlogged
<1> QED
  BY <1>1, <1>2, <1>3, TryTrails

LEMMA CreateTrails ==
  ASSUME RunInv, TypeOK', NEW h \in Handlers, Stay, at[h].pc # "append",
         NEW k \in Keys, NEW t \in TaskIDs, NEW f \in Nat, RequestOnce(k, t, f),
         NEW cmd, cmd = [key |-> k, task |-> t, state |-> "requested", fence |-> f], Takes(h, cmd)
  PROVE  Trails(h)
<1>1. /\ ~Known(k) /\ \A j \in Keys \ {k} : commands'[j] = commands[j]
      /\ commands'[k].state = "requested"
  BY RunFits, RequestEffect
<1>2. ASSUME NEW j \in Keys
      PROVE  commands'[j].state \in After(commands[j].state)
  <2>1. CASE j = k
    BY <1>1, <2>1, AfterMoves DEF Known
  <2>2. CASE j # k
    BY <1>1, <2>2, LedgerNow, StatesTyped, AfterMoves
  <2> QED
    BY <2>1, <2>2
<1>3. \A j \in Keys : commands'[j].state = "reconciled" => commands[j].state = "reconciled"
  BY <1>1
<1>4. \A e \in Queue(h)' : e.key = k /\ e.state = "requested"
  BY TakesQueue
<1>5. At(h)' \in OwnerPlaces /\ at'[h].cmd.key = k /\ Moved(h)
  <2>1. At(h)' \in {"rotate", "stop", "call", "retryAck"} /\ at'[h].cmd = cmd /\ Moved(h)
    BY DEF Takes, At
  <2> QED
    BY <2>1, CmdFields DEF OwnerPlaces
<1>6. \A e \in Queue(h)' : Brings(h, e)
  BY <1>1, <1>4, <1>5 DEF Brings, Unlogged, Owns
<1>7. At(h)' # "doubt" /\ UNCHANGED <<log, fatal>>
  BY <1>5 DEF OwnerPlaces, Stay
<1> QED
  BY <1>2, <1>3, <1>5, <1>6, <1>7 DEF Trails

-----------------------------------------------------------------------------
(* Every step of a handler that does not append leaves them behind.        *)

LEMMA LoopStepsTrails ==
  ASSUME RunInv, TypeOK', NEW h \in Handlers, Schedule(h) \/ AskApproval(h) \/ LookUp(h)
  PROVE  Trails(h)
<1> PICK a : a = at[h]
  OBVIOUS
<1>1. Calm(h) /\ a.rest \subseteq Tasks
  <2>1. UNCHANGED controlVars /\ Stay /\ a.pc \in {"schedule", "guard"} /\ Moved(h)
    BY RunFits, ScheduleEffect, AskEffect, LookUpEffect
  <2> QED
    BY <2>1, LedgerNow, HandlerTyped DEF Calm, Stay, controlVars
<1>2. CASE Schedule(h)
  <2>1. {t \in Tasks : Defined /\ Ready(t)} \subseteq Tasks
    OBVIOUS
  <2> QED
    BY <1>1, <1>2, <2>1, RunFits, ScheduleEffect, LoopTrails
<1>3. CASE AskApproval(h)
  <2>1. \/ LeavesLoop(a.op, at'[h])
        \/ \E e : /\ e = Event("approval.requested", First(a.rest))
                  /\ Fields(at'[h]) = <<"append", a.op, a.cmd, a.token, a.rest, a.snap, <<e>>, "scheduled">>
    BY <1>3, RunFits, AskEffect
  <2>2. CASE LeavesLoop(a.op, at'[h])
    BY <1>1, <2>2, LoopTrails
  <2>3. ASSUME NEW e, e = Event("approval.requested", First(a.rest)),
               Fields(at'[h]) = <<"append", a.op, a.cmd, a.token, a.rest, a.snap, <<e>>, "scheduled">>
        PROVE  Trails(h)
    <3>1. e.state = ""
      BY <2>3, BlankEvent
    <3>2. Becomes(h, <<"append", a.op, a.cmd, a.token, a.rest, a.snap, <<e>>, "scheduled">>)
      BY <1>1, <2>3 DEF Becomes, Calm
    <3> QED
      BY <1>1, <3>1, <3>2, EmitsOneTrails
  <2> QED
    BY <2>1, <2>2, <2>3
<1>4. CASE LookUp(h)
  <2>1. /\ a.pc = "guard"
        /\ \/ LeavesLoop(a.op, at'[h])
           \/ Visits(a.op, a.snap, a.rest \ {First(a.rest)}, at'[h])
           \/ Fields(at'[h]) = <<"request", a.op, a.cmd, a.token, a.rest, a.snap, a.todo, a.then>>
    BY <1>4, RunFits, LookUpEffect
  <2>2. a.rest \ {First(a.rest)} \subseteq Tasks
    BY <1>1
  <2>3. CASE Fields(at'[h]) = <<"request", a.op, a.cmd, a.token, a.rest, a.snap, a.todo, a.then>>
    <3>1. a.todo = <<>>
      BY <2>1, PlaceNow
    <3>2. Becomes(h, <<"request", a.op, a.cmd, a.token, a.rest, a.snap, <<>>, a.then>>)
      BY <1>1, <2>3, <3>1 DEF Becomes, Calm
    <3>3. "request" \in Places \ {"append", "doubt"}
      BY DEF Places
    <3> QED
      BY <1>1, <3>2, <3>3, GoesTrails
  <2> QED
    BY <1>1, <2>1, <2>2, <2>3, LoopTrails
<1> QED
  BY <1>2, <1>3, <1>4

LEMMA RequestDispatchTrails ==
  ASSUME RunInv, TypeOK', NEW h \in Handlers, RequestDispatch(h)
  PROVE  Trails(h)
<1> PICK a : a = at[h]
  OBVIOUS
<1> PICK t : t = First(a.rest)
  OBVIOUS
<1> PICK k : k = DispatchKey(t)
  OBVIOUS
<1> PICK cmd : cmd = [key |-> k, task |-> t, state |-> "requested", fence |-> 0]
  OBVIOUS
<1>1. /\ a.pc = "request" /\ Moved(h) /\ Stay /\ t \in TaskIDs /\ k \in Keys /\ a.rest # {}
      /\ \/ UNCHANGED controlVars /\ LeavesLoop(a.op, at'[h])
         \/ UNCHANGED controlVars /\ Visits(a.op, a.snap, a.rest \ {t}, at'[h])
         \/ /\ RequestOnce(k, t, 0)
            /\ Fields(at'[h]) = <<"rotate", a.op, cmd, a.token, a.rest, a.snap, a.todo, a.then>>
  BY RunFits, RequestDispatchEffect
<1>2. a.rest \ {t} \subseteq Tasks /\ a.todo = <<>>
  BY <1>1, LedgerNow, HandlerTyped, PlaceNow
<1>3. CASE UNCHANGED controlVars
  <2>1. Calm(h)
    BY <1>1, <1>3 DEF Calm, Stay, controlVars
  <2>2. ~RequestOnce(k, t, 0)
    BY <1>1, <1>3, RunFits, RequestEffect DEF Known, controlVars
  <2> QED
    BY <1>1, <1>2, <2>1, <2>2, LoopTrails
<1>4. CASE /\ RequestOnce(k, t, 0)
           /\ Fields(at'[h]) = <<"rotate", a.op, cmd, a.token, a.rest, a.snap, a.todo, a.then>>
  <2>1. Becomes(h, <<"rotate", at[h].op, cmd, at[h].token, at[h].rest, at[h].snap, <<>>, a.then>>)
    BY <1>1, <1>2, <1>4 DEF Becomes
  <2>2. Takes(h, cmd)
    BY <2>1, GoesTakes
  <2> QED
    BY <1>1, <1>4, <2>2, CreateTrails
<1> QED
  BY <1>1, <1>3, <1>4

LEMMA OwnerReportsTrails ==
  ASSUME RunInv, TypeOK', NEW h \in Handlers, Accepted(h) \/ Refused(h) \/ RetryAck(h)
  PROVE  Trails(h)
<1>1. /\ "acknowledged" \in CommandState \ Unlogged /\ "failed" \in CommandState \ Unlogged
      /\ {"advance", "retryRequest", "done"} \subseteq Places \ {"doubt", "append"}
  BY DEF CommandState, Unlogged, Places
<1>2. /\ Stay /\ at[h].pc \in {"accepted", "refused", "retryAck"}
      /\ \E cmd : \E to \in {"acknowledged", "failed"} : \E type :
           \E then \in {"advance", "retryRequest", "done"} : ReportsMove(h, cmd, to, type, then)
  BY LedgerNow, RunFits, AcceptedEffect, RefusedEffect, RetryAckEffect
<1>3. PICK cmd : \E to \in {"acknowledged", "failed"} : \E type :
        \E then \in {"advance", "retryRequest", "done"} : ReportsMove(h, cmd, to, type, then)
  BY <1>2
<1>4. PICK to \in {"acknowledged", "failed"} : \E type :
        \E then \in {"advance", "retryRequest", "done"} : ReportsMove(h, cmd, to, type, then)
  BY <1>3
<1>5. PICK type : \E then \in {"advance", "retryRequest", "done"} : ReportsMove(h, cmd, to, type, then)
  BY <1>4
<1>6. PICK then \in {"advance", "retryRequest", "done"} : ReportsMove(h, cmd, to, type, then)
  BY <1>5
<1>7. Warranted(h, at[h].cmd.key, to)
  <2>1. at[h].pc \in OwnerPlaces
    BY <1>2 DEF OwnerPlaces
  <2>2. commands[at[h].cmd.key].state = "requested"
    BY <2>1, OwnedHand
  <2> QED
    BY <2>2 DEF Warranted, Unlogged
<1> QED
  BY <1>1, <1>2, <1>6, <1>7, ReportsTrails

LEMMA DoubtStepTrails ==
  ASSUME RunInv, TypeOK', NEW h \in Handlers, Doubt(h)
  PROVE  Trails(h)
<1>1. /\ "outcome_unknown" \in CommandState \ Unlogged
      /\ {"advance", "done"} \subseteq Places \ {"doubt", "append"}
  BY DEF CommandState, Unlogged, Places
<1>2. /\ Stay /\ at[h].pc = "doubt"
      /\ \E cmd, type : \E then \in {"advance", "done"} :
           ReportsMove(h, cmd, "outcome_unknown", type, then)
  BY LedgerNow, RunFits, DoubtEffect
<1>3. PICK cmd, type : \E then \in {"advance", "done"} :
        ReportsMove(h, cmd, "outcome_unknown", type, then)
  BY <1>2
<1>4. PICK then \in {"advance", "done"} : ReportsMove(h, cmd, "outcome_unknown", type, then)
  BY <1>3
<1>5. Warranted(h, at[h].cmd.key, "outcome_unknown")
  BY <1>1, <1>2 DEF Warranted, At, Unlogged
<1> QED
  BY <1>1, <1>2, <1>4, <1>5, ReportsTrails

LEMMA ResultEndsTrails ==
  ASSUME RunInv, TypeOK', NEW h \in Handlers, ResultFailed(h) \/ ResultCancelled(h)
  PROVE  Trails(h)
<1>1. /\ {"failed", "cancelled"} \subseteq CommandState \ Unlogged
      /\ "done" \in Places \ {"doubt", "append"}
  BY DEF CommandState, Unlogged, Places
<1>2. /\ Stay /\ at[h].pc = "poll"
      /\ \E type : \E to \in {"failed", "cancelled"} : ReportsMove(h, NoCmd, to, type, "done")
  BY LedgerNow, RunFits, ResultEndsEffect
<1>3. PICK type : \E to \in {"failed", "cancelled"} : ReportsMove(h, NoCmd, to, type, "done")
  BY <1>2
<1>4. PICK to \in {"failed", "cancelled"} : ReportsMove(h, NoCmd, to, type, "done")
  BY <1>3
<1>5. Warranted(h, at[h].cmd.key, to)
  BY DEF Warranted, Unlogged
<1> QED
  BY <1>1, <1>2, <1>4, <1>5, ReportsTrails

LEMMA PairsTrails ==
  ASSUME RunInv, TypeOK', NEW h \in Handlers, StopAck(h) \/ ResultCompleted(h)
  PROVE  Trails(h)
<1> PICK k : k = at[h].cmd.key
  OBVIOUS
<1>1. /\ {"acknowledged", "completed"} \subseteq CommandState \ Unlogged
      /\ {"schedule", "done"} \subseteq Places \ {"doubt", "append"}
  BY DEF CommandState, Unlogged, Places
<1>2. CASE StopAck(h)
  <2> PICK f : f = RunEvent("dispatch.emergency_stopped")
    OBVIOUS
  <2> PICK e : e = CommandEvent("control.acknowledged", Returned(k, "acknowledged"))
    OBVIOUS
  <2>1. /\ at[h].pc = "stopAck" /\ k \in Keys /\ TryTransition(k, "acknowledged") /\ Stay
        /\ Queues(h, at[h].cmd, <<e, f>>, "done")
    BY <1>2, RunFits, StopAckEffect
  <2>2. f.state = ""
    BY BlankEvent DEF RunEvent
  <2>3. Warranted(h, k, "acknowledged")
    <3>1. at[h].pc \in OwnerPlaces
      BY <2>1 DEF OwnerPlaces
    <3>2. commands[k].state = "requested"
      BY <3>1, OwnedHand
    <3> QED
      BY <3>2 DEF Warranted, Unlogged
  <2> QED
    BY <1>1, <2>1, <2>2, <2>3, PairTrails
<1>3. CASE ResultCompleted(h)
  <2> PICK f : f = Event("task.completed", at[h].op.task)
    OBVIOUS
  <2> PICK e : e = CommandEvent("command.completed", Returned(k, "completed"))
    OBVIOUS
  <2>1. /\ at[h].pc = "poll" /\ k \in Keys /\ TryTransition(k, "completed") /\ Stay
        /\ Queues(h, NoCmd, <<e, f>>, "schedule")
    BY <1>3, RunFits, ResultCompletedEffect
  <2>2. f.state = ""
    BY BlankEvent
  <2>3. Warranted(h, k, "completed")
    BY DEF Warranted, Unlogged
  <2> QED
    BY <1>1, <2>1, <2>2, <2>3, PairTrails
<1> QED
  BY <1>2, <1>3

LEMMA CalmStepTrails ==
  ASSUME RunInv, TypeOK', NEW h \in Handlers,
         CommitToken(h) \/ Stop(h) \/ CallNobody(h) \/ CallAdapter(h)
  PROVE  Trails(h)
<1> PICK a : a = at[h]
  OBVIOUS
<1>1. CASE CommitToken(h)
  <2>1. /\ a.pc = "commit" /\ UNCHANGED controlVars /\ Stay
        /\ \/ Idles(h)
           \/ Becomes(h, <<"controlRequest", a.op, a.cmd, a.token, a.rest, a.snap, a.todo, a.then>>)
    BY <1>1, RunFits, CommitTokenEffect
  <2>2. Calm(h)
    BY <2>1, IdlesQueue DEF Calm, Stay, controlVars, Becomes
  <2>3. CASE Becomes(h, <<"controlRequest", a.op, a.cmd, a.token, a.rest, a.snap, a.todo, a.then>>)
    <3>1. a.todo = <<>>
      BY <2>1, PlaceNow
    <3>2. "controlRequest" \in Places \ {"append", "doubt"}
      BY DEF Places
    <3> QED
      BY <2>2, <2>3, <3>1, <3>2, GoesTrails
  <2> QED
    BY <2>1, <2>2, <2>3, IdlesTrails
<1>2. CASE Stop(h)
  <2>1. /\ a.pc = "stop" /\ EmergencyStop /\ Stay
        /\ Becomes(h, <<"stopAck", a.op, a.cmd, a.token, a.rest, a.snap, a.todo, a.then>>)
    BY <1>2, RunFits, EmergencyStopEffect
  <2>2. Calm(h) /\ a.todo = <<>>
    BY <2>1, PlaceNow DEF Calm, Stay, EmergencyStop, Becomes
  <2>3. "stopAck" \in Places \ {"append", "doubt"}
    BY DEF Places
  <2> QED
    BY <2>1, <2>2, <2>3, GoesTrails
<1>3. CASE CallNobody(h)
  <2>1. a.pc = "call" /\ UNCHANGED controlVars /\ Stay /\ Idles(h)
    BY <1>3, RunFits, CallNobodyEffect DEF Idles
  <2>2. Calm(h)
    BY <2>1, IdlesQueue DEF Calm, Stay, controlVars
  <2> QED
    BY <2>1, <2>2, IdlesTrails
<1>4. CASE CallAdapter(h)
  <2>1. /\ a.pc = "call" /\ UNCHANGED <<commands, log, fatal>>
        /\ \E outcome \in {"accepted", "refused", "lost"} :
             Becomes(h, <<outcome, a.op, a.cmd, a.token, a.rest, a.snap, a.todo, a.then>>)
    BY <1>4, RunFits, CallAdapterEffect DEF controlVars
  <2>2. PICK outcome \in {"accepted", "refused", "lost"} :
             Becomes(h, <<outcome, a.op, a.cmd, a.token, a.rest, a.snap, a.todo, a.then>>)
    BY <2>1
  <2>3. Calm(h) /\ a.todo = <<>>
    BY <2>1, <2>2, PlaceNow DEF Calm, Becomes
  <2>4. outcome \in Places \ {"append", "doubt"}
    BY DEF Places
  <2> QED
    BY <2>2, <2>3, <2>4, GoesTrails
<1> QED
  BY <1>1, <1>2, <1>3, <1>4

LEMMA EndStepTrails ==
  ASSUME RunInv, TypeOK', NEW h \in Handlers, Finish(h) \/ ClaimDecision(h) \/ Pending(h)
  PROVE  Trails(h)
<1> PICK a : a = at[h]
  OBVIOUS
<1>1. "finish" \in Places \ {"append", "doubt"}
  BY DEF Places
<1>2. ASSUME Calm(h), NEW type, Queues(h, a.cmd, <<RunEvent(type)>>, "done")
      PROVE  Trails(h)
  <2> PICK e : e = RunEvent(type)
    OBVIOUS
  <2>1. e.state = ""
    BY BlankEvent DEF RunEvent
  <2>2. Becomes(h, <<"append", a.op, a.cmd, a.token, a.rest, a.snap, <<e>>, "done">>)
    BY <1>2 DEF Queues
  <2> QED
    BY <1>2, <2>1, <2>2, EmitsOneTrails
<1>3. CASE Finish(h)
  <2>1. /\ a.pc = "finish" /\ UNCHANGED controlVars /\ Stay
        /\ Idles(h) \/ Queues(h, a.cmd, <<RunEvent("dispatch.completed")>>, "done")
    BY <1>3, RunFits, FinishEffect
  <2>2. Calm(h)
    BY <2>1, IdlesQueue DEF Calm, Stay, controlVars, Queues, Becomes
  <2> QED
    BY <1>2, <2>1, <2>2, IdlesTrails
<1>4. CASE Pending(h)
  <2>1. /\ a.pc = "pending" /\ UNCHANGED controlVars /\ Stay
        /\ \/ Idles(h)
           \/ Becomes(h, <<"finish", a.op, a.cmd, a.token, a.rest, a.snap, a.todo, a.then>>)
           \/ Queues(h, a.cmd, <<RunEvent("dispatch.failed")>>, "done")
    BY <1>4, RunFits, PendingEffect
  <2>2. Calm(h) /\ a.todo = <<>>
    BY <2>1, IdlesQueue, PlaceNow DEF Calm, Stay, controlVars, Queues, Becomes
  <2> QED
    BY <1>1, <1>2, <2>1, <2>2, IdlesTrails, GoesTrails
<1>5. CASE ClaimDecision(h)
  <2>1. /\ a.pc = "claimDecision" /\ UNCHANGED <<controlVars, log, fatal>>
        /\ \/ Idles(h)
           \/ \E type \in Decision : \E events : \E then \in {"schedule", "done"} :
                /\ Reports(events, Event(type, a.op.task))
                /\ Queues(h, a.cmd, events, then)
    BY <1>5, RunFits, ClaimDecisionEffect
  <2>2. Calm(h)
    BY <2>1, IdlesQueue DEF Calm, controlVars, Queues, Becomes
  <2>3. CASE Idles(h)
    BY <2>2, <2>3, IdlesTrails
  <2>4. ASSUME NEW first, first.state = "", NEW events, NEW then \in {"schedule", "done"},
               Reports(events, first), Queues(h, a.cmd, events, then)
        PROVE  Trails(h)
    <3>1. ASSUME NEW i \in 1..Len(events)
          PROVE  events[i].state = ""
      <4>0. Len(events) \in Nat \ {0}
        BY <2>4 DEF Reports
      <4>1. i = 1 \/ i \in 2..Len(events)
        BY <4>0
      <4> QED
        BY <2>4, <4>1 DEF Reports, Plain
    <3>2. Becomes(h, <<"append", a.op, a.cmd, a.token, a.rest, a.snap, events, then>>)
      BY <2>4 DEF Queues
    <3> QED
      BY <2>2, <2>4, <3>1, <3>2, EmitsTrails
  <2> QED
    BY <2>1, <2>3, <2>4, BlankEvent
<1> QED
  BY <1>3, <1>4, <1>5

LEMMA RequestControlTrails ==
  ASSUME RunInv, TypeOK', NEW h \in Handlers, RequestControl(h)
  PROVE  Trails(h)
<1> PICK a : a = at[h]
  OBVIOUS
<1> PICK k : k = a.op.key
  OBVIOUS
<1> PICK t : t = a.op.task
  OBVIOUS
<1> PICK cmd : cmd = [key |-> k, task |-> t, state |-> "requested", fence |-> a.token]
  OBVIOUS
<1>1. /\ a.pc = "controlRequest" /\ k \in Keys /\ Stay /\ t \in TaskIDs /\ a.token \in Nat
      /\ \/ UNCHANGED controlVars /\ Idles(h)
         \/ /\ RequestOnce(k, t, a.token)
            /\ \/ /\ a.op.what # "emergency-stop"
                  /\ Becomes(h, <<"rotate", a.op, cmd, a.token, a.rest, a.snap, a.todo, a.then>>)
               \/ /\ a.op.what = "emergency-stop"
                  /\ Queues(h, cmd, <<CommandEvent("control.requested", cmd)>>, "stop")
               \/ /\ a.op.what # "emergency-stop"
                  /\ Queues(h, cmd, <<CommandEvent("control.requested", cmd)>>, "call")
  BY RunFits, HandlerTyped, RequestControlEffect
<1>2. a.todo = <<>> /\ At(h) = "controlRequest"
  BY <1>1, PlaceNow
<1>3. CASE UNCHANGED controlVars /\ Idles(h)
  <2>1. Calm(h)
    BY <1>1, <1>3, IdlesQueue DEF Calm, Stay, controlVars
  <2> QED
    BY <1>3, <2>1, IdlesTrails
<1>4. CASE /\ RequestOnce(k, t, a.token)
           /\ Becomes(h, <<"rotate", a.op, cmd, a.token, a.rest, a.snap, a.todo, a.then>>)
  <2>1. Takes(h, cmd)
    BY <1>2, <1>4, GoesTakes
  <2> QED
    BY <1>1, <1>2, <1>4, <2>1, CreateTrails
<1>5. ASSUME RequestOnce(k, t, a.token), NEW then \in {"stop", "call"},
             a.op.what = "emergency-stop" <=> then = "stop",
             Queues(h, cmd, <<CommandEvent("control.requested", cmd)>>, then)
      PROVE  Trails(h)
  <2>1. cmd.fence # 0 \/ then = "stop"
    <3>1. at[h].op.kind = "control"
      BY <1>1, RunFits, RequestControlEffect
    <3>2. a.op.what # "emergency-stop" => a.token # 0
      BY <1>2, <3>1 DEF RunInv, PromiseInv, HandlerPromised, ControlPlaces
    <3> QED
      BY <1>5, <3>2
  <2>2. Takes(h, cmd)
    BY <1>5, <2>1, QueuesTakes
  <2> QED
    BY <1>1, <1>2, <1>5, <2>2, CreateTrails
<1> QED
  BY <1>1, <1>3, <1>4, <1>5

LEMMA RequestRetryTrails ==
  ASSUME RunInv, TypeOK', NEW h \in Handlers, RequestRetry(h)
  PROVE  Trails(h)
<1> PICK a : a = at[h]
  OBVIOUS
<1> PICK t : t = a.op.task
  OBVIOUS
<1> PICK k : k = RetryKey(t, a.op.key[3])
  OBVIOUS
<1> PICK cmd : cmd = [key |-> k, task |-> t, state |-> "requested", fence |-> a.cmd.fence]
  OBVIOUS
<1>1. /\ a.pc = "retryRequest" /\ k \in Keys /\ Stay /\ t \in TaskIDs /\ a.cmd.fence \in Nat
      /\ \/ UNCHANGED controlVars /\ Idles(h)
         \/ /\ RequestOnce(k, t, a.cmd.fence)
            /\ Queues(h, cmd, <<CommandEvent("command.requested", cmd)>>, "retryAck")
  BY RunFits, HandlerTyped, RequestRetryEffect
<1>2. CASE UNCHANGED controlVars /\ Idles(h)
  <2>1. Calm(h)
    BY <1>1, <1>2, IdlesQueue DEF Calm, Stay, controlVars
  <2> QED
    BY <1>2, <2>1, IdlesTrails
<1>3. CASE /\ RequestOnce(k, t, a.cmd.fence)
           /\ Queues(h, cmd, <<CommandEvent("command.requested", cmd)>>, "retryAck")
  <2>1. Takes(h, cmd)
    BY <1>3, QueuesTakes
  <2> QED
    BY <1>1, <1>3, <2>1, CreateTrails
<1> QED
  BY <1>1, <1>2, <1>3

(* A fence is rotated before the request of its command is on record.      *)
LEMMA RotateTrails ==
  ASSUME RunInv, TypeOK', NEW h \in Handlers, Rotate(h)
  PROVE  Trails(h)
<1> PICK a : a = at[h]
  OBVIOUS
<1> PICK k : k = a.cmd.key
  OBVIOUS
<1> PICK t : t = a.cmd.task
  OBVIOUS
<1> PICK cmd : cmd = [a.cmd EXCEPT !.fence = fences[t] + 1]
  OBVIOUS
<1> PICK e : e = CommandEvent(Family(a).requested, cmd)
  OBVIOUS
<1>1. /\ a.pc = "rotate" /\ k \in Keys /\ t \in TaskIDs /\ a.cmd \in CmdType
      /\ RotateFenceForCommand(k, t) /\ Stay /\ Queues(h, cmd, <<e>>, "call")
  BY LedgerNow, RunFits, RotateEffect
<1>2. /\ \A j \in Keys \ {k} : commands'[j] = commands[j]
      /\ commands'[k].state = commands[k].state
  BY <1>1, RunFits, RotateFenceEffect
<1>3. At(h) = "rotate" /\ commands[k].state = "requested" /\ a.cmd.state = "requested"
  BY <1>1, OwnedHand, RunFits DEF HandSound, At, OwnerPlaces
<1>4. cmd.key = k /\ cmd.state = "requested"
  BY <1>1, <1>3 DEF CmdType
<1>5. e.key = k /\ e.state = "requested"
  <2>1. e.key = cmd.key /\ e.state = cmd.state
    BY DEF CommandEvent
  <2> QED
    BY <1>4, <2>1
<1>6. /\ Moved(h) /\ at'[h].pc = "append" /\ at'[h].then = "call" /\ at'[h].cmd = cmd
      /\ at'[h].todo = <<e>>
  BY <1>1 DEF Queues, Becomes, Fields
<1>7. At(h)' = "call" /\ Queue(h)' = {e}
  BY <1>6, SingleQueue DEF At
<1>8. \A j \in Keys : commands'[j].state = commands[j].state
  BY <1>2
<1>9. \A j \in Keys : commands'[j].state \in After(commands[j].state)
  BY <1>8, LedgerNow, StatesTyped, AfterMoves
<1>10. Brings(h, e)
  BY <1>1, <1>3, <1>4, <1>5, <1>6, <1>7, <1>8 DEF Brings, Unlogged, Owns, OwnerPlaces
<1> QED
  BY <1>1, <1>6, <1>7, <1>8, <1>9, <1>10 DEF Trails, Stay

(* The first half of a doubt brings no event.                              *)
LEMMA LostTrails ==
  ASSUME RunInv, TypeOK', NEW h \in Handlers, Lost(h)
  PROVE  Trails(h)
<1> PICK k : k = at[h].cmd.key
  OBVIOUS
<1>1. /\ at[h].pc = "lost" /\ Stay /\ k \in Keys /\ TryTransition(k, "acknowledged") /\ Moved(h)
      /\ at'[h].pc = "doubt" /\ at'[h].cmd = at[h].cmd /\ at'[h].todo = at[h].todo
  BY LedgerNow, RunFits, LostEffect DEF Becomes, Fields
<1>2. at[h].todo = <<>> /\ commands[k].state = "requested"
  BY <1>1, OwnedHand DEF OwnerPlaces
<1>3. At(h)' = "doubt" /\ Queue(h)' = {} /\ "acknowledged" \in CommandState
  BY <1>1, <1>2, EmptyQueue DEF At, CommandState
<1> QED
  BY <1>1, <1>2, <1>3, TryTrails DEF Stay

(* A claim to poll, and its end without an answer, are in no event.        *)
LEMMA PollTrails ==
  ASSUME RunInv, TypeOK', NEW h \in Handlers, ClaimPoll(h) \/ ResultPending(h)
  PROVE  Trails(h)
<1> PICK k : k = at[h].cmd.key
  OBVIOUS
<1>1. ASSUME NEW to \in {"polling", "acknowledged"}, TryTransition(k, to), k \in Keys, Stay,
             at[h].pc \in {"claim", "poll"}, Moved(h), At(h)' \in {"done", "poll"}, Queue(h)' = {}
      PROVE  Trails(h)
  <2>1. to \in CommandState /\ to # "reconciled"
    BY DEF CommandState
  <2> QED
    BY <1>1, <2>1, TryTrails DEF Stay
<1>2. CASE ClaimPoll(h)
  <2>1. /\ at[h].pc = "claim" /\ k \in Keys /\ Stay /\ TryTransition(k, "polling")
        /\ \/ Idles(h)
           \/ Becomes(h, <<"poll", at[h].op, at[h].cmd, at[h].token, at[h].rest, at[h].snap,
                           at[h].todo, at[h].then>>)
    BY <1>2, LedgerNow, RunFits, ClaimPollEffect
  <2>2. at[h].todo = <<>>
    BY <2>1, PolledHand
  <2>3. CASE Becomes(h, <<"poll", at[h].op, at[h].cmd, at[h].token, at[h].rest, at[h].snap,
                          at[h].todo, at[h].then>>)
    <3>1. Moved(h) /\ at'[h].pc = "poll" /\ at'[h].todo = <<>>
      BY <2>2, <2>3 DEF Becomes, Fields
    <3>2. At(h)' = "poll" /\ Queue(h)' = {}
      BY <3>1, EmptyQueue DEF At
    <3> QED
      BY <1>1, <2>1, <3>1, <3>2
  <2> QED
    BY <1>1, <2>1, <2>3, IdlesQueue
<1>3. CASE ResultPending(h)
  <2>1. at[h].pc = "poll" /\ k \in Keys /\ Stay /\ TryTransition(k, "acknowledged") /\ Idles(h)
    BY <1>3, LedgerNow, RunFits, ResultPendingEffect
  <2> QED
    BY <1>1, <2>1, IdlesQueue
<1> QED
  BY <1>2, <1>3

(* A reconciliation is on its way to the log.                              *)
LEMMA SettleTrails ==
  ASSUME RunInv, TypeOK', NEW h \in Handlers, Settle(h)
  PROVE  Trails(h)
<1> PICK a : a = at[h]
  OBVIOUS
<1> PICK k : k = a.op.key
  OBVIOUS
<1>1. /\ a.pc = "settle" /\ k \in Keys /\ Stay
      /\ \/ UNCHANGED controlVars /\ Idles(h)
         \/ /\ TryTransition(k, "reconciled")
            /\ \E e, f : \E then \in {"schedule", "pending"} :
                 /\ Plain(e) /\ Resolution(e, k)
                 /\ Plain(f) \/ f = Event("task.completed", a.op.task)
                 /\ Queues(h, a.cmd, <<e, f>>, then)
  BY LedgerNow, RunFits, SettleEffect
<1>2. CASE UNCHANGED controlVars /\ Idles(h)
  <2>1. Calm(h)
    BY <1>1, <1>2, IdlesQueue DEF Calm, Stay, controlVars
  <2> QED
    BY <1>2, <2>1, IdlesTrails
<1>3. ASSUME TryTransition(k, "reconciled"), NEW e, NEW f, NEW then \in {"schedule", "pending"},
             Plain(e), Resolution(e, k), Plain(f) \/ f = Event("task.completed", a.op.task),
             Queues(h, a.cmd, <<e, f>>, then)
      PROVE  Trails(h)
  <2>1. e.state = "" /\ f.state = ""
    <3>1. Event("task.completed", a.op.task).state = ""
      BY BlankEvent
    <3> QED
      BY <1>3, <3>1 DEF Plain
  <2>2. /\ Moved(h) /\ at'[h].pc = "append" /\ at'[h].then = then /\ at'[h].todo = <<e, f>>
    BY <1>3 DEF Queues, Becomes, Fields
  <2>3. Queue(h)' = {e, f} /\ At(h)' = then /\ "reconciled" \in CommandState
    BY <2>2, PairQueue DEF At, CommandState
  <2> QED
    BY <1>1, <1>3, <2>1, <2>2, <2>3, TryTrails DEF Stay
<1> QED
  BY <1>1, <1>2, <1>3

LEMMA HandlerTrails ==
  ASSUME RunInv, TypeOK', NEW h \in Handlers, HandlerStep(h)
  PROVE  Trails(h) \/ AppendEvent(h)
<1> SUFFICES ASSUME ~AppendEvent(h)
             PROVE  Trails(h)
  OBVIOUS
<1>1. CASE Schedule(h) \/ AskApproval(h) \/ LookUp(h) \/ RequestDispatch(h) \/ Rotate(h)
  BY <1>1, LoopStepsTrails, RequestDispatchTrails, RotateTrails
<1>2. CASE CallAdapter(h) \/ CallNobody(h) \/ Accepted(h) \/ Refused(h) \/ Lost(h) \/ Doubt(h)
  BY <1>2, CalmStepTrails, OwnerReportsTrails, LostTrails, DoubtStepTrails
<1>3. CASE CommitToken(h) \/ RequestControl(h) \/ Stop(h) \/ StopAck(h)
  BY <1>3, CalmStepTrails, RequestControlTrails, PairsTrails
<1>4. CASE RequestRetry(h) \/ RetryAck(h)
  BY <1>4, RequestRetryTrails, OwnerReportsTrails
<1>5. CASE ClaimPoll(h) \/ ResultPending(h) \/ ResultFailed(h) \/ ResultCancelled(h) \/ ResultCompleted(h)
  BY <1>5, PollTrails, ResultEndsTrails, PairsTrails
<1>6. CASE Finish(h) \/ ClaimDecision(h) \/ Settle(h) \/ Pending(h)
  BY <1>6, EndStepTrails, SettleTrails
<1> QED
  BY <1>1, <1>2, <1>3, <1>4, <1>5, <1>6 DEF HandlerStep

LEMMA StartTrails ==
  ASSUME RunInv, TypeOK', StartDispatch
  PROVE  Start \in Handlers /\ Trails(Start)
<1> PICK e : e = RunEvent("dispatch.started")
  OBVIOUS
<1>1. /\ at[Start].pc = "idle" /\ Start \in Handlers /\ UNCHANGED controlVars /\ Stay
      /\ Becomes(Start, <<"append", StartOp, NoCmd, 0, {}, NoSnap, <<e>>, "schedule">>)
  BY RunFits, StartEffect
<1>2. Calm(Start)
  BY <1>1 DEF Calm, Stay, controlVars, Becomes
<1>3. e.state = ""
  BY BlankEvent DEF RunEvent
<1> QED
  BY <1>1, <1>2, <1>3, EmitsOneTrails

LEMMA ArrivalTrails ==
  ASSUME RunInv, TypeOK', NEW h \in Requests, RequestArrives(h)
  PROVE  h \in Handlers /\ Trails(h)
<1>1. PICK op \in Menu[h] : \/ ResultArrives(h, op) \/ ControlArrives(h, op)
                            \/ ApproveArrives(h, op) \/ ReconcileArrives(h, op)
  BY DEF RequestArrives
<1>2. h \in Handlers
  BY DEF Handlers
<1>3. at[h].pc = "idle"
  BY <1>1
     DEF ResultArrives, ControlArrives, ApproveArrives, ReconcileArrives, Arrives, MayArrive
<1>4. UNCHANGED controlVars /\ Stay
  BY <1>1 DEF ResultArrives, ControlArrives, ApproveArrives, ReconcileArrives
<1>5. ASSUME Moved(h)
      PROVE  Calm(h)
  BY <1>3, <1>4, <1>5 DEF Calm, Stay, controlVars
<1>6. CASE Idles(h)
  BY <1>2, <1>5, <1>6, IdlesQueue, IdlesTrails
<1>7. ASSUME NEW pc \in {"claim", "controlRequest", "commit", "claimDecision"}, NEW cmd, NEW token,
             Serves(h, op, cmd, token, pc)
      PROVE  Trails(h)
  <2>1. Becomes(h, <<pc, op, cmd, token, {}, NoSnap, <<>>, "">>) /\ Moved(h)
    BY <1>7 DEF Serves, Becomes
  <2>2. pc \in Places \ {"append", "doubt"}
    BY DEF Places
  <2> QED
    BY <1>2, <1>5, <2>1, <2>2, GoesTrails
<1>8. CASE ResultArrives(h, op)
  <2>1. Idles(h) \/ \E k \in Keys : Serves(h, op, Cmd(k, "acknowledged"), 0, "claim")
    BY <1>8, RunFits, LedgerNow, ResultArrivesEffect
  <2> QED
    BY <1>2, <1>6, <1>7, <2>1
<1>9. CASE ControlArrives(h, op)
  <2>1. \/ Idles(h)
        \/ Serves(h, op, NoCmd, 0, "controlRequest")
        \/ \E token : Serves(h, op, NoCmd, token, "commit")
    BY <1>9, RunFits, ControlArrivesEffect
  <2> QED
    BY <1>2, <1>6, <1>7, <2>1
<1>10. CASE ApproveArrives(h, op)
  <2>1. Idles(h) \/ Serves(h, op, NoCmd, 0, "claimDecision")
    BY <1>10, RunFits, ApproveArrivesEffect
  <2> QED
    BY <1>2, <1>6, <1>7, <2>1
<1>11. CASE ReconcileArrives(h, op)
  <2>1. \/ Idles(h)
        \/ \E events : \E then \in {"done", "settle"} :
             /\ AllPlain(events)
             /\ Becomes(h, <<"append", op, NoCmd, 0, {}, NoSnap, events, then>>)
    BY <1>11, RunFits, ReconcileArrivesEffect
  <2>2. ASSUME NEW events, NEW then \in {"done", "settle"}, AllPlain(events),
               Becomes(h, <<"append", op, NoCmd, 0, {}, NoSnap, events, then>>)
        PROVE  Trails(h)
    <3>1. Calm(h)
      BY <1>5, <2>2 DEF Becomes
    <3>2. \A i \in 1..Len(events) : events[i].state = ""
      BY <2>2 DEF AllPlain, Plain
    <3> QED
      BY <1>2, <2>2, <3>1, <3>2, EmitsTrails
  <2> QED
    BY <1>2, <1>6, <2>1, <2>2
<1> QED
  BY <1>1, <1>8, <1>9, <1>10, <1>11, <1>2

-----------------------------------------------------------------------------
(* Steps that make the log longer.                                         *)

Extends == Len(log) <= Len(log') /\ \A i \in 1..Len(log) : log'[i] = log[i]

LastShown(k) ==
  /\ Marks(k) = {} => Saved[k].state = "absent"
  /\ Marks(k) # {} => \E i \in Marks(k) : (\A j \in Marks(k) : j <= i) /\ Saved[k].state = log[i].state
ShownLast == \A k \in Keys : LastShown(k)

LEMMA SavedShows == TypeOK => ShownLast
<1> SUFFICES ASSUME TypeOK, NEW k \in Keys
             PROVE  LastShown(k)
  BY DEF ShownLast
<1>1. NoCommand.state = "absent"
  BY DEF NoCommand
<1> QED
  BY <1>1, SavedFromLog DEF LastShown

LEMMA SavedShowsNext == TypeOK' => ShownLast'
  BY SavedShows, PTL

Shows(e, k) == e.key = k /\ e.state # ""

(* Events that do not show the state of command k leave what is restored.  *)
LEMMA SavedKept ==
  ASSUME TypeOK, TypeOK', Extends, NEW k \in Keys,
         \A i \in 1..Len(log') : i <= Len(log) \/ ~Shows(log'[i], k)
  PROVE  Saved'[k].state = Saved[k].state
<1>1. LastShown(k) /\ LastShown(k)'
  BY SavedShows, SavedShowsNext DEF ShownLast
<1>2. Len(log) \in Nat /\ Len(log') \in Nat
  <2>1. log \in Seq(EventType) /\ log' \in Seq(EventType)
    BY DEF TypeOK
  <2> QED
    BY <2>1, LenProperties
<1>3. Marks(k)' = Marks(k) /\ \A i \in Marks(k) : i \in 1..Len(log) /\ log'[i] = log[i]
  <2>6. Len(log) <= Len(log')
    BY DEF Extends
  <2>1. \A i \in 1..Len(log') : i <= Len(log) => i \in 1..Len(log)
    BY <1>2
  <2>7. \A i \in 1..Len(log) : i \in 1..Len(log')
    BY <1>2, <2>6
  <2>2. \A i : i \in Marks(k) <=> i \in 1..Len(log) /\ Shows(log[i], k)
    BY DEF Marks, Shows
  <2>3. \A i : i \in Marks(k)' <=> i \in 1..Len(log') /\ Shows(log'[i], k)
    BY DEF Marks, Shows
  <2>4. \A i \in 1..Len(log) : log'[i] = log[i]
    BY DEF Extends
  <2>5. \A i : i \in Marks(k)' <=> i \in Marks(k)
    BY <2>1, <2>2, <2>3, <2>4, <2>7
  <2> QED
    BY <2>2, <2>4, <2>5
<1>4. CASE Marks(k) = {}
  BY <1>1, <1>3, <1>4 DEF LastShown
<1>5. CASE Marks(k) # {}
  <2>1. PICK i \in Marks(k) : (\A j \in Marks(k) : j <= i) /\ Saved[k].state = log[i].state
    BY <1>1, <1>5 DEF LastShown
  <2>2. PICK i2 \in Marks(k) : (\A j \in Marks(k) : j <= i2) /\ Saved'[k].state = log'[i2].state
    BY <1>1, <1>3, <1>5 DEF LastShown
  <2>3. i2 \in Marks(k)
    BY <1>3, <2>2
  <2>5. i \in 1..Len(log) /\ i2 \in 1..Len(log)
    BY <1>3, <2>1, <2>3
  <2>6. i <= i2
    BY <1>3, <2>1, <2>2
  <2>7. i2 <= i
    BY <2>1, <2>3
  <2>8. i \in Nat /\ i2 \in Nat
    BY <1>2, <2>5
  <2>4. i = i2
    BY <2>6, <2>7, <2>8
  <2> QED
    BY <1>3, <2>1, <2>2, <2>4
<1> QED
  BY <1>4, <1>5

(* What a call found on record does not change.                            *)

(* Handler g queues nothing new, and stays where it is with its command or *)
(* goes on with events about no command.                                   *)
HandKept(g) ==
  /\ \A e \in Queue(g)' : e \in Queue(g) \/ e.state = ""
  /\ \/ At(g)' = At(g) /\ at'[g].cmd = at[g].cmd
     \/ At(g)' # "doubt" /\ \A e \in Queue(g)' : e.state = ""

LEMMA KeptTrails ==
  ASSUME TrailInv, commands' = commands, \A e \in Events' : e \in Events \/ e.state = "",
         \A g \in Handlers : HandKept(g), NEW h \in Handlers
  PROVE  QueueTrails(h)'
<1> SUFFICES ASSUME NEW e \in Queue(h)', e.state # ""
             PROVE  /\ e.state \notin Unlogged /\ commands'[e.key].state \in After(e.state)
                    /\ e.state = "requested" => Owns(h)' /\ at'[h].cmd.key = e.key
                    /\ e.state = "acknowledged" =>
                         /\ \A f \in Events' : f.key = e.key => f.state # "outcome_unknown"
                         /\ \A g \in Handlers : At(g)' = "doubt" => at'[g].cmd.key # e.key
  BY DEF QueueTrails
<1>1. e \in Queue(h) /\ At(h)' = At(h) /\ at'[h].cmd = at[h].cmd
  BY DEF HandKept
<1>2. QueueTrails(h)
  BY TrailNow
<1>3. Owns(h)' <=> Owns(h)
  BY <1>1 DEF Owns
<1>4. \A f \in Events' : f.state = "outcome_unknown" => f \in Events
  OBVIOUS
<1>5. \A g \in Handlers : At(g)' = "doubt" => At(g) = "doubt" /\ at'[g].cmd = at[g].cmd
  BY DEF HandKept
<1> QED
  BY <1>1, <1>2, <1>3, <1>4, <1>5 DEF QueueTrails

(* A resolution that leaves a queue has reached the log.                   *)
LEMMA ResolvedStays ==
  ASSUME NEW k, Resolved(k),
         \A i \in 1..Len(log) : i \in 1..Len(log') /\ log'[i] = log[i],
         \A h \in Handlers : \A e \in Queue(h) :
           e \in Queue(h)' \/ \E i \in 1..Len(log') : e = log'[i]
  PROVE  Resolved(k)'
<1>1. CASE \E i \in 1..Len(log) : Resolution(log[i], k)
  BY <1>1, ResolvedQueue
<1>2. ASSUME NEW h \in Handlers, NEW e \in Queue(h), Resolution(e, k)
      PROVE  Resolved(k)'
  BY <1>2, ResolvedQueue
<1> QED
  BY <1>1, <1>2, ResolvedQueue

LEMMA AppendHand ==
  ASSUME RunInv, NEW h \in Handlers, AppendEvent(h)
  PROVE  /\ at[h].pc = "append" /\ UNCHANGED <<commands, fatal>>
         /\ \A e \in Queue(h) : e = at[h].todo[1] \/ e \in Queue(h)'
         /\ HandKept(h)
<1> PICK a : a = at[h]
  OBVIOUS
<1>1. /\ a.pc = "append" /\ a.todo # <<>>
      /\ \/ Len(a.todo) = 1 /\ Resumes(h)
         \/ /\ Len(a.todo) # 1
            /\ Becomes(h, <<"append", a.op, a.cmd, a.token, a.rest, a.snap, Tail(a.todo), a.then>>)
      /\ UNCHANGED <<controlVars, fatal>>
  BY RunFits, AppendEventEffect
<1>2. a.todo \in Seq(EventType) /\ a.rest \subseteq Tasks
  BY LedgerNow, HandlerTyped
<1>3. Len(a.todo) \in Nat \ {0} /\ Len(Tail(a.todo)) = Len(a.todo) - 1
      /\ \A i \in 1..Len(Tail(a.todo)) : Tail(a.todo)[i] = a.todo[i + 1]
  BY <1>1, <1>2, TailQueue
<1>4. CASE Len(a.todo) = 1 /\ Resumes(h)
  <2>1. \A e \in Queue(h) : e = at[h].todo[1]
    BY <1>4 DEF Queue
  <2>2. ASSUME Idles(h)
        PROVE  HandKept(h)
    <3>1. At(h)' = "done" /\ Queue(h)' = {}
      BY <2>2, IdlesQueue
    <3> QED
      BY <3>1 DEF HandKept
  <2>3. ASSUME LeavesLoop(a.op, at'[h])
        PROVE  HandKept(h)
    <3>1. At(h)' \in {"done", "finish", "pending"} /\ \A e \in Queue(h)' : Plain(e)
      BY <2>3, LeavesQueue
    <3> QED
      BY <3>1 DEF HandKept, Plain
  <2>4. ASSUME Visits(a.op, a.snap, a.rest \ {First(a.rest)}, at'[h])
        PROVE  HandKept(h)
    <3>1. a.rest \ {First(a.rest)} \subseteq Tasks
      BY <1>2
    <3>2. At(h)' = "guard" /\ \A e \in Queue(h)' : Plain(e)
      BY <2>4, <3>1, VisitsQueue
    <3> QED
      BY <3>2 DEF HandKept, Plain
  <2>5. ASSUME a.then \in Places \ {"append", "done", "advance", "scheduled"},
               Becomes(h, <<a.then, a.op, a.cmd, a.token, a.rest, a.snap, <<>>, "">>)
        PROVE  HandKept(h)
    <3>1. at'[h].pc = a.then /\ at'[h].cmd = a.cmd /\ at'[h].todo = <<>>
      BY <2>5 DEF Becomes, Fields
    <3>2. At(h)' = At(h) /\ Queue(h)' = {}
      BY <1>1, <2>5, <3>1, EmptyQueue DEF At
    <3> QED
      BY <3>1, <3>2 DEF HandKept
  <2>6. HandKept(h)
    BY <1>4, <2>2, <2>3, <2>4, <2>5 DEF Resumes
  <2> QED
    BY <1>1, <2>1, <2>6 DEF controlVars
<1>5. CASE /\ Len(a.todo) # 1
           /\ Becomes(h, <<"append", a.op, a.cmd, a.token, a.rest, a.snap, Tail(a.todo), a.then>>)
  <2>1. /\ at'[h].pc = "append" /\ at'[h].cmd = a.cmd /\ at'[h].then = a.then
        /\ at'[h].todo = Tail(a.todo)
    BY <1>5 DEF Becomes, Fields
  <2>2. ASSUME NEW e \in Queue(h), e # a.todo[1]
        PROVE  e \in Queue(h)'
    <3>1. PICK i \in 1..Len(a.todo) : e = a.todo[i]
      BY DEF Queue
    <3>2. i - 1 \in 1..Len(Tail(a.todo)) /\ (i - 1) + 1 = i
      BY <1>3, <2>2, <3>1
    <3>3. e = Tail(a.todo)[i - 1]
      BY <1>3, <3>1, <3>2
    <3> QED
      BY <2>1, <3>2, <3>3 DEF Queue
  <2>3. At(h)' = At(h)
    BY <1>1, <2>1 DEF At
  <2>4. \A e \in Queue(h)' : e \in Queue(h) \/ e.state = ""
    BY AppendEvents DEF Plain
  <2>5. HandKept(h)
    BY <2>1, <2>3, <2>4 DEF HandKept
  <2> QED
    BY <1>1, <2>2, <2>5 DEF controlVars
<1> QED
  BY <1>1, <1>4, <1>5

LEMMA OthersKept ==
  ASSUME NEW h \in Handlers, Moved(h), NEW g \in Handlers, g # h
  PROVE  HandKept(g) /\ Queue(g)' = Queue(g)
<1>1. at'[g] = at[g]
  BY DEF Moved
<1> QED
  BY <1>1 DEF HandKept, Queue, At

(* The event that is appended does not end a doubt that is on record.      *)
LEMMA NextShown ==
  ASSUME RunInv, TrailInv, NEW h \in Handlers, NEW e \in Queue(h), e.state # "",
         NEW i \in 1..Len(log), log[i].state = "outcome_unknown", log[i].key = e.key
  PROVE  e.state = "outcome_unknown"
<1>1. /\ e.state \notin Unlogged /\ commands[e.key].state \in After(e.state)
      /\ e.state = "requested" => Owns(h) /\ at[h].cmd.key = e.key
      /\ e.state = "acknowledged" => \A f \in Events : f.key = e.key => f.state # "outcome_unknown"
  BY TrailNow DEF QueueTrails
<1>2. commands[e.key].state \in {"outcome_unknown", "reconciled"}
  BY TrailNow DEF DoubtTrails
<1>3. e.state \in CommandState
  BY QueuedKey
<1>4. e.state # "requested"
  <2>1. Owns(h) /\ at[h].cmd.key = e.key => commands[e.key].state = "requested"
    BY LedgerNow DEF HandSound
  <2> QED
    BY <1>1, <1>2, <2>1
<1>5. e.state # "acknowledged"
  <2>1. log[i] \in Events
    BY DEF Events, LogEvents
  <2> QED
    BY <1>1, <2>1
<1>6. e.state \notin {"completed", "failed", "cancelled"}
  BY <1>1, <1>2, AfterMoves
<1> QED
  BY <1>1, <1>3, <1>4, <1>5, <1>6 DEF CommandState, Unlogged

LEMMA AppendTrails ==
  ASSUME RunInv, TypeOK', TrailInv, NEW h \in Handlers, AppendEvent(h)
  PROVE  TrailInv'
<1> PICK e : e = at[h].todo[1]
  OBVIOUS
<1>1. /\ Moved(h) /\ Len(log') = Len(log) + 1 /\ Len(log) \in Nat
      /\ \A i \in 1..Len(log) : log'[i] = log[i]
      /\ log'[Len(log) + 1] = e /\ e \in Queue(h)
      /\ \A d \in Events' : d \in Events \/ Plain(d)
  BY AppendEvents
<1>2. /\ UNCHANGED <<commands, fatal>> /\ HandKept(h)
      /\ \A d \in Queue(h) : d = e \/ d \in Queue(h)'
  BY AppendHand
<1>3. \A g \in Handlers : HandKept(g)
  BY <1>1, <1>2, OthersKept
<1>4. /\ \A i \in 1..Len(log') : i \in 1..Len(log) \/ i = Len(log) + 1
      /\ \A i \in 1..Len(log) : i \in 1..Len(log')
      /\ Len(log) + 1 \in 1..Len(log')
  BY <1>1
<1>5. e.state # "" => /\ e.state \notin Unlogged /\ commands[e.key].state \in After(e.state)
                      /\ e.key \in Keys
  BY <1>1, TrailNow, QueuedKey DEF QueueTrails
<1>6. \A g \in Handlers : QueueTrails(g)'
  <2>1. \A d \in Events' : d \in Events \/ d.state = ""
    BY <1>1 DEF Plain
  <2> QED
    BY <1>2, <1>3, <2>1, KeptTrails
<1>7. \A i \in 1..Len(log') : log'[i].state \notin Unlogged
  <2>1. e.state \notin Unlogged
    BY <1>5 DEF Unlogged
  <2> QED
    BY <1>1, <1>4, <2>1, TrailNow
<1>8. ASSUME NEW i \in 1..Len(log')
      PROVE  DoubtTrails(i)'
  <2> SUFFICES ASSUME log'[i].state = "outcome_unknown"
               PROVE  /\ commands[log'[i].key].state \in {"outcome_unknown", "reconciled"}
                      /\ \A j \in (i + 1)..Len(log') :
                           log'[j].key = log'[i].key => log'[j].state \in {"", "outcome_unknown"}
    BY <1>2 DEF DoubtTrails
  <2>1. CASE i \in 1..Len(log)
    <3>1. DoubtTrails(i) /\ log'[i] = log[i]
      BY <1>1, <2>1, TrailNow
    <3>2. \A j \in (i + 1)..Len(log') : j \in (i + 1)..Len(log) \/ j = Len(log) + 1
      BY <1>1, <2>1
    <3>3. e.key = log[i].key => e.state \in {"", "outcome_unknown"}
      BY <1>1, <2>1, <3>1, NextShown
    <3>4. \A j \in (i + 1)..Len(log) : j \in 1..Len(log)
      BY <1>1, <2>1
    <3> QED
      BY <1>1, <3>1, <3>2, <3>3, <3>4 DEF DoubtTrails
  <2>2. CASE i = Len(log) + 1
    <3>1. log'[i] = e /\ \A j \in (i + 1)..Len(log') : FALSE
      BY <1>1, <2>2
    <3>2. commands[e.key].state \in After("outcome_unknown")
      BY <1>5, <3>1
    <3>3. After("outcome_unknown") = {"outcome_unknown", "reconciled"}
      BY DEF After, CommandState, Terminal
    <3> QED
      BY <3>1, <3>2, <3>3
  <2> QED
    BY <1>4, <2>1, <2>2
<1>9. ASSUME NEW k \in Keys
      PROVE  Settled(k)'
  <2>1. \A g \in Handlers : \A d \in Queue(g) :
          d \in Queue(g)' \/ \E i \in 1..Len(log') : d = log'[i]
    <3>1. \A g \in Handlers \ {h} : Queue(g)' = Queue(g)
      BY <1>1, OthersKept
    <3> QED
      BY <1>1, <1>2, <1>4, <3>1
  <2>2. Resolved(k) => Resolved(k)'
    BY <1>1, <1>4, <2>1, ResolvedStays
  <2> QED
    BY <1>2, <2>2, TrailNow DEF Settled
<1>10. ASSUME NEW k \in Keys
       PROVE  SavedTrails(k)'
  <2>1. CASE Shows(e, k)
    <3>1. LastShown(k)'
      BY SavedShowsNext DEF ShownLast
    <3>2. Len(log) + 1 \in Marks(k)' /\ \A i \in Marks(k)' : i \in 1..(Len(log) + 1)
      <4>1. Marks(k)' = {i \in 1..Len(log') : log'[i].key = k /\ log'[i].state # ""}
        BY DEF Marks
      <4> QED
        BY <1>1, <1>4, <2>1, <4>1 DEF Shows
    <3>3. PICK i \in Marks(k)' : (\A j \in Marks(k)' : j <= i) /\ Saved'[k].state = log'[i].state
      BY <3>1, <3>2 DEF LastShown
    <3>4. i = Len(log) + 1
      BY <1>1, <3>2, <3>3
    <3> QED
      BY <1>1, <1>2, <1>5, <2>1, <3>3, <3>4 DEF SavedTrails, Shows
  <2>2. CASE ~Shows(e, k)
    <3>1. Extends
      BY <1>1 DEF Extends
    <3>2. ASSUME NEW i \in 1..Len(log')
          PROVE  i <= Len(log) \/ ~Shows(log'[i], k)
      <4>1. CASE i \in 1..Len(log)
        BY <1>1, <4>1
      <4>2. CASE i = Len(log) + 1
        BY <1>1, <2>2, <4>2
      <4> QED
        BY <1>4, <4>1, <4>2
    <3>3. Saved'[k].state = Saved[k].state
      BY <3>1, <3>2, LedgerNow, SavedKept
    <3> QED
      BY <1>2, <3>3, TrailNow DEF SavedTrails
  <2> QED
    BY <2>1, <2>2
<1> QED
  BY <1>6, <1>7, <1>8, <1>9, <1>10 DEF TrailInv

(* A refused append loses the queue, and what it would have put on record; *)
(* a reconciliation is then in the ledger alone.                           *)
LEMMA AppendFailsTrails ==
  ASSUME RunInv, TypeOK', TrailInv, NEW h \in Handlers, AppendFails(h)
  PROVE  TrailInv'
<1>1. /\ Moved(h) /\ LeavesLoop(at[h].op, at'[h]) /\ fatal' = TRUE /\ log' = log
      /\ commands' = commands
  BY RunFits, AppendFailsEffect DEF controlVars
<1>2. At(h)' \in {"done", "finish", "pending"} /\ \A e \in Queue(h)' : Plain(e)
  BY <1>1, LeavesQueue
<1>3. HandKept(h)
  BY <1>2 DEF HandKept, Plain
<1>4. \A g \in Handlers : HandKept(g)
  BY <1>1, <1>3, OthersKept
<1>5. \A g \in Handlers : QueueTrails(g)'
  <2>1. \A e \in Events' : e \in Events \/ e.state = ""
    BY <1>1, <1>2, EventsFrom DEF Plain
  <2> QED
    BY <1>1, <1>4, <2>1, KeptTrails
<1>6. \A i \in 1..Len(log') : log'[i].state \notin Unlogged /\ DoubtTrails(i)'
  BY <1>1, TrailNow DEF DoubtTrails
<1>7. \A k \in Keys : Settled(k)' /\ SavedTrails(k)'
  BY <1>1, SameSaved, TrailNow DEF Settled, SavedTrails
<1> QED
  BY <1>5, <1>6, <1>7 DEF TrailInv

(* A new process has what the log restores.                                *)
LEMMA RestartTrails ==
  ASSUME RunInv, TypeOK', TrailInv, Restart
  PROVE  TrailInv'
<1>1. /\ commands' = Saved /\ Extends
      /\ \A i \in 1..Len(log') : i <= Len(log) \/ Plain(log'[i])
  BY RunFits, RestartEffect DEF Extends
<1>2. \A h \in Handlers : QueueTrails(h)'
  BY RestartEvents DEF QueueTrails
<1>3. Len(log) \in Nat /\ Len(log') \in Nat
  <2>1. log \in Seq(EventType) /\ log' \in Seq(EventType)
    BY LedgerNow DEF TypeOK
  <2> QED
    BY <2>1, LenProperties
<1>4. \A i \in 1..Len(log') : \/ i \in 1..Len(log) /\ log'[i] = log[i]
                              \/ log'[i].state = ""
  <2> SUFFICES ASSUME NEW i \in 1..Len(log'), i <= Len(log)
               PROVE  i \in 1..Len(log) /\ log'[i] = log[i]
    BY <1>1 DEF Plain
  <2>1. i \in 1..Len(log)
    BY <1>3
  <2> QED
    BY <1>1, <2>1 DEF Extends
<1>5. \A i \in 1..Len(log') : log'[i].state \notin Unlogged
  BY <1>4, TrailNow DEF Unlogged
<1>6. \A k \in Keys : Saved[k].state \notin Unlogged
  <2> SUFFICES ASSUME NEW k \in Keys
               PROVE  Saved[k].state \notin Unlogged
    OBVIOUS
  <2>1. CASE Marks(k) = {}
    <3>1. Saved[k] = NoCommand
      BY <2>1, LedgerNow, SavedFromLog
    <3> QED
      BY <3>1 DEF NoCommand, Unlogged
  <2>2. CASE Marks(k) # {}
    <3>1. PICK i \in Marks(k) : Saved[k].state = log[i].state
      BY <2>2, LedgerNow, SavedFromLog
    <3>2. i \in 1..Len(log)
      BY DEF Marks
    <3> QED
      BY <3>1, <3>2, TrailNow
  <2> QED
    BY <2>1, <2>2
<1>7. ASSUME NEW k \in Keys
      PROVE  Settled(k)' /\ SavedTrails(k)'
  <2>1. \A i \in 1..Len(log') : i <= Len(log) \/ ~Shows(log'[i], k)
    BY <1>1 DEF Plain, Shows
  <2>2. Saved'[k].state = Saved[k].state
    BY <1>1, <2>1, LedgerNow, SavedKept
  <2>3. Saved[k].state \in After(Saved[k].state)
    BY LedgerNow, StatesTyped, AfterMoves
  <2> QED
    BY <1>1, <1>6, <2>2, <2>3 DEF Settled, SavedTrails, Unlogged
<1>8. ASSUME NEW i \in 1..Len(log'), log'[i].state = "outcome_unknown"
      PROVE  DoubtTrails(i)'
  <2> PICK k : k = log'[i].key
    OBVIOUS
  <2>1. i \in 1..Len(log) /\ log'[i] = log[i] /\ DoubtTrails(i)
    BY <1>4, <1>8, TrailNow
  <2>2. k \in Keys
    BY <1>8, <2>1, LoggedKey
  <2>3. Saved[k].state = "outcome_unknown"
    <3>1. i \in Marks(k)
      BY <1>8, <2>1 DEF Marks
    <3>2. PICK m \in Marks(k) : (\A j \in Marks(k) : j <= m) /\ Saved[k].state = log[m].state
      BY <2>2, <3>1, LedgerNow, SavedFromLog
    <3>3. m \in 1..Len(log) /\ log[m].key = k /\ log[m].state # "" /\ i <= m
      BY <3>1, <3>2 DEF Marks
    <3>4. m = i \/ m \in (i + 1)..Len(log)
      <4>1. i \in 1..Len(log) /\ m \in 1..Len(log) /\ i <= m
        BY <2>1, <3>3
      <4> QED
        BY <1>3, <4>1
    <3> QED
      BY <1>8, <2>1, <3>2, <3>3, <3>4 DEF DoubtTrails
  <2>4. ASSUME NEW j \in (i + 1)..Len(log'), log'[j].key = k
        PROVE  log'[j].state \in {"", "outcome_unknown"}
    <3>1. j \in 1..Len(log')
      BY <1>3
    <3>2. CASE j \in 1..Len(log) /\ log'[j] = log[j]
      <4>1. j \in (i + 1)..Len(log)
        BY <1>3, <3>2
      <4> QED
        BY <1>8, <2>1, <2>4, <3>2, <4>1 DEF DoubtTrails
    <3> QED
      BY <1>4, <3>1, <3>2
  <2> QED
    BY <1>1, <2>3, <2>4 DEF DoubtTrails
<1>9. \A i \in 1..Len(log') : DoubtTrails(i)'
  BY <1>8 DEF DoubtTrails
<1> QED
  BY <1>2, <1>5, <1>7, <1>9 DEF TrailInv

LEMMA SameTrails ==
  ASSUME TrailInv, UNCHANGED <<commands, log, fatal, at>>
  PROVE  TrailInv'
<1>1. Saved' = Saved
  BY SameSaved
<1>2. \A h \in Handlers : Queue(h)' = Queue(h) /\ HandKept(h)
  BY DEF Queue, At, HandKept
<1>3. Events' = Events
  BY <1>2 DEF Events, LogEvents
<1>4. \A h \in Handlers : QueueTrails(h)'
  BY <1>2, <1>3, KeptTrails
<1>5. \A i \in 1..Len(log') : log'[i].state \notin Unlogged /\ DoubtTrails(i)'
  BY TrailNow DEF DoubtTrails
<1>6. \A k \in Keys : Settled(k)' /\ SavedTrails(k)'
  BY <1>1, TrailNow DEF Settled, SavedTrails, Resolved
<1> QED
  BY <1>4, <1>5, <1>6 DEF TrailInv

LEMMA StepTrails ==
  ASSUME RunInv, EndInv, TrailInv, [Next]_vars, TypeOK'
  PROVE  TrailInv'
<1>1. CASE UNCHANGED vars
  BY <1>1, SameTrails DEF vars
<1>2. CASE \E t \in Tasks : Lapse(t)
  BY <1>2, SameTrails DEF Lapse, controlVars
<1>3. CASE Restart
  BY <1>3, RestartTrails
<1>4. CASE \E h \in Handlers : AppendFails(h)
  BY <1>4, AppendFailsTrails
<1>5. ASSUME NEW h \in Handlers, HandlerStep(h)
      PROVE  TrailInv'
  BY <1>5, HandlerTrails, TrailFrame, AppendTrails
<1>6. CASE StartDispatch
  BY <1>6, StartTrails, TrailFrame
<1>7. ASSUME NEW h \in Requests, RequestArrives(h)
      PROVE  TrailInv'
  BY <1>7, ArrivalTrails, TrailFrame
<1> QED
  BY <1>1, <1>2, <1>3, <1>4, <1>5, <1>6, <1>7 DEF Next

LEMMA InitTrails == Init => TrailInv
<1> SUFFICES ASSUME Init
             PROVE  TrailInv
  OBVIOUS
<1>1. log = <<>> /\ Len(log) = 0
  BY DEF Init
<1>2. \A h \in Handlers : QueueTrails(h)
  BY InitEmpty DEF QueueTrails
<1>3. ASSUME NEW k \in Keys
      PROVE  Settled(k) /\ SavedTrails(k)
  <2>1. Marks(k) = {}
    BY <1>1 DEF Marks
  <2>2. Saved[k] = NoCommand /\ commands[k] = NoCommand
    BY <2>1, InitFits, SavedFromLog DEF Fits, Init
  <2>3. NoCommand.state = "absent"
    BY DEF NoCommand
  <2> QED
    BY <2>2, <2>3 DEF Settled, SavedTrails
<1> QED
  BY <1>1, <1>2, <1>3 DEF TrailInv

LEMMA RunTrails == Spec => [](RunInv /\ EndInv /\ TrailInv)
<1>1. Init => RunInv /\ EndInv /\ TrailInv
  BY InitFits, InitLedger, InitKept, InitEnds, InitTrails DEF RunInv, Fits, Kept
<1>2. RunInv /\ EndInv /\ TrailInv /\ [Next]_vars => (RunInv /\ EndInv /\ TrailInv)'
  <2> SUFFICES ASSUME RunInv, EndInv, TrailInv, [Next]_vars
               PROVE  RunInv' /\ EndInv' /\ TrailInv'
    OBVIOUS
  <2>1. RunInv' /\ EndInv'
    BY StepFits, StepLedger, StepPromise, NextEnds, EndsFrame DEF RunInv, Fits, Kept, Ends
  <2>2. TypeOK'
    BY <2>1 DEF RunInv
  <2> QED
    BY <2>1, <2>2, StepTrails
<1> QED
  BY <1>1, <1>2, PTL DEF Spec

(* At every moment, what a restart would take from the log is a command    *)
(* that the ledger has, with its task and its fence, in a state that the   *)
(* command has or has left behind: whatever requests interleave, are lost  *)
(* or refused, and however often the process has died.  (commandData,      *)
(* recoverControllers)                                                     *)
THEOREM LedgerIsAhead == Spec => []LedgerAhead
<1>1. RunInv /\ EndInv /\ TrailInv => LedgerAhead
  <2> SUFFICES ASSUME RunInv, TrailInv, NEW k \in Keys, Saved[k].state # "absent"
               PROVE  /\ Saved[k].task = commands[k].task /\ Saved[k].fence = commands[k].fence
                      /\ commands[k].state \in After(Saved[k].state)
    BY DEF LedgerAhead
  <2> QED
    BY SavedAgrees, TrailNow DEF SavedTrails
<1> QED
  BY <1>1, RunTrails, PTL

(* Who admits a retry finds no command of its task in doubt.               *)
LEMMA RetryArrives ==
  ASSUME RunInv, TypeOK', [Next]_vars, NEW h \in Handlers, at[h].pc = "idle", at'[h].pc = "commit",
         at'[h].op.what = "retry"
  PROVE  ~fatal /\ ~InDoubt(at'[h].op.task)
<1>1. at'[h] # at[h]
  OBVIOUS
<1>2. ~UNCHANGED vars /\ ~\E t \in Tasks : Lapse(t)
  BY <1>1 DEF vars, Lapse
<1>3. ~Restart
  BY <1>1, LedgerNow, RestartEffect
<1>4. ~\E g \in Handlers : AppendFails(g)
  BY <1>1, RunFits, AppendFailsEffect DEF Moved
<1>5. ASSUME NEW g \in Handlers, HandlerStep(g)
      PROVE  FALSE
  <2>1. at[g].pc # "idle"
    BY <1>5 DEF HandlerStep, Schedule, AskApproval, LookUp, RequestDispatch, Rotate, AppendEvent,
       CallAdapter, CallNobody, Accepted, Refused, Lost, Doubt, CommitToken, RequestControl, Stop,
       StopAck, RequestRetry, RetryAck, ClaimPoll, ResultPending, ResultFailed, ResultCancelled,
       ResultCompleted, Polled, Finish, ClaimDecision, Settle, Pending
  <2>2. Moved(g)
    BY <1>5, HandlerTrails, AppendEvents DEF Trails
  <2> QED
    BY <1>1, <2>1, <2>2 DEF Moved
<1>6. ~StartDispatch
  <2>1. ASSUME StartDispatch
        PROVE  Moved(Start) /\ at'[Start].pc = "append"
    BY <2>1, RunFits, StartEffect DEF Becomes, Fields
  <2> QED
    BY <1>1, <2>1 DEF Moved
<1>7. PICK r \in Requests : RequestArrives(r)
  BY <1>2, <1>3, <1>4, <1>5, <1>6 DEF Next
<1>8. r = h
  BY <1>1, <1>7, ArrivalTrails DEF Trails, Moved
<1>9. PICK op \in Menu[h] : \/ ResultArrives(h, op) \/ ControlArrives(h, op)
                            \/ ApproveArrives(h, op) \/ ReconcileArrives(h, op)
  BY <1>7, <1>8 DEF RequestArrives
<1>10. ~fatal
  BY <1>9 DEF ResultArrives, ControlArrives, ApproveArrives, ReconcileArrives, Arrives, MayArrive
<1>11. ~Idles(h)
  BY DEF Idles, Becomes, Fields
<1>12. ASSUME NEW cmd, NEW token, NEW pc, Serves(h, op, cmd, token, pc)
       PROVE  at'[h].pc = pc /\ at'[h].op = op
  BY <1>12 DEF Serves, Becomes, Fields
<1>13. h \in Requests
  BY <1>8
<1>14. ~ResultArrives(h, op)
  BY <1>11, <1>12, <1>13, RunFits, LedgerNow, ResultArrivesEffect
<1>15. ~ApproveArrives(h, op)
  BY <1>11, <1>12, <1>13, RunFits, ApproveArrivesEffect
<1>16. ~ReconcileArrives(h, op)
  <2>1. ASSUME NEW events, NEW then, Becomes(h, <<"append", op, NoCmd, 0, {}, NoSnap, events, then>>)
        PROVE  FALSE
    BY <2>1 DEF Becomes, Fields
  <2> QED
    BY <1>11, <1>13, <2>1, RunFits, ReconcileArrivesEffect
<1>17. ControlArrives(h, op)
  BY <1>9, <1>14, <1>15, <1>16
<1>18. \/ Serves(h, op, NoCmd, 0, "controlRequest")
       \/ /\ op.what = "retry" => ~InDoubt(op.task)
          /\ \E token : Serves(h, op, NoCmd, token, "commit")
  BY <1>11, <1>13, <1>17, RunFits, ControlArrivesEffect
<1> QED
  BY <1>10, <1>12, <1>18

(* No retry is admitted before every outcome of its task that is on record *)
(* as unknown was reconciled, whatever is in service beside it and however *)
(* often the process has died.  (control, dispatch.go:513)                 *)
THEOREM RetriesAreResolved == Spec => RetryAfterResolution
<1>1. RunInv /\ EndInv /\ TrailInv /\ TypeOK' /\ [Next]_vars =>
        \A h \in Handlers :
          at[h].pc = "idle" /\ at'[h].pc = "commit" /\ at'[h].op.what = "retry" =>
            \A i \in 1..Len(log) : log[i].state = "outcome_unknown" /\ log[i].task = at'[h].op.task
              => Resolved(log[i].key)
  <2> SUFFICES ASSUME RunInv, TrailInv, TypeOK', [Next]_vars, NEW h \in Handlers,
                      at[h].pc = "idle", at'[h].pc = "commit", at'[h].op.what = "retry",
                      NEW i \in 1..Len(log), log[i].state = "outcome_unknown",
                      log[i].task = at'[h].op.task
               PROVE  Resolved(log[i].key)
    OBVIOUS
  <2> PICK k : k = log[i].key
    OBVIOUS
  <2>1. k \in Keys /\ commands[k].task = at'[h].op.task
    BY LoggedKey
  <2>2. ~fatal /\ commands[k].state # "outcome_unknown"
    BY <2>1, RetryArrives DEF InDoubt
  <2>3. commands[k].state = "reconciled"
    BY <2>2, TrailNow DEF DoubtTrails
  <2> QED
    BY <2>1, <2>2, <2>3, TrailNow DEF Settled
<1>2. RunInv' => TypeOK'
  BY DEF RunInv
<1> QED
  BY <1>1, <1>2, RunTrails, PTL DEF RetryAfterResolution, Spec
=============================================================================
