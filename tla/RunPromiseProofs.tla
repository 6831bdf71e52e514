---------------------------- MODULE RunPromiseProofs ----------------------------
(***************************************************************************)
(* The emergency stop, the decisions on approvals and the promise about    *)
(* tasks: no step breaks StopInv, DecisionInv or PromiseInv.               *)
(***************************************************************************)
EXTENDS RunLedgerProofs

-----------------------------------------------------------------------------
(* A longer log completes, grants, asks and releases no fewer tasks.       *)

LEMMA InLog ==
  /\ \A t \in Tasks : t \in Released <=> \E e \in LogEvents : Releases(e, t)
  /\ \A t \in Tasks : t \in CompletedTasks <=>
       \E e \in LogEvents : e.type = "task.completed" /\ e.task = t
  /\ \A t \in Tasks : t \in Granted <=>
       \E e \in LogEvents : e.type = "approval.granted" /\ e.task = t
  /\ \A t \in Tasks : t \in Denied <=>
       \E e \in LogEvents : e.type = "approval.denied" /\ e.task = t
  /\ \A t \in Tasks : t \in Asked <=>
       \E e \in LogEvents : e.type = "approval.requested" /\ e.task = t
  /\ StopRecorded <=> \E e \in LogEvents : e.type = "dispatch.emergency_stopped"
  BY DEF Released, CompletedTasks, Granted, Denied, Asked, Logged, LogEvents, Releases,
         StopRecorded, HasEvent

LEMMA InTasks ==
  /\ Released \subseteq Tasks /\ CompletedTasks \subseteq Tasks /\ Granted \subseteq Tasks
  /\ Asked \subseteq Tasks
  BY DEF Released, CompletedTasks, Granted, Asked

LEMMA LogGrows ==
  ASSUME LogEvents \subseteq LogEvents'
  PROVE  /\ Released \subseteq Released' /\ CompletedTasks \subseteq CompletedTasks'
         /\ Granted \subseteq Granted'
<1>1. \A t \in Released : t \in Released'
  <2> SUFFICES ASSUME NEW t \in Tasks, NEW e \in LogEvents', Releases(e, t)
               PROVE  t \in Released'
    BY InLog, InTasks
  <2> QED
    BY DEF Released, LogEvents, Releases
<1>2. \A t \in CompletedTasks : t \in CompletedTasks'
  <2> SUFFICES ASSUME NEW t \in Tasks, NEW e \in LogEvents', e.type = "task.completed", e.task = t
               PROVE  t \in CompletedTasks'
    BY InLog, InTasks
  <2> QED
    BY DEF CompletedTasks, Logged, LogEvents
<1>3. \A t \in Granted : t \in Granted'
  <2> SUFFICES ASSUME NEW t \in Tasks, NEW e \in LogEvents', e.type = "approval.granted", e.task = t
               PROVE  t \in Granted'
    BY InLog, InTasks
  <2> QED
    BY DEF Granted, Logged, LogEvents
<1> QED
  BY <1>1, <1>2, <1>3

LEMMA SameLog ==
  ASSUME log' = log
  PROVE  /\ LogEvents' = LogEvents /\ Decided' = Decided
         /\ Released' = Released /\ CompletedTasks' = CompletedTasks /\ Granted' = Granted
         /\ \A e : EventPromised(e)' <=> EventPromised(e)
         /\ found' = found => \A e : EndPromised(e)' <=> EndPromised(e)
         /\ \A t : Supported(t)' <=> Supported(t)
<1>1. /\ LogEvents' = LogEvents /\ Released' = Released /\ CompletedTasks' = CompletedTasks
      /\ Granted' = Granted
  BY DEF LogEvents, Released, CompletedTasks, Granted, Logged
<1>2. Decided' = Decided
  BY <1>1 DEF Decided
<1>3. \A t : Supported(t)' <=> Supported(t)
  BY <1>1 DEF Supported
<1> QED
  BY <1>1, <1>2, <1>3 DEF EventPromised, EndPromised, AllCompleted

LEMMA PromiseNow ==
  ASSUME RunInv
  PROVE  /\ \A k \in Keys : CommandReleased(k)
         /\ \A e \in Events : EventPromised(e)
         /\ \A h \in Handlers : \A e \in Queue(h) : EndPromised(e)
         /\ \A h \in Handlers : HandlerPromised(h)
  BY DEF RunInv, PromiseInv

LEMMA DecisionNow ==
  ASSUME RunInv
  PROVE  /\ \A e \in Events : e.type \in Decision \cup {"approval.requested"} => e.task \in Guarded
         /\ \A h \in Handlers : Deciding(h) =>
              /\ at[h].todo[1].type \in Decision /\ at[h].todo[1].task = at[h].op.task
              /\ \A i \in 2..Len(at[h].todo) : at[h].todo[i].type \notin Decision
              /\ at[h].op.task \in claims \ Decided
         /\ \A g, h \in Handlers :
              Deciding(g) /\ Deciding(h) /\ at[g].op.task = at[h].op.task => g = h
         /\ \A h \in Handlers : At(h) = "claimDecision" =>
              /\ at[h].op.task \in Guarded
              /\ at[h].op.task \in Decided => at[h].op.task \in claims
         /\ claims \subseteq Guarded
         /\ DecidedOnce
         /\ \A h \in Handlers : At(h) = "stopAck" => stopped
         /\ \A e \in Events : e.type = "dispatch.emergency_stopped" => stopped
  BY DEF RunInv, DecisionInv, StopInv

-----------------------------------------------------------------------------
(* Events that are nobody's decision and that the promise allows.          *)

Fine(e) ==
  /\ EventPromised(e) /\ EndPromised(e)
  /\ e.type \notin Decision
  /\ e.type = "approval.requested" => e.task \in Guarded
  /\ e.type = "dispatch.emergency_stopped" => stopped

LEMMA PlainFine ==
  ASSUME NEW e, Plain(e)
  PROVE  Fine(e) /\ Fine(e)'
<1>1. /\ e.state = "" /\ e.type \notin Decision
      /\ e.type # "approval.requested" /\ e.type # "dispatch.emergency_stopped"
      /\ e.type # "task.completed" /\ e.type # "dispatch.completed"
      /\ e.type # "command.requested"
  BY DEF Plain, PlainTypes, Decision
<1> QED
  BY <1>1 DEF Fine, EventPromised, EndPromised, Releases

(* A step of h that appends nothing.                                       *)
PromiseStep(h) ==
  /\ Moved(h) /\ log' = log /\ claims' = claims /\ found' = found /\ (stopped => stopped')
  /\ At(h)' = "stopAck" => stopped'
  /\ At(h)' = "claimDecision" =>
       /\ at'[h].op.task \in Guarded
       /\ at'[h].op.task \in Decided => at'[h].op.task \in claims
  /\ \A e \in Queue(h)' : Fine(e)'
  /\ \A k \in Keys : CommandReleased(k)'
  /\ HandlerPromised(h)'

Kept == StopInv /\ DecisionInv /\ PromiseInv

LEMMA PromiseFrame ==
  ASSUME RunInv, NEW h \in Handlers, PromiseStep(h)
  PROVE  Kept'
<1>1. \A g \in Handlers \ {h} : at'[g] = at[g] /\ At(g)' = At(g) /\ Queue(g)' = Queue(g)
  BY DEF PromiseStep, Moved, At, Queue
<1>2. \A e \in Events' : e \in Events \/ Fine(e)'
  BY EventsFrom DEF PromiseStep
<1>3. log' = log /\ claims' = claims /\ found' = found /\ (stopped => stopped')
  BY DEF PromiseStep
<1>4. StopInv'
  <2>1. \A g \in Handlers : At(g)' = "stopAck" => stopped'
    BY <1>1, DecisionNow DEF PromiseStep
  <2>2. \A e \in Events' : e.type = "dispatch.emergency_stopped" => stopped'
    BY <1>2, <1>3, DecisionNow DEF Fine
  <2> QED
    BY <2>1, <2>2 DEF StopInv
<1>5. DecisionInv'
  <2>1. ~Deciding(h)'
    BY DEF PromiseStep, Deciding, Fine
  <2>2. \A g \in Handlers \ {h} : Deciding(g)' <=> Deciding(g)
    BY <1>1 DEF Deciding
  <2>3. Decided' = Decided
    BY <1>3, SameLog
  <2>4. \A e \in Events' : e.type \in Decision \cup {"approval.requested"} => e.task \in Guarded
    BY <1>2, DecisionNow DEF Fine
  <2>5. \A g \in Handlers : Deciding(g)' =>
         /\ at'[g].todo[1].type \in Decision /\ at'[g].todo[1].task = at'[g].op.task
         /\ \A i \in 2..Len(at'[g].todo) : at'[g].todo[i].type \notin Decision
         /\ at'[g].op.task \in claims' \ Decided'
    BY <1>1, <1>3, <2>1, <2>2, <2>3, DecisionNow
  <2>6. \A f, g \in Handlers :
         Deciding(f)' /\ Deciding(g)' /\ at'[f].op.task = at'[g].op.task => f = g
    BY <1>1, <2>1, <2>2, DecisionNow
  <2>7. \A g \in Handlers : At(g)' = "claimDecision" =>
         /\ at'[g].op.task \in Guarded
         /\ at'[g].op.task \in Decided' => at'[g].op.task \in claims'
    BY <1>1, <1>3, <2>3, DecisionNow DEF PromiseStep
  <2>8. claims' \subseteq Guarded /\ DecidedOnce'
    BY <1>3, DecisionNow DEF DecidedOnce
  <2> QED
    BY <2>4, <2>5, <2>6, <2>7, <2>8 DEF DecisionInv
<1>6. PromiseInv'
  <2>1. \A e \in Events' : EventPromised(e)'
    BY <1>2, <1>3, SameLog, PromiseNow DEF Fine
  <2>2. \A g \in Handlers : HandlerPromised(g)'
    <3>1. ASSUME NEW g \in Handlers \ {h}
          PROVE  HandlerPromised(g)'
      BY <1>1, <1>3, SameLog, PromiseNow DEF HandlerPromised
    <3> QED
      BY <3>1 DEF PromiseStep
  <2>3. \A g \in Handlers : \A e \in Queue(g)' : EndPromised(e)'
    <3>1. found' = found /\ \A e \in Queue(h)' : EndPromised(e)'
      BY DEF PromiseStep, Fine
    <3>2. ASSUME NEW g \in Handlers \ {h}, NEW e \in Queue(g)'
          PROVE  EndPromised(e)'
      BY <1>1, <1>3, <3>1, <3>2, SameLog, PromiseNow
    <3> QED
      BY <3>1, <3>2
  <2> QED
    BY <2>1, <2>2, <2>3 DEF PromiseInv, PromiseStep
<1> QED
  BY <1>4, <1>5, <1>6 DEF Kept

-----------------------------------------------------------------------------
(* What a handler promises at the place it goes to.                        *)

LEMMA NoSnapFields == NoSnap.granted = {}
  BY DEF NoSnap

LEMMA LoosePromised ==
  ASSUME NEW h \in Handlers, at'[h].rest = {}, at'[h].snap = NoSnap,
         At(h)' \notin AdapterPlaces \cup ControlPlaces
  PROVE  HandlerPromised(h)'
<1>1. at'[h].snap.granted = {}
  BY NoSnapFields
<1> QED
  BY <1>1 DEF HandlerPromised

(* A handler that keeps its request and its token, and looks at no other   *)
(* tasks than before.                                                      *)
LEMMA KeepsPromised ==
  ASSUME RunInv, NEW h \in Handlers, LogEvents \subseteq LogEvents',
         at'[h].op = at[h].op, at'[h].token = at[h].token, at'[h].snap = at[h].snap,
         at'[h].rest \subseteq at[h].rest, At(h)' \notin {"request", "rotate"},
         At(h)' \in AdapterPlaces /\ at'[h].rest # {} => at'[h].cmd.task \in Tasks,
         At(h)' \in AdapterPlaces \cup ControlPlaces => At(h) \in AdapterPlaces \cup ControlPlaces
  PROVE  HandlerPromised(h)'
<1>1. HandlerPromised(h)
  BY PromiseNow
<1>2. Released \subseteq Released' /\ CompletedTasks \subseteq CompletedTasks'
      /\ Granted \subseteq Granted'
  BY LogGrows
<1> QED
  BY <1>1, <1>2 DEF HandlerPromised

LEMMA IdlesPromised ==
  ASSUME NEW h \in Handlers, Idles(h)
  PROVE  /\ HandlerPromised(h)' /\ Moved(h) /\ At(h)' \notin {"stopAck", "claimDecision"}
         /\ \A e \in Queue(h)' : Fine(e)'
<1>1. at'[h].rest = {} /\ at'[h].snap = NoSnap
  BY DEF Idles, Becomes, Fields
<1>2. Moved(h) /\ At(h)' = "done" /\ Queue(h)' = {}
  BY IdlesQueue
<1>3. At(h)' \notin AdapterPlaces \cup ControlPlaces
  BY <1>2 DEF AdapterPlaces, ControlPlaces
<1> QED
  BY <1>1, <1>2, <1>3, LoosePromised

LEMMA LeavesPromised ==
  ASSUME NEW op, NEW h \in Handlers, LeavesLoop(op, at'[h])
  PROVE  /\ HandlerPromised(h)' /\ At(h)' \notin {"stopAck", "claimDecision"}
         /\ \A e \in Queue(h)' : Fine(e)'
<1>1. At(h)' \in {"done", "finish", "pending"} /\ \A e \in Queue(h)' : Plain(e)
  BY LeavesQueue
<1>2. At(h)' \notin AdapterPlaces \cup ControlPlaces
  BY <1>1 DEF AdapterPlaces, ControlPlaces
<1>3. at'[h].rest = {} /\ at'[h].snap = NoSnap
  BY DEF LeavesLoop
<1>4. HandlerPromised(h)'
  BY <1>2, <1>3, LoosePromised
<1> QED
  BY <1>1, <1>4, PlainFine

LEMMA VisitsPromised ==
  ASSUME NEW op, NEW snap, NEW rest, rest \subseteq Tasks, NEW h \in Handlers,
         Visits(op, snap, rest, at'[h]), LogEvents \subseteq LogEvents',
         \A t \in rest : DependsOn[t] \subseteq CompletedTasks, snap.granted \subseteq Granted
  PROVE  /\ HandlerPromised(h)' /\ At(h)' \notin {"stopAck", "claimDecision"}
         /\ \A e \in Queue(h)' : Fine(e)'
<1>1. At(h)' = "guard" /\ \A e \in Queue(h)' : Plain(e)
  BY VisitsQueue
<1>2. At(h)' \notin AdapterPlaces \cup ControlPlaces
  BY <1>1 DEF AdapterPlaces, ControlPlaces
<1>3. at'[h].rest = rest /\ at'[h].snap = snap
  BY DEF Visits
<1>4. CompletedTasks \subseteq CompletedTasks' /\ Granted \subseteq Granted'
  BY LogGrows
<1>5. HandlerPromised(h)'
  BY <1>1, <1>2, <1>3, <1>4 DEF HandlerPromised
<1> QED
  BY <1>1, <1>5, PlainFine

LEMMA RestPromised ==
  ASSUME RunInv, NEW h \in Handlers
  PROVE  LET a == at[h] IN
         /\ \A t \in a.rest \ {First(a.rest)} : DependsOn[t] \subseteq CompletedTasks
         /\ \A t \in a.rest : DependsOn[t] \subseteq CompletedTasks
         /\ a.snap.granted \subseteq Granted /\ a.rest \subseteq Tasks
         /\ a.rest # {} => First(a.rest) \in a.rest
<1>1. HandlerPromised(h) /\ at[h].rest \subseteq Tasks
  BY PromiseNow, LedgerNow, HandlerTyped
<1> QED
  BY <1>1, FirstIn DEF HandlerPromised

-----------------------------------------------------------------------------
(* Commands and the release of their tasks.                                *)

LEMMA SameReleased ==
  ASSUME RunInv, commands' = commands, LogEvents \subseteq LogEvents'
  PROVE  \A k \in Keys : CommandReleased(k)'
<1>1. Released \subseteq Released'
  BY LogGrows
<1> QED
  BY <1>1, PromiseNow DEF CommandReleased, Known

(* The task of a command that moves is released, also when its request is  *)
(* only now answered.                                                      *)
LEMMA MoveReleased ==
  ASSUME RunInv, NEW h \in Handlers, NEW k \in Keys, NEW to \in CommandState,
         TryTransition(k, to), log' = log,
         TransitionAllowed(k, to) /\ commands[k].state = "requested" =>
           at[h].pc \in RecordedPlaces /\ at[h].cmd.key = k
  PROVE  /\ \A j \in Keys : CommandReleased(j)'
         /\ TransitionAllowed(k, to) /\ commands[k].task \in Tasks => commands[k].task \in Released
         /\ commands'[k].task = commands[k].task /\ stopped' = stopped
<1>1. /\ OnlyState(k)
      /\ \/ TransitionAllowed(k, to) /\ commands'[k].state = to
         \/ ~TransitionAllowed(k, to) /\ UNCHANGED controlVars
  BY RunFits, TryEffect
<1>2. CommandReleased(k) /\ \A j \in Keys : CommandReleased(j)
  BY PromiseNow
<1>3. Released' = Released /\ LogEvents' = LogEvents
  BY SameLog
<1>4. TransitionAllowed(k, to) => Known(k)
  BY DEF TransitionAllowed, Moves, Known
<1>5. ASSUME TransitionAllowed(k, to), commands[k].task \in Tasks
      PROVE  commands[k].task \in Released
  <2>1. CASE commands[k].state = "requested"
    <3>1. at[h].pc \in RecordedPlaces /\ at[h].pc \in OwnerPlaces
      BY <1>5, <2>1 DEF RecordedPlaces
    <3>2. PICK e \in LogEvents : Records(e, at[h].cmd)
      BY <3>1, OwnedHand
    <3>3. e.state = "requested" /\ e.key = k /\ e \in Events
      BY <1>5, <2>1, <3>2 DEF Records, Events
    <3>4. e.task = commands[k].task
      BY <3>3, LedgerNow DEF EventSound
    <3>5. e.task \in Released \/ Releases(e, e.task)
      BY <1>5, <3>3, <3>4, PromiseNow DEF EventPromised
    <3> QED
      BY <1>5, <3>2, <3>4, <3>5, InLog
  <2>2. CASE commands[k].state # "requested"
    BY <1>2, <1>4, <1>5, <2>2 DEF CommandReleased
  <2> QED
    BY <2>1, <2>2
<1>6. CommandReleased(k)'
  <2>1. CASE TransitionAllowed(k, to)
    BY <1>1, <1>2, <1>3, <1>4, <1>5, <2>1 DEF CommandReleased, OnlyState
  <2>2. CASE UNCHANGED controlVars
    BY <1>3, <1>2, <2>2 DEF CommandReleased, controlVars, Known
  <2> QED
    BY <1>1, <2>1, <2>2
<1>7. ASSUME NEW j \in Keys, j # k
      PROVE  CommandReleased(j)'
  BY <1>1, <1>2, <1>3, <1>7 DEF CommandReleased, OnlyState, Known
<1> QED
  BY <1>1, <1>5, <1>6, <1>7 DEF OnlyState

LEMMA QuietPromise ==
  ASSUME RunInv, NEW h \in Handlers, Moved(h), UNCHANGED controlVars, Stay,
         At(h)' \notin {"stopAck", "claimDecision"}, \A e \in Queue(h)' : Fine(e)',
         HandlerPromised(h)'
  PROVE  Kept'
<1>1. \A k \in Keys : CommandReleased(k)'
  BY SameReleased DEF controlVars, Stay, LogEvents
<1>2. PromiseStep(h)
  BY <1>1 DEF PromiseStep, controlVars, Stay
<1> QED
  BY <1>2, PromiseFrame

LEMMA IdlesPromise ==
  ASSUME RunInv, NEW h \in Handlers, Idles(h), UNCHANGED controlVars, Stay
  PROVE  Kept'
  BY IdlesPromised, QuietPromise

LEMMA LeavesPromise ==
  ASSUME RunInv, NEW h \in Handlers, NEW op, Moved(h), LeavesLoop(op, at'[h]),
         UNCHANGED controlVars, Stay
  PROVE  Kept'
  BY LeavesPromised, QuietPromise

LEMMA VisitsPromise ==
  ASSUME RunInv, NEW h \in Handlers, NEW op, NEW snap, NEW rest, rest \subseteq Tasks, Moved(h),
         Visits(op, snap, rest, at'[h]), UNCHANGED controlVars, Stay,
         \A t \in rest : DependsOn[t] \subseteq CompletedTasks, snap.granted \subseteq Granted
  PROVE  Kept'
<1>1. LogEvents \subseteq LogEvents'
  BY DEF Stay, LogEvents
<1> QED
  BY <1>1, VisitsPromised, QuietPromise

-----------------------------------------------------------------------------
(* The steps that leave the commands as they are.                          *)

LEMMA GoesAt ==
  ASSUME NEW h \in Handlers, NEW pc, pc # "append", NEW op, NEW cmd, NEW token, NEW rest, NEW snap,
         NEW then, Becomes(h, <<pc, op, cmd, token, rest, snap, <<>>, then>>)
  PROVE  /\ Moved(h) /\ At(h)' = pc /\ Queue(h)' = {} /\ at'[h].op = op /\ at'[h].cmd = cmd
         /\ at'[h].token = token /\ at'[h].rest = rest /\ at'[h].snap = snap
<1>1. /\ Moved(h) /\ at'[h].pc = pc /\ at'[h].op = op /\ at'[h].cmd = cmd
      /\ at'[h].token = token /\ at'[h].rest = rest /\ at'[h].snap = snap /\ at'[h].todo = <<>>
  BY DEF Becomes, Fields
<1> QED
  BY <1>1, EmptyQueue DEF At

LEMMA EmitsAt ==
  ASSUME NEW h \in Handlers, NEW op, NEW cmd, NEW token, NEW rest, NEW snap, NEW events,
         NEW then, Becomes(h, <<"append", op, cmd, token, rest, snap, events, then>>)
  PROVE  /\ Moved(h) /\ At(h)' = then /\ at'[h].op = op /\ at'[h].cmd = cmd
         /\ at'[h].token = token /\ at'[h].rest = rest /\ at'[h].snap = snap
         /\ at'[h].pc = "append" /\ at'[h].todo = events
<1>1. /\ Moved(h) /\ at'[h].pc = "append" /\ at'[h].op = op /\ at'[h].cmd = cmd
      /\ at'[h].token = token /\ at'[h].rest = rest /\ at'[h].snap = snap /\ at'[h].todo = events
      /\ at'[h].then = then
  BY DEF Becomes, Fields
<1> QED
  BY <1>1 DEF At

LEMMA StartPromise ==
  ASSUME RunInv, StartDispatch
  PROVE  Kept'
<1> DEFINE e == RunEvent("dispatch.started")
<1>1. /\ Start \in Handlers /\ UNCHANGED controlVars /\ Stay
      /\ Becomes(Start, <<"append", StartOp, NoCmd, 0, {}, NoSnap, <<e>>, "schedule">>)
  BY RunFits, StartEffect
<1>2. Plain(e)
  BY EventPlain, RunTaskAssumption DEF RunEvent, PlainTypes, EventTypes
<1> HIDE DEF e
<1>3. /\ Moved(Start) /\ At(Start)' = "schedule" /\ at'[Start].rest = {} /\ at'[Start].snap = NoSnap
      /\ at'[Start].todo = <<e>>
  BY <1>1, EmitsAt
<1>4. Queue(Start)' = {e}
  BY <1>1, <1>3, SingleQueue
<1>5. At(Start)' \notin AdapterPlaces \cup ControlPlaces
  BY <1>3 DEF AdapterPlaces, ControlPlaces
<1> QED
  BY <1>1, <1>2, <1>3, <1>4, <1>5, LoosePromised, PlainFine, QuietPromise

LEMMA SchedulePromise ==
  ASSUME RunInv, NEW h \in Handlers, Schedule(h)
  PROVE  Kept'
<1> DEFINE snap == [granted |-> Granted, asked |-> Asked]
           rest == {t \in Tasks : Defined /\ Ready(t)}
<1>1. /\ Moved(h) /\ UNCHANGED controlVars /\ Stay
      /\ LeavesLoop(at[h].op, at'[h]) \/ Visits(at[h].op, snap, rest, at'[h])
  BY RunFits, ScheduleEffect
<1>2. rest \subseteq Tasks /\ snap.granted \subseteq Granted
  OBVIOUS
<1>3. \A t \in rest : DependsOn[t] \subseteq CompletedTasks
  BY DEF Ready
<1> HIDE DEF snap, rest
<1> QED
  BY <1>1, <1>2, <1>3, LeavesPromise, VisitsPromise

LEMMA AskPromise ==
  ASSUME RunInv, NEW h \in Handlers, AskApproval(h)
  PROVE  Kept'
<1> PICK a : a = at[h]
  OBVIOUS
<1> PICK e : e = Event("approval.requested", First(a.rest))
  OBVIOUS
<1>1. /\ a.pc = "guard" /\ Moved(h) /\ UNCHANGED controlVars /\ Stay
      /\ \/ LeavesLoop(a.op, at'[h])
         \/ /\ First(a.rest) \in Guarded
            /\ Fields(at'[h]) = <<"append", a.op, a.cmd, a.token, a.rest, a.snap, <<e>>, "scheduled">>
  BY RunFits, AskEffect
<1>2. CASE /\ First(a.rest) \in Guarded
           /\ Fields(at'[h]) = <<"append", a.op, a.cmd, a.token, a.rest, a.snap, <<e>>, "scheduled">>
  <2>1. e.type = "approval.requested" /\ e.task = First(a.rest) /\ e.state = ""
    BY DEF Event
  <2>2. Becomes(h, <<"append", a.op, a.cmd, a.token, a.rest, a.snap, <<e>>, "scheduled">>)
    BY <1>1, <1>2 DEF Becomes
  <2>3. First(a.rest) \in Guarded
    BY <1>2
  <2>4. /\ At(h)' = "scheduled" /\ at'[h].op = a.op /\ at'[h].token = a.token
        /\ at'[h].rest = a.rest /\ at'[h].snap = a.snap /\ at'[h].todo = <<e>>
    BY <2>2, EmitsAt
  <2>5. Queue(h)' = {e}
    BY <2>4, SingleQueue
  <2>6. Fine(e)'
    BY <2>1, <2>3 DEF Fine, EventPromised, EndPromised, Releases, Decision
  <2>7. LogEvents \subseteq LogEvents'
    BY <1>1 DEF Stay, LogEvents
  <2>8. HandlerPromised(h)' /\ At(h)' \notin {"stopAck", "claimDecision"}
    BY <2>4, <2>7, KeepsPromised DEF AdapterPlaces, ControlPlaces
  <2> QED
    BY <1>1, <2>4, <2>5, <2>6, <2>8, QuietPromise
<1> QED
  BY <1>1, <1>2, LeavesPromise

LEMMA LookUpPromise ==
  ASSUME RunInv, NEW h \in Handlers, LookUp(h)
  PROVE  Kept'
<1> DEFINE a == at[h]
<1>1. /\ a.pc = "guard" /\ a.rest # {} /\ Moved(h) /\ UNCHANGED controlVars /\ Stay
      /\ \/ LeavesLoop(a.op, at'[h])
         \/ Visits(a.op, a.snap, a.rest \ {First(a.rest)}, at'[h])
         \/ /\ First(a.rest) \in Guarded => First(a.rest) \in a.snap.granted
            /\ Fields(at'[h]) = <<"request", a.op, a.cmd, a.token, a.rest, a.snap, a.todo, a.then>>
  BY RunFits, LookUpEffect
<1>2. CASE Visits(a.op, a.snap, a.rest \ {First(a.rest)}, at'[h])
  <2>1. a.rest \ {First(a.rest)} \subseteq Tasks
    BY RestPromised
  <2>2. /\ \A t \in a.rest \ {First(a.rest)} : DependsOn[t] \subseteq CompletedTasks
        /\ a.snap.granted \subseteq Granted
    BY RestPromised
  <2> HIDE DEF a
  <2> QED
    BY <1>1, <1>2, <2>1, <2>2, VisitsPromise
<1>3. CASE /\ First(a.rest) \in Guarded => First(a.rest) \in a.snap.granted
           /\ Fields(at'[h]) = <<"request", a.op, a.cmd, a.token, a.rest, a.snap, a.todo, a.then>>
  <2>1. a.todo = <<>>
    BY <1>1, PlaceNow
  <2>2. Becomes(h, <<"request", a.op, a.cmd, a.token, a.rest, a.snap, <<>>, a.then>>)
    BY <1>1, <1>3, <2>1 DEF Becomes
  <2>3. /\ At(h)' = "request" /\ Queue(h)' = {} /\ at'[h].rest = a.rest /\ at'[h].snap = a.snap
    <3>1. /\ at'[h].pc = "request" /\ at'[h].todo = <<>>
          /\ at'[h].rest = a.rest /\ at'[h].snap = a.snap
      BY <2>2 DEF Becomes, Fields
    <3> QED
      BY <3>1, EmptyQueue DEF At
  <2>4. Supported(First(a.rest))
    BY <1>1, <1>3, RestPromised DEF Supported
  <2>5. log' = log
    BY <1>1 DEF Stay
  <2>6. HandlerPromised(h)'
    <3>1. "request" \notin AdapterPlaces \cup ControlPlaces
      BY DEF AdapterPlaces, ControlPlaces
    <3> QED
      BY <2>3, <2>4, <2>5, <3>1, SameLog, RestPromised DEF HandlerPromised
  <2> QED
    BY <1>1, <2>3, <2>6, QuietPromise
<1> QED
  BY <1>1, <1>2, <1>3, LeavesPromise

(* A command that nobody asked for yet is requested.                       *)
LEMMA CreateReleased ==
  ASSUME RunInv, NEW k \in Keys, NEW t \in TaskIDs, NEW f \in Nat, RequestOnce(k, t, f), log' = log,
         f # 0 => t \in Tasks,
         t \in Tasks => t \in Released \/ k = DispatchKey(t)
  PROVE  (\A j \in Keys : CommandReleased(j)') /\ stopped' = stopped
<1>1. /\ \A j \in Keys \ {k} : commands'[j] = commands[j]
      /\ commands'[k].state = "requested" /\ commands'[k].task = t /\ commands'[k].fence = f
      /\ UNCHANGED <<fences, stopped>>
  BY RunFits, RequestEffect
<1>2. Released' = Released
  BY SameLog
<1>3. ASSUME NEW j \in Keys, j # k
      PROVE  CommandReleased(j)'
  BY <1>1, <1>2, <1>3, PromiseNow DEF CommandReleased, Known
<1>4. CommandReleased(k)'
  BY <1>1, <1>2 DEF CommandReleased
<1> QED
  BY <1>1, <1>3, <1>4

LEMMA RequestDispatchPromise ==
  ASSUME RunInv, NEW h \in Handlers, RequestDispatch(h)
  PROVE  Kept'
<1> DEFINE a == at[h]
           t == First(a.rest)
           k == DispatchKey(t)
           cmd == [key |-> k, task |-> t, state |-> "requested", fence |-> 0]
<1>1. /\ a.pc = "request" /\ a.rest # {} /\ Moved(h) /\ Stay
      /\ t \in Tasks /\ t \in TaskIDs /\ k \in Keys
      /\ \/ UNCHANGED controlVars /\ LeavesLoop(a.op, at'[h])
         \/ UNCHANGED controlVars /\ Visits(a.op, a.snap, a.rest \ {t}, at'[h])
         \/ /\ RequestOnce(k, t, 0)
            /\ Fields(at'[h]) = <<"rotate", a.op, cmd, a.token, a.rest, a.snap, a.todo, a.then>>
  BY RunFits, RequestDispatchEffect
<1>2. CASE UNCHANGED controlVars /\ Visits(a.op, a.snap, a.rest \ {t}, at'[h])
  <2>1. a.rest \ {t} \subseteq Tasks
    BY RestPromised
  <2>2. /\ \A u \in a.rest \ {First(a.rest)} : DependsOn[u] \subseteq CompletedTasks
        /\ a.snap.granted \subseteq Granted
    BY RestPromised
  <2> HIDE DEF a
  <2> QED
    BY <1>1, <1>2, <2>1, <2>2, VisitsPromise
<1>3. CASE /\ RequestOnce(k, t, 0)
           /\ Fields(at'[h]) = <<"rotate", a.op, cmd, a.token, a.rest, a.snap, a.todo, a.then>>
  <2>1. a.todo = <<>> /\ Scheduler(a.op)
    BY <1>1, PlaceNow
  <2>2. Becomes(h, <<"rotate", a.op, cmd, a.token, a.rest, a.snap, <<>>, a.then>>)
    BY <1>1, <1>3, <2>1 DEF Becomes
  <2>3. cmd.key = k /\ cmd.task = t
    OBVIOUS
  <2>4. log' = log /\ claims' = claims /\ found' = found
    BY <1>1 DEF Stay
  <2>5. Supported(t)
    <3>1. At(h) = "request"
      BY <1>1, PlaceNow
    <3> QED
      BY <1>1, <3>1, PromiseNow DEF HandlerPromised
  <2>6. /\ At(h)' = "rotate" /\ Queue(h)' = {} /\ at'[h].rest = a.rest /\ at'[h].snap = a.snap
        /\ at'[h].cmd = cmd /\ at'[h].op = a.op
    <3> HIDE DEF cmd
    <3> QED
      BY <2>2, GoesAt
  <2>7. (\A j \in Keys : CommandReleased(j)') /\ stopped' = stopped
    <3> HIDE DEF t, k
    <3>1. 0 \in Nat /\ k = DispatchKey(t)
      BY DEF k, t
    <3> QED
      BY <1>1, <1>3, <2>4, <3>1, CreateReleased
  <2>8. HandlerPromised(h)'
    <3>1. at'[h].op.kind # "control"
      BY <2>1, <2>6 DEF Scheduler
    <3>2. at'[h].cmd.key = DispatchKey(First(at'[h].rest)) /\ at'[h].cmd.task \in Tasks
      BY <1>1, <2>3, <2>6
    <3>3. Supported(First(at[h].rest))'
      <4>1. First(at[h].rest)' = First(at[h].rest)
        BY <2>6
      <4> QED
        BY <2>4, <2>5, <4>1, SameLog DEF Supported
    <3>4. /\ \A u \in at'[h].rest : DependsOn[u] \subseteq CompletedTasks'
          /\ at'[h].snap.granted \subseteq Granted'
      BY <2>4, <2>6, SameLog, RestPromised
    <3> HIDE DEF a, t, k, cmd
    <3> QED
      BY <3>1, <3>2, <3>3, <3>4 DEF HandlerPromised
  <2> HIDE DEF a, t, k, cmd
  <2>9. PromiseStep(h)
    BY <1>1, <2>4, <2>6, <2>7, <2>8 DEF PromiseStep
  <2> QED
    BY <2>9, PromiseFrame
<1> QED
  BY <1>1, <1>2, <1>3, LeavesPromise

LEMMA CallNobodyPromise ==
  ASSUME RunInv, NEW h \in Handlers, CallNobody(h)
  PROVE  Kept'
<1>1. UNCHANGED controlVars /\ Stay /\ Idles(h)
  BY RunFits, CallNobodyEffect DEF Idles
<1> QED
  BY <1>1, IdlesPromise

LEMMA CommitTokenPromise ==
  ASSUME RunInv, NEW h \in Handlers, CommitToken(h)
  PROVE  Kept'
<1> PICK a : a = at[h]
  OBVIOUS
<1>1. /\ a.pc = "commit" /\ UNCHANGED controlVars /\ Stay
      /\ \/ Idles(h)
         \/ Becomes(h, <<"controlRequest", a.op, a.cmd, a.token, a.rest, a.snap, a.todo, a.then>>)
  BY RunFits, CommitTokenEffect
<1>2. CASE Becomes(h, <<"controlRequest", a.op, a.cmd, a.token, a.rest, a.snap, a.todo, a.then>>)
  <2>1. a.todo = <<>> /\ At(h) = "commit"
    BY <1>1, PlaceNow
  <2>2. Becomes(h, <<"controlRequest", a.op, a.cmd, a.token, a.rest, a.snap, <<>>, a.then>>)
    BY <1>2, <2>1
  <2>3. /\ Moved(h) /\ At(h)' = "controlRequest" /\ Queue(h)' = {} /\ at'[h].op = a.op
        /\ at'[h].token = a.token /\ at'[h].rest = a.rest /\ at'[h].snap = a.snap
    <3>1. /\ Moved(h) /\ at'[h].pc = "controlRequest" /\ at'[h].todo = <<>> /\ at'[h].op = a.op
          /\ at'[h].token = a.token /\ at'[h].rest = a.rest /\ at'[h].snap = a.snap
      BY <2>2 DEF Becomes, Fields
    <3> QED
      BY <3>1, EmptyQueue DEF At
  <2>4. LogEvents \subseteq LogEvents'
    BY <1>1 DEF Stay, LogEvents
  <2>5. HandlerPromised(h)' /\ At(h)' \notin {"stopAck", "claimDecision"}
    BY <2>1, <2>3, <2>4, KeepsPromised DEF AdapterPlaces, ControlPlaces
  <2> QED
    BY <1>1, <2>3, <2>5, QuietPromise
<1> QED
  BY <1>1, <1>2, IdlesPromise

LEMMA PendingPromise ==
  ASSUME RunInv, NEW h \in Handlers, Pending(h)
  PROVE  Kept'
<1> PICK a : a = at[h]
  OBVIOUS
<1> PICK e : e = RunEvent("dispatch.failed")
  OBVIOUS
<1>1. /\ a.pc = "pending" /\ UNCHANGED controlVars /\ Stay
      /\ \/ Idles(h)
         \/ Becomes(h, <<"finish", a.op, a.cmd, a.token, a.rest, a.snap, a.todo, a.then>>)
         \/ Plain(e) /\ Queues(h, a.cmd, <<e>>, "done")
  BY RunFits, PendingEffect
<1>2. a.todo = <<>> /\ LogEvents \subseteq LogEvents'
  BY <1>1, PlaceNow DEF Stay, LogEvents
<1>3. CASE Becomes(h, <<"finish", a.op, a.cmd, a.token, a.rest, a.snap, a.todo, a.then>>)
  <2>1. Becomes(h, <<"finish", a.op, a.cmd, a.token, a.rest, a.snap, <<>>, a.then>>)
    BY <1>2, <1>3
  <2>2. /\ Moved(h) /\ At(h)' = "finish" /\ Queue(h)' = {} /\ at'[h].op = a.op
        /\ at'[h].token = a.token /\ at'[h].rest = a.rest /\ at'[h].snap = a.snap
    <3>1. /\ Moved(h) /\ at'[h].pc = "finish" /\ at'[h].todo = <<>> /\ at'[h].op = a.op
          /\ at'[h].token = a.token /\ at'[h].rest = a.rest /\ at'[h].snap = a.snap
      BY <2>1 DEF Becomes, Fields
    <3> QED
      BY <3>1, EmptyQueue DEF At
  <2>3. HandlerPromised(h)' /\ At(h)' \notin {"stopAck", "claimDecision"}
    BY <1>2, <2>2, KeepsPromised DEF AdapterPlaces, ControlPlaces
  <2> QED
    BY <1>1, <2>2, <2>3, QuietPromise
<1>4. CASE Plain(e) /\ Queues(h, a.cmd, <<e>>, "done")
  <2>1. Becomes(h, <<"append", a.op, a.cmd, a.token, a.rest, a.snap, <<e>>, "done">>)
    BY <1>4 DEF Queues
  <2>2. /\ Moved(h) /\ At(h)' = "done" /\ at'[h].todo = <<e>> /\ at'[h].op = a.op
        /\ at'[h].token = a.token /\ at'[h].rest = a.rest /\ at'[h].snap = a.snap
    BY <2>1, EmitsAt
  <2>3. HandlerPromised(h)' /\ At(h)' \notin {"stopAck", "claimDecision"}
    BY <1>2, <2>2, KeepsPromised DEF AdapterPlaces, ControlPlaces
  <2>4. \A f \in Queue(h)' : Fine(f)'
    BY <1>4, <2>2, SingleQueue, PlainFine
  <2> QED
    BY <1>1, <2>2, <2>3, <2>4, QuietPromise
<1> QED
  BY <1>1, <1>3, <1>4, IdlesPromise

LEMMA FinishPromise ==
  ASSUME RunInv, NEW h \in Handlers, Finish(h)
  PROVE  Kept'
<1> PICK a : a = at[h]
  OBVIOUS
<1> PICK e : e = RunEvent("dispatch.completed")
  OBVIOUS
<1>1. /\ a.pc = "finish" /\ UNCHANGED controlVars /\ Stay
      /\ \/ Idles(h)
         \/ ("dag" \in found => AllCompleted) /\ Queues(h, a.cmd, <<e>>, "done")
  BY RunFits, FinishEffect
<1>2. LogEvents \subseteq LogEvents' /\ log' = log
  BY <1>1 DEF Stay, LogEvents
<1>3. CASE ("dag" \in found => AllCompleted) /\ Queues(h, a.cmd, <<e>>, "done")
  <2>1. Becomes(h, <<"append", a.op, a.cmd, a.token, a.rest, a.snap, <<e>>, "done">>)
    BY <1>3 DEF Queues
  <2>2. /\ Moved(h) /\ At(h)' = "done" /\ at'[h].todo = <<e>> /\ at'[h].op = a.op
        /\ at'[h].token = a.token /\ at'[h].rest = a.rest /\ at'[h].snap = a.snap
    BY <2>1, EmitsAt
  <2>3. HandlerPromised(h)' /\ At(h)' \notin {"stopAck", "claimDecision"}
    BY <1>2, <2>2, KeepsPromised DEF AdapterPlaces, ControlPlaces
  <2>4. "dag" \in found' => AllCompleted'
    BY <1>1, <1>2, <1>3, SameLog DEF AllCompleted, Stay
  <2>5. e.type = "dispatch.completed" /\ e.state = ""
    BY DEF RunEvent, Event
  <2>6. Fine(e)'
    BY <2>4, <2>5 DEF Fine, EventPromised, EndPromised, Releases, Decision
  <2>7. \A f \in Queue(h)' : Fine(f)'
    BY <2>2, <2>6, SingleQueue
  <2> QED
    BY <1>1, <2>2, <2>3, <2>7, QuietPromise
<1> QED
  BY <1>1, <1>3, IdlesPromise

-----------------------------------------------------------------------------
(* Requests arrive.                                                        *)

LEMMA ServesLoose ==
  ASSUME RunInv, NEW h \in Handlers, NEW op, NEW cmd, NEW token,
         NEW pc \in {"claim", "claimDecision"}, Serves(h, op, cmd, token, pc)
  PROVE  /\ Moved(h) /\ HandlerPromised(h)' /\ At(h)' = pc /\ Queue(h)' = {} /\ at'[h].op = op
<1>1. /\ Moved(h) /\ At(h)' = pc /\ Queue(h)' = {} /\ at'[h].op = op
      /\ at'[h].rest = {} /\ at'[h].snap = NoSnap
  BY GoesAt DEF Serves
<1>2. At(h)' \notin AdapterPlaces \cup ControlPlaces
  BY <1>1 DEF AdapterPlaces, ControlPlaces
<1> QED
  BY <1>1, <1>2, LoosePromised

LEMMA ResultArrivesPromise ==
  ASSUME RunInv, NEW h \in Requests, NEW op \in Menu[h], ResultArrives(h, op)
  PROVE  Kept'
<1>1. /\ UNCHANGED controlVars /\ Stay
      /\ Idles(h) \/ \E k \in Keys : Serves(h, op, Cmd(k, "acknowledged"), 0, "claim")
  BY LedgerNow, ResultArrivesEffect
<1>2. h \in Handlers
  BY DEF Handlers
<1>3. ASSUME NEW k \in Keys, Serves(h, op, Cmd(k, "acknowledged"), 0, "claim")
      PROVE  Kept'
  <2>1. /\ Moved(h) /\ HandlerPromised(h)' /\ At(h)' = "claim" /\ Queue(h)' = {}
    BY <1>2, <1>3, ServesLoose
  <2> QED
    BY <1>1, <1>2, <2>1, QuietPromise
<1> QED
  BY <1>1, <1>2, <1>3, IdlesPromise

(* A fence that a control presents is one the log shows, so the task it    *)
(* names was released.                                                     *)
LEMMA PublishedReleased ==
  ASSUME RunInv, NEW t, NEW token \in PublishedFences(t), token # 0
  PROVE  t \in Released
<1>1. PICK e \in LogEvents : e.task = t /\ e.fence = token
  BY DEF PublishedFences, LogEvents
<1>2. e \in Events /\ EventSound(e) /\ EventPromised(e)
  BY LedgerNow, PromiseNow DEF Events
<1>3. e.state # "" /\ e.key \in Keys /\ Known(e.key) /\ commands[e.key].task = t
      /\ commands[e.key].fence # 0
  BY <1>1, <1>2 DEF EventSound
<1>4. t \in Tasks
  BY <1>3, PromiseNow DEF CommandReleased
<1>5. t \in Released \/ Releases(e, t)
  BY <1>1, <1>2, <1>3, <1>4 DEF EventPromised
<1> QED
  BY <1>4, <1>5, InLog

LEMMA ControlArrivesPromise ==
  ASSUME RunInv, NEW h \in Requests, NEW op \in Menu[h], ControlArrives(h, op)
  PROVE  Kept'
<1>1. /\ UNCHANGED controlVars /\ Stay
      /\ \/ Idles(h)
         \/ op.what = "emergency-stop" /\ Serves(h, op, NoCmd, 0, "controlRequest")
         \/ /\ op.what # "emergency-stop"
            /\ \E token \in PublishedFences(op.task) :
                 token \in Nat \ {0} /\ Serves(h, op, NoCmd, token, "commit")
  BY LedgerNow, ControlArrivesEffect
<1>2. h \in Handlers
  BY DEF Handlers
<1>3. ASSUME NEW token, NEW pc \in {"commit", "controlRequest"}, Serves(h, op, NoCmd, token, pc),
             IF op.what = "emergency-stop" THEN token = 0
             ELSE token # 0 /\ op.task \in Released
      PROVE  Kept'
  <2>1. /\ Moved(h) /\ At(h)' = pc /\ Queue(h)' = {} /\ at'[h].op = op /\ at'[h].token = token
        /\ at'[h].rest = {} /\ at'[h].snap = NoSnap
    BY <1>2, <1>3, GoesAt DEF Serves
  <2>2. Released' = Released
    BY <1>1, SameLog DEF Stay
  <2>3. at'[h].snap.granted = {}
    BY <2>1, NoSnapFields
  <2>4. HandlerPromised(h)'
    BY <1>3, <2>1, <2>2, <2>3 DEF HandlerPromised
  <2> QED
    BY <1>1, <1>2, <2>1, <2>4, QuietPromise
<1>4. CASE /\ op.what # "emergency-stop"
           /\ \E token \in PublishedFences(op.task) :
                token \in Nat \ {0} /\ Serves(h, op, NoCmd, token, "commit")
  BY <1>3, <1>4, PublishedReleased
<1> QED
  BY <1>1, <1>2, <1>3, <1>4, IdlesPromise

LEMMA DecidedTasks ==
  ASSUME NEW t \in Tasks
  PROVE  t \in Decided => t \in Granted \cup Denied
  BY InLog DEF Decided, Decision

LEMMA ApproveArrivesPromise ==
  ASSUME RunInv, NEW h \in Requests, NEW op \in Menu[h], ApproveArrives(h, op)
  PROVE  Kept'
<1>1. /\ UNCHANGED controlVars /\ Stay
      /\ \/ Idles(h)
         \/ /\ op.task \in Asked \ (Granted \cup Denied)
            /\ Serves(h, op, NoCmd, 0, "claimDecision")
  BY LedgerNow, ApproveArrivesEffect
<1>2. h \in Handlers
  BY DEF Handlers
<1>3. CASE /\ op.task \in Asked \ (Granted \cup Denied)
           /\ Serves(h, op, NoCmd, 0, "claimDecision")
  <2>1. /\ Moved(h) /\ HandlerPromised(h)' /\ At(h)' = "claimDecision" /\ Queue(h)' = {}
        /\ at'[h].op = op
    BY <1>2, <1>3, ServesLoose
  <2>2. op.task \in Tasks
    BY <1>3, InTasks
  <2>3. op.task \notin Decided
    BY <1>3, <2>2, DecidedTasks
  <2>4. op.task \in Guarded
    <3>1. PICK e \in LogEvents : e.type = "approval.requested" /\ e.task = op.task
      BY <1>3, <2>2, InLog
    <3> QED
      BY <3>1, DecisionNow DEF Events
  <2>5. \A k \in Keys : CommandReleased(k)'
    BY <1>1, SameReleased DEF controlVars, Stay, LogEvents
  <2>6. log' = log /\ claims' = claims /\ found' = found /\ stopped' = stopped
    BY <1>1 DEF controlVars, Stay
  <2>7. At(h)' # "stopAck" /\ \A e \in Queue(h)' : Fine(e)'
    BY <2>1
  <2>8. at'[h].op.task \in Guarded /\ at'[h].op.task \notin Decided
    BY <2>1, <2>3, <2>4
  <2>9. PromiseStep(h)
    BY <2>1, <2>5, <2>6, <2>7, <2>8 DEF PromiseStep
  <2> QED
    BY <1>2, <2>9, PromiseFrame
<1> QED
  BY <1>1, <1>2, <1>3, IdlesPromise

LEMMA ReconcileArrivesPromise ==
  ASSUME RunInv, NEW h \in Requests, NEW op \in Menu[h], ReconcileArrives(h, op)
  PROVE  Kept'
<1>1. /\ h \in Handlers /\ UNCHANGED controlVars /\ Stay
      /\ \/ Idles(h)
         \/ \E events : \E then \in {"done", "settle"} :
              /\ AllPlain(events)
              /\ Becomes(h, <<"append", op, NoCmd, 0, {}, NoSnap, events, then>>)
  BY LedgerNow, ReconcileArrivesEffect
<1>2. ASSUME NEW events, NEW then \in {"done", "settle"}, AllPlain(events),
             Becomes(h, <<"append", op, NoCmd, 0, {}, NoSnap, events, then>>)
      PROVE  Kept'
  <2>1. /\ Moved(h) /\ At(h)' = then /\ at'[h].rest = {} /\ at'[h].snap = NoSnap
        /\ at'[h].todo = events
    BY <1>1, <1>2, EmitsAt
  <2>2. \A e \in Queue(h)' : Plain(e)
    BY <1>2, <2>1 DEF Queue, AllPlain
  <2>3. At(h)' \notin AdapterPlaces \cup ControlPlaces /\ At(h)' \notin {"stopAck", "claimDecision"}
    BY <2>1 DEF AdapterPlaces, ControlPlaces
  <2>4. HandlerPromised(h)'
    BY <1>1, <2>1, <2>3, LoosePromised
  <2> QED
    BY <1>1, <2>1, <2>2, <2>3, <2>4, PlainFine, QuietPromise
<1> QED
  BY <1>1, <1>2, IdlesPromise

-----------------------------------------------------------------------------
(* The steps that move a command.                                          *)

LEMMA MovePromise ==
  ASSUME RunInv, NEW h \in Handlers, Moved(h), NEW k \in Keys, NEW to \in CommandState,
         TryTransition(k, to), Stay,
         TransitionAllowed(k, to) /\ commands[k].state = "requested" =>
           at[h].pc \in RecordedPlaces /\ at[h].cmd.key = k,
         At(h)' \notin {"stopAck", "claimDecision"}, \A e \in Queue(h)' : Fine(e)',
         HandlerPromised(h)'
  PROVE  Kept'
<1>1. log' = log /\ claims' = claims /\ found' = found
  BY DEF Stay
<1>2. (\A j \in Keys : CommandReleased(j)') /\ stopped' = stopped
  BY <1>1, MoveReleased
<1>3. PromiseStep(h)
  BY <1>1, <1>2 DEF PromiseStep
<1> QED
  BY <1>3, PromiseFrame

(* What is said of a command that moved.                                   *)
LEMMA ReturnedFine ==
  ASSUME RunInv, NEW h \in Handlers, NEW k \in Keys, NEW to \in CommandState,
         TryTransition(k, to), log' = log,
         TransitionAllowed(k, to) /\ commands[k].state = "requested" =>
           at[h].pc \in RecordedPlaces /\ at[h].cmd.key = k,
         NEW type \in PlainTypes, NEW e, e = CommandEvent(type, Returned(k, to))
  PROVE  Fine(e)'
<1>1. /\ e.type \notin Decision /\ e.type # "approval.requested"
      /\ e.type # "dispatch.emergency_stopped" /\ e.type # "command.requested"
      /\ e.type # "task.completed" /\ e.type # "dispatch.completed"
  BY DEF CommandEvent, PlainTypes, Decision
<1>2. e.state # "" /\ e.task \in Tasks => e.task \in Released'
  <2> PICK c : c = Returned(k, to)
    OBVIOUS
  <2>1. e.task = c.task /\ e.state = c.state
    BY CommandEventFields
  <2>2. CASE ~TransitionAllowed(k, to)
    <3>1. c = NoCmd
      BY <2>2 DEF Returned
    <3> QED
      BY <2>1, <3>1, NoCmdFields
  <2>3. CASE TransitionAllowed(k, to)
    <3>1. c.task = commands[k].task
      BY <2>3 DEF Returned, Cmd
    <3>2. commands[k].task \in Tasks => commands[k].task \in Released
      BY <2>3, MoveReleased
    <3> QED
      BY <2>1, <3>1, <3>2, SameLog
  <2> QED
    BY <2>2, <2>3
<1> QED
  BY <1>1, <1>2 DEF Fine, EventPromised, EndPromised, Releases

LEMMA ReportsPromise ==
  ASSUME RunInv, NEW h \in Handlers, NEW cmd, NEW to \in CommandState, NEW type \in PlainTypes,
         NEW then \in {"advance", "done", "retryRequest"},
         ReportsMove(h, cmd, to, type, then), Stay,
         TransitionAllowed(at[h].cmd.key, to) /\ commands[at[h].cmd.key].state = "requested" =>
           at[h].pc \in RecordedPlaces,
         then = "retryRequest" => At(h) \in AdapterPlaces
  PROVE  Kept'
<1> PICK k : k = at[h].cmd.key
  OBVIOUS
<1> PICK e : e = CommandEvent(type, Returned(k, to))
  OBVIOUS
<1>1. PICK events : Reports(events, e) /\ Queues(h, cmd, events, then)
  BY DEF ReportsMove
<1>2. k \in Keys /\ TryTransition(k, to)
  BY DEF ReportsMove
<1>3. Becomes(h, <<"append", at[h].op, cmd, at[h].token, at[h].rest, at[h].snap, events, then>>)
  BY <1>1 DEF Queues
<1>4. /\ Moved(h) /\ At(h)' = then /\ at'[h].todo = events /\ at'[h].op = at[h].op
      /\ at'[h].token = at[h].token /\ at'[h].rest = at[h].rest /\ at'[h].snap = at[h].snap
  BY <1>3, EmitsAt
<1>5. \A f \in Queue(h)' : f = e \/ Plain(f)
  BY <1>1, <1>4, PlainQueue
<1>6. log' = log /\ LogEvents \subseteq LogEvents'
  BY DEF Stay, LogEvents
<1>7. Fine(e)'
  BY <1>2, <1>6, ReturnedFine
<1>8. \A f \in Queue(h)' : Fine(f)'
  BY <1>5, <1>7, PlainFine
<1>9. HandlerPromised(h)' /\ At(h)' \notin {"stopAck", "claimDecision"}
  BY <1>4, <1>6, KeepsPromised DEF AdapterPlaces, ControlPlaces
<1> QED
  BY <1>2, <1>4, <1>8, <1>9, MovePromise

LEMMA AcceptedPromise ==
  ASSUME RunInv, NEW h \in Handlers, Accepted(h)
  PROVE  Kept'
<1>1. /\ at[h].pc = "accepted" /\ Stay
      /\ \E type \in PlainTypes : \E then \in {"advance", "retryRequest", "done"} :
           ReportsMove(h, at[h].cmd, "acknowledged", type, then)
  BY RunFits, AcceptedEffect
<1>2. at[h].pc \in RecordedPlaces /\ At(h) \in AdapterPlaces
  BY <1>1, PlaceNow DEF RecordedPlaces, OwnerPlaces, AdapterPlaces
<1>3. "acknowledged" \in CommandState
  BY DEF CommandState
<1> QED
  BY <1>1, <1>2, <1>3, ReportsPromise

LEMMA RefusedPromise ==
  ASSUME RunInv, NEW h \in Handlers, Refused(h)
  PROVE  Kept'
<1>1. /\ at[h].pc = "refused" /\ Stay
      /\ \E type \in PlainTypes : \E then \in {"advance", "done"} :
           ReportsMove(h, at[h].cmd, "failed", type, then)
  BY RunFits, RefusedEffect
<1>2. at[h].pc \in RecordedPlaces
  BY <1>1 DEF RecordedPlaces, OwnerPlaces
<1>3. "failed" \in CommandState
  BY DEF CommandState
<1> QED
  BY <1>1, <1>2, <1>3, ReportsPromise

LEMMA DoubtPromise ==
  ASSUME RunInv, NEW h \in Handlers, Doubt(h)
  PROVE  Kept'
<1>1. /\ at[h].pc = "doubt" /\ Stay
      /\ \E type \in PlainTypes : \E then \in {"advance", "done"} :
           ReportsMove(h, at[h].cmd, "outcome_unknown", type, then)
  BY RunFits, DoubtEffect
<1>2. TransitionAllowed(at[h].cmd.key, "outcome_unknown")
        => commands[at[h].cmd.key].state # "requested"
  BY DEF TransitionAllowed, Moves
<1>3. "outcome_unknown" \in CommandState
  BY DEF CommandState
<1> QED
  BY <1>1, <1>2, <1>3, ReportsPromise

LEMMA RetryAckPromise ==
  ASSUME RunInv, NEW h \in Handlers, RetryAck(h)
  PROVE  Kept'
<1>1. /\ at[h].pc = "retryAck" /\ Stay
      /\ ReportsMove(h, at[h].cmd, "acknowledged", "command.acknowledged", "done")
  BY RunFits, RetryAckEffect
<1>2. at[h].pc \in RecordedPlaces
  BY <1>1 DEF RecordedPlaces, OwnerPlaces
<1>3. "acknowledged" \in CommandState /\ "command.acknowledged" \in PlainTypes
  BY DEF CommandState, PlainTypes, EventTypes
<1> QED
  BY <1>1, <1>2, <1>3, ReportsPromise

LEMMA ResultEndsPromise ==
  ASSUME RunInv, NEW h \in Handlers, ResultFailed(h) \/ ResultCancelled(h)
  PROVE  Kept'
<1>1. /\ at[h].pc = "poll" /\ Stay
      /\ \E type \in PlainTypes, to \in {"failed", "cancelled"} :
           ReportsMove(h, NoCmd, to, type, "done")
  BY RunFits, ResultEndsEffect
<1>2. commands[at[h].cmd.key].state # "requested"
  BY <1>1, PolledHand
<1>3. "failed" \in CommandState /\ "cancelled" \in CommandState
  BY DEF CommandState
<1> QED
  BY <1>1, <1>2, <1>3, ReportsPromise

LEMMA LostPromise ==
  ASSUME RunInv, NEW h \in Handlers, Lost(h)
  PROVE  Kept'
<1> PICK a : a = at[h]
  OBVIOUS
<1>1. /\ a.pc = "lost" /\ Stay /\ a.cmd.key \in Keys /\ TryTransition(a.cmd.key, "acknowledged")
      /\ Becomes(h, <<"doubt", a.op, a.cmd, a.token, a.rest, a.snap, a.todo, a.then>>)
  BY RunFits, LostEffect
<1>2. a.todo = <<>> /\ At(h) = "lost"
  BY <1>1, PlaceNow
<1>3. Becomes(h, <<"doubt", a.op, a.cmd, a.token, a.rest, a.snap, <<>>, a.then>>)
  BY <1>1, <1>2
<1>4. /\ Moved(h) /\ At(h)' = "doubt" /\ Queue(h)' = {} /\ at'[h].op = a.op /\ at'[h].cmd = a.cmd
      /\ at'[h].token = a.token /\ at'[h].rest = a.rest /\ at'[h].snap = a.snap
  BY <1>3, GoesAt
<1>5. a.rest # {} => a.cmd.task \in Tasks
  BY <1>2, PromiseNow DEF HandlerPromised, AdapterPlaces
<1>6. LogEvents \subseteq LogEvents'
  BY <1>1 DEF Stay, LogEvents
<1>7. HandlerPromised(h)' /\ At(h)' \notin {"stopAck", "claimDecision"}
  BY <1>2, <1>4, <1>5, <1>6, KeepsPromised DEF AdapterPlaces
<1>8. at[h].pc \in RecordedPlaces /\ "acknowledged" \in CommandState
  BY <1>1 DEF RecordedPlaces, OwnerPlaces, CommandState
<1> QED
  BY <1>1, <1>4, <1>7, <1>8, MovePromise

LEMMA ClaimPollPromise ==
  ASSUME RunInv, NEW h \in Handlers, ClaimPoll(h)
  PROVE  Kept'
<1> PICK a : a = at[h]
  OBVIOUS
<1>1. /\ a.pc = "claim" /\ Stay /\ a.cmd.key \in Keys /\ TryTransition(a.cmd.key, "polling")
      /\ \/ Idles(h)
         \/ Becomes(h, <<"poll", a.op, a.cmd, a.token, a.rest, a.snap, a.todo, a.then>>)
  BY RunFits, ClaimPollEffect
<1>2. TransitionAllowed(a.cmd.key, "polling") => commands[a.cmd.key].state # "requested"
  BY DEF TransitionAllowed, Moves
<1>3. "polling" \in CommandState
  BY DEF CommandState
<1>4. CASE Becomes(h, <<"poll", a.op, a.cmd, a.token, a.rest, a.snap, a.todo, a.then>>)
  <2>1. a.todo = <<>> /\ At(h) = "claim"
    BY <1>1, PlaceNow
  <2>2. Becomes(h, <<"poll", a.op, a.cmd, a.token, a.rest, a.snap, <<>>, a.then>>)
    BY <1>4, <2>1
  <2>3. /\ Moved(h) /\ At(h)' = "poll" /\ Queue(h)' = {} /\ at'[h].op = a.op
        /\ at'[h].token = a.token /\ at'[h].rest = a.rest /\ at'[h].snap = a.snap
    <3>1. /\ Moved(h) /\ at'[h].pc = "poll" /\ at'[h].todo = <<>> /\ at'[h].op = a.op
          /\ at'[h].token = a.token /\ at'[h].rest = a.rest /\ at'[h].snap = a.snap
      BY <2>2 DEF Becomes, Fields
    <3> QED
      BY <3>1, EmptyQueue DEF At
  <2>4. LogEvents \subseteq LogEvents'
    BY <1>1 DEF Stay, LogEvents
  <2>5. HandlerPromised(h)' /\ At(h)' \notin {"stopAck", "claimDecision"}
    BY <2>3, <2>4, KeepsPromised DEF AdapterPlaces, ControlPlaces
  <2> QED
    BY <1>1, <1>2, <1>3, <2>3, <2>5, MovePromise
<1> QED
  BY <1>1, <1>2, <1>3, <1>4, IdlesPromised, MovePromise

LEMMA ResultPendingPromise ==
  ASSUME RunInv, NEW h \in Handlers, ResultPending(h)
  PROVE  Kept'
<1> PICK k : k = at[h].cmd.key
  OBVIOUS
<1>1. /\ at[h].pc = "poll" /\ k \in Keys /\ Stay /\ TryTransition(k, "acknowledged") /\ Idles(h)
  BY RunFits, ResultPendingEffect
<1>2. commands[k].state # "requested" /\ "acknowledged" \in CommandState
  BY <1>1, PolledHand DEF CommandState
<1> QED
  BY <1>1, <1>2, IdlesPromised, MovePromise

(* The steps that report a move and say one thing more.                    *)
LEMMA PairPromise ==
  ASSUME RunInv, NEW h \in Handlers, NEW k \in Keys, NEW to \in CommandState,
         TryTransition(k, to), Stay,
         TransitionAllowed(k, to) /\ commands[k].state = "requested" =>
           at[h].pc \in RecordedPlaces /\ at[h].cmd.key = k,
         NEW cmd, NEW e, NEW f, NEW then \in {"done", "schedule", "pending"},
         Queues(h, cmd, <<e, f>>, then), Fine(e)', Fine(f)'
  PROVE  Kept'
<1>1. Becomes(h, <<"append", at[h].op, cmd, at[h].token, at[h].rest, at[h].snap, <<e, f>>, then>>)
  BY DEF Queues
<1>2. /\ Moved(h) /\ At(h)' = then /\ at'[h].todo = <<e, f>> /\ at'[h].op = at[h].op
      /\ at'[h].token = at[h].token /\ at'[h].rest = at[h].rest /\ at'[h].snap = at[h].snap
  BY <1>1, EmitsAt
<1>3. Queue(h)' = {e, f}
  BY <1>2, PairQueue
<1>4. LogEvents \subseteq LogEvents'
  BY DEF Stay, LogEvents
<1>5. HandlerPromised(h)' /\ At(h)' \notin {"stopAck", "claimDecision"}
  BY <1>2, <1>4, KeepsPromised DEF AdapterPlaces, ControlPlaces
<1> QED
  BY <1>2, <1>3, <1>5, MovePromise

LEMMA StopAckPromise ==
  ASSUME RunInv, NEW h \in Handlers, StopAck(h)
  PROVE  Kept'
<1> PICK k : k = at[h].cmd.key
  OBVIOUS
<1> PICK e : e = CommandEvent("control.acknowledged", Returned(k, "acknowledged"))
  OBVIOUS
<1> PICK f : f = RunEvent("dispatch.emergency_stopped")
  OBVIOUS
<1>1. /\ at[h].pc = "stopAck" /\ k \in Keys /\ TryTransition(k, "acknowledged") /\ Stay
      /\ Queues(h, at[h].cmd, <<e, f>>, "done")
  BY RunFits, StopAckEffect
<1>2. at[h].pc \in RecordedPlaces /\ "acknowledged" \in CommandState
      /\ "control.acknowledged" \in PlainTypes
  BY <1>1 DEF RecordedPlaces, OwnerPlaces, CommandState, PlainTypes, EventTypes
<1>3. log' = log
  BY <1>1 DEF Stay
<1>4. Fine(e)'
  BY <1>1, <1>2, <1>3, ReturnedFine
<1>5. stopped'
  <2>1. stopped
    BY <1>1, PlaceNow, DecisionNow
  <2>2. stopped' = stopped
    BY <1>1, <1>2, <1>3, MoveReleased
  <2> QED
    BY <2>1, <2>2
<1>6. f.type = "dispatch.emergency_stopped" /\ f.state = ""
  BY DEF RunEvent, Event
<1>7. Fine(f)'
  BY <1>5, <1>6 DEF Fine, EventPromised, EndPromised, Releases, Decision
<1> QED
  BY <1>1, <1>2, <1>4, <1>7, PairPromise

(* task.completed of the task of a command that is no longer requested.    *)
LEMMA CompletedFine ==
  ASSUME RunInv, log' = log, NEW k \in Keys, Known(k), commands[k].state # "requested",
         NEW f, f = Event("task.completed", commands[k].task)
  PROVE  Fine(f)'
<1>1. f.type = "task.completed" /\ f.state = "" /\ f.task = commands[k].task
  BY DEF Event
<1>2. commands[k].task \in Tasks => commands[k].task \in Released'
  BY PromiseNow, SameLog DEF CommandReleased
<1> QED
  BY <1>1, <1>2 DEF Fine, EventPromised, EndPromised, Releases, Decision

LEMMA ResultCompletedPromise ==
  ASSUME RunInv, NEW h \in Handlers, ResultCompleted(h)
  PROVE  Kept'
<1> PICK k : k = at[h].cmd.key
  OBVIOUS
<1> PICK e : e = CommandEvent("command.completed", Returned(k, "completed"))
  OBVIOUS
<1> PICK f : f = Event("task.completed", at[h].op.task)
  OBVIOUS
<1>1. /\ at[h].pc = "poll" /\ k \in Keys /\ TryTransition(k, "completed") /\ Stay
      /\ Queues(h, NoCmd, <<e, f>>, "schedule")
  BY RunFits, ResultCompletedEffect
<1>2. Known(k) /\ commands[k].state = "polling" /\ commands[k].task = at[h].op.task
  BY <1>1, PolledHand
<1>3. log' = log /\ "completed" \in CommandState /\ "command.completed" \in PlainTypes
  BY <1>1 DEF Stay, CommandState, PlainTypes, EventTypes
<1>4. Fine(e)'
  BY <1>1, <1>2, <1>3, ReturnedFine
<1>5. Fine(f)'
  BY <1>1, <1>2, <1>3, CompletedFine
<1> QED
  BY <1>1, <1>2, <1>3, <1>4, <1>5, PairPromise

LEMMA SettlePromise ==
  ASSUME RunInv, NEW h \in Handlers, Settle(h)
  PROVE  Kept'
<1> PICK k : k = at[h].op.key
  OBVIOUS
<1>1. /\ k \in Keys /\ Stay /\ at[h].op.kind = "reconcile"
      /\ \/ UNCHANGED controlVars /\ Idles(h)
         \/ /\ TransitionAllowed(k, "reconciled") /\ TryTransition(k, "reconciled")
            /\ \E e, f : \E then \in {"schedule", "pending"} :
                 /\ Plain(e)
                 /\ Plain(f) \/ f = Event("task.completed", at[h].op.task)
                 /\ Queues(h, at[h].cmd, <<e, f>>, then)
  BY RunFits, SettleEffect
<1>2. ASSUME TransitionAllowed(k, "reconciled"), TryTransition(k, "reconciled"),
             NEW e, NEW f, NEW then \in {"schedule", "pending"}, Plain(e),
             Plain(f) \/ f = Event("task.completed", at[h].op.task),
             Queues(h, at[h].cmd, <<e, f>>, then)
      PROVE  Kept'
  <2>1. Known(k) /\ commands[k].state # "requested" /\ "reconciled" \in CommandState
    BY <1>2 DEF TransitionAllowed, Moves, Known, CommandState
  <2>2. commands[k].task = at[h].op.task
    <3>1. at[h].op \in AllOperations
      BY LedgerNow, HandlerTyped
    <3>2. k[2] = at[h].op.task
      BY <1>1, <3>1, OperationForm
    <3> QED
      BY <1>1, <2>1, <3>2, LedgerNow DEF CommandSound
  <2>3. log' = log
    BY <1>1 DEF Stay
  <2>4. Fine(f)'
    <3>1. CASE Plain(f)
      BY <3>1, PlainFine
    <3>2. CASE f = Event("task.completed", at[h].op.task)
      BY <1>1, <2>1, <2>2, <2>3, <3>2, CompletedFine
    <3> QED
      BY <1>2, <3>1, <3>2
  <2> QED
    BY <1>1, <1>2, <2>1, <2>4, PlainFine, PairPromise
<1> QED
  BY <1>1, <1>2, IdlesPromise

-----------------------------------------------------------------------------
(* Fences and requests.                                                    *)

LEMMA DispatchKeys ==
  /\ \A t : DispatchKey(t)[1] = "dispatch" /\ DispatchKey(t)[2] = t
  /\ \A t, u : DispatchKey(t) = DispatchKey(u) => t = u
  /\ \A t, u, tag : RetryKey(t, tag) # DispatchKey(u)
  BY DEF DispatchKey, RetryKey

(* What a handler that serves a control knows of its task.                 *)
LEMMA ControlHand ==
  ASSUME RunInv, NEW h \in Handlers, at[h].pc \in AdapterPlaces \cup ControlPlaces,
         at[h].op.kind = "control"
  PROVE  LET a == at[h] IN
         /\ At(h) = a.pc /\ a.todo = <<>> /\ a.rest = {}
         /\ a.op.what = "emergency-stop" => a.token = 0 /\ a.op.task \notin Tasks
         /\ a.op.what # "emergency-stop" => a.token # 0 /\ a.op.task \in Released
<1>1. at[h].pc # "append"
  BY DEF AdapterPlaces, ControlPlaces
<1>2. At(h) = at[h].pc /\ at[h].todo = <<>> /\ (at[h].rest # {} => Scheduler(at[h].op))
  BY <1>1, PlaceNow
<1>3. at[h].rest = {}
  BY <1>2 DEF Scheduler
<1>4. at[h].op.what = "emergency-stop" => at[h].op.task = RunTask
  BY LedgerNow, HandlerTyped, OperationForm
<1> QED
  BY <1>2, <1>3, <1>4, TasksAreIDs, PromiseNow DEF HandlerPromised

LEMMA RotatePromise ==
  ASSUME RunInv, NEW h \in Handlers, Rotate(h)
  PROVE  Kept'
<1> PICK a : a = at[h]
  OBVIOUS
<1> PICK k : k = a.cmd.key
  OBVIOUS
<1> PICK t : t = a.cmd.task
  OBVIOUS
<1> PICK cmd : cmd = [a.cmd EXCEPT !.fence = fences[t] + 1]
  OBVIOUS
<1> PICK e : e = CommandEvent(Family(a).requested, cmd)
  OBVIOUS
<1>1. /\ a.pc = "rotate" /\ k \in Keys /\ t \in TaskIDs /\ a.cmd \in CmdType
      /\ RotateFenceForCommand(k, t) /\ Stay /\ Queues(h, cmd, <<e>>, "call")
  BY RunFits, RotateEffect
<1>2. cmd.task = t /\ cmd.key = k /\ cmd.state = a.cmd.state
  BY <1>1 DEF CmdType
<1>3. At(h) = "rotate" /\ HandSound(h) /\ HandlerPromised(h) /\ PlaceFits(h)
  BY <1>1, PlaceNow, RunFits, PromiseNow
<1>4. e.key = k /\ e.task = t /\ e.state = "requested" /\ e.type = Family(a).requested
  <2>1. e.key = cmd.key /\ e.task = cmd.task /\ e.state = cmd.state
    <3>1. \A c, d : (\E type : d = CommandEvent(type, c)) =>
            d.key = c.key /\ d.task = c.task /\ d.state = c.state
      BY CommandEventFields
    <3>2. \E type : e = CommandEvent(type, cmd)
      OBVIOUS
    <3> QED
      BY ONLY <3>1, <3>2
  <2>2. e.type = Family(a).requested
    BY DEF CommandEvent
  <2>3. a.cmd.state = "requested"
    BY <1>3 DEF HandSound
  <2> QED
    BY <1>2, <2>1, <2>2, <2>3
<1>5. log' = log /\ claims' = claims /\ found' = found /\ LogEvents \subseteq LogEvents'
  BY <1>1 DEF Stay, LogEvents
<1>6. /\ \A j \in Keys \ {k} : commands'[j] = commands[j]
      /\ Known(k) /\ commands'[k].state = commands[k].state /\ commands'[k].task = t
      /\ commands[k].task = t /\ stopped' = stopped
  BY <1>1, RunFits, RotateFenceEffect
<1>7. t \in Tasks /\ Fine(e)'
  <2>1. CASE a.rest # {}
    <3> PICK u : u = First(a.rest)
      OBVIOUS
    <3>1. k = DispatchKey(u) /\ t \in Tasks /\ Supported(u)
      BY <1>3, <2>1 DEF HandlerPromised, AdapterPlaces
    <3>2. t = u
      BY <1>1, <1>6, <3>1, LedgerNow, DispatchKeys DEF CommandSound
    <3>3. e.type = "command.requested"
      BY <1>4, <2>1, FamilyTyped
    <3>4. Releases(e, t)
      BY <1>4, <3>1, <3>2, <3>3 DEF Releases
    <3>5. \A w \in Tasks : Releases(e, w) => w = t
      BY <1>4, <3>1, <3>2, DispatchKeys DEF Releases
    <3>6. Supported(t)'
      BY <1>5, <3>1, <3>2, SameLog
    <3>7. EventPromised(e)'
      BY <1>4, <3>3, <3>4, <3>5, <3>6 DEF EventPromised, Releases
    <3> QED
      BY <3>1, <3>3, <3>7 DEF Fine, EndPromised, Decision
  <2>2. CASE a.rest = {}
    <3>1. a.op.kind = "control" /\ a.op.what # "emergency-stop"
      BY <1>3, <2>2 DEF PlaceFits, Suits, AdapterPlaces
    <3>2. a.op.task \in Released
      BY <1>1, <3>1, ControlHand DEF AdapterPlaces
    <3>3. t = a.op.task
      BY <1>3, <2>2 DEF HandSound, Owns, OwnerPlaces
    <3>4. e.type = "control.requested"
      BY <1>4, <2>2, FamilyTyped
    <3>5. t \in Released'
      BY <1>5, <3>2, <3>3, SameLog
    <3>6. EventPromised(e)'
      BY <1>4, <3>4, <3>5 DEF EventPromised, Releases
    <3> QED
      BY <3>2, <3>3, <3>4, <3>6, InTasks DEF Fine, EndPromised, Decision
  <2> QED
    BY <2>1, <2>2
<1>8. \A j \in Keys : CommandReleased(j)'
  <2>1. CommandReleased(k)'
    BY <1>1, <1>5, <1>6, <1>7, SameLog, PromiseNow DEF CommandReleased
  <2>2. ASSUME NEW j \in Keys, j # k
        PROVE  CommandReleased(j)'
    BY <1>5, <1>6, <2>2, SameLog, PromiseNow DEF CommandReleased, Known
  <2> QED
    BY <2>1, <2>2
<1>9. /\ Moved(h) /\ At(h)' = "call" /\ at'[h].todo = <<e>> /\ at'[h].op = a.op /\ at'[h].cmd = cmd
      /\ at'[h].token = a.token /\ at'[h].rest = a.rest /\ at'[h].snap = a.snap
  <2>1. Becomes(h, <<"append", a.op, cmd, a.token, a.rest, a.snap, <<e>>, "call">>)
    BY <1>1 DEF Queues
  <2> QED
    BY <2>1, EmitsAt
<1>10. HandlerPromised(h)'
  BY <1>2, <1>3, <1>5, <1>7, <1>9, KeepsPromised DEF AdapterPlaces
<1>11. \A f \in Queue(h)' : Fine(f)'
  BY <1>7, <1>9, SingleQueue
<1>12. PromiseStep(h)
  BY <1>5, <1>6, <1>8, <1>9, <1>10, <1>11 DEF PromiseStep
<1> QED
  BY <1>12, PromiseFrame

LEMMA RequestControlPromise ==
  ASSUME RunInv, NEW h \in Handlers, RequestControl(h)
  PROVE  Kept'
<1> PICK a : a = at[h]
  OBVIOUS
<1> PICK k : k = a.op.key
  OBVIOUS
<1> PICK cmd : cmd = [key |-> k, task |-> a.op.task, state |-> "requested", fence |-> a.token]
  OBVIOUS
<1> PICK e : e = CommandEvent("control.requested", cmd)
  OBVIOUS
<1>1. /\ a.pc = "controlRequest" /\ a.op.kind = "control" /\ k \in Keys /\ Stay
      /\ a.op.task \in TaskIDs
      /\ \/ UNCHANGED controlVars /\ Idles(h)
         \/ /\ RequestOnce(k, a.op.task, a.token)
            /\ \/ Becomes(h, <<"rotate", a.op, cmd, a.token, a.rest, a.snap, a.todo, a.then>>)
               \/ Queues(h, cmd, <<e>>, "stop")
               \/ Queues(h, cmd, <<e>>, "call")
  BY RunFits, RequestControlEffect
<1>2. /\ At(h) = a.pc /\ a.todo = <<>> /\ a.rest = {}
      /\ a.op.what = "emergency-stop" => a.token = 0 /\ a.op.task \notin Tasks
      /\ a.op.what # "emergency-stop" => a.token # 0 /\ a.op.task \in Released
  BY <1>1, ControlHand DEF ControlPlaces
<1>3. log' = log /\ claims' = claims /\ found' = found
  BY <1>1 DEF Stay
<1>4. ASSUME RequestOnce(k, a.op.task, a.token), Moved(h), at'[h].op = a.op, at'[h].token = a.token,
             at'[h].rest = {}, at'[h].snap = a.snap, At(h)' \in {"rotate", "stop", "call"},
             \A f \in Queue(h)' : f = e
      PROVE  Kept'
  <2>1. a.token \in Nat
    BY LedgerNow, HandlerTyped
  <2>2. (\A j \in Keys : CommandReleased(j)') /\ stopped' = stopped
    BY <1>1, <1>2, <1>3, <1>4, <2>1, InTasks, CreateReleased
  <2>3. HandlerPromised(h)'
    <3>1. a.snap.granted \subseteq Granted'
      BY <1>3, RestPromised, SameLog
    <3>2. Released' = Released
      BY <1>3, SameLog
    <3> QED
      BY <1>2, <1>4, <3>1, <3>2 DEF HandlerPromised
  <2>4. Fine(e)'
    <3>1. cmd.task = a.op.task /\ cmd.state = "requested"
      OBVIOUS
    <3>2. e.task = cmd.task /\ e.state = cmd.state
      BY CommandEventFields
    <3>3. e.type = "control.requested"
      BY DEF CommandEvent
    <3>4. e.task \in Tasks => e.task \in Released'
      BY <1>2, <1>3, <3>1, <3>2, SameLog
    <3> QED
      BY <3>3, <3>4 DEF Fine, EventPromised, EndPromised, Releases, Decision
  <2>5. PromiseStep(h)
    BY <1>3, <1>4, <2>2, <2>3, <2>4 DEF PromiseStep
  <2> QED
    BY <2>5, PromiseFrame
<1>5. ASSUME RequestOnce(k, a.op.task, a.token),
             Becomes(h, <<"rotate", a.op, cmd, a.token, a.rest, a.snap, a.todo, a.then>>)
      PROVE  Kept'
  <2>1. Becomes(h, <<"rotate", a.op, cmd, a.token, a.rest, a.snap, <<>>, a.then>>)
    BY <1>2, <1>5
  <2>2. /\ Moved(h) /\ At(h)' = "rotate" /\ Queue(h)' = {} /\ at'[h].op = a.op
        /\ at'[h].token = a.token /\ at'[h].rest = a.rest /\ at'[h].snap = a.snap
    <3>1. /\ Moved(h) /\ at'[h].pc = "rotate" /\ at'[h].todo = <<>> /\ at'[h].op = a.op
          /\ at'[h].token = a.token /\ at'[h].rest = a.rest /\ at'[h].snap = a.snap
      BY <2>1 DEF Becomes, Fields
    <3> QED
      BY <3>1, EmptyQueue DEF At
  <2> QED
    BY <1>2, <1>4, <1>5, <2>2
<1>6. ASSUME RequestOnce(k, a.op.task, a.token), NEW then \in {"stop", "call"},
             Queues(h, cmd, <<e>>, then)
      PROVE  Kept'
  <2>1. Becomes(h, <<"append", a.op, cmd, a.token, a.rest, a.snap, <<e>>, then>>)
    BY <1>6 DEF Queues
  <2>2. /\ Moved(h) /\ At(h)' = then /\ at'[h].todo = <<e>> /\ at'[h].op = a.op
        /\ at'[h].token = a.token /\ at'[h].rest = a.rest /\ at'[h].snap = a.snap
    BY <2>1, EmitsAt
  <2>3. \A f \in Queue(h)' : f = e
    BY <2>2, SingleQueue
  <2> QED
    BY <1>2, <1>4, <1>6, <2>2, <2>3
<1> QED
  BY <1>1, <1>5, <1>6, IdlesPromise

LEMMA RequestRetryPromise ==
  ASSUME RunInv, NEW h \in Handlers, RequestRetry(h)
  PROVE  Kept'
<1> PICK a : a = at[h]
  OBVIOUS
<1> PICK k : k = RetryKey(a.op.task, a.op.key[3])
  OBVIOUS
<1> PICK cmd : cmd = [key |-> k, task |-> a.op.task, state |-> "requested", fence |-> a.cmd.fence]
  OBVIOUS
<1> PICK e : e = CommandEvent("command.requested", cmd)
  OBVIOUS
<1>1. /\ a.pc = "retryRequest" /\ a.op.kind = "control" /\ k \in Keys /\ Stay
      /\ a.op.task \in TaskIDs
      /\ \/ UNCHANGED controlVars /\ Idles(h)
         \/ RequestOnce(k, a.op.task, a.cmd.fence) /\ Queues(h, cmd, <<e>>, "retryAck")
  BY RunFits, RequestRetryEffect
<1>2. a.op.task \in Released /\ At(h) = "retryRequest"
  <2>1. a.op.what = "retry"
    BY <1>1, PlaceNow, RunFits DEF PlaceFits, Suits
  <2> QED
    BY <1>1, <2>1, ControlHand DEF ControlPlaces
<1>3. log' = log /\ claims' = claims /\ found' = found /\ LogEvents \subseteq LogEvents'
  BY <1>1 DEF Stay, LogEvents
<1>4. CASE RequestOnce(k, a.op.task, a.cmd.fence) /\ Queues(h, cmd, <<e>>, "retryAck")
  <2>1. Becomes(h, <<"append", a.op, cmd, a.token, a.rest, a.snap, <<e>>, "retryAck">>)
    BY <1>4 DEF Queues
  <2>2. /\ Moved(h) /\ At(h)' = "retryAck" /\ at'[h].todo = <<e>> /\ at'[h].op = a.op
        /\ at'[h].token = a.token /\ at'[h].rest = a.rest /\ at'[h].snap = a.snap
    BY <2>1, EmitsAt
  <2>3. a.cmd.fence \in Nat
    BY LedgerNow, HandlerTyped
  <2>4. (\A j \in Keys : CommandReleased(j)') /\ stopped' = stopped
    BY <1>1, <1>2, <1>3, <1>4, <2>3, InTasks, CreateReleased
  <2>5. HandlerPromised(h)' /\ At(h)' \notin {"stopAck", "claimDecision"}
    BY <1>2, <1>3, <2>2, KeepsPromised DEF AdapterPlaces, ControlPlaces
  <2>6. Fine(e)'
    <3>1. cmd.task = a.op.task /\ cmd.key = k
      OBVIOUS
    <3>2. e.task = cmd.task /\ e.key = cmd.key
      BY CommandEventFields
    <3>3. e.type = "command.requested"
      BY DEF CommandEvent
    <3>4. e.task \in Released'
      BY <1>2, <1>3, <3>1, <3>2, SameLog
    <3>5. \A u \in Tasks : ~Releases(e, u)
      BY <3>1, <3>2, DispatchKeys DEF Releases
    <3>6. EventPromised(e)'
      BY <3>3, <3>4, <3>5 DEF EventPromised, Releases
    <3> QED
      BY <3>3, <3>6 DEF Fine, EndPromised, Decision
  <2>7. \A f \in Queue(h)' : Fine(f)'
    BY <2>2, <2>6, SingleQueue
  <2>8. PromiseStep(h)
    BY <1>3, <2>2, <2>4, <2>5, <2>7 DEF PromiseStep
  <2> QED
    BY <2>8, PromiseFrame
<1> QED
  BY <1>1, <1>4, IdlesPromise

LEMMA StopPromise ==
  ASSUME RunInv, NEW h \in Handlers, Stop(h)
  PROVE  Kept'
<1> PICK a : a = at[h]
  OBVIOUS
<1>1. /\ a.pc = "stop" /\ EmergencyStop /\ Stay
      /\ Becomes(h, <<"stopAck", a.op, a.cmd, a.token, a.rest, a.snap, a.todo, a.then>>)
  BY RunFits, EmergencyStopEffect
<1>2. a.todo = <<>> /\ At(h) = "stop" /\ (a.rest # {} => Scheduler(a.op))
  BY <1>1, PlaceNow
<1>3. Becomes(h, <<"stopAck", a.op, a.cmd, a.token, a.rest, a.snap, <<>>, a.then>>)
  BY <1>1, <1>2
<1>4. /\ Moved(h) /\ At(h)' = "stopAck" /\ Queue(h)' = {} /\ at'[h].op = a.op
      /\ at'[h].token = a.token /\ at'[h].rest = a.rest /\ at'[h].snap = a.snap
  <2>1. /\ Moved(h) /\ at'[h].pc = "stopAck" /\ at'[h].todo = <<>> /\ at'[h].op = a.op
        /\ at'[h].token = a.token /\ at'[h].rest = a.rest /\ at'[h].snap = a.snap
    BY <1>3 DEF Becomes, Fields
  <2> QED
    BY <2>1, EmptyQueue DEF At
<1>5. stopped' = TRUE /\ commands' = commands
  BY <1>1, RunFits, StopEffect
<1>6. log' = log /\ claims' = claims /\ found' = found /\ LogEvents \subseteq LogEvents'
  BY <1>1 DEF Stay, LogEvents
<1>7. \A k \in Keys : CommandReleased(k)'
  BY <1>5, <1>6, SameReleased
<1>8. HandlerPromised(h)'
  BY <1>2, <1>4, <1>6, KeepsPromised DEF AdapterPlaces, ControlPlaces
<1>9. PromiseStep(h)
  BY <1>4, <1>5, <1>6, <1>7, <1>8 DEF PromiseStep
<1> QED
  BY <1>9, PromiseFrame

LEMMA CallAdapterPromise ==
  ASSUME RunInv, NEW h \in Handlers, CallAdapter(h)
  PROVE  Kept'
<1> PICK a : a = at[h]
  OBVIOUS
<1>1. /\ a.pc = "call"
      /\ \E outcome \in {"accepted", "refused", "lost"} :
           Becomes(h, <<outcome, a.op, a.cmd, a.token, a.rest, a.snap, a.todo, a.then>>)
      /\ UNCHANGED <<controlVars, log, claims, fatal, lapsed, found, crashes, faults>>
  BY RunFits, CallAdapterEffect
<1>2. a.todo = <<>> /\ At(h) = "call"
  BY <1>1, PlaceNow
<1>3. PICK outcome \in {"accepted", "refused", "lost"} :
        Becomes(h, <<outcome, a.op, a.cmd, a.token, a.rest, a.snap, <<>>, a.then>>)
  BY <1>1, <1>2
<1>4. /\ Moved(h) /\ At(h)' = outcome /\ Queue(h)' = {} /\ at'[h].op = a.op /\ at'[h].cmd = a.cmd
      /\ at'[h].token = a.token /\ at'[h].rest = a.rest /\ at'[h].snap = a.snap
  BY <1>3, GoesAt
<1>5. log' = log /\ claims' = claims /\ found' = found /\ LogEvents \subseteq LogEvents' /\ commands' = commands
      /\ stopped' = stopped
  BY <1>1 DEF LogEvents, controlVars
<1>6. \A k \in Keys : CommandReleased(k)'
  BY <1>5, SameReleased
<1>7. a.rest # {} => a.cmd.task \in Tasks
  BY <1>2, PromiseNow DEF HandlerPromised, AdapterPlaces
<1>8. HandlerPromised(h)'
  BY <1>2, <1>4, <1>5, <1>7, KeepsPromised DEF AdapterPlaces
<1>9. At(h)' \notin {"stopAck", "claimDecision"} /\ \A e \in Queue(h)' : Fine(e)'
  BY <1>4
<1>10. PromiseStep(h)
  BY <1>4, <1>5, <1>6, <1>8, <1>9 DEF PromiseStep
<1> QED
  BY <1>10, PromiseFrame

-----------------------------------------------------------------------------
(* Decisions.                                                              *)

(* The parts of the invariant that do not depend on the claims.            *)
LEMMA ClaimsFrame ==
  ASSUME RunInv, NEW h \in Handlers, Moved(h), log' = log, UNCHANGED <<commands, stopped, found>>,
         At(h)' # "stopAck",
         \A e \in Queue(h)' :
           EventPromised(e)' /\ EndPromised(e)' /\ e.type # "dispatch.emergency_stopped",
         HandlerPromised(h)'
  PROVE  StopInv' /\ PromiseInv'
<1>1. \A g \in Handlers \ {h} : at'[g] = at[g] /\ At(g)' = At(g)
  BY DEF Moved, At
<1>2. \A e \in Events' : e \in Events \/ e \in Queue(h)'
  BY EventsFrom
<1>3. StopInv'
  BY <1>1, <1>2, DecisionNow DEF StopInv
<1>4. \A e \in Events' : EventPromised(e)'
  BY <1>2, SameLog, PromiseNow
<1>5. \A k \in Keys : CommandReleased(k)'
  BY SameReleased DEF LogEvents
<1>6. ASSUME NEW g \in Handlers \ {h}
      PROVE  HandlerPromised(g)' /\ \A e \in Queue(g)' : EndPromised(e)'
  <2>1. HandlerPromised(g)'
    BY <1>1, SameLog, PromiseNow DEF HandlerPromised
  <2>2. Queue(g)' = Queue(g)
    BY <1>1 DEF Queue
  <2> QED
    BY <2>1, <2>2, SameLog, PromiseNow
<1> QED
  BY <1>3, <1>4, <1>5, <1>6 DEF PromiseInv

LEMMA ClaimDecisionPromise ==
  ASSUME RunInv, NEW h \in Handlers, ClaimDecision(h)
  PROVE  Kept'
<1> PICK a : a = at[h]
  OBVIOUS
<1> PICK t : t = a.op.task
  OBVIOUS
<1>1. /\ a.pc = "claimDecision" /\ t \in Tasks
      /\ UNCHANGED <<controlVars, log, fatal, calls, lapsed, found, crashes, faults>>
      /\ \/ t \in claims /\ claims' = claims /\ Idles(h)
         \/ /\ t \notin claims /\ claims' = claims \cup {t}
            /\ \E type \in Decision : \E events : \E then \in {"schedule", "done"} :
                 Reports(events, Event(type, t)) /\ Queues(h, a.cmd, events, then)
  BY RunFits, ClaimDecisionEffect
<1>2. CASE t \in claims /\ claims' = claims /\ Idles(h)
  BY <1>1, <1>2, IdlesPromise DEF Stay
<1>3. ASSUME t \notin claims, claims' = claims \cup {t}, NEW type \in Decision, NEW events,
             NEW then \in {"schedule", "done"}, Reports(events, Event(type, t)),
             Queues(h, a.cmd, events, then)
      PROVE  Kept'
  <2> PICK e : e = Event(type, t)
    OBVIOUS
  <2>1. e.type \in Decision /\ e.task = t /\ e.state = ""
    BY DEF Event
  <2>2. Becomes(h, <<"append", a.op, a.cmd, a.token, a.rest, a.snap, events, then>>)
    BY <1>3 DEF Queues
  <2>3. /\ Moved(h) /\ At(h)' = then /\ at'[h].todo = events /\ at'[h].op = a.op
        /\ at'[h].token = a.token /\ at'[h].rest = a.rest /\ at'[h].snap = a.snap
    BY <2>2, EmitsAt
  <2>4. \A f \in Queue(h)' : f = e \/ Plain(f)
    BY <1>3, <2>3, PlainQueue
  <2>5. events[1] = e /\ \A i \in 2..Len(events) : Plain(events[i])
    BY <1>3 DEF Reports
  <2>6. log' = log /\ LogEvents \subseteq LogEvents' /\ UNCHANGED <<commands, stopped, found>>
    BY <1>1 DEF LogEvents, controlVars
  <2>7. HandlerPromised(h)' /\ At(h)' \notin {"stopAck", "claimDecision"}
    BY <2>3, <2>6, KeepsPromised DEF AdapterPlaces, ControlPlaces
  <2>8. StopInv' /\ PromiseInv'
    <3>1. \A f : Plain(f) =>
            EventPromised(f)' /\ EndPromised(f)' /\ f.type # "dispatch.emergency_stopped"
      BY PlainFine DEF Fine, Plain, PlainTypes
    <3>2. EventPromised(e)' /\ EndPromised(e)' /\ e.type # "dispatch.emergency_stopped"
      BY <2>1 DEF EventPromised, EndPromised, Releases, Decision
    <3> QED
      BY <2>3, <2>4, <2>6, <2>7, <3>1, <3>2, ClaimsFrame
  <2>9. t \in Guarded /\ t \notin Decided
    <3>1. At(h) = "claimDecision"
      BY <1>1, PlaceNow
    <3> QED
      BY <1>3, <3>1, DecisionNow
  <2>10. \A g \in Handlers \ {h} :
           at'[g] = at[g] /\ At(g)' = At(g) /\ (Deciding(g)' <=> Deciding(g))
    BY <2>3 DEF Moved, At, Deciding, Queue
  <2>11. Decided' = Decided
    BY <2>6, SameLog
  <2>12. DecisionInv'
    <3>1. \A f \in Events' : f.type \in Decision \cup {"approval.requested"} => f.task \in Guarded
      <4>1. \A f \in Events' : f \in Events \/ f \in Queue(h)'
        BY <2>3, <2>6, EventsFrom
      <4>2. \A f : Plain(f) => f.type \notin Decision \cup {"approval.requested"}
        BY DEF Plain, PlainTypes, Decision
      <4> QED
        BY <2>1, <2>4, <2>9, <4>1, <4>2, DecisionNow
    <3>2. \A g \in Handlers : Deciding(g)' =>
           /\ at'[g].todo[1].type \in Decision /\ at'[g].todo[1].task = at'[g].op.task
           /\ \A i \in 2..Len(at'[g].todo) : at'[g].todo[i].type \notin Decision
           /\ at'[g].op.task \in claims' \ Decided'
      <4>1. ASSUME NEW g \in Handlers \ {h}, Deciding(g)
            PROVE  /\ at[g].todo[1].type \in Decision /\ at[g].todo[1].task = at[g].op.task
                   /\ \A i \in 2..Len(at[g].todo) : at[g].todo[i].type \notin Decision
                   /\ at[g].op.task \in claims' \ Decided'
        BY <1>3, <2>11, <4>1, DecisionNow
      <4>2. \A f : Plain(f) => f.type \notin Decision
        BY DEF Plain, PlainTypes, Decision
      <4>3. /\ at'[h].todo[1].type \in Decision /\ at'[h].todo[1].task = at'[h].op.task
            /\ \A i \in 2..Len(at'[h].todo) : at'[h].todo[i].type \notin Decision
            /\ at'[h].op.task \in claims' \ Decided'
        BY <1>3, <2>1, <2>3, <2>5, <2>9, <2>11, <4>2
      <4> QED
        BY <2>10, <4>1, <4>3
    <3>3. \A f, g \in Handlers :
           Deciding(f)' /\ Deciding(g)' /\ at'[f].op.task = at'[g].op.task => f = g
      <4>1. \A g \in Handlers \ {h} : Deciding(g) => at[g].op.task # t
        BY <1>3, DecisionNow
      <4> QED
        BY <2>3, <2>10, <4>1, DecisionNow
    <3>4. \A g \in Handlers : At(g)' = "claimDecision" =>
           /\ at'[g].op.task \in Guarded
           /\ at'[g].op.task \in Decided' => at'[g].op.task \in claims'
      BY <1>3, <2>7, <2>10, <2>11, DecisionNow
    <3>5. claims' \subseteq Guarded /\ DecidedOnce'
      BY <1>3, <2>6, <2>9, DecisionNow DEF DecidedOnce
    <3> QED
      BY <3>1, <3>2, <3>3, <3>4, <3>5 DEF DecisionInv
  <2> QED
    BY <2>8, <2>12 DEF Kept
<1> QED
  BY <1>1, <1>2, <1>3

LEMMA AppendFailsPromise ==
  ASSUME RunInv, NEW h \in Handlers, AppendFails(h)
  PROVE  Kept'
<1> PICK a : a = at[h]
  OBVIOUS
<1>1. /\ a.pc = "append" /\ a.todo # <<>> /\ Moved(h) /\ LeavesLoop(a.op, at'[h])
      /\ claims' = IF a.todo[1].type \in Decision THEN claims \ {a.op.task} ELSE claims
      /\ UNCHANGED <<controlVars, log, calls, found>>
  BY RunFits, AppendFailsEffect
<1>2. At(h)' \in {"done", "finish", "pending"} /\ \A e \in Queue(h)' : Plain(e)
  BY <1>1, LeavesQueue
<1>3. /\ HandlerPromised(h)' /\ \A e \in Queue(h)' : Fine(e)'
  BY <1>1, LeavesPromised
<1>4. log' = log /\ UNCHANGED <<commands, stopped, found>>
  BY <1>1 DEF controlVars
<1>5. StopInv' /\ PromiseInv'
  <2>1. \A f : Plain(f) => f.type # "dispatch.emergency_stopped"
    BY DEF Plain, PlainTypes
  <2> QED
    BY <1>1, <1>2, <1>3, <1>4, <2>1, ClaimsFrame DEF Fine
<1>6. \A g \in Handlers \ {h} :
        at'[g] = at[g] /\ At(g)' = At(g) /\ (Deciding(g)' <=> Deciding(g))
  BY <1>1 DEF Moved, At, Deciding, Queue
<1>7. Decided' = Decided
  BY <1>4, SameLog
<1>8. \A f : Plain(f) => f.type \notin Decision \cup {"approval.requested"}
  BY DEF Plain, PlainTypes, Decision
<1>9. ~Deciding(h)'
  BY <1>2, <1>8 DEF Deciding
<1>10. a.todo[1].type \in Decision => Deciding(h)
  <2>1. a.todo \in Seq(EventType)
    BY LedgerNow, HandlerTyped
  <2>2. 1 \in 1..Len(a.todo)
    BY <1>1, <2>1
  <2> QED
    BY <2>2 DEF Deciding, Queue
<1>11. DecisionInv'
  <2>1. \A f \in Events' : f.type \in Decision \cup {"approval.requested"} => f.task \in Guarded
    <3>1. \A f \in Events' : f \in Events \/ f \in Queue(h)'
      BY <1>1, <1>4, EventsFrom
    <3> QED
      BY <1>2, <1>8, <3>1, DecisionNow
  <2>2. \A g \in Handlers : Deciding(g)' =>
         /\ at'[g].todo[1].type \in Decision /\ at'[g].todo[1].task = at'[g].op.task
         /\ \A i \in 2..Len(at'[g].todo) : at'[g].todo[i].type \notin Decision
         /\ at'[g].op.task \in claims' \ Decided'
    <3>1. ASSUME NEW g \in Handlers \ {h}, Deciding(g)
          PROVE  /\ at[g].todo[1].type \in Decision /\ at[g].todo[1].task = at[g].op.task
                 /\ \A i \in 2..Len(at[g].todo) : at[g].todo[i].type \notin Decision
                 /\ at[g].op.task \in claims \ Decided
      BY <3>1, DecisionNow
    <3>2. ASSUME NEW g \in Handlers \ {h}, Deciding(g)
          PROVE  at[g].op.task \in claims'
      <4>1. CASE a.todo[1].type \in Decision
        <5>1. at[g].op.task # a.op.task
          BY <1>10, <3>2, <4>1, DecisionNow
        <5> QED
          BY <1>1, <3>1, <3>2, <4>1, <5>1
      <4>2. CASE a.todo[1].type \notin Decision
        BY <1>1, <3>1, <3>2, <4>2
      <4> QED
        BY <4>1, <4>2
    <3> QED
      BY <1>6, <1>7, <1>9, <3>1, <3>2
  <2>3. \A f, g \in Handlers :
         Deciding(f)' /\ Deciding(g)' /\ at'[f].op.task = at'[g].op.task => f = g
    BY <1>6, <1>9, DecisionNow
  <2>4. \A g \in Handlers : At(g)' = "claimDecision" =>
         /\ at'[g].op.task \in Guarded
         /\ at'[g].op.task \in Decided' => at'[g].op.task \in claims'
    <3>1. a.todo[1].type \in Decision => a.op.task \notin Decided
      BY <1>10, DecisionNow
    <3>2. ASSUME NEW g \in Handlers \ {h}, At(g) = "claimDecision"
          PROVE  /\ at[g].op.task \in Guarded
                 /\ at[g].op.task \in Decided => at[g].op.task \in claims'
      BY <1>1, <3>1, <3>2, DecisionNow
    <3> QED
      BY <1>2, <1>6, <1>7, <3>2
  <2>5. claims' \subseteq Guarded /\ DecidedOnce'
    BY <1>1, <1>4, DecisionNow DEF DecidedOnce
  <2> QED
    BY <2>1, <2>2, <2>3, <2>4, <2>5 DEF DecisionInv
<1> QED
  BY <1>5, <1>11 DEF Kept

-----------------------------------------------------------------------------
(* The log grows.                                                          *)

StaysPut(h) ==
  /\ At(h)' = At(h) /\ at'[h].op = at[h].op /\ at'[h].cmd = at[h].cmd
  /\ at'[h].token = at[h].token /\ at'[h].rest = at[h].rest /\ at'[h].snap = at[h].snap

LEMMA StaysPromised ==
  ASSUME RunInv, NEW h \in Handlers, LogEvents \subseteq LogEvents', StaysPut(h)
  PROVE  HandlerPromised(h)'
<1>1. Released \subseteq Released' /\ CompletedTasks \subseteq CompletedTasks'
      /\ Granted \subseteq Granted'
  BY LogGrows
<1>2. \A t : Supported(t) => Supported(t)'
  BY <1>1 DEF Supported
<1> QED
  BY <1>1, <1>2, PromiseNow DEF HandlerPromised, StaysPut

(* What the promise allows an event to say stays allowed.                  *)
LEMMA EventStaysPromised ==
  ASSUME LogEvents \subseteq LogEvents', NEW e
  PROVE  /\ EventPromised(e) => EventPromised(e)'
         /\ EndPromised(e) /\ found' = found => EndPromised(e)'
<1>1. Released \subseteq Released' /\ CompletedTasks \subseteq CompletedTasks'
      /\ Granted \subseteq Granted'
  BY LogGrows
<1>2. \A t : Supported(t) => Supported(t)'
  BY <1>1 DEF Supported
<1>3. AllCompleted => AllCompleted'
  BY <1>1 DEF AllCompleted
<1> QED
  BY <1>1, <1>2, <1>3 DEF EventPromised, EndPromised, Releases

LEMMA AppendWhere ==
  ASSUME RunInv, NEW h \in Handlers, AppendEvent(h)
  PROVE  LET a == at[h] IN
         \/ /\ HandlerPromised(h)' /\ At(h)' \notin {"stopAck", "claimDecision"}
            /\ \A e \in Queue(h)' : Plain(e)
         \/ StaysPut(h) /\ \A e \in Queue(h)' : \E i \in 2..Len(a.todo) : e = a.todo[i]
<1> PICK a : a = at[h]
  OBVIOUS
<1>1. /\ a.pc = "append" /\ a.todo # <<>>
      /\ \/ Resumes(h)
         \/ /\ Tail(a.todo) # <<>>
            /\ Becomes(h, <<"append", a.op, a.cmd, a.token, a.rest, a.snap,
                            Tail(a.todo), a.then>>)
  BY RunFits, AppendEventEffect
<1>2. a.todo \in Seq(EventType) /\ a.rest \subseteq Tasks
  BY LedgerNow, HandlerTyped
<1>3. LogEvents \subseteq LogEvents'
  BY AppendEvents
<1>4. At(h) = a.then
  BY <1>1 DEF At
<1>5. CASE /\ Tail(a.todo) # <<>>
           /\ Becomes(h, <<"append", a.op, a.cmd, a.token, a.rest, a.snap,
                           Tail(a.todo), a.then>>)
  <2>1. /\ at'[h].pc = "append" /\ at'[h].then = a.then /\ at'[h].op = a.op
        /\ at'[h].cmd = a.cmd /\ at'[h].token = a.token /\ at'[h].rest = a.rest
        /\ at'[h].snap = a.snap /\ at'[h].todo = Tail(a.todo)
    BY <1>5 DEF Becomes, Fields
  <2>5. At(h)' = a.then
    BY <2>1 DEF At
  <2>2. /\ Len(a.todo) \in Nat \ {0} /\ Len(Tail(a.todo)) = Len(a.todo) - 1
        /\ \A i \in 1..Len(Tail(a.todo)) : Tail(a.todo)[i] = a.todo[i + 1]
    BY <1>1, <1>2, TailQueue
  <2>3. \A i \in 1..Len(Tail(a.todo)) : i + 1 \in 2..Len(a.todo)
    BY <2>2
  <2>4. \A e \in Queue(h)' : \E i \in 2..Len(a.todo) : e = a.todo[i]
    BY <2>1, <2>2, <2>3 DEF Queue
  <2> QED
    BY <1>4, <2>1, <2>4, <2>5 DEF StaysPut
<1>6. CASE Resumes(h)
  <2>1. CASE Idles(h)
    BY <2>1, IdlesPromised, IdlesQueue
  <2>2. ASSUME LeavesLoop(a.op, at'[h])
        PROVE  /\ HandlerPromised(h)' /\ At(h)' \notin {"stopAck", "claimDecision"}
               /\ \A e \in Queue(h)' : Plain(e)
    BY <2>2, LeavesPromised, LeavesQueue
  <2>3. ASSUME Visits(a.op, a.snap, a.rest \ {First(a.rest)}, at'[h])
        PROVE  /\ HandlerPromised(h)' /\ At(h)' \notin {"stopAck", "claimDecision"}
               /\ \A e \in Queue(h)' : Plain(e)
    <3>1. a.rest \ {First(a.rest)} \subseteq Tasks
      BY <1>2
    <3> QED
      BY <1>3, <2>3, <3>1, VisitsPromised, VisitsQueue, RestPromised
  <2>4. ASSUME a.then # "append",
               Becomes(h, <<a.then, a.op, a.cmd, a.token, a.rest, a.snap, <<>>, "">>)
        PROVE  StaysPut(h) /\ Queue(h)' = {}
    <3>1. /\ at'[h].pc = a.then /\ at'[h].op = a.op /\ at'[h].cmd = a.cmd
          /\ at'[h].token = a.token /\ at'[h].rest = a.rest /\ at'[h].snap = a.snap
          /\ at'[h].todo = <<>>
      BY <2>4 DEF Becomes, Fields
    <3>2. At(h)' = a.then /\ Queue(h)' = {}
      BY <2>4, <3>1, EmptyQueue DEF At
    <3> QED
      BY <1>4, <3>1, <3>2 DEF StaysPut
  <2> QED
    BY <1>6, <2>1, <2>2, <2>3, <2>4 DEF Resumes
<1> QED
  BY <1>1, <1>5, <1>6

LEMMA AppendDecision ==
  ASSUME RunInv, NEW h \in Handlers, AppendEvent(h)
  PROVE  DecisionInv'
<1> PICK a : a = at[h]
  OBVIOUS
<1> PICK e : e = a.todo[1]
  OBVIOUS
<1>1. /\ Moved(h) /\ Len(log') = Len(log) + 1 /\ Len(log) \in Nat
      /\ \A i \in 1..Len(log) : log'[i] = log[i]
      /\ log'[Len(log) + 1] = e /\ e \in Queue(h)
      /\ LogEvents' = LogEvents \cup {e}
      /\ \A f \in Queue(h)' : f \in Queue(h) \/ Plain(f)
      /\ \A f \in Events' : f \in Events \/ Plain(f)
  BY AppendEvents
<1>2. claims' = claims
  BY RunFits, AppendEventEffect
<1>3. \/ /\ At(h)' \notin {"stopAck", "claimDecision"} /\ \A f \in Queue(h)' : Plain(f)
      \/ StaysPut(h) /\ \A f \in Queue(h)' : \E i \in 2..Len(a.todo) : f = a.todo[i]
  BY AppendWhere
<1>4. \A f : Plain(f) => f.type \notin Decision \cup {"approval.requested"}
  BY DEF Plain, PlainTypes, Decision
<1>5. \A g \in Handlers \ {h} :
        at'[g] = at[g] /\ At(g)' = At(g) /\ (Deciding(g)' <=> Deciding(g))
  BY <1>1 DEF Moved, At, Deciding, Queue
<1>6. ~Deciding(h)'
  <2>1. CASE Deciding(h)
    <3>1. \A i \in 2..Len(a.todo) : a.todo[i].type \notin Decision
      BY <2>1, DecisionNow
    <3> QED
      BY <1>3, <1>4, <3>1 DEF Deciding
  <2>2. CASE ~Deciding(h)
    BY <1>1, <1>4, <2>2 DEF Deciding
  <2> QED
    BY <2>1, <2>2
<1>7. e.type \in Decision => Deciding(h) /\ e.task = a.op.task /\ a.op.task \in claims \ Decided
  <2>1. e.type \in Decision => Deciding(h)
    BY <1>1 DEF Deciding
  <2> QED
    BY <2>1, DecisionNow
<1>8. \A t \in TaskIDs : t \in Decided' <=> t \in Decided \/ (e.type \in Decision /\ e.task = t)
  BY <1>1 DEF Decided
<1>9. Decided' \subseteq TaskIDs /\ Decided \subseteq TaskIDs
  BY DEF Decided
<1>10. \A f \in Events' : f.type \in Decision \cup {"approval.requested"} => f.task \in Guarded
  BY <1>1, <1>4, DecisionNow
<1>11. \A g \in Handlers : Deciding(g)' =>
         /\ at'[g].todo[1].type \in Decision /\ at'[g].todo[1].task = at'[g].op.task
         /\ \A i \in 2..Len(at'[g].todo) : at'[g].todo[i].type \notin Decision
         /\ at'[g].op.task \in claims' \ Decided'
  <2>1. ASSUME NEW g \in Handlers \ {h}, Deciding(g)
        PROVE  /\ at[g].todo[1].type \in Decision /\ at[g].todo[1].task = at[g].op.task
               /\ \A i \in 2..Len(at[g].todo) : at[g].todo[i].type \notin Decision
               /\ at[g].op.task \in claims \ Decided
    BY <2>1, DecisionNow
  <2>2. ASSUME NEW g \in Handlers \ {h}, Deciding(g)
        PROVE  at[g].op.task \notin Decided'
    <3>1. e.type \in Decision => at[g].op.task # e.task
      BY <1>7, <2>2, DecisionNow
    <3> QED
      BY <1>8, <1>9, <2>1, <2>2, <3>1
  <2> QED
    BY <1>2, <1>5, <1>6, <2>1, <2>2
<1>12. \A f, g \in Handlers :
         Deciding(f)' /\ Deciding(g)' /\ at'[f].op.task = at'[g].op.task => f = g
  BY <1>5, <1>6, DecisionNow
<1>13. \A g \in Handlers : At(g)' = "claimDecision" =>
         /\ at'[g].op.task \in Guarded
         /\ at'[g].op.task \in Decided' => at'[g].op.task \in claims'
  <2>1. ASSUME NEW g \in Handlers, At(g) = "claimDecision"
        PROVE  /\ at[g].op.task \in Guarded
               /\ at[g].op.task \in Decided' => at[g].op.task \in claims
    BY <1>7, <1>8, <1>9, <2>1, DecisionNow
  <2>2. \A g \in Handlers : At(g)' = "claimDecision" => At(g) = "claimDecision" /\ at'[g].op = at[g].op
    BY <1>3, <1>5 DEF StaysPut
  <2> QED
    BY <1>2, <2>1, <2>2
<1>14. DecidedOnce'
  <2> SUFFICES ASSUME NEW i \in 1..Len(log'), NEW j \in 1..Len(log'), i # j,
                      log'[i].type \in Decision, log'[j].type \in Decision,
                      log'[i].task = log'[j].task
               PROVE  FALSE
    BY DEF DecidedOnce, Decision
  <2>1. ASSUME NEW m \in 1..Len(log), e.type \in Decision, log[m].type \in Decision,
               log[m].task = e.task
        PROVE  FALSE
    <3>1. log[m] \in LogEvents /\ e.task \in Decided' /\ e.task \notin Decided
      BY <1>1, <1>7, <1>8, <2>1, LedgerNow, HandlerTyped, OperationForm DEF LogEvents
    <3>2. e.task \in TaskIDs
      BY <1>9, <3>1
    <3> QED
      BY <2>1, <3>1, <3>2 DEF Decided
  <2>2. \A m \in 1..Len(log') : m \in 1..Len(log) \/ m = Len(log) + 1
    BY <1>1
  <2>3. ~(i \in 1..Len(log) /\ j \in 1..Len(log))
    BY <1>1, DecisionNow DEF DecidedOnce, Decision
  <2> QED
    BY <1>1, <2>1, <2>2, <2>3
<1> QED
  BY <1>2, <1>10, <1>11, <1>12, <1>13, <1>14, DecisionNow DEF DecisionInv

LEMMA AppendPromise ==
  ASSUME RunInv, NEW h \in Handlers, AppendEvent(h)
  PROVE  Kept'
<1>1. /\ Moved(h) /\ LogEvents \subseteq LogEvents'
      /\ \A f \in Events' : f \in Events \/ Plain(f)
  BY AppendEvents
<1>2. commands' = commands /\ stopped' = stopped /\ found' = found
  BY RunFits, AppendEventEffect DEF controlVars
<1>3. (HandlerPromised(h)' /\ At(h)' # "stopAck") \/ StaysPut(h)
  BY AppendWhere
<1>4. \A g \in Handlers \ {h} : StaysPut(g)
  BY <1>1 DEF Moved, At, StaysPut
<1>5. StopInv'
  <2>1. \A g \in Handlers : At(g)' = "stopAck" => stopped'
    BY <1>2, <1>3, <1>4, DecisionNow DEF StaysPut
  <2>2. \A f : Plain(f) => f.type # "dispatch.emergency_stopped"
    BY DEF Plain, PlainTypes
  <2> QED
    BY <1>1, <1>2, <2>1, <2>2, DecisionNow DEF StopInv
<1>6. PromiseInv'
  <2>1. \A k \in Keys : CommandReleased(k)'
    BY <1>1, <1>2, SameReleased
  <2>2. \A f \in Events' : EventPromised(f)'
    BY <1>1, EventStaysPromised, PlainFine, PromiseNow DEF Fine
  <2>3. \A g \in Handlers : HandlerPromised(g)'
    BY <1>1, <1>3, <1>4, StaysPromised
  <2>4. ASSUME NEW g \in Handlers, NEW f \in Queue(g)'
        PROVE  EndPromised(f)'
    <3>1. CASE g = h
      <4>1. Plain(f) \/ f \in Queue(h)
        <5>1. CASE \A e \in Queue(h)' : Plain(e)
          BY <2>4, <3>1, <5>1
        <5>2. CASE \A e \in Queue(h)' : \E i \in 2..Len(at[h].todo) : e = at[h].todo[i]
          <6>1. PICK i \in 2..Len(at[h].todo) : f = at[h].todo[i]
            BY <2>4, <3>1, <5>2
          <6>2. i \in 1..Len(at[h].todo)
            BY <6>1
          <6> QED
            BY <6>1, <6>2 DEF Queue
        <5> QED
          BY <5>1, <5>2, AppendWhere
      <4> QED
        BY <1>1, <1>2, <4>1, EventStaysPromised, PlainFine, PromiseNow DEF Fine
    <3>2. CASE g # h
      <4>1. f \in Queue(g)
        BY <1>1, <2>4, <3>2 DEF Moved, Queue
      <4> QED
        BY <1>1, <1>2, <4>1, EventStaysPromised, PromiseNow
    <3> QED
      BY <3>1, <3>2
  <2> QED
    BY <2>1, <2>2, <2>3, <2>4 DEF PromiseInv
<1> QED
  BY <1>5, <1>6, AppendDecision DEF Kept

-----------------------------------------------------------------------------
(* The process starts again.                                               *)

LEMMA RestartPromise ==
  ASSUME RunInv, Restart
  PROVE  Kept'
<1>1. /\ commands' = Saved /\ stopped' = StopRecorded /\ claims' = {}
      /\ \A h \in Handlers : at'[h] = IF at[h].pc = "idle" THEN at[h] ELSE Done
      /\ log' \in Seq(EventType) /\ Len(log) <= Len(log')
      /\ \A i \in 1..Len(log) : log'[i] = log[i]
      /\ \A i \in 1..Len(log') : i <= Len(log) \/ Plain(log'[i])
  BY RunFits, RestartEffect
<1>2. /\ \A h \in Handlers : At(h)' \in {"idle", "done"} /\ Queue(h)' = {}
      /\ \A e \in Events' : e \in LogEvents \/ Plain(e)
      /\ LogEvents \subseteq LogEvents'
  BY RestartEvents
<1>3. LogEvents \subseteq Events
  BY DEF Events
<1>4. \A e : Plain(e) => /\ e.type \notin Decision \cup {"approval.requested"}
                         /\ e.type # "dispatch.emergency_stopped"
  BY DEF Plain, PlainTypes, Decision
<1>5. StopInv'
  BY <1>1, <1>2, <1>4, InLog DEF StopInv
<1>6. DecisionInv'
  <2>1. \A h \in Handlers : ~Deciding(h)'
    BY <1>2 DEF Deciding
  <2>2. \A e \in Events' : e.type \in Decision \cup {"approval.requested"} => e.task \in Guarded
    BY <1>2, <1>3, <1>4, DecisionNow
  <2>3. DecidedOnce'
    <3>1. Len(log) \in Nat /\ Len(log') \in Nat
      BY <1>1, LedgerNow DEF TypeOK
    <3>2. \A i \in 1..Len(log') : log'[i].type \in Decision => i \in 1..Len(log)
      BY <1>1, <1>4, <3>1
    <3> QED
      BY <1>1, <3>2, DecisionNow DEF DecidedOnce, Decision
  <2> QED
    BY <1>1, <1>2, <2>1, <2>2, <2>3 DEF DecisionInv
<1>7. \A k \in Keys : CommandReleased(k)'
  <2> SUFFICES ASSUME NEW k \in Keys, Saved[k].state # "absent"
               PROVE  CommandReleased(k)'
    BY <1>1 DEF CommandReleased, Known
  <2>1. Known(k) /\ Saved[k].task = commands[k].task /\ Saved[k].fence = commands[k].fence
    BY SavedAgrees
  <2>2. commands[k].fence # 0 => commands[k].task \in Tasks
    BY <2>1, PromiseNow DEF CommandReleased
  <2>3. commands[k].task \in Tasks => commands[k].task \in Released'
    <3> SUFFICES ASSUME commands[k].task \in Tasks
                 PROVE  commands[k].task \in Released
      BY <1>2, LogGrows
    <3>4. NoCommand.state = "absent"
      BY DEF NoCommand
    <3>1. Marks(k) # {}
      BY <3>4, LedgerNow, SavedFromLog
    <3>2. PICK i \in Marks(k) : Saved[k].task = log[i].task
      BY <3>1, LedgerNow, SavedFromLog
    <3> PICK e : e = log[i]
      OBVIOUS
    <3>3. e \in LogEvents /\ e.state # "" /\ e.task = commands[k].task
      BY <2>1, <3>2 DEF Marks, LogEvents
    <3>5. e.task \in Released \/ Releases(e, e.task)
      BY <1>3, <3>3, PromiseNow DEF EventPromised
    <3> QED
      BY <3>3, <3>5, InLog
  <2> QED
    BY <1>1, <2>1, <2>2, <2>3 DEF CommandReleased
<1>8. \A e \in Events' : EventPromised(e)'
  BY <1>2, <1>3, EventStaysPromised, PlainFine, PromiseNow DEF Fine
<1>9. \A h \in Handlers : HandlerPromised(h)'
  <2> SUFFICES ASSUME NEW h \in Handlers
               PROVE  HandlerPromised(h)'
    OBVIOUS
  <2>1. CASE at[h].pc = "idle"
    <3>1. StaysPut(h)
      BY <1>1, <2>1 DEF StaysPut, At
    <3> QED
      BY <1>2, <3>1, StaysPromised
  <2>2. CASE at[h].pc # "idle"
    <3>1. at'[h].rest = {} /\ at'[h].snap = NoSnap
      BY <1>1, <2>2, DoneFields DEF Fields
    <3>2. At(h)' \notin AdapterPlaces \cup ControlPlaces
      BY <1>2 DEF AdapterPlaces, ControlPlaces
    <3> QED
      BY <3>1, <3>2, LoosePromised
  <2> QED
    BY <2>1, <2>2
<1> QED
  BY <1>2, <1>5, <1>6, <1>7, <1>8, <1>9 DEF Kept, PromiseInv

LEMMA SamePromise ==
  ASSUME RunInv, UNCHANGED <<commands, stopped, log, at, claims, found>>
  PROVE  Kept'
<1>1. \A h \in Handlers : At(h)' = At(h) /\ Queue(h)' = Queue(h) /\ StaysPut(h)
                          /\ (Deciding(h)' <=> Deciding(h))
  BY DEF At, Queue, StaysPut, Deciding
<1>2. Events' = Events /\ LogEvents \subseteq LogEvents' /\ Decided' = Decided
  BY DEF Events, LogEvents, Queue, Decided
<1>3. StopInv'
  BY <1>1, <1>2, DecisionNow DEF StopInv
<1>4. DecisionInv'
  BY <1>1, <1>2, DecisionNow DEF DecisionInv, DecidedOnce
<1>5. PromiseInv'
  BY <1>1, <1>2, SameReleased, StaysPromised, EventStaysPromised, PromiseNow DEF PromiseInv
<1> QED
  BY <1>3, <1>4, <1>5 DEF Kept

-----------------------------------------------------------------------------
(* Every step keeps the stop, the decisions and the promise.               *)

LEMMA StepPromise ==
  ASSUME RunInv, [Next]_vars
  PROVE  Kept'
<1>1. CASE UNCHANGED vars
  BY <1>1, SamePromise DEF vars
<1>2. ASSUME NEW h \in Requests, RequestArrives(h)
      PROVE  Kept'
  <2> PICK op \in Menu[h] : \/ ResultArrives(h, op) \/ ControlArrives(h, op)
                            \/ ApproveArrives(h, op) \/ ReconcileArrives(h, op)
    BY <1>2 DEF RequestArrives
  <2> QED
    BY ResultArrivesPromise, ControlArrivesPromise, ApproveArrivesPromise, ReconcileArrivesPromise
<1>3. ASSUME NEW h \in Handlers, HandlerStep(h)
      PROVE  Kept'
  BY <1>3, AppendPromise, SchedulePromise, AskPromise, LookUpPromise, RequestDispatchPromise,
     RotatePromise, CallAdapterPromise, CallNobodyPromise, AcceptedPromise, RefusedPromise,
     LostPromise, DoubtPromise, CommitTokenPromise, RequestControlPromise, StopPromise,
     StopAckPromise, RequestRetryPromise, RetryAckPromise, ClaimPollPromise,
     ResultPendingPromise, ResultEndsPromise, ResultCompletedPromise, FinishPromise,
     ClaimDecisionPromise, SettlePromise, PendingPromise DEF HandlerStep
<1>4. ASSUME NEW t \in Tasks, Lapse(t)
      PROVE  Kept'
  BY <1>4, SamePromise DEF Lapse, controlVars
<1> QED
  BY <1>1, <1>2, <1>3, <1>4, StartPromise, AppendFailsPromise, RestartPromise DEF Next
=============================================================================
