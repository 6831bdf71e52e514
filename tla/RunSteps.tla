-------------------------------- MODULE RunSteps --------------------------------
(***************************************************************************)
(* What each action of DispatchRun does, stated field by field for the     *)
(* proofs of its invariants; that it keeps the types; and that every       *)
(* handler is where the request it serves can bring it.                    *)
(***************************************************************************)
EXTENDS RunInvariant, FiniteSetTheorems, SequenceTheorems, WellFoundedInduction, TLAPS

-----------------------------------------------------------------------------
(* Data.                                                                   *)

(* A non-empty set of naturals has a least element.                        *)
LEMMA LeastExists ==
  ASSUME NEW T, T \subseteq Nat, T # {}
  PROVE  \E m \in T : \A k \in T : m <= k
<1> DEFINE R == OpToRel(<, Nat)
<1>1. IsWellFoundedOn(R, Nat)
  BY NatLessThanWellFounded
<1>2. \A x, y \in Nat : x < y => <<x, y>> \in R
  BY DEF OpToRel
<1> HIDE DEF R
<1>3. PICK m \in T : \A y \in T : ~(<<y, m>> \in R)
  BY <1>1, WFMin
<1>4. \A k \in T : ~(k < m)
  BY <1>2, <1>3
<1> QED
  BY <1>4

(* A non-empty set of positions in a sequence has a last one.              *)
LEMMA LastExists ==
  ASSUME NEW n \in Nat, NEW S, S \subseteq 1..n, S # {}
  PROVE  \E i \in S : \A j \in S : j <= i
<1> DEFINE T == {n - i : i \in S}
<1>1. T \subseteq Nat /\ T # {}
  <2>1. \A i \in S : n - i \in Nat
    OBVIOUS
  <2> QED
    BY <2>1
<1>2. PICK m \in T : \A k \in T : m <= k
  <2> HIDE DEF T
  <2> QED
    BY <1>1, LeastExists
<1>3. PICK i \in S : m = n - i
  BY <1>2
<1>4. \A j \in S : j <= i
  <2> TAKE j \in S
  <2>1. n - i <= n - j
    BY <1>2, <1>3
  <2> QED
    BY <2>1
<1> QED
  BY <1>4

(* The task that comes first is one of them.                               *)
LEMMA FirstIn ==
  ASSUME NEW rest, rest \subseteq Tasks, rest # {}
  PROVE  First(rest) \in rest
<1> DEFINE S == {i \in 1..Len(Order) : Order[i] \in rest}
<1>1. Len(Order) \in Nat
  BY OrderAssumption
<1>2. S \subseteq Nat /\ S # {}
  BY <1>1 DEF Tasks
<1>3. PICK m \in S : \A k \in S : m <= k
  <2> HIDE DEF S
  <2> QED
    BY <1>2, LeastExists
<1>4. \A j \in 1..(m - 1) : Order[j] \notin rest
  BY <1>1, <1>3
<1>5. \E i \in 1..Len(Order) : Order[i] \in rest /\ \A j \in 1..(i - 1) : Order[j] \notin rest
  BY <1>3, <1>4
<1> QED
  BY <1>5 DEF First

(* Tasks are task ids, and none of them is the one of a control that names *)
(* no task.                                                                *)
LEMMA TasksAreIDs == Tasks \subseteq TaskIDs \ {RunTask}
  BY OrderAssumption DEF Tasks

LEMMA EventTyped ==
  ASSUME NEW type \in EventTypes, NEW t \in TaskIDs
  PROVE  Event(type, t) \in EventType
  BY DEF Event, EventType

LEMMA CommandEventTyped ==
  ASSUME NEW type \in EventTypes, NEW cmd \in CmdType
  PROVE  CommandEvent(type, cmd) \in EventType
  BY DEF CommandEvent, EventType, CmdType

LEMMA CmdTyped ==
  \A k \in Keys, t \in TaskIDs, s \in CommandState, f \in Nat :
    [key |-> k, task |-> t, state |-> s, fence |-> f] \in CmdType
  BY DEF CmdType

LEMMA NoCmdTyped == NoCmd \in CmdType
  BY RunTaskAssumption DEF NoCmd, CmdType

-----------------------------------------------------------------------------
(* The record of a handler.  Each lemma says what one of the operators of  *)
(* DispatchRun does to every field.                                        *)

Fields(a) == <<a.pc, a.op, a.cmd, a.token, a.rest, a.snap, a.todo, a.then>>

LEMMA IdleFields ==
  /\ Idle \in HandlerType
  /\ Fields(Idle) = <<"idle", StartOp, NoCmd, 0, {}, NoSnap, <<>>, "">>
<1>1. NoSnap \in [granted : SUBSET Tasks, asked : SUBSET Tasks]
  BY DEF NoSnap
<1>2. StartOp \in AllOperations
  BY DEF AllOperations
<1> QED
  BY <1>1, <1>2, NoCmdTyped DEF Idle, HandlerType, Places, Fields

LEMMA GotoFields ==
  ASSUME NEW a \in HandlerType, NEW pc \in Places
  PROVE  /\ Goto(a, pc) \in HandlerType
         /\ Fields(Goto(a, pc)) = <<pc, a.op, a.cmd, a.token, a.rest, a.snap, a.todo, a.then>>
  BY DEF Goto, HandlerType, Fields

LEMMA DoneFields ==
  /\ Done \in HandlerType
  /\ Fields(Done) = <<"done", StartOp, NoCmd, 0, {}, NoSnap, <<>>, "">>
<1>1. Done = Goto(Idle, "done")
  BY DEF Done, Goto
<1>2. "done" \in Places
  BY DEF Places
<1> QED
  BY <1>1, <1>2, IdleFields, GotoFields DEF Fields

LEMMA EmitFields ==
  ASSUME NEW a \in HandlerType, NEW events \in Seq(EventType), NEW then \in Places
  PROVE  /\ Emit(a, events, then) \in HandlerType
         /\ Fields(Emit(a, events, then))
              = <<"append", a.op, a.cmd, a.token, a.rest, a.snap, events, then>>
<1>1. "append" \in Places
  BY DEF Places
<1>2. /\ Emit(a, events, then).pc = "append" /\ Emit(a, events, then).op = a.op
      /\ Emit(a, events, then).cmd = a.cmd /\ Emit(a, events, then).token = a.token
      /\ Emit(a, events, then).rest = a.rest /\ Emit(a, events, then).snap = a.snap
      /\ Emit(a, events, then).todo = events /\ Emit(a, events, then).then = then
  BY DEF Emit, HandlerType
<1>3. Emit(a, events, then) \in HandlerType
  BY <1>1 DEF Emit, HandlerType
<1> QED
  BY <1>2, <1>3 DEF Fields

LEMMA EmptiedFields ==
  ASSUME NEW a \in HandlerType
  PROVE  /\ Emptied(a) \in HandlerType
         /\ Fields(Emptied(a)) = <<a.pc, a.op, a.cmd, a.token, a.rest, a.snap, <<>>, "">>
<1>1. \A s \in Seq(EventType), then \in Places \cup {""} :
        /\ [a EXCEPT !.todo = s, !.then = then] \in HandlerType
        /\ Fields([a EXCEPT !.todo = s, !.then = then])
             = <<a.pc, a.op, a.cmd, a.token, a.rest, a.snap, s, then>>
  BY DEF HandlerType, Fields
<1>2. <<>> \in Seq(EventType) /\ "" \in Places \cup {""}
  OBVIOUS
<1> QED
  BY <1>1, <1>2 DEF Emptied

LEMMA HoldFields ==
  ASSUME NEW a \in HandlerType, NEW cmd \in CmdType
  PROVE  /\ Hold(a, cmd) \in HandlerType
         /\ Fields(Hold(a, cmd)) = <<a.pc, a.op, cmd, a.token, a.rest, a.snap, a.todo, a.then>>
  BY DEF Hold, HandlerType, Fields

LEMMA OutOfLoopFields ==
  ASSUME NEW a \in HandlerType
  PROVE  /\ OutOfLoop(a) \in HandlerType
         /\ Fields(OutOfLoop(a)) = <<a.pc, a.op, NoCmd, a.token, {}, NoSnap, a.todo, a.then>>
<1>1. NoSnap \in [granted : SUBSET Tasks, asked : SUBSET Tasks]
  BY DEF NoSnap
<1> QED
  BY <1>1, NoCmdTyped DEF OutOfLoop, HandlerType, Fields

LEMMA ServeFields ==
  ASSUME NEW op \in AllOperations, NEW pc \in Places
  PROVE  /\ Serve(op, pc) \in HandlerType
         /\ Fields(Serve(op, pc)) = <<pc, op, NoCmd, 0, {}, NoSnap, <<>>, "">>
<1>1. \A a \in HandlerType : 
        /\ [a EXCEPT !.pc = pc, !.op = op] \in HandlerType
        /\ Fields([a EXCEPT !.pc = pc, !.op = op])
             = <<pc, op, a.cmd, a.token, a.rest, a.snap, a.todo, a.then>>
  BY DEF HandlerType, Fields
<1> QED
  BY <1>1, IdleFields DEF Serve, Fields

(* What is left of a handler when scheduleRun returns, and at the next     *)
(* task of its loop.                                                       *)
LeavesLoop(op, b) ==
  /\ b \in HandlerType
  /\ b.rest = {} /\ b.cmd = NoCmd /\ b.snap = NoSnap
  /\ \/ b.pc = "done" /\ b.todo = <<>>
     \/ b.pc = "append" /\ b.op = op /\ b.then = "done"
        /\ b.todo = <<RunEvent("dispatch.failed")>>
     \/ b.pc = "finish" /\ b.op = op /\ b.todo = <<>> /\ op.kind = "result"
     \/ b.pc = "pending" /\ b.op = op /\ b.todo = <<>> /\ op.kind = "reconcile"

Visits(op, snap, rest, b) ==
  /\ b \in HandlerType
  /\ rest # {}
  /\ b.pc = "append" /\ b.op = op /\ b.cmd = NoCmd /\ b.rest = rest /\ b.snap = snap
  /\ b.todo = <<Event("routing.decided", First(rest))>> /\ b.then = "guard"

LEMMA LeaveFields ==
  ASSUME NEW a \in HandlerType, Scheduler(a.op), a.todo = <<>>
  PROVE  LeavesLoop(a.op, ScheduleFailed(a)) /\ LeavesLoop(a.op, ScheduleEnded(a))
<1> DEFINE b == OutOfLoop(a)
           failed == <<RunEvent("dispatch.failed")>>
<1>1. b \in HandlerType /\ Fields(b) = <<a.pc, a.op, NoCmd, a.token, {}, NoSnap, <<>>, a.then>>
  BY OutOfLoopFields
<1>2. RunEvent("dispatch.failed") \in EventType
  BY EventTyped, RunTaskAssumption DEF RunEvent, EventTypes
<1>3. failed \in Seq(EventType)
  BY <1>2
<1> HIDE DEF b
<1>4. LeavesLoop(a.op, Done)
  BY DoneFields DEF LeavesLoop, Fields
<1>5. a.op.kind = "result" => LeavesLoop(a.op, Goto(b, "finish"))
  BY <1>1, GotoFields DEF LeavesLoop, Fields, Places
<1>6. a.op.kind = "reconcile" => LeavesLoop(a.op, Goto(b, "pending"))
  BY <1>1, GotoFields DEF LeavesLoop, Fields, Places
<1>7. LeavesLoop(a.op, Emit(b, failed, "done"))
  <2>1. "done" \in Places
    BY DEF Places
  <2>2. /\ Emit(b, failed, "done") \in HandlerType
        /\ Fields(Emit(b, failed, "done"))
             = <<"append", b.op, b.cmd, b.token, b.rest, b.snap, failed, "done">>
    <3> HIDE DEF failed
    <3> QED
      BY <1>1, <1>3, <2>1, EmitFields
  <2> QED
    BY <1>1, <2>2 DEF LeavesLoop, Fields
<1> QED
  BY <1>4, <1>5, <1>6, <1>7 DEF ScheduleFailed, ScheduleEnded, Scheduler, b

LEMMA VisitFields ==
  ASSUME NEW a \in HandlerType, Scheduler(a.op), a.todo = <<>>, NEW rest, rest \subseteq Tasks
  PROVE  LeavesLoop(a.op, Visit(a, rest)) \/ Visits(a.op, a.snap, rest, Visit(a, rest))
<1>1. CASE rest = {} \/ First(rest) \notin Routable
  BY <1>1, LeaveFields DEF Visit
<1>2. CASE rest # {} /\ First(rest) \in Routable
  <2> DEFINE c == [a EXCEPT !.rest = rest]
             b == Hold(c, NoCmd)
             routed == <<Event("routing.decided", First(rest))>>
  <2>1. c \in HandlerType
        /\ Fields(c) = <<a.pc, a.op, a.cmd, a.token, rest, a.snap, a.todo, a.then>>
    BY DEF HandlerType, Fields
  <2> HIDE DEF c
  <2>2. b \in HandlerType
        /\ Fields(b) = <<a.pc, a.op, NoCmd, a.token, rest, a.snap, a.todo, a.then>>
    BY <2>1, NoCmdTyped, HoldFields DEF Fields
  <2> HIDE DEF b
  <2>3. routed \in Seq(EventType)
    <3>1. First(rest) \in TaskIDs
      BY <1>2, FirstIn, TasksAreIDs
    <3>2. Event("routing.decided", First(rest)) \in EventType
      BY <3>1, EventTyped DEF EventTypes
    <3> QED
      BY <3>2
  <2>4. Emit(b, routed, "guard") \in HandlerType
        /\ Fields(Emit(b, routed, "guard"))
             = <<"append", b.op, b.cmd, b.token, b.rest, b.snap, routed, "guard">>
    <3>1. "guard" \in Places
      BY DEF Places
    <3> HIDE DEF routed
    <3> QED
      BY <2>2, <2>3, <3>1, EmitFields
  <2>5. Visit(a, rest) = Emit(b, routed, "guard")
    BY <1>2 DEF Visit, b, c
  <2> QED
    BY <1>2, <2>2, <2>4, <2>5 DEF Visits, Fields
<1> QED
  BY <1>1, <1>2

-----------------------------------------------------------------------------
(* Steps of one handler.                                                   *)

Moved(h) ==
  /\ at' \in [Handlers -> HandlerType]
  /\ \A g \in Handlers \ {h} : at'[g] = at[g]
Becomes(h, fields) == Moved(h) /\ Fields(at'[h]) = fields

LEMMA StepMoves ==
  ASSUME TypeOK, NEW h \in Handlers, NEW b \in HandlerType, Step(h, b)
  PROVE  Moved(h) /\ at'[h] = b
  BY DEF TypeOK, Step, Moved

LEMMA DoneStep ==
  ASSUME TypeOK, NEW h \in Handlers, Step(h, Done)
  PROVE  Becomes(h, <<"done", StartOp, NoCmd, 0, {}, NoSnap, <<>>, "">>)
  BY StepMoves, DoneFields DEF Becomes

LEMMA GotoStep ==
  ASSUME TypeOK, NEW h \in Handlers, NEW a \in HandlerType, NEW pc \in Places, Step(h, Goto(a, pc))
  PROVE  Becomes(h, <<pc, a.op, a.cmd, a.token, a.rest, a.snap, a.todo, a.then>>)
  BY StepMoves, GotoFields DEF Becomes

LEMMA EmitStep ==
  ASSUME TypeOK, NEW h \in Handlers, NEW a \in HandlerType, NEW events \in Seq(EventType),
         NEW then \in Places, Step(h, Emit(a, events, then))
  PROVE  Becomes(h, <<"append", a.op, a.cmd, a.token, a.rest, a.snap, events, then>>)
  BY StepMoves, EmitFields DEF Becomes

LEMMA LeaveStep ==
  ASSUME TypeOK, NEW h \in Handlers, NEW a \in HandlerType, Scheduler(a.op), a.todo = <<>>,
         Step(h, ScheduleFailed(a)) \/ Step(h, ScheduleEnded(a))
  PROVE  Moved(h) /\ LeavesLoop(a.op, at'[h])
<1>1. LeavesLoop(a.op, ScheduleFailed(a)) /\ LeavesLoop(a.op, ScheduleEnded(a))
  BY LeaveFields
<1>2. ScheduleFailed(a) \in HandlerType /\ ScheduleEnded(a) \in HandlerType
  BY <1>1 DEF LeavesLoop
<1> QED
  BY <1>1, <1>2, StepMoves

LEMMA VisitStep ==
  ASSUME TypeOK, NEW h \in Handlers, NEW a \in HandlerType, Scheduler(a.op), a.todo = <<>>,
         NEW rest, rest \subseteq Tasks, Step(h, Visit(a, rest))
  PROVE  Moved(h) /\ (LeavesLoop(a.op, at'[h]) \/ Visits(a.op, a.snap, rest, at'[h]))
<1>1. LeavesLoop(a.op, Visit(a, rest)) \/ Visits(a.op, a.snap, rest, Visit(a, rest))
  BY VisitFields
<1>2. Visit(a, rest) \in HandlerType
  BY <1>1 DEF LeavesLoop, Visits
<1> QED
  BY <1>1, <1>2, StepMoves

-----------------------------------------------------------------------------
(* Operations of the controller.                                           *)

LedgerTyped ==
  /\ commands \in [Keys -> Command]
  /\ fences \in [TaskIDs -> Nat]
  /\ results \in [Keys -> Results \cup {NoResult}]
  /\ stopped \in BOOLEAN
  /\ commandCount \in 0..MaxCommands
  /\ newer \subseteq Keys \X Keys

(* Only command k changes, and it keeps its task and its fence.            *)
OnlyState(k) ==
  /\ \A j \in Keys \ {k} : commands'[j] = commands[j]
  /\ commands'[k].task = commands[k].task /\ commands'[k].fence = commands[k].fence
  /\ UNCHANGED <<fences, stopped, commandCount>>

LEMMA ResultTyped == \A to : ResultFor(to) \in Results \cup {NoResult}
  BY ResultsAssumption DEF ResultFor

LEMMA TransitionEffect ==
  ASSUME LedgerTyped, NEW k \in Keys, NEW to \in CommandState, NEW r \in Results \cup {NoResult},
         Transition(k, to, r)
  PROVE  LedgerTyped' /\ OnlyState(k) /\ commands'[k].state = to
<1>1. commands \in [Keys -> Command] /\ commands[k] \in Command
  BY DEF LedgerTyped
<1>2. commands'[k] = [commands[k] EXCEPT !.state = to, !.result = r]
  BY <1>1 DEF Transition
<1>3. /\ commands'[k] \in Command /\ commands'[k].state = to
      /\ commands'[k].task = commands[k].task /\ commands'[k].fence = commands[k].fence
  BY <1>1, <1>2 DEF Command
<1>4. \A j \in Keys \ {k} : commands'[j] = commands[j]
  BY <1>1 DEF Transition
<1>5. commands' \in [Keys -> Command]
  BY <1>1, <1>3, <1>4 DEF Transition
<1>6. results' \in [Keys -> Results \cup {NoResult}]
  BY DEF Transition, LedgerTyped
<1>7. newer' \subseteq Keys \X Keys
  BY DEF Transition, LedgerTyped, Stamped
<1>8. UNCHANGED <<fences, stopped, commandCount>>
  BY DEF Transition
<1> QED
  BY <1>3, <1>4, <1>5, <1>6, <1>7, <1>8 DEF LedgerTyped, OnlyState

(* A transition whose error is ignored, and what it returns.               *)
LEMMA TryEffect ==
  ASSUME LedgerTyped, NEW k \in Keys, NEW to \in CommandState, TryTransition(k, to)
  PROVE  /\ LedgerTyped' /\ OnlyState(k)
         /\ Returned(k, to) \in CmdType
         /\ \/ /\ TransitionAllowed(k, to) /\ commands'[k].state = to
               /\ Returned(k, to) = [key |-> k, task |-> commands'[k].task, state |-> to,
                                     fence |-> commands'[k].fence]
            \/ ~TransitionAllowed(k, to) /\ UNCHANGED controlVars /\ Returned(k, to) = NoCmd
<1>1. CASE TransitionAllowed(k, to)
  <2>1. Transition(k, to, ResultFor(to))
    BY <1>1 DEF TryTransition
  <2>2. LedgerTyped' /\ OnlyState(k) /\ commands'[k].state = to
    BY <2>1, ResultTyped, TransitionEffect
  <2>3. commands[k].task \in TaskIDs /\ commands[k].fence \in Nat
    BY DEF LedgerTyped, Command
  <2>4. Returned(k, to) = [key |-> k, task |-> commands[k].task, state |-> to,
                           fence |-> commands[k].fence]
    BY <1>1 DEF Returned, Cmd
  <2>5. Returned(k, to) \in CmdType
    BY <2>3, <2>4, CmdTyped
  <2>6. Returned(k, to) = [key |-> k, task |-> commands'[k].task, state |-> to,
                           fence |-> commands'[k].fence]
    BY <2>2, <2>4 DEF OnlyState
  <2> QED
    BY <1>1, <2>2, <2>5, <2>6
<1>2. CASE ~TransitionAllowed(k, to)
  BY <1>2, NoCmdTyped DEF TryTransition, Returned, LedgerTyped, controlVars, OnlyState
<1> QED
  BY <1>1, <1>2

LEMMA RequestEffect ==
  ASSUME LedgerTyped, NEW k \in Keys, NEW t \in TaskIDs, NEW f \in Nat, RequestOnce(k, t, f)
  PROVE  /\ LedgerTyped' /\ ~stopped /\ ~Known(k)
         /\ \A j \in Keys \ {k} : commands'[j] = commands[j]
         /\ commands'[k].state = "requested" /\ commands'[k].task = t /\ commands'[k].fence = f
         /\ UNCHANGED <<fences, stopped>>
<1> USE DEF RequestOnce, RequestCreates, Requested
<1>1. commands' \in [Keys -> Command]
  BY DEF LedgerTyped, Command, CommandState
<1>2. commandCount' \in 0..MaxCommands
  BY MaxCommandsAssumption DEF LedgerTyped
<1>3. newer' \subseteq Keys \X Keys
  BY DEF LedgerTyped, Stamped
<1> QED
  BY <1>1, <1>2, <1>3 DEF LedgerTyped

LEMMA RotateFenceEffect ==
  ASSUME LedgerTyped, NEW k \in Keys, NEW t \in TaskIDs, RotateFenceForCommand(k, t)
  PROVE  /\ LedgerTyped' /\ Known(k) /\ commands[k].task = t
         /\ \A j \in Keys \ {k} : commands'[j] = commands[j]
         /\ commands'[k].state = commands[k].state /\ commands'[k].task = t
         /\ commands'[k].fence = fences[t] + 1
         /\ fences'[t] = fences[t] + 1 /\ \A u \in TaskIDs \ {t} : fences'[u] = fences[u]
         /\ UNCHANGED <<stopped, commandCount>>
<1> USE DEF RotateFenceForCommand
<1>1. fences \in [TaskIDs -> Nat] /\ commands \in [Keys -> Command]
  BY DEF LedgerTyped
<1>2. fences' \in [TaskIDs -> Nat]
  BY <1>1
<1>3. commands'[k] = [commands[k] EXCEPT !.fence = fences[t] + 1]
  BY <1>1
<1>4. /\ commands'[k] \in Command /\ commands'[k].state = commands[k].state
      /\ commands'[k].task = t /\ commands'[k].fence = fences[t] + 1
  BY <1>1, <1>3 DEF Command
<1>5. \A j \in Keys \ {k} : commands'[j] = commands[j]
  BY <1>1
<1>6. commands' \in [Keys -> Command]
  BY <1>1, <1>4, <1>5
<1>7. newer' \subseteq Keys \X Keys
  BY DEF LedgerTyped, Stamped
<1> QED
  BY <1>1, <1>2, <1>4, <1>5, <1>6, <1>7 DEF LedgerTyped

LEMMA StopEffect ==
  ASSUME LedgerTyped, EmergencyStop
  PROVE  /\ LedgerTyped' /\ stopped' = TRUE
         /\ \A t \in TaskIDs : fences[t] <= fences'[t]
         /\ UNCHANGED <<commands, commandCount>>
  BY DEF LedgerTyped, EmergencyStop

-----------------------------------------------------------------------------
(* Requests.                                                               *)

LEMMA OperationForm ==
  ASSUME NEW op \in AllOperations
  PROVE  /\ op.kind \in {"start", "result", "approve", "control", "reconcile"}
         /\ op.task \in TaskIDs
         /\ op.kind \in {"result", "approve"} => op.task \in Tasks
         /\ op.kind = "approve" => op.what \in {"grant", "deny"}
         /\ op.kind = "control" =>
              /\ op.what \in Controls /\ op.key \in Keys /\ op.key[2] = op.task
              /\ op.what = "emergency-stop" => op.task = RunTask
              /\ op.what = "retry" => RetryKey(op.task, op.key[3]) \in Keys
         /\ op.kind = "reconcile" =>
              /\ op.what \in {"applied", "not_applied", "still_unknown"}
              /\ op.key \in Keys /\ op.key[2] = op.task
<1>1. CASE op = StartOp
  BY <1>1, RunTaskAssumption DEF StartOp, Operation
<1>2. CASE op # StartOp
  <2>1. PICK r \in Requests : op \in Menu[r]
    BY <1>2 DEF AllOperations
  <2>2. CASE op.task \in Tasks /\ op = ResultOp(op.task)
    <3>1. ResultOp(op.task).kind = "result"
      BY DEF ResultOp, Operation
    <3> QED
      BY <2>2, <3>1, TasksAreIDs
  <2>3. CASE op.task \in Tasks /\ op.what \in {"grant", "deny"} /\ op = ApproveOp(op.task, op.what)
    <3>1. op.kind = "approve"
      BY <2>3 DEF ApproveOp, Operation
    <3> QED
      BY <2>3, <3>1, TasksAreIDs
  <2>4. CASE /\ op.what \in Controls /\ op.task \in TaskIDs /\ op.key \in Keys
             /\ op = ControlOp(op.what, op.task, op.key[3])
             /\ op.what = "emergency-stop" => op.task = RunTask
             /\ op.what = "retry" => RetryKey(op.task, op.key[3]) \in Keys
    <3>1. op.kind = "control" /\ op.key = <<op.what, op.task, op.key[3]>>
      BY <2>4 DEF ControlOp, Operation
    <3>2. op.key[2] = op.task
      BY <3>1
    <3> QED
      BY <2>4, <3>1, <3>2
  <2>5. CASE /\ op.what \in {"applied", "not_applied", "still_unknown"}
             /\ op.key \in Keys /\ op.key[2] \in TaskIDs /\ op = ReconcileOp(op.key, op.what)
    <3>1. op.kind = "reconcile" /\ op.task = op.key[2]
      BY <2>5 DEF ReconcileOp, Operation
    <3> QED
      BY <2>5, <3>1
  <2> QED
    BY <2>1, <2>2, <2>3, <2>4, <2>5, MenuAssumption
<1> QED
  BY <1>1, <1>2

-----------------------------------------------------------------------------
(* What each action does.                                                  *)

LEMMA TypedLedger == TypeOK => LedgerTyped
  BY DEF TypeOK, LedgerTyped

LEMMA HandlerTyped ==
  ASSUME TypeOK, NEW h \in Handlers
  PROVE  /\ at[h] \in HandlerType
         /\ at[h].pc \in Places /\ at[h].op \in AllOperations /\ at[h].cmd \in CmdType
         /\ at[h].token \in Nat /\ at[h].rest \subseteq Tasks /\ at[h].todo \in Seq(EventType)
         /\ at[h].then \in Places \cup {""}
         /\ at[h].cmd.key \in Keys \cup {NoKey} /\ at[h].cmd.task \in TaskIDs
         /\ at[h].cmd.fence \in Nat
         /\ at[h].snap.granted \subseteq Tasks
<1>1. at[h] \in HandlerType
  BY DEF TypeOK
<1>2. at[h].cmd \in CmdType
  BY <1>1 DEF HandlerType
<1>3. at[h].snap \in [granted : SUBSET Tasks, asked : SUBSET Tasks]
  BY <1>1 DEF HandlerType
<1>4. at[h].snap.granted \subseteq Tasks
  BY <1>3
<1>5. /\ at[h].cmd.key \in Keys \cup {NoKey} /\ at[h].cmd.task \in TaskIDs
      /\ at[h].cmd.fence \in Nat
  BY <1>2 DEF CmdType
<1> QED
  BY <1>1, <1>2, <1>4, <1>5 DEF HandlerType

LEMMA StartEffect ==
  ASSUME TypeOK, StartDispatch
  PROVE  /\ at[Start].pc = "idle" /\ Start \in Handlers
         /\ Becomes(Start, <<"append", StartOp, NoCmd, 0, {}, NoSnap,
                             <<RunEvent("dispatch.started")>>, "schedule">>)
         /\ UNCHANGED controlVars /\ Stay
<1> DEFINE events == <<RunEvent("dispatch.started")>>
<1>1. Start \in Handlers /\ "schedule" \in Places
  BY DEF Handlers, Places
<1>2. events \in Seq(EventType)
  BY EventTyped, RunTaskAssumption DEF RunEvent, EventTypes
<1>3. Becomes(Start, <<"append", Idle.op, Idle.cmd, Idle.token, Idle.rest, Idle.snap,
                       events, "schedule">>)
  <2>1. Step(Start, Emit(Idle, events, "schedule"))
    BY DEF StartDispatch
  <2> HIDE DEF events
  <2> QED
    BY <1>1, <1>2, <2>1, EmitStep, IdleFields
<1> QED
  BY <1>1, <1>3, IdleFields DEF StartDispatch, MayArrive, Fields

LEMMA ScheduleEffect ==
  ASSUME TypeOK, NEW h \in Handlers, PlaceFits(h), Schedule(h)
  PROVE  /\ at[h].pc = "schedule" /\ Moved(h)
         /\ \/ LeavesLoop(at[h].op, at'[h])
            \/ Visits(at[h].op, [granted |-> Granted, asked |-> Asked],
                      {t \in Tasks : Defined /\ Ready(t)}, at'[h])
         /\ UNCHANGED controlVars /\ Stay
<1> DEFINE snap == [granted |-> Granted, asked |-> Asked]
           rest == {t \in Tasks : Defined /\ Ready(t)}
           a == [at[h] EXCEPT !.snap = snap]
<1>1. at[h].pc = "schedule" /\ at[h].todo = <<>> /\ Scheduler(at[h].op) /\ at[h] \in HandlerType
  BY HandlerTyped DEF Schedule, PlaceFits, Suits, At
<1>2. a \in HandlerType /\ a.op = at[h].op /\ a.snap = snap /\ a.todo = at[h].todo
  <2>1. snap \in [granted : SUBSET Tasks, asked : SUBSET Tasks]
    BY DEF Granted, Asked
  <2> HIDE DEF snap
  <2> QED
    BY <1>1, <2>1 DEF HandlerType
<1>3. Step(h, Visit(a, rest))
  BY DEF Schedule
<1>4. rest \subseteq Tasks
  OBVIOUS
<1> HIDE DEF a, rest
<1>5. Moved(h) /\ (LeavesLoop(a.op, at'[h]) \/ Visits(a.op, a.snap, rest, at'[h]))
  BY <1>1, <1>2, <1>3, <1>4, VisitStep
<1> QED
  BY <1>1, <1>2, <1>5 DEF Schedule, rest

LEMMA AskEffect ==
  ASSUME TypeOK, NEW h \in Handlers, PlaceFits(h), AskApproval(h)
  PROVE  LET a == at[h] IN
         /\ a.pc = "guard" /\ a.rest # {} /\ Moved(h)
         /\ \/ LeavesLoop(a.op, at'[h])
            \/ /\ First(a.rest) \in Guarded
               /\ Fields(at'[h]) = <<"append", a.op, a.cmd, a.token, a.rest, a.snap,
                                     <<Event("approval.requested", First(a.rest))>>, "scheduled">>
         /\ UNCHANGED controlVars /\ Stay
<1> DEFINE a == at[h]
           events == <<Event("approval.requested", First(a.rest))>>
<1>1. /\ a.pc = "guard" /\ a.todo = <<>> /\ a.rest # {} /\ Scheduler(a.op) /\ a \in HandlerType
      /\ a.rest \subseteq Tasks
  BY HandlerTyped DEF AskApproval, PlaceFits, Suits, At, LoopPlaces
<1>2. events \in Seq(EventType)
  BY <1>1, FirstIn, TasksAreIDs, EventTyped DEF EventTypes
<1>3. Step(h, ScheduleEnded(a)) \/ Step(h, Emit(a, events, "scheduled"))
  BY DEF AskApproval
<1>4. CASE Step(h, ScheduleEnded(a))
  BY <1>1, <1>4, LeaveStep DEF AskApproval
<1>5. CASE Step(h, Emit(a, events, "scheduled"))
  <2>1. "scheduled" \in Places
    BY DEF Places
  <2>2. Becomes(h, <<"append", a.op, a.cmd, a.token, a.rest, a.snap, events, "scheduled">>)
    <3> HIDE DEF events, a
    <3> QED
      BY <1>1, <1>2, <1>5, <2>1, EmitStep
  <2> QED
    BY <1>1, <2>2 DEF AskApproval, NeedsApproval, Becomes
<1> QED
  BY <1>3, <1>4, <1>5

LEMMA LookUpEffect ==
  ASSUME TypeOK, NEW h \in Handlers, PlaceFits(h), LookUp(h)
  PROVE  LET a == at[h] IN
         /\ a.pc = "guard" /\ a.rest # {} /\ Moved(h)
         /\ \/ LeavesLoop(a.op, at'[h])
            \/ Visits(a.op, a.snap, a.rest \ {First(a.rest)}, at'[h])
            \/ /\ First(a.rest) \in Guarded => First(a.rest) \in a.snap.granted
               /\ Fields(at'[h]) = <<"request", a.op, a.cmd, a.token, a.rest, a.snap, a.todo, a.then>>
         /\ UNCHANGED controlVars /\ Stay
<1> DEFINE a == at[h]
<1>1. /\ a.pc = "guard" /\ a.todo = <<>> /\ a.rest # {} /\ Scheduler(a.op) /\ a \in HandlerType
      /\ a.rest \subseteq Tasks
  BY HandlerTyped DEF LookUp, PlaceFits, Suits, At, LoopPlaces
<1>2. \/ Step(h, ScheduleFailed(a)) \/ Step(h, Visit(a, a.rest \ {First(a.rest)}))
      \/ Step(h, Goto(a, "request"))
  BY DEF LookUp, VisitNext
<1>3. CASE Step(h, ScheduleFailed(a))
  BY <1>1, <1>3, LeaveStep DEF LookUp
<1>4. CASE Step(h, Visit(a, a.rest \ {First(a.rest)}))
  <2>1. a.rest \ {First(a.rest)} \subseteq Tasks
    BY <1>1
  <2> HIDE DEF a
  <2>2. Moved(h) /\ (LeavesLoop(a.op, at'[h]) \/ Visits(a.op, a.snap, a.rest \ {First(a.rest)}, at'[h]))
    BY <1>1, <1>4, <2>1, VisitStep
  <2> QED
    BY <1>1, <2>2 DEF a, LookUp
<1>5. CASE Step(h, Goto(a, "request"))
  <2>1. "request" \in Places
    BY DEF Places
  <2>2. Becomes(h, <<"request", a.op, a.cmd, a.token, a.rest, a.snap, a.todo, a.then>>)
    BY <1>1, <1>5, <2>1, GotoStep
  <2> QED
    BY <1>1, <2>2 DEF LookUp, NeedsApproval, Becomes
<1> QED
  BY <1>2, <1>3, <1>4, <1>5

LEMMA RequestDispatchEffect ==
  ASSUME TypeOK, NEW h \in Handlers, PlaceFits(h), RequestDispatch(h)
  PROVE  LET a == at[h]
             t == First(a.rest)
             k == DispatchKey(t)
             cmd == [key |-> k, task |-> t, state |-> "requested", fence |-> 0] IN
         /\ a.pc = "request" /\ a.rest # {} /\ Moved(h) /\ Stay
         /\ t \in Tasks /\ t \in TaskIDs /\ k \in Keys
         /\ \/ UNCHANGED controlVars /\ LeavesLoop(a.op, at'[h])
            \/ UNCHANGED controlVars /\ Visits(a.op, a.snap, a.rest \ {t}, at'[h])
            \/ /\ RequestOnce(k, t, 0)
               /\ Fields(at'[h]) = <<"rotate", a.op, cmd, a.token, a.rest, a.snap, a.todo, a.then>>
<1> DEFINE a == at[h]
           t == First(a.rest)
           k == DispatchKey(t)
           cmd == [key |-> k, task |-> t, state |-> "requested", fence |-> 0]
<1>1. /\ a.pc = "request" /\ a.todo = <<>> /\ a.rest # {} /\ Scheduler(a.op) /\ a \in HandlerType
      /\ a.rest \subseteq Tasks
  BY HandlerTyped DEF RequestDispatch, PlaceFits, Suits, At, LoopPlaces
<1>2. t \in Tasks /\ t \in TaskIDs /\ k \in Keys
  BY <1>1, FirstIn, TasksAreIDs, KeyFormAssumption
<1>3. \/ Step(h, ScheduleFailed(a)) /\ UNCHANGED controlVars
      \/ Step(h, Visit(a, a.rest \ {t})) /\ UNCHANGED controlVars
      \/ RequestOnce(k, t, 0) /\ Step(h, Goto(Hold(a, cmd), "rotate"))
  BY DEF RequestDispatch, VisitNext
<1>4. Stay
  BY DEF RequestDispatch
<1> HIDE DEF a, k, cmd
<1>5. CASE Step(h, ScheduleFailed(a)) /\ UNCHANGED controlVars
  <2>1. Moved(h) /\ LeavesLoop(a.op, at'[h])
    BY <1>1, <1>5, LeaveStep
  <2> QED
    BY <1>1, <1>2, <1>4, <1>5, <2>1 DEF a, k
<1>6. CASE Step(h, Visit(a, a.rest \ {t})) /\ UNCHANGED controlVars
  <2>1. a.rest \ {t} \subseteq Tasks
    BY <1>1
  <2>2. Moved(h) /\ (LeavesLoop(a.op, at'[h]) \/ Visits(a.op, a.snap, a.rest \ {t}, at'[h]))
    BY <1>1, <1>6, <2>1, VisitStep
  <2> QED
    BY <1>1, <1>2, <1>4, <1>6, <2>2 DEF a, k
<1>7. CASE RequestOnce(k, t, 0) /\ Step(h, Goto(Hold(a, cmd), "rotate"))
  <2>1. cmd \in CmdType
    BY <1>2, CmdTyped DEF cmd, CommandState
  <2>2. /\ Hold(a, cmd) \in HandlerType
        /\ Fields(Hold(a, cmd)) = <<a.pc, a.op, cmd, a.token, a.rest, a.snap, a.todo, a.then>>
    BY <1>1, <2>1, HoldFields
  <2>3. Becomes(h, <<"rotate", a.op, cmd, a.token, a.rest, a.snap, a.todo, a.then>>)
    <3>1. "rotate" \in Places
      BY DEF Places
    <3> QED
      BY <1>7, <2>2, <3>1, GotoStep DEF Fields
  <2> QED
    BY <1>1, <1>2, <1>4, <1>7, <2>3 DEF a, k, cmd, Becomes
<1> QED
  BY <1>3, <1>5, <1>6, <1>7

-----------------------------------------------------------------------------
(* Events in a queue.                                                      *)

(* An event that records no command and that no property asks for by type. *)
PlainTypes == EventTypes \
  {"approval.requested", "approval.granted", "approval.denied", "dispatch.emergency_stopped",
   "task.completed", "dispatch.completed", "command.requested"}
Plain(e) == e \in EventType /\ e.state = "" /\ e.fence = 0 /\ e.type \in PlainTypes

(* A queue of event `first` and plain ones after it.                       *)
Reports(events, first) ==
  /\ events \in Seq(EventType) /\ events # <<>> /\ Len(events) \in Nat \ {0}
  /\ events[1] = first
  /\ \A i \in 2..Len(events) : Plain(events[i])

LEMMA EventPlain ==
  ASSUME NEW type \in PlainTypes, NEW t \in TaskIDs
  PROVE  Plain(Event(type, t))
  BY EventTyped DEF Plain, PlainTypes, Event

LEMMA ReportsOne ==
  ASSUME NEW first \in EventType
  PROVE  Reports(<<first>>, first)
<1>1. <<first>> \in Seq(EventType) /\ Len(<<first>>) = 1
  OBVIOUS
<1> QED
  BY <1>1 DEF Reports

LEMMA ReportsTwo ==
  ASSUME NEW first \in EventType, NEW e, Plain(e)
  PROVE  Reports(<<first, e>>, first)
<1>1. e \in EventType
  BY DEF Plain
<1>2. <<first, e>> \in Seq(EventType) /\ Len(<<first, e>>) = 2
  BY <1>1
<1> QED
  BY <1>2 DEF Reports

LEMMA ReportsThree ==
  ASSUME NEW first \in EventType, NEW e, Plain(e), NEW f, Plain(f)
  PROVE  Reports(<<first, e, f>>, first)
<1>1. e \in EventType /\ f \in EventType
  BY DEF Plain
<1>2. <<first, e, f>> \in Seq(EventType) /\ Len(<<first, e, f>>) = 3
  BY <1>1
<1> QED
  BY <1>2 DEF Reports

AllPlain(s) == s \in Seq(EventType) /\ \A i \in 1..Len(s) : Plain(s[i])

LEMMA PlainPairs ==
  /\ \A e : Plain(e) => AllPlain(<<e>>)
  /\ \A e, f : Plain(e) /\ Plain(f) => AllPlain(<<e, f>>)
<1>1. \A e : Plain(e) => e \in EventType
  BY DEF Plain
<1>2. /\ \A e \in EventType : <<e>> \in Seq(EventType)
      /\ \A e, f \in EventType : <<e, f>> \in Seq(EventType)
  OBVIOUS
<1> QED
  BY <1>1, <1>2 DEF AllPlain

LEMMA ReportsMore ==
  ASSUME NEW first \in EventType, NEW s, AllPlain(s)
  PROVE  Reports(<<first>> \o s, first)
<1>1. <<first>> \in Seq(EventType) /\ Len(<<first>>) = 1 /\ <<first>>[1] = first
  OBVIOUS
<1>2. s \in Seq(EventType) /\ Len(s) \in Nat
  BY DEF AllPlain
<1> DEFINE one == <<first>>
           q == one \o s
<1> HIDE DEF one
<1>3. /\ q \in Seq(EventType)
      /\ Len(q) = Len(one) + Len(s)
      /\ \A i \in 1..(Len(one) + Len(s)) : q[i] = IF i <= Len(one) THEN one[i] ELSE s[i - Len(one)]
  BY <1>1, <1>2, ConcatProperties DEF one
<1>4. Len(one) = 1 /\ one[1] = first
  BY <1>1 DEF one
<1> HIDE DEF q
<1>5. q[1] = first
  BY <1>2, <1>3, <1>4
<1>6. \A i \in 2..Len(q) : Plain(q[i])
  <2> TAKE i \in 2..Len(q)
  <2>1. i - 1 \in 1..Len(s) /\ q[i] = s[i - 1]
    BY <1>2, <1>3, <1>4
  <2> QED
    BY <2>1 DEF AllPlain
<1>7. q # <<>> /\ Len(q) \in Nat \ {0}
  BY <1>2, <1>3, <1>4
<1>8. Reports(q, first)
  BY <1>3, <1>5, <1>6, <1>7 DEF Reports
<1> QED
  BY <1>8 DEF q, one

LEMMA JoinPair ==
  ASSUME NEW e \in EventType, NEW f \in EventType
  PROVE  <<e>> \o <<f>> = <<e, f>>
<1> DEFINE s == <<e>>
           t == <<f>>
           p == <<e, f>>
<1>1. /\ s \in Seq(EventType) /\ Len(s) = 1 /\ s[1] = e
      /\ t \in Seq(EventType) /\ Len(t) = 1 /\ t[1] = f
      /\ p \in Seq(EventType) /\ Len(p) = 2 /\ p[1] = e /\ p[2] = f
  OBVIOUS
<1> HIDE DEF s, t, p
<1>2. /\ s \o t \in Seq(EventType)
      /\ Len(s \o t) = Len(s) + Len(t)
      /\ \A i \in 1..(Len(s) + Len(t)) : (s \o t)[i] = IF i <= Len(s) THEN s[i] ELSE t[i - Len(s)]
  BY <1>1, ConcatProperties
<1>3. Len(s \o t) = 2 /\ (s \o t)[1] = e /\ (s \o t)[2] = f
  BY <1>1, <1>2
<1>4. s \o t = p
  BY <1>1, <1>2, <1>3, SeqEqual
<1> QED
  BY <1>4 DEF s, t, p

(* Handler h starts to append `events`, command `cmd` in its hand.         *)
Queues(h, cmd, events, then) ==
  Becomes(h, <<"append", at[h].op, cmd, at[h].token, at[h].rest, at[h].snap, events, then>>)

LEMMA HoldEmitStep ==
  ASSUME TypeOK, NEW h \in Handlers, NEW cmd \in CmdType, NEW events \in Seq(EventType),
         NEW then \in Places, Step(h, Emit(Hold(at[h], cmd), events, then))
  PROVE  Queues(h, cmd, events, then)
<1>1. at[h] \in HandlerType
  BY HandlerTyped
<1>2. /\ Hold(at[h], cmd) \in HandlerType
      /\ Fields(Hold(at[h], cmd)) = <<at[h].pc, at[h].op, cmd, at[h].token, at[h].rest,
                                      at[h].snap, at[h].todo, at[h].then>>
  BY <1>1, HoldFields
<1> QED
  BY <1>2, EmitStep DEF Queues, Fields

LEMMA QueueStep ==
  ASSUME TypeOK, NEW h \in Handlers, NEW events \in Seq(EventType), NEW then \in Places,
         Step(h, Emit(at[h], events, then))
  PROVE  Queues(h, at[h].cmd, events, then)
  BY HandlerTyped, EmitStep DEF Queues

-----------------------------------------------------------------------------
(* Rotation and the adapter call.                                          *)

LEMMA FamilyTyped ==
  ASSUME NEW a
  PROVE  /\ Family(a).requested \in EventTypes /\ Family(a).acknowledged \in PlainTypes
         /\ Family(a).failed \in PlainTypes /\ Family(a).outcome_unknown \in PlainTypes
         /\ a.rest # {} => Family(a).requested = "command.requested"
         /\ a.rest = {} => Family(a).requested = "control.requested"
  BY DEF Family, IsDispatch, EventTypes, PlainTypes

LEMMA RotateEffect ==
  ASSUME TypeOK, NEW h \in Handlers, HandSound(h), Rotate(h)
  PROVE  LET a == at[h]
             k == a.cmd.key
             t == a.cmd.task
             cmd == [a.cmd EXCEPT !.fence = fences[t] + 1]
             e == CommandEvent(Family(a).requested, cmd) IN
         /\ a.pc = "rotate" /\ k \in Keys /\ t \in TaskIDs /\ a.cmd \in CmdType
         /\ RotateFenceForCommand(k, t) /\ Stay
         /\ cmd \in CmdType /\ e \in EventType
         /\ Queues(h, cmd, <<e>>, "call")
<1> DEFINE a == at[h]
           k == a.cmd.key
           t == a.cmd.task
           cmd == [a.cmd EXCEPT !.fence = fences[t] + 1]
           e == CommandEvent(Family(a).requested, cmd)
<1>1. a.pc = "rotate" /\ k \in Keys /\ t \in TaskIDs /\ a.cmd \in CmdType
  BY HandlerTyped DEF Rotate, HandSound, Owns, At, OwnerPlaces
<1>2. RotateFenceForCommand(k, t) /\ Stay /\ Step(h, Emit(Hold(a, cmd), <<e>>, "call"))
  BY DEF Rotate
<1>3. cmd \in CmdType
  <2>1. fences[t] + 1 \in Nat
    BY <1>1 DEF TypeOK
  <2> QED
    BY <1>1, <2>1 DEF CmdType
<1> HIDE DEF a, cmd
<1>4. e \in EventType
  BY <1>3, FamilyTyped, CommandEventTyped
<1>5. <<e>> \in Seq(EventType) /\ "call" \in Places
  BY <1>4 DEF Places
<1>6. Queues(h, cmd, <<e>>, "call")
  <2> HIDE DEF e
  <2> QED
    BY <1>2, <1>3, <1>5, HoldEmitStep DEF a
<1> QED
  BY <1>1, <1>2, <1>3, <1>4, <1>6 DEF a, cmd

LEMMA CallNobodyEffect ==
  ASSUME TypeOK, NEW h \in Handlers, CallNobody(h)
  PROVE  /\ at[h].pc = "call" /\ UNCHANGED controlVars /\ Stay
         /\ Becomes(h, <<"done", StartOp, NoCmd, 0, {}, NoSnap, <<>>, "">>)
  BY DoneStep DEF CallNobody

LEMMA CallAdapterEffect ==
  ASSUME TypeOK, NEW h \in Handlers, CallAdapter(h)
  PROVE  LET a == at[h] IN
         /\ a.pc = "call"
         /\ \E outcome \in {"accepted", "refused", "lost"} :
              Becomes(h, <<outcome, a.op, a.cmd, a.token, a.rest, a.snap, a.todo, a.then>>)
         /\ calls' = Append(calls, [what |-> IF a.rest # {} THEN "dispatch" ELSE a.op.what,
                                    task |-> a.cmd.task, key |-> a.cmd.key,
                                    fence |-> a.cmd.fence, logged |-> Len(log)])
         /\ UNCHANGED <<controlVars, log, claims, fatal, lapsed, found, crashes, faults>>
<1>1. PICK outcome \in AdapterOutcomes : Step(h, Goto(at[h], outcome))
  BY DEF CallAdapter
<1>2. outcome \in {"accepted", "refused", "lost"} /\ outcome \in Places
  BY <1>1, AdapterOutcomesAssumption DEF Places
<1>3. Becomes(h, <<outcome, at[h].op, at[h].cmd, at[h].token, at[h].rest, at[h].snap,
                   at[h].todo, at[h].then>>)
  BY <1>1, <1>2, HandlerTyped, GotoStep
<1> QED
  BY <1>2, <1>3 DEF CallAdapter, IsDispatch

-----------------------------------------------------------------------------
(* Reports of what became of a command.                                    *)

(* Handler h moves the command in its hand to state `to`, if the controller *)
(* allows it, and appends an event of it and plain ones.                   *)
ReportsMove(h, cmd, to, type, then) ==
  LET k == at[h].cmd.key IN
  /\ k \in Keys /\ TryTransition(k, to)
  /\ \E events : /\ Reports(events, CommandEvent(type, Returned(k, to)))
                 /\ Queues(h, cmd, events, then)

LEMMA ReportsMoveStep ==
  ASSUME TypeOK, NEW h \in Handlers, NEW cmd \in CmdType, at[h].cmd.key \in Keys,
         NEW to \in CommandState, TryTransition(at[h].cmd.key, to), NEW type \in EventTypes,
         NEW then \in Places, NEW events,
         Reports(events, CommandEvent(type, Returned(at[h].cmd.key, to))),
         \/ Step(h, Emit(Hold(at[h], cmd), events, then))
         \/ cmd = at[h].cmd /\ Step(h, Emit(at[h], events, then))
  PROVE  ReportsMove(h, cmd, to, type, then)
<1>1. events \in Seq(EventType)
  BY DEF Reports
<1>2. Queues(h, cmd, events, then)
  BY <1>1, HoldEmitStep, QueueStep
<1> QED
  BY <1>2 DEF ReportsMove

LEMMA ReturnedTyped ==
  ASSUME TypeOK, NEW k \in Keys, NEW to \in CommandState, TryTransition(k, to),
         NEW type \in EventTypes
  PROVE  CommandEvent(type, Returned(k, to)) \in EventType
<1>1. Returned(k, to) \in CmdType
  BY TypedLedger, TryEffect
<1> QED
  BY <1>1, CommandEventTyped

LEMMA ControlEventsPlain ==
  ASSUME NEW a, a.op.what \in Controls \ {"emergency-stop"}, a.op.task \in TaskIDs
  PROVE  AllPlain(ControlEvents(a))
<1> DEFINE t == a.op.task
<1>1. \A type \in PlainTypes : Plain(Event(type, t))
  BY EventPlain
<1>2. {"task.paused", "task.cancelled", "task.resumed", "task.reassigned", "routing.decided",
       "task.retried", "dispatch.resumed"} \subseteq PlainTypes
  BY DEF PlainTypes, EventTypes
<1>3. /\ Plain(Event("task.paused", t)) /\ Plain(Event("task.cancelled", t))
      /\ Plain(Event("task.resumed", t)) /\ Plain(Event("task.reassigned", t))
      /\ Plain(Event("routing.decided", t)) /\ Plain(Event("task.retried", t))
      /\ Plain(Event("dispatch.resumed", t))
  BY <1>1, <1>2
<1>4. a.op.what \in {"pause", "cancel", "resume", "retry", "reassign"}
  BY DEF Controls, Rotating
<1>5. \/ \E e : Plain(e) /\ ControlEvents(a) = <<e>>
      \/ \E e, f : Plain(e) /\ Plain(f) /\ ControlEvents(a) = <<e, f>>
  BY <1>3, <1>4 DEF ControlEvents
<1> QED
  BY <1>5, PlainPairs

LEMMA AcceptedEffect ==
  ASSUME TypeOK, NEW h \in Handlers, PlaceFits(h), HandSound(h), Accepted(h)
  PROVE  LET a == at[h] IN
         /\ a.pc = "accepted" /\ Stay
         /\ \E type \in PlainTypes : \E then \in {"advance", "retryRequest", "done"} :
              /\ ReportsMove(h, a.cmd, "acknowledged", type, then)
              /\ then = "advance" <=> a.rest # {}
              /\ then = "retryRequest" <=> a.rest = {} /\ a.op.what = "retry"
<1> DEFINE a == at[h]
           ack == CommandEvent(Family(a).acknowledged, Returned(a.cmd.key, "acknowledged"))
           delegated == Event("task.delegated", a.cmd.task)
           type == Family(a).acknowledged
<1>1. /\ a.pc = "accepted" /\ a.cmd.key \in Keys /\ a.cmd \in CmdType /\ a \in HandlerType
      /\ a.cmd.task \in TaskIDs
  BY HandlerTyped DEF Accepted, HandSound, Owns, At, OwnerPlaces
<1>2. TryTransition(a.cmd.key, "acknowledged") /\ "acknowledged" \in CommandState /\ Stay
  BY DEF Accepted, CommandState
<1>3. type \in PlainTypes /\ type \in EventTypes
  BY FamilyTyped DEF PlainTypes
<1>4. ack \in EventType
  BY <1>1, <1>2, <1>3, ReturnedTyped
<1>5. CASE a.rest # {}
  <2>1. Step(h, Emit(a, <<ack, delegated>>, "advance"))
    BY <1>5 DEF Accepted, IsDispatch
  <2>2. Plain(delegated)
    BY <1>1, EventPlain DEF PlainTypes, EventTypes
  <2>3. Reports(<<ack, delegated>>, ack)
    <3> HIDE DEF ack, delegated
    <3> QED
      BY <1>4, <2>2, ReportsTwo
  <2>4. ReportsMove(h, a.cmd, "acknowledged", type, "advance")
    <3>1. "advance" \in Places
      BY DEF Places
    <3> HIDE DEF delegated, type
    <3> QED
      BY <1>1, <1>2, <1>3, <2>1, <2>3, <3>1, ReportsMoveStep DEF type
  <2> QED
    BY <1>1, <1>2, <1>3, <1>5, <2>4
<1>6. CASE a.rest = {}
  <2> DEFINE then == IF a.op.what = "retry" THEN "retryRequest" ELSE "done"
             events == <<ack>> \o ControlEvents(a)
  <2>1. Step(h, Emit(a, events, then))
    BY <1>6 DEF Accepted, IsDispatch
  <2>2. a.op.kind = "control" /\ a.op.what # "emergency-stop"
    BY <1>1, <1>6 DEF PlaceFits, Suits, At, AdapterPlaces
  <2>3. a.op.what \in Controls \ {"emergency-stop"} /\ a.op.task \in TaskIDs
    BY <1>1, <2>2, HandlerTyped, OperationForm
  <2>4. Reports(events, ack)
    <3> HIDE DEF ack, a
    <3> QED
      BY <1>4, <2>3, ControlEventsPlain, ReportsMore
  <2>5. ReportsMove(h, a.cmd, "acknowledged", type, then)
    <3>1. then \in Places
      BY DEF Places
    <3> HIDE DEF events, type, then
    <3> QED
      BY <1>1, <1>2, <1>3, <2>1, <2>4, <3>1, ReportsMoveStep DEF type
  <2> QED
    BY <1>1, <1>2, <1>3, <1>6, <2>5
<1> QED
  BY <1>5, <1>6

LEMMA RefusedEffect ==
  ASSUME TypeOK, NEW h \in Handlers, HandSound(h), Refused(h)
  PROVE  LET a == at[h] IN
         /\ a.pc = "refused" /\ Stay
         /\ \E type \in PlainTypes : \E then \in {"advance", "done"} :
              /\ ReportsMove(h, a.cmd, "failed", type, then)
              /\ then = "advance" <=> a.rest # {}
<1> DEFINE a == at[h]
           failed == CommandEvent(Family(a).failed, Returned(a.cmd.key, "failed"))
           ended == RunEvent("dispatch.failed")
           type == Family(a).failed
<1>1. a.pc = "refused" /\ a.cmd.key \in Keys /\ a.cmd \in CmdType
  BY HandlerTyped DEF Refused, HandSound, Owns, At, OwnerPlaces
<1>2. TryTransition(a.cmd.key, "failed") /\ "failed" \in CommandState /\ Stay
  BY DEF Refused, CommandState
<1>3. type \in PlainTypes /\ type \in EventTypes
  BY FamilyTyped DEF PlainTypes
<1>4. failed \in EventType
  BY <1>1, <1>2, <1>3, ReturnedTyped
<1>5. Plain(ended)
  BY RunTaskAssumption, EventPlain DEF PlainTypes, EventTypes, RunEvent
<1>6. "advance" \in Places /\ "done" \in Places
  BY DEF Places
<1>7. CASE a.rest # {}
  <2>1. Step(h, Emit(a, <<failed, ended>>, "advance"))
    BY <1>7 DEF Refused, IsDispatch
  <2>2. Reports(<<failed, ended>>, failed)
    <3> HIDE DEF failed, ended
    <3> QED
      BY <1>4, <1>5, ReportsTwo
  <2>3. ReportsMove(h, a.cmd, "failed", type, "advance")
    <3> HIDE DEF ended, type
    <3> QED
      BY <1>1, <1>2, <1>3, <1>6, <2>1, <2>2, ReportsMoveStep DEF type
  <2> QED
    BY <1>1, <1>2, <1>3, <1>7, <2>3
<1>8. CASE a.rest = {}
  <2>1. Step(h, Emit(a, <<failed>>, "done"))
    BY <1>8 DEF Refused, IsDispatch
  <2>2. Reports(<<failed>>, failed)
    <3> HIDE DEF failed
    <3> QED
      BY <1>4, ReportsOne
  <2>3. ReportsMove(h, a.cmd, "failed", type, "done")
    <3> HIDE DEF type
    <3> QED
      BY <1>1, <1>2, <1>3, <1>6, <2>1, <2>2, ReportsMoveStep DEF type
  <2> QED
    BY <1>1, <1>2, <1>3, <1>8, <2>3
<1> QED
  BY <1>7, <1>8

LEMMA LostEffect ==
  ASSUME TypeOK, NEW h \in Handlers, HandSound(h), Lost(h)
  PROVE  LET a == at[h] IN
         /\ a.pc = "lost" /\ Stay /\ a.cmd.key \in Keys
         /\ TryTransition(a.cmd.key, "acknowledged")
         /\ Becomes(h, <<"doubt", a.op, a.cmd, a.token, a.rest, a.snap, a.todo, a.then>>)
<1>1. at[h].pc = "lost" /\ at[h].cmd.key \in Keys
  BY DEF Lost, HandSound, Owns, At, OwnerPlaces
<1>2. "doubt" \in Places
  BY DEF Places
<1> QED
  BY <1>1, <1>2, HandlerTyped, GotoStep DEF Lost

LEMMA DoubtEffect ==
  ASSUME TypeOK, NEW h \in Handlers, HandSound(h), Doubt(h)
  PROVE  LET a == at[h] IN
         /\ a.pc = "doubt" /\ Stay
         /\ \E type \in PlainTypes : \E then \in {"advance", "done"} :
              /\ ReportsMove(h, a.cmd, "outcome_unknown", type, then)
              /\ then = "advance" <=> a.rest # {}
<1> DEFINE a == at[h]
           unknown == CommandEvent(Family(a).outcome_unknown,
                                   Returned(a.cmd.key, "outcome_unknown"))
           ended == RunEvent("dispatch.interrupted")
           type == Family(a).outcome_unknown
<1>1. a.pc = "doubt" /\ a.cmd.key \in Keys /\ a.cmd \in CmdType
  BY HandlerTyped DEF Doubt, HandSound, At
<1>2. TryTransition(a.cmd.key, "outcome_unknown") /\ "outcome_unknown" \in CommandState /\ Stay
  BY DEF Doubt, CommandState
<1>3. type \in PlainTypes /\ type \in EventTypes
  BY FamilyTyped DEF PlainTypes
<1>4. unknown \in EventType
  BY <1>1, <1>2, <1>3, ReturnedTyped
<1>5. Plain(ended)
  BY RunTaskAssumption, EventPlain DEF PlainTypes, EventTypes, RunEvent
<1>6. "advance" \in Places /\ "done" \in Places
  BY DEF Places
<1>7. CASE a.rest # {}
  <2>1. Step(h, Emit(a, <<unknown, ended>>, "advance"))
    BY <1>7 DEF Doubt, IsDispatch
  <2>2. Reports(<<unknown, ended>>, unknown)
    <3> HIDE DEF unknown, ended
    <3> QED
      BY <1>4, <1>5, ReportsTwo
  <2>3. ReportsMove(h, a.cmd, "outcome_unknown", type, "advance")
    <3> HIDE DEF ended, type
    <3> QED
      BY <1>1, <1>2, <1>3, <1>6, <2>1, <2>2, ReportsMoveStep DEF type
  <2> QED
    BY <1>1, <1>2, <1>3, <1>7, <2>3
<1>8. CASE a.rest = {}
  <2>1. Step(h, Emit(a, <<unknown>>, "done"))
    BY <1>8 DEF Doubt, IsDispatch
  <2>2. Reports(<<unknown>>, unknown)
    <3> HIDE DEF unknown
    <3> QED
      BY <1>4, ReportsOne
  <2>3. ReportsMove(h, a.cmd, "outcome_unknown", type, "done")
    <3> HIDE DEF type
    <3> QED
      BY <1>1, <1>2, <1>3, <1>6, <2>1, <2>2, ReportsMoveStep DEF type
  <2> QED
    BY <1>1, <1>2, <1>3, <1>8, <2>3
<1> QED
  BY <1>7, <1>8

-----------------------------------------------------------------------------
(* Controls.                                                               *)

Idles(h) == Becomes(h, <<"done", StartOp, NoCmd, 0, {}, NoSnap, <<>>, "">>)

LEMMA CommitTokenEffect ==
  ASSUME TypeOK, NEW h \in Handlers, CommitToken(h)
  PROVE  LET a == at[h] IN
         /\ a.pc = "commit" /\ UNCHANGED controlVars /\ Stay
         /\ \/ Idles(h)
            \/ /\ Commit(a.op.task, a.token)
               /\ Becomes(h, <<"controlRequest", a.op, a.cmd, a.token, a.rest, a.snap,
                               a.todo, a.then>>)
<1>1. \/ Step(h, Done)
      \/ Commit(at[h].op.task, at[h].token) /\ Step(h, Goto(at[h], "controlRequest"))
  BY DEF CommitToken
<1>2. "controlRequest" \in Places
  BY DEF Places
<1> QED
  BY <1>1, <1>2, HandlerTyped, GotoStep, DoneStep DEF CommitToken, Idles

LEMMA RequestControlEffect ==
  ASSUME TypeOK, NEW h \in Handlers, PlaceFits(h), RequestControl(h)
  PROVE  LET a == at[h]
             k == a.op.key
             cmd == [key |-> k, task |-> a.op.task, state |-> "requested", fence |-> a.token]
             e == CommandEvent("control.requested", cmd) IN
         /\ a.pc = "controlRequest" /\ a.op.kind = "control" /\ k \in Keys /\ Stay
         /\ a.op.task \in TaskIDs /\ a.op.task = k[2] /\ e \in EventType
         /\ \/ UNCHANGED controlVars /\ Idles(h)
            \/ /\ RequestOnce(k, a.op.task, a.token)
               /\ \/ /\ a.op.what # "emergency-stop"
                     /\ Becomes(h, <<"rotate", a.op, cmd, a.token, a.rest, a.snap, a.todo, a.then>>)
                  \/ a.op.what = "emergency-stop" /\ Queues(h, cmd, <<e>>, "stop")
                  \/ a.op.what # "emergency-stop" /\ Queues(h, cmd, <<e>>, "call")
<1> DEFINE a == at[h]
           k == a.op.key
           cmd == [key |-> k, task |-> a.op.task, state |-> "requested", fence |-> a.token]
           e == CommandEvent("control.requested", cmd)
<1>1. a.pc = "controlRequest" /\ a.op.kind = "control"
  BY DEF RequestControl, PlaceFits, Suits, At, ControlPlaces
<1>2. k \in Keys /\ a.op.task \in TaskIDs /\ k[2] = a.op.task /\ a.token \in Nat /\ a \in HandlerType
  BY <1>1, HandlerTyped, OperationForm
<1>3. cmd \in CmdType
  BY <1>2, CmdTyped DEF CommandState
<1>4. e \in EventType
  <2>1. "control.requested" \in EventTypes
    BY DEF EventTypes
  <2> HIDE DEF cmd
  <2> QED
    BY <1>3, <2>1, CommandEventTyped
<1>5. \/ UNCHANGED controlVars /\ Step(h, Done)
      \/ /\ RequestOnce(k, a.op.task, a.token)
         /\ \/ a.op.what # "emergency-stop" /\ Step(h, Goto(Hold(a, cmd), "rotate"))
            \/ a.op.what = "emergency-stop" /\ Step(h, Emit(Hold(a, cmd), <<e>>, "stop"))
            \/ a.op.what # "emergency-stop" /\ Step(h, Emit(Hold(a, cmd), <<e>>, "call"))
  BY DEF RequestControl, Rotating
<1>6. "rotate" \in Places /\ "stop" \in Places /\ "call" \in Places
  BY DEF Places
<1>7. <<e>> \in Seq(EventType)
  BY <1>4
<1>8. Stay
  BY DEF RequestControl
<1>9. CASE UNCHANGED controlVars /\ Step(h, Done)
  BY <1>1, <1>2, <1>4, <1>8, <1>9, DoneStep DEF Idles
<1>10. Step(h, Goto(Hold(a, cmd), "rotate")) =>
         Becomes(h, <<"rotate", a.op, cmd, a.token, a.rest, a.snap, a.todo, a.then>>)
  <2> HIDE DEF cmd
  <2>1. Hold(a, cmd) \in HandlerType
        /\ Fields(Hold(a, cmd)) = <<a.pc, a.op, cmd, a.token, a.rest, a.snap, a.todo, a.then>>
    BY <1>2, <1>3, HoldFields
  <2> QED
    BY <1>6, <2>1, GotoStep DEF Fields
<1>11. /\ Step(h, Emit(Hold(a, cmd), <<e>>, "stop")) => Queues(h, cmd, <<e>>, "stop")
       /\ Step(h, Emit(Hold(a, cmd), <<e>>, "call")) => Queues(h, cmd, <<e>>, "call")
  <2> DEFINE events == <<e>>
  <2>1. events \in Seq(EventType)
    BY <1>7
  <2> HIDE DEF cmd, e, events
  <2>2. /\ Step(h, Emit(Hold(a, cmd), events, "stop")) => Queues(h, cmd, events, "stop")
        /\ Step(h, Emit(Hold(a, cmd), events, "call")) => Queues(h, cmd, events, "call")
    BY <1>3, <1>6, <2>1, HoldEmitStep
  <2> QED
    BY <2>2 DEF events
<1> HIDE DEF cmd, e
<1>12. CASE RequestOnce(k, a.op.task, a.token)
  BY <1>1, <1>2, <1>4, <1>5, <1>8, <1>9, <1>10, <1>11, <1>12 DEF cmd, e
<1> QED
  BY <1>5, <1>9, <1>12 DEF cmd, e

LEMMA EmergencyStopEffect ==
  ASSUME TypeOK, NEW h \in Handlers, Stop(h)
  PROVE  LET a == at[h] IN
         /\ a.pc = "stop" /\ EmergencyStop /\ Stay
         /\ Becomes(h, <<"stopAck", a.op, a.cmd, a.token, a.rest, a.snap, a.todo, a.then>>)
<1>1. "stopAck" \in Places
  BY DEF Places
<1> QED
  BY <1>1, HandlerTyped, GotoStep DEF Stop

LEMMA StopAckEffect ==
  ASSUME TypeOK, NEW h \in Handlers, HandSound(h), StopAck(h)
  PROVE  LET a == at[h]
             k == a.cmd.key
             e == CommandEvent("control.acknowledged", Returned(k, "acknowledged"))
             f == RunEvent("dispatch.emergency_stopped") IN
         /\ a.pc = "stopAck" /\ k \in Keys /\ TryTransition(k, "acknowledged") /\ Stay
         /\ e \in EventType /\ f \in EventType /\ Queues(h, a.cmd, <<e, f>>, "done")
<1> DEFINE k == at[h].cmd.key
           e == CommandEvent("control.acknowledged", Returned(k, "acknowledged"))
           f == RunEvent("dispatch.emergency_stopped")
<1>1. at[h].pc = "stopAck" /\ k \in Keys
  BY DEF StopAck, HandSound, Owns, At, OwnerPlaces
<1>2. TryTransition(k, "acknowledged") /\ Stay /\ Step(h, Emit(at[h], <<e, f>>, "done"))
  BY DEF StopAck
<1>3. e \in EventType
  <2>1. "acknowledged" \in CommandState /\ "control.acknowledged" \in EventTypes
    BY DEF CommandState, EventTypes
  <2> QED
    BY <1>1, <1>2, <2>1, ReturnedTyped
<1>4. f \in EventType
  BY EventTyped, RunTaskAssumption DEF RunEvent, EventTypes
<1>5. <<e, f>> \in Seq(EventType) /\ "done" \in Places
  BY <1>3, <1>4 DEF Places
<1>6. Queues(h, at[h].cmd, <<e, f>>, "done")
  <2> HIDE DEF e, f
  <2> QED
    BY <1>2, <1>5, QueueStep
<1> QED
  BY <1>1, <1>2, <1>3, <1>4, <1>6

LEMMA RequestRetryEffect ==
  ASSUME TypeOK, NEW h \in Handlers, PlaceFits(h), RequestRetry(h)
  PROVE  LET a == at[h]
             k == RetryKey(a.op.task, a.op.key[3])
             cmd == [key |-> k, task |-> a.op.task, state |-> "requested", fence |-> a.cmd.fence]
             e == CommandEvent("command.requested", cmd) IN
         /\ a.pc = "retryRequest" /\ a.op.kind = "control" /\ k \in Keys /\ Stay
         /\ a.op.task \in TaskIDs /\ e \in EventType
         /\ \/ UNCHANGED controlVars /\ Idles(h)
            \/ RequestOnce(k, a.op.task, a.cmd.fence) /\ Queues(h, cmd, <<e>>, "retryAck")
<1> DEFINE a == at[h]
           k == RetryKey(a.op.task, a.op.key[3])
           cmd == [key |-> k, task |-> a.op.task, state |-> "requested", fence |-> a.cmd.fence]
           e == CommandEvent("command.requested", cmd)
<1>1. a.pc = "retryRequest" /\ a.op.kind = "control" /\ a.op.what = "retry"
  BY DEF RequestRetry, PlaceFits, Suits, At, ControlPlaces
<1>2. k \in Keys /\ a.op.task \in TaskIDs /\ a.cmd.fence \in Nat
  BY <1>1, HandlerTyped, OperationForm
<1>3. cmd \in CmdType
  <2> HIDE DEF k
  <2> QED
    BY <1>2, CmdTyped DEF CommandState
<1>4. e \in EventType
  <2>1. "command.requested" \in EventTypes
    BY DEF EventTypes
  <2> HIDE DEF cmd
  <2> QED
    BY <1>3, <2>1, CommandEventTyped
<1>5. Stay /\ (\/ UNCHANGED controlVars /\ Step(h, Done)
               \/ /\ RequestOnce(k, a.op.task, a.cmd.fence)
                  /\ Step(h, Emit(Hold(a, cmd), <<e>>, "retryAck")))
  BY DEF RequestRetry
<1> HIDE DEF cmd, e, k
<1>6. CASE UNCHANGED controlVars /\ Step(h, Done)
  BY <1>1, <1>2, <1>4, <1>5, <1>6, DoneStep DEF Idles, cmd, e, k
<1>7. CASE /\ RequestOnce(k, a.op.task, a.cmd.fence)
           /\ Step(h, Emit(Hold(a, cmd), <<e>>, "retryAck"))
  <2>1. <<e>> \in Seq(EventType) /\ "retryAck" \in Places
    BY <1>4 DEF Places
  <2>2. Queues(h, cmd, <<e>>, "retryAck")
    BY <1>3, <1>7, <2>1, HoldEmitStep
  <2> QED
    BY <1>1, <1>2, <1>4, <1>5, <1>7, <2>2 DEF cmd, e, k
<1> QED
  BY <1>5, <1>6, <1>7

LEMMA RetryAckEffect ==
  ASSUME TypeOK, NEW h \in Handlers, HandSound(h), RetryAck(h)
  PROVE  /\ at[h].pc = "retryAck" /\ Stay
         /\ ReportsMove(h, at[h].cmd, "acknowledged", "command.acknowledged", "done")
<1> DEFINE e == CommandEvent("command.acknowledged", Returned(at[h].cmd.key, "acknowledged"))
<1>1. at[h].pc = "retryAck" /\ at[h].cmd.key \in Keys /\ at[h].cmd \in CmdType
  BY HandlerTyped DEF RetryAck, HandSound, Owns, At, OwnerPlaces
<1>2. TryTransition(at[h].cmd.key, "acknowledged") /\ Stay /\ Step(h, Emit(at[h], <<e>>, "done"))
  BY DEF RetryAck
<1>3. "acknowledged" \in CommandState /\ "command.acknowledged" \in EventTypes /\ "done" \in Places
  BY DEF CommandState, EventTypes, Places
<1>4. e \in EventType
  BY <1>1, <1>2, <1>3, ReturnedTyped
<1>5. Reports(<<e>>, e)
  <2> HIDE DEF e
  <2> QED
    BY <1>4, ReportsOne
<1> QED
  BY <1>1, <1>2, <1>3, <1>5, ReportsMoveStep

-----------------------------------------------------------------------------
(* Results.                                                                *)

LEMMA ClaimPollEffect ==
  ASSUME TypeOK, NEW h \in Handlers, HandSound(h), ClaimPoll(h)
  PROVE  LET a == at[h] IN
         /\ a.pc = "claim" /\ a.cmd.key \in Keys /\ Stay
         /\ TryTransition(a.cmd.key, "polling")
         /\ \/ ~TransitionAllowed(a.cmd.key, "polling") /\ Idles(h)
            \/ /\ TransitionAllowed(a.cmd.key, "polling")
               /\ Becomes(h, <<"poll", a.op, a.cmd, a.token, a.rest, a.snap, a.todo, a.then>>)
<1>1. at[h].pc = "claim" /\ at[h].cmd.key \in Keys /\ "poll" \in Places
  BY DEF ClaimPoll, HandSound, At, Places
<1>2. \/ ~TransitionAllowed(at[h].cmd.key, "polling") /\ Step(h, Done)
      \/ TransitionAllowed(at[h].cmd.key, "polling") /\ Step(h, Goto(at[h], "poll"))
  BY DEF ClaimPoll
<1> QED
  BY <1>1, <1>2, HandlerTyped, GotoStep, DoneStep DEF ClaimPoll, Idles

LEMMA ResultPendingEffect ==
  ASSUME TypeOK, NEW h \in Handlers, HandSound(h), ResultPending(h)
  PROVE  /\ at[h].pc = "poll" /\ at[h].cmd.key \in Keys /\ Stay
         /\ TryTransition(at[h].cmd.key, "acknowledged") /\ Idles(h)
<1>1. at[h].pc = "poll" /\ at[h].cmd.key \in Keys
  BY DEF ResultPending, HandSound, At
<1> QED
  BY <1>1, DoneStep DEF ResultPending, Idles

LEMMA PolledEffect ==
  ASSUME TypeOK, NEW h \in Handlers, HandSound(h), NEW to \in CommandState, NEW type \in EventTypes,
         NEW others, AllPlain(others), NEW then \in Places, Polled(h, to, type, others, then)
  PROVE  at[h].pc = "poll" /\ Stay /\ ReportsMove(h, NoCmd, to, type, then)
<1> DEFINE k == at[h].cmd.key
           e == CommandEvent(type, Returned(k, to))
<1>1. at[h].pc = "poll" /\ k \in Keys
  BY DEF Polled, HandSound, At
<1>2. TryTransition(k, to) /\ Stay /\ Step(h, Emit(Hold(at[h], NoCmd), <<e>> \o others, then))
  BY DEF Polled
<1>3. e \in EventType
  BY <1>1, <1>2, ReturnedTyped
<1> DEFINE events == <<e>> \o others
<1>4. Reports(events, e)
  <2> HIDE DEF e
  <2> QED
    BY <1>3, ReportsMore
<1>5. ReportsMove(h, NoCmd, to, type, then)
  <2> HIDE DEF events
  <2> QED
    BY <1>1, <1>2, <1>4, NoCmdTyped, ReportsMoveStep DEF events
<1> QED
  BY <1>1, <1>2, <1>5

LEMMA ResultEndsEffect ==
  ASSUME TypeOK, NEW h \in Handlers, PlaceFits(h), HandSound(h),
         ResultFailed(h) \/ ResultCancelled(h)
  PROVE  /\ at[h].pc = "poll" /\ Stay
         /\ \E type \in PlainTypes, to \in {"failed", "cancelled"} :
              ReportsMove(h, NoCmd, to, type, "done")
<1>1. at[h].op.task \in TaskIDs /\ RunTask \in TaskIDs
  BY HandlerTyped, OperationForm, RunTaskAssumption
<1>2. /\ "task.failed" \in PlainTypes /\ "dispatch.failed" \in PlainTypes
      /\ "task.cancelled" \in PlainTypes /\ "dispatch.cancelled" \in PlainTypes
      /\ "command.failed" \in PlainTypes /\ "command.cancelled" \in PlainTypes
      /\ PlainTypes \subseteq EventTypes
  BY DEF PlainTypes, EventTypes
<1>3. AllPlain(<<Event("task.failed", at[h].op.task), RunEvent("dispatch.failed")>>)
  BY <1>1, <1>2, EventPlain, PlainPairs DEF RunEvent
<1>4. AllPlain(<<Event("task.cancelled", at[h].op.task), RunEvent("dispatch.cancelled")>>)
  BY <1>1, <1>2, EventPlain, PlainPairs DEF RunEvent
<1>5. "failed" \in CommandState /\ "cancelled" \in CommandState /\ "done" \in Places
  BY DEF CommandState, Places
<1>6. CASE ResultFailed(h)
  <2>1. at[h].pc = "poll" /\ Stay /\ ReportsMove(h, NoCmd, "failed", "command.failed", "done")
    BY <1>2, <1>3, <1>5, <1>6, PolledEffect DEF ResultFailed
  <2> QED
    BY <1>2, <2>1
<1>7. CASE ResultCancelled(h)
  <2>1. at[h].pc = "poll" /\ Stay
        /\ ReportsMove(h, NoCmd, "cancelled", "command.cancelled", "done")
    BY <1>2, <1>4, <1>5, <1>7, PolledEffect DEF ResultCancelled
  <2> QED
    BY <1>2, <2>1
<1> QED
  BY <1>6, <1>7

LEMMA ResultCompletedEffect ==
  ASSUME TypeOK, NEW h \in Handlers, PlaceFits(h), HandSound(h), ResultCompleted(h)
  PROVE  LET a == at[h]
             e == CommandEvent("command.completed", Returned(a.cmd.key, "completed"))
             f == Event("task.completed", a.op.task) IN
         /\ a.pc = "poll" /\ a.cmd.key \in Keys /\ TryTransition(a.cmd.key, "completed") /\ Stay
         /\ e \in EventType /\ f \in EventType
         /\ Queues(h, NoCmd, <<e, f>>, "schedule")
<1> DEFINE a == at[h]
           e == CommandEvent("command.completed", Returned(a.cmd.key, "completed"))
           f == Event("task.completed", a.op.task)
<1>1. a.pc = "poll" /\ a.cmd.key \in Keys
  BY DEF ResultCompleted, Polled, HandSound, At
<1>2. /\ TryTransition(a.cmd.key, "completed") /\ Stay
      /\ Step(h, Emit(Hold(a, NoCmd), <<e>> \o <<f>>, "schedule"))
  BY DEF ResultCompleted, Polled
<1>3. "command.completed" \in EventTypes /\ "task.completed" \in EventTypes
      /\ "completed" \in CommandState /\ "schedule" \in Places
  BY DEF EventTypes, CommandState, Places
<1>4. e \in EventType
  BY <1>1, <1>2, <1>3, ReturnedTyped
<1>5. f \in EventType
  BY <1>3, HandlerTyped, OperationForm, EventTyped
<1>6. <<e>> \o <<f>> = <<e, f>>
  <2> HIDE DEF e, f
  <2> QED
    BY <1>4, <1>5, JoinPair
<1>7. <<e, f>> \in Seq(EventType)
  <2> HIDE DEF e, f
  <2> QED
    BY <1>4, <1>5
<1>8. Queues(h, NoCmd, <<e, f>>, "schedule")
  <2> HIDE DEF e, f
  <2> QED
    BY <1>2, <1>3, <1>6, <1>7, NoCmdTyped, HoldEmitStep
<1> QED
  BY <1>1, <1>2, <1>4, <1>5, <1>8

LEMMA FinishEffect ==
  ASSUME TypeOK, NEW h \in Handlers, Finish(h)
  PROVE  /\ at[h].pc = "finish" /\ UNCHANGED controlVars /\ Stay
         /\ RunEvent("dispatch.completed") \in EventType
         /\ \/ Idles(h)
            \/ /\ "dag" \in found => AllCompleted
               /\ Queues(h, at[h].cmd, <<RunEvent("dispatch.completed")>>, "done")
<1> DEFINE e == RunEvent("dispatch.completed")
<1>1. e \in EventType
  BY EventTyped, RunTaskAssumption DEF RunEvent, EventTypes
<1>2. <<e>> \in Seq(EventType) /\ "done" \in Places
  BY <1>1 DEF Places
<1>3. \/ Step(h, Done)
      \/ ("dag" \in found => AllCompleted) /\ Step(h, Emit(at[h], <<e>>, "done"))
  BY DEF Finish, RunEnds
<1> HIDE DEF e
<1>4. \/ Idles(h)
      \/ ("dag" \in found => AllCompleted) /\ Queues(h, at[h].cmd, <<e>>, "done")
  BY <1>2, <1>3, DoneStep, QueueStep DEF Idles
<1> QED
  BY <1>1, <1>4 DEF Finish, e

-----------------------------------------------------------------------------
(* Decisions and reconciliations.                                          *)

LEMMA ClaimDecisionEffect ==
  ASSUME TypeOK, NEW h \in Handlers, PlaceFits(h), ClaimDecision(h)
  PROVE  LET a == at[h] IN
         /\ a.pc = "claimDecision" /\ a.op.kind = "approve" /\ a.op.task \in Tasks
         /\ UNCHANGED <<controlVars, log, fatal, calls, lapsed, found, crashes, faults>>
         /\ \/ a.op.task \in claims /\ claims' = claims /\ Idles(h)
            \/ /\ a.op.task \notin claims /\ claims' = claims \cup {a.op.task}
               /\ \E type \in Decision : \E events : \E then \in {"schedule", "done"} :
                    /\ Reports(events, Event(type, a.op.task))
                    /\ Queues(h, a.cmd, events, then)
<1> DEFINE a == at[h]
           t == a.op.task
<1>1. a.pc = "claimDecision" /\ a.op.kind = "approve"
  BY DEF ClaimDecision, PlaceFits, Suits, At
<1>2. t \in Tasks /\ t \in TaskIDs
  BY <1>1, HandlerTyped, OperationForm
<1>3. /\ Plain(Event("dispatch.resumed", t)) /\ Plain(RunEvent("dispatch.failed"))
      /\ Event("approval.granted", t) \in EventType /\ Event("approval.denied", t) \in EventType
  BY <1>2, EventPlain, EventTyped, RunTaskAssumption DEF PlainTypes, EventTypes, RunEvent
<1>4. "schedule" \in Places /\ "done" \in Places
  BY DEF Places
<1>5. CASE t \in claims
  <2>1. claims' = claims /\ Step(h, Done)
    BY <1>5 DEF ClaimDecision
  <2> QED
    BY <1>1, <1>2, <1>5, <2>1, DoneStep DEF ClaimDecision, Idles
<1>6. CASE t \notin claims
  <2> DEFINE granted == <<Event("approval.granted", t), Event("dispatch.resumed", t)>>
             denied == <<Event("approval.denied", t), RunEvent("dispatch.failed")>>
  <2>1. /\ claims' = claims \cup {t}
        /\ Step(h, Emit(a, granted, "schedule")) \/ Step(h, Emit(a, denied, "done"))
    BY <1>6 DEF ClaimDecision
  <2>2. /\ Reports(granted, Event("approval.granted", t))
        /\ Reports(denied, Event("approval.denied", t))
    BY <1>3, ReportsTwo
  <2>3. granted \in Seq(EventType) /\ denied \in Seq(EventType)
    BY <2>2 DEF Reports
  <2> HIDE DEF granted, denied
  <2>4. \/ Queues(h, a.cmd, granted, "schedule")
        \/ Queues(h, a.cmd, denied, "done")
    BY <1>4, <2>1, <2>3, QueueStep
  <2>5. "approval.granted" \in Decision /\ "approval.denied" \in Decision
    BY DEF Decision
  <2>6. \E type \in Decision : \E events : \E then \in {"schedule", "done"} :
          Reports(events, Event(type, t)) /\ Queues(h, a.cmd, events, then)
    BY <2>2, <2>4, <2>5
  <2> QED
    BY <1>1, <1>2, <1>6, <2>1, <2>6 DEF ClaimDecision
<1> QED
  BY <1>5, <1>6

LEMMA SettleEffect ==
  ASSUME TypeOK, NEW h \in Handlers, PlaceFits(h), Settle(h)
  PROVE  LET a == at[h]
             k == a.op.key IN
         /\ a.pc = "settle" /\ a.op.kind = "reconcile" /\ k \in Keys /\ Stay
         /\ \/ UNCHANGED controlVars /\ Idles(h)
            \/ /\ TransitionAllowed(k, "reconciled") /\ TryTransition(k, "reconciled")
               /\ \E e, f : \E then \in {"schedule", "pending"} :
                    /\ Plain(e) /\ Resolution(e, k)
                    /\ \/ Plain(f)
                       \/ f = Event("task.completed", a.op.task) /\ f \in EventType
                    /\ Queues(h, a.cmd, <<e, f>>, then)
<1> DEFINE a == at[h]
           k == a.op.key
           t == a.op.task
           settled == [Event("reconciliation.completed", t) EXCEPT !.key = k]
           completed == Event("task.completed", t)
           allowed == Event("task.retry_allowed", t)
<1>1. a.pc = "settle" /\ a.op.kind = "reconcile"
  BY DEF Settle, PlaceFits, Suits, At
<1>2. k \in Keys /\ t \in TaskIDs
  BY <1>1, HandlerTyped, OperationForm
<1>3. Plain(settled) /\ Resolution(settled, k)
  <2>1. Plain(Event("reconciliation.completed", t))
    BY <1>2, EventPlain DEF PlainTypes, EventTypes
  <2> QED
    BY <1>2, <2>1 DEF Plain, EventType, Resolution, Event
<1>4. Plain(allowed) /\ completed \in EventType
  BY <1>2, EventPlain, EventTyped DEF PlainTypes, EventTypes
<1>5. "schedule" \in Places /\ "pending" \in Places
  BY DEF Places
<1>6. Stay
  BY DEF Settle
<1>7. CASE TransitionAllowed(k, "reconciled")
  <2>1. Reconcile(k, "done")
    BY <1>7 DEF Settle
  <2>2. TryTransition(k, "reconciled")
    BY <1>7, <2>1 DEF TryTransition, Reconcile, ResultFor, Answered
  <2>3. \/ Step(h, Emit(a, <<settled, completed>>, "schedule"))
        \/ Step(h, Emit(a, <<settled, allowed>>, "pending"))
    BY <1>7 DEF Settle
  <2> HIDE DEF settled, completed, allowed
  <2>4. <<settled, completed>> \in Seq(EventType) /\ <<settled, allowed>> \in Seq(EventType)
    <3>1. settled \in EventType /\ allowed \in EventType /\ completed \in EventType
      BY <1>3, <1>4 DEF Plain
    <3> QED
      BY <3>1
  <2>5. \/ Queues(h, a.cmd, <<settled, completed>>, "schedule")
        \/ Queues(h, a.cmd, <<settled, allowed>>, "pending")
    BY <1>5, <2>3, <2>4, QueueStep
  <2> QED
    BY <1>1, <1>2, <1>3, <1>4, <1>6, <1>7, <2>2, <2>5 DEF completed
<1>8. CASE ~TransitionAllowed(k, "reconciled")
  <2>1. UNCHANGED controlVars /\ Step(h, Done)
    BY <1>8 DEF Settle
  <2> QED
    BY <1>1, <1>2, <1>6, <2>1, DoneStep DEF Idles
<1> QED
  BY <1>7, <1>8

LEMMA PendingEffect ==
  ASSUME TypeOK, NEW h \in Handlers, Pending(h)
  PROVE  LET a == at[h] IN
         /\ a.pc = "pending" /\ UNCHANGED controlVars /\ Stay
         /\ \/ Idles(h)
            \/ Becomes(h, <<"finish", a.op, a.cmd, a.token, a.rest, a.snap, a.todo, a.then>>)
            \/ Plain(RunEvent("dispatch.failed"))
               /\ Queues(h, a.cmd, <<RunEvent("dispatch.failed")>>, "done")
<1> DEFINE e == RunEvent("dispatch.failed")
<1>1. Plain(e)
  BY EventPlain, RunTaskAssumption DEF RunEvent, PlainTypes, EventTypes
<1>2. "done" \in Places /\ "finish" \in Places
  BY DEF Places
<1>3. Step(h, Done) \/ Step(h, Emit(at[h], <<e>>, "done")) \/ Step(h, Goto(at[h], "finish"))
  BY DEF Pending
<1> HIDE DEF e
<1>4. <<e>> \in Seq(EventType)
  <2>1. e \in EventType
    BY <1>1 DEF Plain
  <2> QED
    BY <2>1
<1>5. \/ Idles(h) \/ Queues(h, at[h].cmd, <<e>>, "done")
      \/ Becomes(h, <<"finish", at[h].op, at[h].cmd, at[h].token, at[h].rest, at[h].snap,
                      at[h].todo, at[h].then>>)
  BY <1>2, <1>3, <1>4, HandlerTyped, GotoStep, DoneStep, QueueStep DEF Idles
<1> QED
  BY <1>1, <1>5 DEF Pending, e

-----------------------------------------------------------------------------
(* Arrivals.                                                               *)

Serves(h, op, cmd, token, pc) == Becomes(h, <<pc, op, cmd, token, {}, NoSnap, <<>>, "">>)

LEMMA MenuTyped ==
  ASSUME NEW h \in Requests, NEW op \in Menu[h]
  PROVE  op \in AllOperations /\ h \in Handlers
  BY DEF AllOperations, Handlers

LEMMA ResultArrivesEffect ==
  ASSUME TypeOK, NEW h \in Requests, NEW op \in Menu[h], \A k \in Keys : CommandSound(k),
         ResultArrives(h, op)
  PROVE  /\ at[h].pc = "idle" /\ op \in AllOperations /\ op.kind = "result"
         /\ UNCHANGED controlVars /\ Stay
         /\ \/ Idles(h)
            \/ \E k \in Keys :
                 /\ commands[k].state = "acknowledged" /\ commands[k].task = op.task
                 /\ Serves(h, op, Cmd(k, "acknowledged"), 0, "claim")
<1>1. at[h].pc = "idle" /\ op \in AllOperations /\ h \in Handlers /\ op.kind = "result"
  BY MenuTyped DEF ResultArrives, Arrives, MayArrive
<1>2. UNCHANGED controlVars /\ Stay
  BY DEF ResultArrives
<1>3. CASE Step(h, Done)
  BY <1>1, <1>2, <1>3, DoneStep DEF Idles
<1>4. CASE \E k \in Awaited(op.task) :
             /\ commands[k].state = "acknowledged"
             /\ Step(h, Hold(Serve(op, "claim"), Cmd(k, "acknowledged")))
  <2>1. PICK k \in Awaited(op.task) :
             /\ commands[k].state = "acknowledged"
             /\ Step(h, Hold(Serve(op, "claim"), Cmd(k, "acknowledged")))
    BY <1>4
  <2>2. op.task \in Tasks
    BY <1>1, OperationForm
  <2>3. k \in Keys
    BY <2>2, KeyFormAssumption DEF Awaited
  <2>4. commands[k].task = op.task
    <3>1. CASE k = DispatchKey(op.task)
      <4>1. Known(k) /\ k[2] = op.task
        BY <2>1, <3>1 DEF Known, DispatchKey
      <4> QED
        BY <2>3, <4>1 DEF CommandSound
    <3>2. CASE k # DispatchKey(op.task)
      BY <2>1, <3>2 DEF Awaited
    <3> QED
      BY <3>1, <3>2
  <2>5. Cmd(k, "acknowledged") \in CmdType
    BY <2>3, CmdTyped DEF Cmd, TypeOK, Command, CommandState
  <2>6. "claim" \in Places
    BY DEF Places
  <2>7. Serves(h, op, Cmd(k, "acknowledged"), 0, "claim")
    <3> DEFINE b == Serve(op, "claim")
               c == Cmd(k, "acknowledged")
    <3>1. b \in HandlerType /\ Fields(b) = <<"claim", op, NoCmd, 0, {}, NoSnap, <<>>, "">>
      BY <1>1, <2>6, ServeFields
    <3> HIDE DEF b, c
    <3>2. Hold(b, c) \in HandlerType
          /\ Fields(Hold(b, c)) = <<b.pc, b.op, c, b.token, b.rest, b.snap, b.todo, b.then>>
      BY <2>5, <3>1, HoldFields DEF c
    <3>3. Step(h, Hold(b, c))
      BY <2>1 DEF b, c
    <3> QED
      BY <1>1, <3>1, <3>2, <3>3, StepMoves DEF Serves, Becomes, Fields, c
  <2> QED
    BY <1>1, <1>2, <2>1, <2>3, <2>4, <2>7
<1> QED
  BY <1>3, <1>4 DEF ResultArrives

LEMMA ControlArrivesEffect ==
  ASSUME TypeOK, NEW h \in Requests, NEW op \in Menu[h], ControlArrives(h, op)
  PROVE  /\ at[h].pc = "idle" /\ op \in AllOperations /\ op.kind = "control"
         /\ UNCHANGED controlVars /\ Stay
         /\ \/ Idles(h)
            \/ op.what = "emergency-stop" /\ Serves(h, op, NoCmd, 0, "controlRequest")
            \/ /\ op.what # "emergency-stop"
               /\ op.what = "retry" => ~InDoubt(op.task)
               /\ \E token \in PublishedFences(op.task) :
                    token \in Nat \ {0} /\ Serves(h, op, NoCmd, token, "commit")
<1>1. at[h].pc = "idle" /\ op \in AllOperations /\ h \in Handlers /\ op.kind = "control"
  BY MenuTyped DEF ControlArrives, Arrives, MayArrive
<1>2. UNCHANGED controlVars /\ Stay
  BY DEF ControlArrives
<1>3. \/ Step(h, Done)
      \/ op.what = "emergency-stop" /\ Step(h, Serve(op, "controlRequest"))
      \/ /\ op.what # "emergency-stop"
         /\ op.what = "retry" => ~InDoubt(op.task)
         /\ \E token \in PublishedFences(op.task) :
              Step(h, [Serve(op, "commit") EXCEPT !.token = token])
  BY DEF ControlArrives, Answerable
<1>4. CASE Step(h, Done)
  BY <1>1, <1>2, <1>4, DoneStep DEF Idles
<1>5. CASE op.what = "emergency-stop" /\ Step(h, Serve(op, "controlRequest"))
  <2>1. "controlRequest" \in Places
    BY DEF Places
  <2>2. Serves(h, op, NoCmd, 0, "controlRequest")
    BY <1>1, <1>5, <2>1, ServeFields, StepMoves DEF Serves, Becomes
  <2> QED
    BY <1>1, <1>2, <1>5, <2>2
<1>6. CASE /\ op.what # "emergency-stop"
           /\ op.what = "retry" => ~InDoubt(op.task)
           /\ \E token \in PublishedFences(op.task) :
                Step(h, [Serve(op, "commit") EXCEPT !.token = token])
  <2>1. PICK token \in PublishedFences(op.task) :
          Step(h, [Serve(op, "commit") EXCEPT !.token = token])
    BY <1>6
  <2>2. token \in Nat \ {0}
    <3>1. PICK i \in 1..Len(log) : token = log[i].fence
      BY DEF PublishedFences
    <3>2. log[i] \in EventType
      BY DEF TypeOK
    <3> QED
      BY <3>1, <3>2 DEF PublishedFences, EventType
  <2> DEFINE b == Serve(op, "commit")
  <2>3. b \in HandlerType /\ Fields(b) = <<"commit", op, NoCmd, 0, {}, NoSnap, <<>>, "">>
    BY <1>1, ServeFields DEF Places
  <2> HIDE DEF b
  <2>4. /\ [b EXCEPT !.token = token] \in HandlerType
        /\ Fields([b EXCEPT !.token = token])
             = <<b.pc, b.op, b.cmd, token, b.rest, b.snap, b.todo, b.then>>
    BY <2>2, <2>3 DEF HandlerType, Fields
  <2>5. Serves(h, op, NoCmd, token, "commit")
    BY <1>1, <2>1, <2>3, <2>4, StepMoves DEF Serves, Becomes, Fields, b
  <2> QED
    BY <1>1, <1>2, <1>6, <2>2, <2>5
<1> QED
  BY <1>3, <1>4, <1>5, <1>6

LEMMA ApproveArrivesEffect ==
  ASSUME TypeOK, NEW h \in Requests, NEW op \in Menu[h], ApproveArrives(h, op)
  PROVE  /\ at[h].pc = "idle" /\ op \in AllOperations /\ op.kind = "approve"
         /\ UNCHANGED controlVars /\ Stay
         /\ \/ Idles(h)
            \/ /\ op.task \in Asked \ (Granted \cup Denied)
               /\ Serves(h, op, NoCmd, 0, "claimDecision")
<1>1. at[h].pc = "idle" /\ op \in AllOperations /\ h \in Handlers /\ op.kind = "approve"
  BY MenuTyped DEF ApproveArrives, Arrives, MayArrive
<1>2. UNCHANGED controlVars /\ Stay
  BY DEF ApproveArrives
<1>3. \/ Step(h, Done)
      \/ /\ op.task \in Asked \ (Granted \cup Denied)
         /\ Step(h, Serve(op, "claimDecision"))
  BY DEF ApproveArrives
<1>4. "claimDecision" \in Places
  BY DEF Places
<1> QED
  BY <1>1, <1>2, <1>3, <1>4, DoneStep, ServeFields, StepMoves DEF Idles, Serves, Becomes

LEMMA ReconcileArrivesEffect ==
  ASSUME TypeOK, NEW h \in Requests, NEW op \in Menu[h], ReconcileArrives(h, op)
  PROVE  /\ at[h].pc = "idle" /\ op \in AllOperations /\ op.kind = "reconcile" /\ h \in Handlers
         /\ UNCHANGED controlVars /\ Stay
         /\ \/ Idles(h)
            \/ \E events : \E then \in {"done", "settle"} :
                 /\ AllPlain(events) /\ events # <<>>
                 /\ Becomes(h, <<"append", op, NoCmd, 0, {}, NoSnap, events, then>>)
<1> DEFINE a == Serve(op, "append")
           e == [Event("reconciliation.requested", op.task) EXCEPT !.key = op.key]
           f == [e EXCEPT !.type = "reconciliation.still_unknown"]
<1>1. at[h].pc = "idle" /\ op \in AllOperations /\ h \in Handlers /\ op.kind = "reconcile"
  BY MenuTyped DEF ReconcileArrives, Arrives, MayArrive
<1>2. UNCHANGED controlVars /\ Stay
  BY DEF ReconcileArrives
<1>3. Plain(e) /\ Plain(f)
  <2>1. op.task \in TaskIDs /\ op.key \in Keys
    BY <1>1, OperationForm
  <2>2. Plain(Event("reconciliation.requested", op.task))
    BY <2>1, EventPlain DEF PlainTypes, EventTypes
  <2>3. Plain(e)
    BY <2>1, <2>2 DEF Plain, EventType
  <2>4. "reconciliation.still_unknown" \in PlainTypes
        /\ "reconciliation.still_unknown" \in EventTypes
    BY DEF PlainTypes, EventTypes
  <2> HIDE DEF e
  <2> QED
    BY <2>3, <2>4 DEF Plain, EventType
<1>4. a \in HandlerType /\ Fields(a) = <<"append", op, NoCmd, 0, {}, NoSnap, <<>>, "">>
  BY <1>1, ServeFields DEF Places
<1>5. \/ Step(h, Done) \/ Step(h, Emit(a, <<e, f>>, "done")) \/ Step(h, Emit(a, <<e>>, "settle"))
  BY DEF ReconcileArrives
<1> HIDE DEF a, e, f
<1>6. /\ AllPlain(<<e>>) /\ <<e>> # <<>> /\ <<e>> \in Seq(EventType)
      /\ AllPlain(<<e, f>>) /\ <<e, f>> # <<>> /\ <<e, f>> \in Seq(EventType)
  BY <1>3, PlainPairs DEF AllPlain
<1>7. CASE Step(h, Done)
  BY <1>1, <1>2, <1>7, DoneStep DEF Idles
<1>8. CASE Step(h, Emit(a, <<e, f>>, "done"))
  <2>1. Becomes(h, <<"append", op, NoCmd, 0, {}, NoSnap, <<e, f>>, "done">>)
    BY <1>1, <1>4, <1>6, <1>8, EmitStep DEF Fields, Places
  <2> QED
    BY <1>1, <1>2, <1>6, <2>1
<1>9. CASE Step(h, Emit(a, <<e>>, "settle"))
  <2>1. Becomes(h, <<"append", op, NoCmd, 0, {}, NoSnap, <<e>>, "settle">>)
    BY <1>1, <1>4, <1>6, <1>9, EmitStep DEF Fields, Places
  <2> QED
    BY <1>1, <1>2, <1>6, <2>1
<1> QED
  BY <1>5, <1>7, <1>8, <1>9

-----------------------------------------------------------------------------
(* Appends.                                                                *)

(* Where a handler stands when its last event is in the log.               *)
Resumes(h) ==
  LET a == at[h]
      b == at'[h] IN
  \/ a.then = "done" /\ Idles(h)
  \/ /\ a.then = "advance" /\ a.rest # {} /\ Moved(h)
     /\ LeavesLoop(a.op, b) \/ Visits(a.op, a.snap, a.rest \ {First(a.rest)}, b)
  \/ a.then = "scheduled" /\ Moved(h) /\ LeavesLoop(a.op, b)
  \/ /\ a.then \in Places \ {"append", "done", "advance", "scheduled"}
     /\ Becomes(h, <<a.then, a.op, a.cmd, a.token, a.rest, a.snap, <<>>, "">>)

LEMMA AppendedEffect ==
  ASSUME TypeOK, NEW h \in Handlers, PlaceFits(h), at[h].pc = "append", Step(h, Appended(at[h]))
  PROVE  Resumes(h)
<1> DEFINE a == at[h]
           b == Emptied(a)
<1>1. a \in HandlerType /\ a.rest \subseteq Tasks /\ a.then \in Places \ {"append"}
  BY HandlerTyped DEF PlaceFits, Suits, At
<1>2. /\ b \in HandlerType
      /\ Fields(b) = <<a.pc, a.op, a.cmd, a.token, a.rest, a.snap, <<>>, "">>
  BY <1>1, EmptiedFields
<1> HIDE DEF b
<1>3. /\ b.pc = a.pc /\ b.op = a.op /\ b.cmd = a.cmd /\ b.token = a.token /\ b.rest = a.rest
      /\ b.snap = a.snap /\ b.todo = <<>> /\ b.then = ""
  BY <1>2 DEF Fields
<1>4. CASE a.then = "done"
  BY <1>4, DoneStep DEF Appended, Resumes, Idles
<1>5. CASE a.then = "advance"
  <2>1. Step(h, Visit(b, b.rest \ {First(b.rest)}))
    BY <1>5 DEF Appended, VisitNext, b
  <2>2. a.rest # {} /\ Scheduler(a.op)
    BY <1>5 DEF PlaceFits, Suits, At, LoopPlaces
  <2>3. b.rest \ {First(b.rest)} \subseteq Tasks
    BY <1>1, <1>3
  <2>4. /\ Moved(h)
        /\ LeavesLoop(b.op, at'[h]) \/ Visits(b.op, b.snap, b.rest \ {First(b.rest)}, at'[h])
    BY <1>2, <1>3, <2>1, <2>2, <2>3, VisitStep
  <2> QED
    BY <1>3, <1>5, <2>2, <2>4 DEF Resumes
<1>6. CASE a.then = "scheduled"
  <2>1. Step(h, ScheduleEnded(b))
    BY <1>6 DEF Appended, b
  <2>2. Scheduler(a.op)
    BY <1>6 DEF PlaceFits, Suits, At, LoopPlaces
  <2> QED
    BY <1>2, <1>3, <1>6, <2>1, <2>2, LeaveStep DEF Resumes
<1>7. CASE a.then \notin {"done", "advance", "scheduled"}
  <2>1. Step(h, Goto(b, a.then))
    BY <1>7 DEF Appended, b
  <2>2. Becomes(h, <<a.then, a.op, a.cmd, a.token, a.rest, a.snap, <<>>, "">>)
    BY <1>1, <1>2, <1>3, <2>1, GotoStep
  <2> QED
    BY <1>1, <1>7, <2>2 DEF Resumes
<1> QED
  BY <1>4, <1>5, <1>6, <1>7

(* The rest of a queue.                                                    *)
LEMMA TailQueue ==
  ASSUME NEW s \in Seq(EventType), s # <<>>
  PROVE  /\ Len(s) \in Nat \ {0} /\ s[1] \in EventType /\ Head(s) = s[1]
         /\ Tail(s) \in Seq(EventType) /\ Len(Tail(s)) = Len(s) - 1
         /\ \A i \in 1..Len(Tail(s)) : Tail(s)[i] = s[i + 1]
         /\ Len(s) # 1 => Tail(s) # <<>>
<1>1. Len(s) \in Nat \ {0} /\ s[1] \in EventType /\ Head(s) = s[1]
  OBVIOUS
<1>2. /\ Tail(s) \in Seq(EventType) /\ Len(Tail(s)) = Len(s) - 1
      /\ \A i \in 1..Len(Tail(s)) : Tail(s)[i] = s[i + 1]
  BY HeadTailProperties
<1> QED
  BY <1>1, <1>2

LEMMA AppendEventEffect ==
  ASSUME TypeOK, NEW h \in Handlers, PlaceFits(h), AppendEvent(h)
  PROVE  LET a == at[h] IN
         /\ a.pc = "append" /\ a.todo # <<>> /\ a.todo[1] \in EventType
         /\ log' = Append(log, a.todo[1])
         /\ \/ Len(a.todo) = 1 /\ Resumes(h)
            \/ /\ Len(a.todo) # 1 /\ Tail(a.todo) # <<>>
               /\ Becomes(h, <<"append", a.op, a.cmd, a.token, a.rest, a.snap,
                               Tail(a.todo), a.then>>)
         /\ UNCHANGED <<controlVars, claims, fatal, calls, lapsed, found, crashes, faults>>
<1> DEFINE a == at[h]
<1>1. a.pc = "append" /\ a.todo # <<>> /\ a.todo \in Seq(EventType) /\ a \in HandlerType
  BY HandlerTyped DEF AppendEvent, PlaceFits, Suits
<1>2. /\ a.todo[1] \in EventType /\ Head(a.todo) = a.todo[1] /\ Tail(a.todo) \in Seq(EventType)
      /\ Len(a.todo) # 1 => Tail(a.todo) # <<>>
  BY <1>1, TailQueue
<1>3. CASE Len(a.todo) = 1
  <2>1. Step(h, Appended(a))
    BY <1>3 DEF AppendEvent
  <2>2. Resumes(h)
    BY <1>1, <2>1, AppendedEffect
  <2> QED
    BY <1>1, <1>2, <1>3, <2>2 DEF AppendEvent
<1>4. CASE Len(a.todo) # 1
  <2>1. Step(h, [a EXCEPT !.todo = Tail(a.todo)])
    BY <1>4 DEF AppendEvent
  <2>2. \A s \in Seq(EventType) :
          /\ [a EXCEPT !.todo = s] \in HandlerType
          /\ Fields([a EXCEPT !.todo = s])
               = <<a.pc, a.op, a.cmd, a.token, a.rest, a.snap, s, a.then>>
    BY <1>1 DEF HandlerType, Fields
  <2>3. Becomes(h, <<"append", a.op, a.cmd, a.token, a.rest, a.snap, Tail(a.todo), a.then>>)
    BY <1>1, <1>2, <2>1, <2>2, StepMoves DEF Becomes
  <2> QED
    BY <1>1, <1>2, <1>4, <2>3 DEF AppendEvent
<1> QED
  BY <1>3, <1>4

LEMMA AppendFailsEffect ==
  ASSUME TypeOK, NEW h \in Handlers, PlaceFits(h), AppendFails(h)
  PROVE  LET a == at[h] IN
         /\ a.pc = "append" /\ a.todo # <<>> /\ Moved(h) /\ LeavesLoop(a.op, at'[h])
         /\ claims' = IF a.todo[1].type \in Decision THEN claims \ {a.op.task} ELSE claims
         /\ faults' \in 0..MaxFaults /\ fatal' = TRUE
         /\ UNCHANGED <<controlVars, log, calls, lapsed, found, crashes>>
<1> DEFINE a == at[h]
           b == Emptied(a)
<1>1. a.pc = "append" /\ a.todo # <<>> /\ a.todo \in Seq(EventType) /\ a \in HandlerType
  BY HandlerTyped DEF AppendFails, PlaceFits, Suits
<1>2. Head(a.todo) = a.todo[1]
  BY <1>1, TailQueue
<1>3. claims' = IF a.todo[1].type \in Decision THEN claims \ {a.op.task} ELSE claims
  BY <1>2 DEF AppendFails, Decision
<1>4. faults' \in 0..MaxFaults
  BY BoundsAssumption DEF AppendFails, TypeOK
<1>5. Moved(h) /\ LeavesLoop(a.op, at'[h])
  <2>1. CASE a.rest # {}
    <3>1. /\ b \in HandlerType
          /\ Fields(b) = <<a.pc, a.op, a.cmd, a.token, a.rest, a.snap, <<>>, "">>
      BY <1>1, EmptiedFields
    <3>2. Scheduler(a.op) /\ Step(h, ScheduleFailed(b))
      BY <2>1 DEF PlaceFits, Suits, AppendFails
    <3> HIDE DEF b
    <3>3. b.op = a.op /\ b.todo = <<>>
      BY <3>1 DEF Fields
    <3> QED
      BY <3>1, <3>2, <3>3, LeaveStep
  <2>2. CASE a.rest = {}
    <3>1. Step(h, Done)
      BY <2>2 DEF AppendFails
    <3>2. Done \in HandlerType /\ LeavesLoop(a.op, Done)
      BY DoneFields DEF LeavesLoop, Fields
    <3> QED
      BY <3>1, <3>2, StepMoves
  <2> QED
    BY <2>1, <2>2
<1> QED
  BY <1>1, <1>3, <1>4, <1>5 DEF AppendFails

-----------------------------------------------------------------------------
(* Recovery.                                                               *)

Marks(k) == {i \in 1..Len(log) : log[i].key = k /\ log[i].state # ""}

(* What the log restores of a command is its last event.                   *)
LEMMA SavedFromLog ==
  ASSUME TypeOK, NEW k \in Keys
  PROVE  /\ Saved[k] \in Command
         /\ Marks(k) = {} => Saved[k] = NoCommand
         /\ Marks(k) # {} => \E i \in Marks(k) :
              /\ \A j \in Marks(k) : j <= i
              /\ Saved[k].state = log[i].state /\ Saved[k].task = log[i].task
              /\ Saved[k].fence = log[i].fence /\ Saved[k].state # "absent"
<1>1. CASE Marks(k) = {}
  <2>1. Saved[k] = NoCommand
    BY <1>1 DEF Saved, Marks
  <2>2. NoCommand \in Command
    BY TaskIDsAssumption DEF NoCommand, Command
  <2> QED
    BY <1>1, <2>1, <2>2
<1>2. CASE Marks(k) # {}
  <2> DEFINE S == Marks(k)
             i == CHOOSE i \in S : \A j \in S : j <= i
             last == log[i]
  <2>1. \E m \in S : \A j \in S : j <= m
    <3>1. Len(log) \in Nat
      BY DEF TypeOK
    <3>2. S \subseteq 1..Len(log)
      BY DEF Marks
    <3> HIDE DEF S
    <3> QED
      BY <1>2, <3>1, <3>2, LastExists DEF S
  <2>2. i \in S /\ \A j \in S : j <= i
    <3> HIDE DEF S
    <3> QED
      BY <2>1
  <2>3. Saved[k] = [state |-> last.state, task |-> last.task, fence |-> last.fence,
                    result |-> ResultFor(last.state)]
    BY <1>2 DEF Saved, Marks
  <2> HIDE DEF i, S
  <2>4. last \in EventType /\ last.state # ""
    <3>1. log \in Seq(EventType)
      BY DEF TypeOK
    <3>2. i \in 1..Len(log) /\ log[i].state # ""
      BY <2>2 DEF Marks, S
    <3>3. \A j \in 1..Len(log) : log[j] \in EventType
      BY <3>1
    <3> QED
      BY <3>2, <3>3
  <2>5. last.state \in CommandState /\ last.task \in TaskIDs /\ last.fence \in Nat
    BY <2>4 DEF EventType
  <2> HIDE DEF last
  <2>6. Saved[k] \in Command
    BY <2>3, <2>5, ResultTyped DEF Command
  <2>7. Saved[k].state # "absent"
    BY <2>3, <2>5 DEF CommandState
  <2> QED
    BY <1>2, <2>2, <2>3, <2>6, <2>7 DEF last, S
<1> QED
  BY <1>1, <1>2

LEMMA SavedTyped ==
  ASSUME TypeOK
  PROVE  Saved \in [Keys -> Command]
<1>1. \A k \in Keys : Saved[k] \in Command
  BY SavedFromLog
<1> QED
  BY <1>1 DEF Saved

LEMMA RestartEffect ==
  ASSUME TypeOK, Restart
  PROVE  /\ LedgerTyped' /\ commands' = Saved /\ fences' \in HighestFences(Saved)
         /\ stopped' = StopRecorded
         /\ at' \in [Handlers -> HandlerType]
         /\ \A h \in Handlers : at'[h] = IF at[h].pc = "idle" THEN at[h] ELSE Done
         /\ claims' = {} /\ fatal' = FALSE /\ found' \subseteq Parts /\ crashes' \in 0..MaxCrashes
         /\ log' \in Seq(EventType) /\ Len(log) <= Len(log')
         /\ \A i \in 1..Len(log) : log'[i] = log[i]
         /\ \A i \in 1..Len(log') : i <= Len(log) \/ Plain(log'[i])
         /\ UNCHANGED <<calls, lapsed, faults>>
<1>1. Saved \in [Keys -> Command]
  BY SavedTyped
<1> USE DEF Restart
<1>2. /\ commands' = Saved /\ fences' \in HighestFences(Saved) /\ stopped' = StopRecorded
      /\ results' = RecordedResults(Saved) /\ newer' = {}
      /\ commandCount' = Cardinality(SavedKeys(Saved)) /\ RestoreFits(Saved)
  BY DEF RestoreCommands
<1>3. LedgerTyped'
  <2>1. fences' \in [TaskIDs -> Nat]
    <3>1. \A k \in Keys : Saved[k].fence \in Nat
      BY <1>1 DEF Command
    <3>2. {0} \cup {Saved[k].fence : k \in Keys} \subseteq Nat
      BY <3>1
    <3>3. fences' \in [TaskIDs -> {0} \cup {Saved[k].fence : k \in Keys}]
      BY <1>2 DEF HighestFences
    <3> QED
      BY <3>2, <3>3
  <2>2. results' \in [Keys -> Results \cup {NoResult}]
    BY <1>1, <1>2 DEF RecordedResults, Command
  <2>3. commandCount' \in 0..MaxCommands
    <3>1. IsFiniteSet(SavedKeys(Saved))
      BY KeysAssumption, FS_Subset DEF SavedKeys
    <3>2. Cardinality(SavedKeys(Saved)) \in Nat
      BY <3>1, FS_CardinalityType
    <3> QED
      BY <1>2, <3>2, MaxCommandsAssumption DEF RestoreFits
  <2>4. stopped' \in BOOLEAN
    BY <1>2 DEF StopRecorded, HasEvent
  <2> QED
    BY <1>1, <1>2, <2>1, <2>2, <2>3, <2>4 DEF LedgerTyped
<1>4. /\ at' \in [Handlers -> HandlerType]
      /\ \A h \in Handlers : at'[h] = IF at[h].pc = "idle" THEN at[h] ELSE Done
  BY DoneFields DEF TypeOK
<1>5. found' \subseteq Parts /\ crashes' \in 0..MaxCrashes
  BY SurvivalsAssumption, BoundsAssumption DEF TypeOK
<1>6. /\ log' \in Seq(EventType) /\ Len(log) <= Len(log')
      /\ \A i \in 1..Len(log) : log'[i] = log[i]
      /\ \A i \in 1..Len(log') : i <= Len(log) \/ Plain(log'[i])
  <2> DEFINE e == RunEvent("dispatch.interrupted")
  <2>1. Plain(e) /\ e \in EventType
    BY EventPlain, RunTaskAssumption DEF RunEvent, PlainTypes, EventTypes, Plain
  <2>2. log' = log \/ log' = Append(log, e)
    OBVIOUS
  <2>3. log \in Seq(EventType) /\ Len(log) \in Nat
    BY DEF TypeOK
  <2> HIDE DEF e
  <2>4. CASE log' = log
    BY <2>3, <2>4
  <2>5. CASE log' = Append(log, e)
    <3>1. /\ log' \in Seq(EventType) /\ Len(log') = Len(log) + 1
          /\ \A i \in 1..Len(log) : log'[i] = log[i]
          /\ log'[Len(log) + 1] = e
      BY <2>1, <2>3, <2>5, AppendProperties
    <3> QED
      BY <2>1, <2>3, <3>1
  <2> QED
    BY <2>2, <2>4, <2>5
<1> QED
  BY <1>2, <1>3, <1>4, <1>5, <1>6

-----------------------------------------------------------------------------
(* Types.                                                                  *)

LEMMA StayTyped ==
  ASSUME TypeOK, LedgerTyped', at' \in [Handlers -> HandlerType], Stay
  PROVE  TypeOK'
  BY DEF TypeOK, LedgerTyped, Stay

LEMMA QuietTyped ==
  ASSUME TypeOK, UNCHANGED controlVars
  PROVE  LedgerTyped'
  BY DEF TypeOK, LedgerTyped, controlVars

-----------------------------------------------------------------------------
(* Places.                                                                 *)

Fits == TypeOK /\ \A h \in Handlers : PlaceFits(h)

LEMMA OthersFit ==
  ASSUME Fits, NEW h \in Handlers, Moved(h), PlaceFits(h)'
  PROVE  \A g \in Handlers : PlaceFits(g)'
<1> SUFFICES ASSUME NEW g \in Handlers, g # h
             PROVE  PlaceFits(g)'
  OBVIOUS
<1>1. at'[g] = at[g] /\ PlaceFits(g)
  BY DEF Moved, Fits
<1> QED
  BY <1>1 DEF PlaceFits, Suits, At

LEMMA StayFits ==
  ASSUME Fits, NEW h \in Handlers, LedgerTyped', Stay, Moved(h), PlaceFits(h)'
  PROVE  Fits'
  BY StayTyped, OthersFit DEF Fits, Moved

(* The places that suit a handler in the loop of scheduleRun, or a control. *)
LEMMA SuitsLoop ==
  ASSUME NEW op, Scheduler(op), NEW rest, rest # {}, NEW pc \in AdapterPlaces \cup LoopPlaces
  PROVE  Suits(pc, op, rest)
  BY DEF Suits, Places, LoopPlaces, AdapterPlaces, ControlPlaces

LEMMA SuitsControl ==
  ASSUME NEW op, op.kind = "control", NEW pc \in ControlPlaces \cup AdapterPlaces,
         pc \in AdapterPlaces => op.what # "emergency-stop",
         pc \in {"stop", "stopAck"} => op.what = "emergency-stop",
         pc = "retryRequest" => op.what = "retry"
  PROVE  Suits(pc, op, {})
  BY DEF Suits, Places, LoopPlaces, AdapterPlaces, ControlPlaces

LEMMA SuitsDone ==
  ASSUME NEW op
  PROVE  /\ Suits("done", op, {}) /\ Suits("finish", op, {})
         /\ op.kind = "reconcile" => Suits("pending", op, {}) /\ Suits("settle", op, {})
  BY DEF Suits, Places, LoopPlaces, AdapterPlaces, ControlPlaces

LEMMA SuitsSchedule ==
  ASSUME NEW op, Scheduler(op)
  PROVE  Suits("schedule", op, {})
  BY DEF Suits, Places, LoopPlaces, AdapterPlaces, ControlPlaces

LEMMA LeavesFit ==
  ASSUME NEW op, NEW h \in Handlers, LeavesLoop(op, at'[h])
  PROVE  PlaceFits(h)'
<1>1. at'[h].rest = {}
  BY DEF LeavesLoop
<1>2. CASE at'[h].pc = "done" /\ at'[h].todo = <<>>
  BY <1>1, <1>2, SuitsDone DEF PlaceFits, At
<1>3. CASE /\ at'[h].pc = "append" /\ at'[h].then = "done"
           /\ at'[h].todo = <<RunEvent("dispatch.failed")>>
  <2>1. at'[h].todo # <<>>
    BY <1>3
  <2> QED
    BY <1>1, <1>3, <2>1, SuitsDone DEF PlaceFits, At
<1>4. CASE at'[h].pc = "finish" /\ at'[h].todo = <<>>
  BY <1>1, <1>4, SuitsDone DEF PlaceFits, At
<1>5. CASE at'[h].pc = "pending" /\ at'[h].todo = <<>> /\ at'[h].op.kind = "reconcile"
  BY <1>1, <1>5, SuitsDone DEF PlaceFits, At
<1> QED
  BY <1>2, <1>3, <1>4, <1>5 DEF LeavesLoop

LEMMA VisitsFit ==
  ASSUME NEW op, Scheduler(op), NEW snap, NEW rest, NEW h \in Handlers,
         Visits(op, snap, rest, at'[h])
  PROVE  PlaceFits(h)'
  BY DEF Visits, PlaceFits, Suits, At, Places, LoopPlaces, AdapterPlaces, ControlPlaces

LEMMA IdlesFit ==
  ASSUME NEW h \in Handlers, Idles(h)
  PROVE  Moved(h) /\ PlaceFits(h)'
<1>1. Moved(h) /\ Fields(at'[h]) = <<"done", StartOp, NoCmd, 0, {}, NoSnap, <<>>, "">>
  BY DEF Idles, Becomes
<1>2. at'[h].pc = "done" /\ at'[h].rest = {} /\ at'[h].todo = <<>>
  BY <1>1 DEF Fields
<1> QED
  BY <1>1, <1>2, SuitsDone DEF PlaceFits, At

(* A handler that goes to another place with nothing queued.               *)
LEMMA GoesFit ==
  ASSUME NEW h \in Handlers, NEW pc, NEW op, NEW cmd, NEW token, NEW rest,
         NEW snap, NEW then, Becomes(h, <<pc, op, cmd, token, rest, snap, <<>>, then>>),
         Suits(pc, op, rest)
  PROVE  Moved(h) /\ PlaceFits(h)'
<1>1. /\ Moved(h)
      /\ at'[h].pc = pc /\ at'[h].op = op /\ at'[h].rest = rest /\ at'[h].todo = <<>>
  BY DEF Becomes, Fields
<1>2. At(h)' = pc
  BY <1>1 DEF At, Suits
<1>3. pc # "append"
  BY DEF Suits
<1> QED
  BY <1>1, <1>2, <1>3 DEF PlaceFits

(* A handler that queues events before it goes to `pc`.                    *)
LEMMA QueuesFit ==
  ASSUME NEW h \in Handlers, NEW pc, NEW op, NEW cmd, NEW token, NEW rest,
         NEW snap, NEW events, events # <<>>,
         Becomes(h, <<"append", op, cmd, token, rest, snap, events, pc>>),
         Suits(pc, op, rest)
  PROVE  Moved(h) /\ PlaceFits(h)'
<1>1. /\ Moved(h)
      /\ at'[h].pc = "append" /\ at'[h].op = op /\ at'[h].rest = rest /\ at'[h].todo = events
      /\ at'[h].then = pc
  BY DEF Becomes, Fields
<1>2. At(h)' = pc
  BY <1>1 DEF At, Suits
<1> QED
  BY <1>1, <1>2 DEF PlaceFits

-----------------------------------------------------------------------------
(* The steps, one lemma per group of actions.                              *)

LEMMA RunFits ==
  ASSUME RunInv
  PROVE  Fits /\ TypeOK /\ LedgerTyped /\ \A h \in Handlers : PlaceFits(h) /\ HandSound(h)
  BY TypedLedger DEF RunInv, Fits, LedgerInv

(* What PlaceFits says of a handler that has nothing queued.               *)
LEMMA PlaceNow ==
  ASSUME RunInv, NEW h \in Handlers, at[h].pc # "append"
  PROVE  /\ At(h) = at[h].pc /\ at[h].todo = <<>>
         /\ at[h].rest # {} => Scheduler(at[h].op)
  BY RunFits DEF PlaceFits, Suits, At

LEMMA ScheduleFits ==
  ASSUME RunInv, NEW h \in Handlers,
         \/ Schedule(h) \/ AskApproval(h) \/ LookUp(h) \/ RequestDispatch(h)
  PROVE  Fits'
<1> DEFINE a == at[h]
<1> USE RunFits
<1>1. CASE Schedule(h)
  <2>1. /\ at[h].pc = "schedule" /\ Moved(h) /\ UNCHANGED controlVars /\ Stay
        /\ \/ LeavesLoop(at[h].op, at'[h])
           \/ Visits(at[h].op, [granted |-> Granted, asked |-> Asked],
                     {t \in Tasks : Defined /\ Ready(t)}, at'[h])
    BY <1>1, ScheduleEffect
  <2>2. Scheduler(a.op)
    BY <2>1 DEF PlaceFits, Suits, At
  <2>3. PlaceFits(h)'
    BY <2>1, <2>2, LeavesFit, VisitsFit
  <2> QED
    BY <2>1, <2>3, QuietTyped, StayFits
<1>2. CASE AskApproval(h)
  <2>1. /\ a.pc = "guard" /\ a.rest # {} /\ Moved(h) /\ UNCHANGED controlVars /\ Stay
        /\ \/ LeavesLoop(a.op, at'[h])
           \/ Becomes(h, <<"append", a.op, a.cmd, a.token, a.rest, a.snap,
                           <<Event("approval.requested", First(a.rest))>>, "scheduled">>)
    BY <1>2, AskEffect DEF Becomes
  <2>2. Scheduler(a.op)
    BY <2>1, PlaceNow
  <2>3. PlaceFits(h)'
    <3>1. CASE LeavesLoop(a.op, at'[h])
      BY <3>1, LeavesFit
    <3>2. CASE Becomes(h, <<"append", a.op, a.cmd, a.token, a.rest, a.snap,
                            <<Event("approval.requested", First(a.rest))>>, "scheduled">>)
      <4>1. Suits("scheduled", a.op, a.rest)
        BY <2>1, <2>2, SuitsLoop DEF LoopPlaces
      <4> QED
        BY <3>2, <4>1, QueuesFit
    <3> QED
      BY <2>1, <3>1, <3>2
  <2> QED
    BY <2>1, <2>3, QuietTyped, StayFits
<1>3. CASE LookUp(h)
  <2>1. /\ a.pc = "guard" /\ a.rest # {} /\ Moved(h) /\ UNCHANGED controlVars /\ Stay
        /\ \/ LeavesLoop(a.op, at'[h])
           \/ Visits(a.op, a.snap, a.rest \ {First(a.rest)}, at'[h])
           \/ Becomes(h, <<"request", a.op, a.cmd, a.token, a.rest, a.snap, a.todo, a.then>>)
    BY <1>3, LookUpEffect DEF Becomes
  <2>2. Scheduler(a.op) /\ a.todo = <<>>
    BY <2>1, PlaceNow
  <2>3. PlaceFits(h)'
    <3>1. CASE LeavesLoop(a.op, at'[h])
      BY <3>1, LeavesFit
    <3>2. CASE Visits(a.op, a.snap, a.rest \ {First(a.rest)}, at'[h])
      BY <2>2, <3>2, VisitsFit
    <3>3. CASE Becomes(h, <<"request", a.op, a.cmd, a.token, a.rest, a.snap, a.todo, a.then>>)
      <4>1. Suits("request", a.op, a.rest)
        BY <2>1, <2>2, SuitsLoop DEF LoopPlaces, AdapterPlaces
      <4> QED
        BY <2>2, <3>3, <4>1, GoesFit
    <3> QED
      BY <2>1, <3>1, <3>2, <3>3
  <2> QED
    BY <2>1, <2>3, QuietTyped, StayFits
<1>4. CASE RequestDispatch(h)
  <2> DEFINE t == First(a.rest)
             k == DispatchKey(t)
             cmd == [key |-> k, task |-> t, state |-> "requested", fence |-> 0]
  <2>1. /\ a.pc = "request" /\ a.rest # {} /\ Moved(h) /\ Stay
        /\ t \in TaskIDs /\ k \in Keys
        /\ \/ UNCHANGED controlVars /\ LeavesLoop(a.op, at'[h])
           \/ UNCHANGED controlVars /\ Visits(a.op, a.snap, a.rest \ {t}, at'[h])
           \/ /\ RequestOnce(k, t, 0)
              /\ Becomes(h, <<"rotate", a.op, cmd, a.token, a.rest, a.snap, a.todo, a.then>>)
    BY <1>4, RequestDispatchEffect DEF Becomes
  <2>2. Scheduler(a.op) /\ a.todo = <<>>
    BY <2>1, PlaceNow
  <2> HIDE DEF k, cmd
  <2>3. PlaceFits(h)'
    <3>1. CASE LeavesLoop(a.op, at'[h])
      BY <3>1, LeavesFit
    <3>2. CASE Visits(a.op, a.snap, a.rest \ {t}, at'[h])
      BY <2>2, <3>2, VisitsFit
    <3>3. CASE Becomes(h, <<"rotate", a.op, cmd, a.token, a.rest, a.snap, a.todo, a.then>>)
      <4>1. Suits("rotate", a.op, a.rest)
        BY <2>1, <2>2, SuitsLoop DEF LoopPlaces, AdapterPlaces
      <4> QED
        BY <2>2, <3>3, <4>1, GoesFit
    <3> QED
      BY <2>1, <3>1, <3>2, <3>3
  <2>4. LedgerTyped'
    BY <2>1, QuietTyped, RequestEffect
  <2> QED
    BY <2>1, <2>3, <2>4, StayFits
<1> QED
  BY <1>1, <1>2, <1>3, <1>4

LEMMA ReportsMoveFits ==
  ASSUME RunInv, NEW h \in Handlers, Stay, NEW cmd, NEW to \in CommandState, NEW type, NEW then,
         ReportsMove(h, cmd, to, type, then),
         \A events : events # <<>> /\ Queues(h, cmd, events, then) => PlaceFits(h)'
  PROVE  Fits'
<1>1. PICK events : /\ Reports(events, CommandEvent(type, Returned(at[h].cmd.key, to)))
                    /\ Queues(h, cmd, events, then)
  BY DEF ReportsMove
<1>2. Moved(h) /\ PlaceFits(h)'
  BY <1>1 DEF Reports, Queues, Becomes
<1>3. LedgerTyped'
  BY RunFits, TryEffect DEF ReportsMove
<1> QED
  BY <1>2, <1>3, RunFits, StayFits

LEMMA AdapterFits ==
  ASSUME RunInv, NEW h \in Handlers,
         Rotate(h) \/ CallNobody(h) \/ Accepted(h) \/ Refused(h) \/ Lost(h) \/ Doubt(h)
  PROVE  Fits'
<1> DEFINE a == at[h]
<1> USE RunFits
<1>1. CASE Rotate(h)
  <2> DEFINE k == a.cmd.key
             t == a.cmd.task
             cmd == [a.cmd EXCEPT !.fence = fences[t] + 1]
             e == CommandEvent(Family(a).requested, cmd)
  <2>1. /\ a.pc = "rotate" /\ k \in Keys /\ t \in TaskIDs
        /\ RotateFenceForCommand(k, t) /\ Stay
        /\ Queues(h, cmd, <<e>>, "call")
    BY <1>1, RotateEffect
  <2>2. LedgerTyped'
    BY <2>1, RotateFenceEffect
  <2>3. Moved(h) /\ PlaceFits(h)'
    <3> HIDE DEF cmd, e
    <3>1. /\ a.rest # {} => Scheduler(a.op)
          /\ a.rest = {} => a.op.kind = "control" /\ a.op.what # "emergency-stop"
      BY <2>1 DEF PlaceFits, Suits, At, AdapterPlaces
    <3>2. Suits("call", a.op, a.rest)
      BY <3>1, SuitsLoop, SuitsControl DEF AdapterPlaces
    <3> QED
      BY <2>1, <3>2, QueuesFit DEF Queues
  <2> QED
    BY <2>1, <2>2, <2>3, StayFits
<1>2. CASE CallNobody(h)
  <2>1. Idles(h) /\ UNCHANGED controlVars /\ Stay
    BY <1>2, CallNobodyEffect DEF Idles
  <2> QED
    BY <2>1, IdlesFit, QuietTyped, StayFits
<1>3. CASE Accepted(h)
  <2>1. a.pc = "accepted" /\ Stay
    BY <1>3, AcceptedEffect
  <2>2. PICK type \in PlainTypes, then \in {"advance", "retryRequest", "done"} :
              /\ ReportsMove(h, a.cmd, "acknowledged", type, then)
              /\ then = "advance" <=> a.rest # {}
              /\ then = "retryRequest" <=> a.rest = {} /\ a.op.what = "retry"
    BY <1>3, AcceptedEffect
  <2>3. /\ a.rest # {} => Scheduler(a.op)
        /\ a.rest = {} => a.op.kind = "control"
    BY <2>1 DEF PlaceFits, Suits, At, AdapterPlaces
  <2>4. \A events : events # <<>> /\ Queues(h, a.cmd, events, then) => PlaceFits(h)'
    <3>1. Suits(then, a.op, a.rest)
      BY <2>2, <2>3, SuitsLoop, SuitsControl, SuitsDone DEF LoopPlaces, ControlPlaces, AdapterPlaces
    <3> QED
      BY <3>1, QueuesFit DEF Queues
  <2>5. "acknowledged" \in CommandState
    BY DEF CommandState
  <2> QED
    BY <2>1, <2>2, <2>4, <2>5, ReportsMoveFits
<1>4. CASE Refused(h)
  <2>1. a.pc = "refused" /\ Stay
    BY <1>4, RefusedEffect
  <2>2. PICK type \in PlainTypes, then \in {"advance", "done"} :
              /\ ReportsMove(h, a.cmd, "failed", type, then)
              /\ then = "advance" <=> a.rest # {}
    BY <1>4, RefusedEffect
  <2>3. a.rest # {} => Scheduler(a.op)
    BY <2>1, PlaceNow
  <2>4. \A events : events # <<>> /\ Queues(h, a.cmd, events, then) => PlaceFits(h)'
    <3>1. Suits(then, a.op, a.rest)
      BY <2>2, <2>3, SuitsLoop, SuitsDone DEF LoopPlaces
    <3> QED
      BY <3>1, QueuesFit DEF Queues
  <2>5. "failed" \in CommandState
    BY DEF CommandState
  <2> QED
    BY <2>1, <2>2, <2>4, <2>5, ReportsMoveFits
<1>5. CASE Lost(h)
  <2>1. /\ a.pc = "lost" /\ Stay /\ a.cmd.key \in Keys /\ TryTransition(a.cmd.key, "acknowledged")
        /\ Becomes(h, <<"doubt", a.op, a.cmd, a.token, a.rest, a.snap, a.todo, a.then>>)
    BY <1>5, LostEffect
  <2>2. /\ a.rest # {} => Scheduler(a.op)
        /\ a.rest = {} => a.op.kind = "control" /\ a.op.what # "emergency-stop"
        /\ a.todo = <<>>
    BY <2>1 DEF PlaceFits, Suits, At, AdapterPlaces
  <2>3. Moved(h) /\ PlaceFits(h)'
    <3>1. Suits("doubt", a.op, a.rest)
      BY <2>2, SuitsLoop, SuitsControl DEF AdapterPlaces
    <3> QED
      BY <2>1, <2>2, <3>1, GoesFit
  <2>4. LedgerTyped'
    BY <2>1, TryEffect DEF CommandState
  <2> QED
    BY <2>1, <2>3, <2>4, StayFits
<1>6. CASE Doubt(h)
  <2>1. a.pc = "doubt" /\ Stay
    BY <1>6, DoubtEffect
  <2>2. PICK type \in PlainTypes, then \in {"advance", "done"} :
              /\ ReportsMove(h, a.cmd, "outcome_unknown", type, then)
              /\ then = "advance" <=> a.rest # {}
    BY <1>6, DoubtEffect
  <2>3. a.rest # {} => Scheduler(a.op)
    BY <2>1, PlaceNow
  <2>4. \A events : events # <<>> /\ Queues(h, a.cmd, events, then) => PlaceFits(h)'
    <3>1. Suits(then, a.op, a.rest)
      BY <2>2, <2>3, SuitsLoop, SuitsDone DEF LoopPlaces
    <3> QED
      BY <3>1, QueuesFit DEF Queues
  <2>5. "outcome_unknown" \in CommandState
    BY DEF CommandState
  <2> QED
    BY <2>1, <2>2, <2>4, <2>5, ReportsMoveFits
<1> QED
  BY <1>1, <1>2, <1>3, <1>4, <1>5, <1>6

LEMMA IdlesKeeps ==
  ASSUME RunInv, NEW h \in Handlers, Idles(h), LedgerTyped', Stay
  PROVE  Fits'
  BY RunFits, IdlesFit, StayFits

LEMMA ControlFits ==
  ASSUME RunInv, NEW h \in Handlers,
         \/ CommitToken(h) \/ RequestControl(h) \/ Stop(h) \/ StopAck(h)
         \/ RequestRetry(h) \/ RetryAck(h)
  PROVE  Fits'
<1> DEFINE a == at[h]
<1> USE RunFits
<1>1. CASE CommitToken(h)
  <2>1. /\ a.pc = "commit" /\ UNCHANGED controlVars /\ Stay
        /\ \/ Idles(h)
           \/ Becomes(h, <<"controlRequest", a.op, a.cmd, a.token, a.rest, a.snap, a.todo, a.then>>)
    BY <1>1, CommitTokenEffect
  <2>2. a.op.kind = "control" /\ a.rest = {} /\ a.todo = <<>>
    BY <2>1 DEF PlaceFits, Suits, At, ControlPlaces, AdapterPlaces, LoopPlaces
  <2>3. Suits("controlRequest", a.op, a.rest)
    BY <2>2, SuitsControl DEF ControlPlaces, AdapterPlaces
  <2>4. Moved(h) /\ PlaceFits(h)'
    BY <2>1, <2>2, <2>3, IdlesFit, GoesFit
  <2> QED
    BY <2>1, <2>4, QuietTyped, StayFits
<1>2. CASE RequestControl(h)
  <2> DEFINE k == a.op.key
             cmd == [key |-> k, task |-> a.op.task, state |-> "requested", fence |-> a.token]
             e == CommandEvent("control.requested", cmd)
  <2>1. /\ a.pc = "controlRequest" /\ a.op.kind = "control" /\ k \in Keys /\ Stay
        /\ a.op.task \in TaskIDs
        /\ \/ UNCHANGED controlVars /\ Idles(h)
           \/ /\ RequestOnce(k, a.op.task, a.token)
              /\ \/ /\ a.op.what # "emergency-stop"
                    /\ Becomes(h, <<"rotate", a.op, cmd, a.token, a.rest, a.snap, a.todo, a.then>>)
                 \/ a.op.what = "emergency-stop" /\ Queues(h, cmd, <<e>>, "stop")
                 \/ a.op.what # "emergency-stop" /\ Queues(h, cmd, <<e>>, "call")
    BY <1>2, RequestControlEffect
  <2>2. a.rest = {} /\ a.todo = <<>> /\ a.token \in Nat
    BY <2>1, HandlerTyped DEF PlaceFits, Suits, At, ControlPlaces, AdapterPlaces, LoopPlaces
  <2> HIDE DEF k, cmd, e
  <2>3. /\ a.op.what # "emergency-stop" => Suits("rotate", a.op, a.rest) /\ Suits("call", a.op, a.rest)
        /\ a.op.what = "emergency-stop" => Suits("stop", a.op, a.rest)
    BY <2>1, <2>2, SuitsControl DEF ControlPlaces, AdapterPlaces
  <2>4. CASE UNCHANGED controlVars /\ Idles(h)
    BY <2>1, <2>4, QuietTyped, IdlesKeeps
  <2>5. CASE RequestOnce(k, a.op.task, a.token)
    <3>1. LedgerTyped'
      BY <2>1, <2>2, <2>5, RequestEffect
    <3>2. Moved(h) /\ PlaceFits(h)'
      <4>1. CASE /\ a.op.what # "emergency-stop"
                 /\ Becomes(h, <<"rotate", a.op, cmd, a.token, a.rest, a.snap, a.todo, a.then>>)
        BY <2>2, <2>3, <4>1, GoesFit
      <4>2. CASE a.op.what = "emergency-stop" /\ Queues(h, cmd, <<e>>, "stop")
        BY <2>3, <4>2, QueuesFit DEF Queues
      <4>3. CASE a.op.what # "emergency-stop" /\ Queues(h, cmd, <<e>>, "call")
        BY <2>3, <4>3, QueuesFit DEF Queues
      <4>4. CASE Idles(h)
        BY <4>4, IdlesFit
      <4> QED
        BY <2>1, <4>1, <4>2, <4>3, <4>4
    <3> QED
      BY <2>1, <3>1, <3>2, StayFits
  <2> QED
    BY <2>1, <2>4, <2>5
<1>3. CASE Stop(h)
  <2>1. /\ a.pc = "stop" /\ EmergencyStop /\ Stay
        /\ Becomes(h, <<"stopAck", a.op, a.cmd, a.token, a.rest, a.snap, a.todo, a.then>>)
    BY <1>3, EmergencyStopEffect
  <2>2. a.op.kind = "control" /\ a.op.what = "emergency-stop" /\ a.rest = {} /\ a.todo = <<>>
    BY <2>1 DEF PlaceFits, Suits, At, ControlPlaces, AdapterPlaces, LoopPlaces
  <2>3. Suits("stopAck", a.op, a.rest)
    BY <2>2, SuitsControl DEF ControlPlaces, AdapterPlaces
  <2>4. LedgerTyped'
    BY <2>1, StopEffect
  <2>5. Moved(h) /\ PlaceFits(h)'
    BY <2>1, <2>2, <2>3, GoesFit
  <2> QED
    BY <2>1, <2>4, <2>5, StayFits
<1>4. CASE StopAck(h)
  <2> DEFINE k == a.cmd.key
             e == CommandEvent("control.acknowledged", Returned(k, "acknowledged"))
             f == RunEvent("dispatch.emergency_stopped")
  <2>1. /\ a.pc = "stopAck" /\ k \in Keys /\ TryTransition(k, "acknowledged") /\ Stay
        /\ Queues(h, a.cmd, <<e, f>>, "done")
    BY <1>4, StopAckEffect
  <2> HIDE DEF e, f
  <2>2. a.rest = {}
    BY <2>1 DEF PlaceFits, Suits, At, ControlPlaces, AdapterPlaces, LoopPlaces
  <2>3. LedgerTyped'
    BY <2>1, TryEffect DEF CommandState
  <2>4. Moved(h) /\ PlaceFits(h)'
    BY <2>1, <2>2, SuitsDone, QueuesFit DEF Queues
  <2> QED
    BY <2>1, <2>3, <2>4, StayFits
<1>5. CASE RequestRetry(h)
  <2> DEFINE k == RetryKey(a.op.task, a.op.key[3])
             cmd == [key |-> k, task |-> a.op.task, state |-> "requested", fence |-> a.cmd.fence]
             e == CommandEvent("command.requested", cmd)
  <2>1. /\ a.pc = "retryRequest" /\ a.op.kind = "control" /\ k \in Keys /\ Stay
        /\ a.op.task \in TaskIDs
        /\ \/ UNCHANGED controlVars /\ Idles(h)
           \/ RequestOnce(k, a.op.task, a.cmd.fence) /\ Queues(h, cmd, <<e>>, "retryAck")
    BY <1>5, RequestRetryEffect
  <2>2. a.rest = {} /\ a.cmd.fence \in Nat
    BY <2>1, HandlerTyped DEF PlaceFits, Suits, At, ControlPlaces, AdapterPlaces, LoopPlaces
  <2> HIDE DEF k, cmd, e
  <2>3. Suits("retryAck", a.op, a.rest)
    BY <2>1, <2>2, SuitsControl DEF ControlPlaces, AdapterPlaces
  <2>4. LedgerTyped'
    BY <2>1, <2>2, QuietTyped, RequestEffect
  <2>5. Moved(h) /\ PlaceFits(h)'
    BY <2>1, <2>3, IdlesFit, QueuesFit DEF Queues
  <2> QED
    BY <2>1, <2>4, <2>5, StayFits
<1>6. CASE RetryAck(h)
  <2>1. /\ a.pc = "retryAck" /\ Stay
        /\ ReportsMove(h, a.cmd, "acknowledged", "command.acknowledged", "done")
    BY <1>6, RetryAckEffect
  <2>2. a.rest = {}
    BY <2>1 DEF PlaceFits, Suits, At, ControlPlaces, AdapterPlaces, LoopPlaces
  <2>3. \A events : events # <<>> /\ Queues(h, a.cmd, events, "done") => PlaceFits(h)'
    BY <2>2, SuitsDone, QueuesFit DEF Queues
  <2>4. "acknowledged" \in CommandState
    BY DEF CommandState
  <2> QED
    BY <2>1, <2>3, <2>4, ReportsMoveFits
<1> QED
  BY <1>1, <1>2, <1>3, <1>4, <1>5, <1>6

LEMMA ResultFits ==
  ASSUME RunInv, NEW h \in Handlers,
         \/ ClaimPoll(h) \/ ResultPending(h) \/ ResultFailed(h) \/ ResultCancelled(h)
         \/ ResultCompleted(h) \/ Finish(h)
  PROVE  Fits'
<1> DEFINE a == at[h]
<1> USE RunFits
<1>1. at[h].pc \in {"claim", "poll"} => a.op.kind = "result" /\ a.rest = {} /\ a.todo = <<>>
  BY DEF PlaceFits, Suits, At, AdapterPlaces, LoopPlaces
<1>2. CASE ClaimPoll(h)
  <2>1. /\ a.pc = "claim" /\ a.cmd.key \in Keys /\ Stay /\ TryTransition(a.cmd.key, "polling")
        /\ \/ Idles(h)
           \/ Becomes(h, <<"poll", a.op, a.cmd, a.token, a.rest, a.snap, a.todo, a.then>>)
    BY <1>2, ClaimPollEffect
  <2>2. Suits("poll", a.op, a.rest)
    BY <1>1, <2>1 DEF Suits, Places, LoopPlaces, AdapterPlaces, ControlPlaces
  <2>3. LedgerTyped'
    BY <2>1, TryEffect DEF CommandState
  <2>4. Moved(h) /\ PlaceFits(h)'
    BY <1>1, <2>1, <2>2, IdlesFit, GoesFit
  <2> QED
    BY <2>1, <2>3, <2>4, StayFits
<1>3. CASE ResultPending(h)
  <2>1. /\ a.cmd.key \in Keys /\ Stay /\ TryTransition(a.cmd.key, "acknowledged") /\ Idles(h)
    BY <1>3, ResultPendingEffect
  <2>2. LedgerTyped'
    BY <2>1, TryEffect DEF CommandState
  <2> QED
    BY <2>1, <2>2, IdlesKeeps
<1>4. CASE ResultFailed(h) \/ ResultCancelled(h)
  <2>1. a.pc = "poll" /\ Stay
    BY <1>4, ResultEndsEffect
  <2>2. PICK type \in PlainTypes, to \in {"failed", "cancelled"} :
              ReportsMove(h, NoCmd, to, type, "done")
    BY <1>4, ResultEndsEffect
  <2>3. \A events : events # <<>> /\ Queues(h, NoCmd, events, "done") => PlaceFits(h)'
    BY <1>1, <2>1, SuitsDone, QueuesFit DEF Queues
  <2>4. to \in CommandState
    BY DEF CommandState
  <2> QED
    BY <2>1, <2>2, <2>3, <2>4, ReportsMoveFits
<1>5. CASE ResultCompleted(h)
  <2> DEFINE e == CommandEvent("command.completed", Returned(a.cmd.key, "completed"))
             f == Event("task.completed", a.op.task)
  <2>1. /\ a.pc = "poll" /\ a.cmd.key \in Keys /\ TryTransition(a.cmd.key, "completed") /\ Stay
        /\ Queues(h, NoCmd, <<e, f>>, "schedule")
    BY <1>5, ResultCompletedEffect
  <2> HIDE DEF e, f
  <2>2. LedgerTyped'
    BY <2>1, TryEffect DEF CommandState
  <2>3. Suits("schedule", a.op, a.rest)
    <3>1. a.rest = {} /\ Scheduler(a.op)
      BY <1>1, <2>1 DEF Scheduler
    <3> QED
      BY <3>1, SuitsSchedule
  <2>4. Moved(h) /\ PlaceFits(h)'
    BY <2>1, <2>3, QueuesFit DEF Queues
  <2> QED
    BY <2>1, <2>2, <2>4, StayFits
<1>6. CASE Finish(h)
  <2> DEFINE e == RunEvent("dispatch.completed")
  <2>1. /\ a.pc = "finish" /\ UNCHANGED controlVars /\ Stay
        /\ Idles(h) \/ Queues(h, a.cmd, <<e>>, "done")
    BY <1>6, FinishEffect
  <2> HIDE DEF e
  <2>2. a.rest = {}
    BY <2>1 DEF PlaceFits, Suits, At, ControlPlaces, AdapterPlaces, LoopPlaces
  <2>3. Moved(h) /\ PlaceFits(h)'
    BY <2>1, <2>2, SuitsDone, IdlesFit, QueuesFit DEF Queues
  <2> QED
    BY <2>1, <2>3, QuietTyped, StayFits
<1> QED
  BY <1>2, <1>3, <1>4, <1>5, <1>6

LEMMA DecisionFits ==
  ASSUME RunInv, NEW h \in Handlers, ClaimDecision(h) \/ Settle(h) \/ Pending(h)
  PROVE  Fits'
<1> DEFINE a == at[h]
<1> USE RunFits
<1>1. CASE ClaimDecision(h)
  <2>1. /\ a.pc = "claimDecision" /\ a.op.kind = "approve" /\ a.op.task \in Tasks
        /\ UNCHANGED <<controlVars, log, fatal, calls, lapsed, found, crashes, faults>>
        /\ \/ claims' = claims /\ Idles(h)
           \/ /\ claims' = claims \cup {a.op.task}
              /\ \E type \in Decision : \E events : \E then \in {"schedule", "done"} :
                   /\ Reports(events, Event(type, a.op.task))
                   /\ Queues(h, a.cmd, events, then)
    BY <1>1, ClaimDecisionEffect
  <2>2. a.rest = {} /\ Scheduler(a.op)
    BY <2>1 DEF PlaceFits, Suits, At, ControlPlaces, AdapterPlaces, LoopPlaces, Scheduler
  <2>3. Moved(h) /\ PlaceFits(h)'
    <3>1. CASE Idles(h)
      BY <3>1, IdlesFit
    <3>2. CASE \E type \in Decision : \E events : \E then \in {"schedule", "done"} :
                 /\ Reports(events, Event(type, a.op.task))
                 /\ Queues(h, a.cmd, events, then)
      <4> PICK events : \E then \in {"schedule", "done"} : events # <<>> /\ Queues(h, a.cmd, events, then)
        BY <3>2 DEF Reports
      <4>1. PICK then \in {"schedule", "done"} : events # <<>> /\ Queues(h, a.cmd, events, then)
        OBVIOUS
      <4>2. Suits("schedule", a.op, a.rest) /\ Suits("done", a.op, a.rest)
        BY <2>2, SuitsSchedule, SuitsDone
      <4> QED
        BY <4>1, <4>2, QueuesFit DEF Queues
    <3> QED
      BY <2>1, <3>1, <3>2
  <2>4. claims' \subseteq Guarded
    <3>1. claims \subseteq Guarded /\ At(h) = "claimDecision"
      BY <2>1 DEF TypeOK, At
    <3>2. a.op.task \in Guarded
      BY <3>1 DEF RunInv, DecisionInv
    <3> QED
      BY <2>1, <3>1, <3>2
  <2>5. TypeOK'
    <3>1. LedgerTyped'
      BY <2>1, QuietTyped
    <3> QED
      BY <2>1, <2>3, <2>4, <3>1 DEF TypeOK, LedgerTyped, Moved
  <2> QED
    BY <2>3, <2>5, OthersFit DEF Fits
<1>2. CASE Settle(h)
  <2> DEFINE k == a.op.key
  <2>1. /\ a.pc = "settle" /\ a.op.kind = "reconcile" /\ k \in Keys /\ Stay
        /\ \/ UNCHANGED controlVars /\ Idles(h)
           \/ /\ TryTransition(k, "reconciled")
              /\ \E e, f : \E then \in {"schedule", "pending"} : Queues(h, a.cmd, <<e, f>>, then)
    BY <1>2, SettleEffect
  <2>2. a.rest = {} /\ Scheduler(a.op)
    BY <2>1 DEF PlaceFits, Suits, At, ControlPlaces, AdapterPlaces, LoopPlaces, Scheduler
  <2>3. Suits("schedule", a.op, a.rest) /\ Suits("pending", a.op, a.rest)
    BY <2>1, <2>2, SuitsSchedule, SuitsDone
  <2>4. LedgerTyped'
    <3>1. "reconciled" \in CommandState
      BY DEF CommandState
    <3> QED
      BY <2>1, <3>1, QuietTyped, TryEffect
  <2>5. Moved(h) /\ PlaceFits(h)'
    <3>1. CASE Idles(h)
      BY <3>1, IdlesFit
    <3>2. CASE \E e, f : \E then \in {"schedule", "pending"} : Queues(h, a.cmd, <<e, f>>, then)
      <4> PICK e, f : \E then \in {"schedule", "pending"} : Queues(h, a.cmd, <<e, f>>, then)
        BY <3>2
      <4>1. PICK then \in {"schedule", "pending"} : Queues(h, a.cmd, <<e, f>>, then)
        OBVIOUS
      <4> QED
        BY <2>3, <4>1, QueuesFit DEF Queues
    <3> QED
      BY <2>1, <3>1, <3>2
  <2> QED
    BY <2>1, <2>4, <2>5, StayFits
<1>3. CASE Pending(h)
  <2> DEFINE e == RunEvent("dispatch.failed")
  <2>1. /\ a.pc = "pending" /\ UNCHANGED controlVars /\ Stay
        /\ \/ Idles(h)
           \/ Becomes(h, <<"finish", a.op, a.cmd, a.token, a.rest, a.snap, a.todo, a.then>>)
           \/ Queues(h, a.cmd, <<e>>, "done")
    BY <1>3, PendingEffect
  <2> HIDE DEF e
  <2>2. a.rest = {} /\ a.todo = <<>>
    BY <2>1 DEF PlaceFits, Suits, At, ControlPlaces, AdapterPlaces, LoopPlaces
  <2>3. Suits("finish", a.op, a.rest) /\ Suits("done", a.op, a.rest)
    BY <2>2, SuitsDone
  <2>4. Moved(h) /\ PlaceFits(h)'
    BY <2>1, <2>2, <2>3, IdlesFit, GoesFit, QueuesFit DEF Queues
  <2> QED
    BY <2>1, <2>4, QuietTyped, StayFits
<1> QED
  BY <1>1, <1>2, <1>3

LEMMA ArrivalFits ==
  ASSUME RunInv, StartDispatch \/ \E h \in Requests : RequestArrives(h)
  PROVE  Fits'
<1> USE RunFits
<1>1. CASE StartDispatch
  <2>1. /\ Start \in Handlers /\ UNCHANGED controlVars /\ Stay
        /\ Becomes(Start, <<"append", StartOp, NoCmd, 0, {}, NoSnap,
                            <<RunEvent("dispatch.started")>>, "schedule">>)
    BY <1>1, StartEffect
  <2>2. Scheduler(StartOp)
    BY DEF Scheduler, StartOp, Operation
  <2>3. Moved(Start) /\ PlaceFits(Start)'
    BY <2>1, <2>2, SuitsSchedule, QueuesFit
  <2> QED
    BY <2>1, <2>3, QuietTyped, StayFits
<1>2. CASE \E h \in Requests : RequestArrives(h)
  <2> PICK h \in Requests : RequestArrives(h)
    BY <1>2
  <2>1. PICK op \in Menu[h] :
          \/ ResultArrives(h, op) \/ ControlArrives(h, op)
          \/ ApproveArrives(h, op) \/ ReconcileArrives(h, op)
    BY DEF RequestArrives
  <2>2. h \in Handlers
    BY MenuTyped
  <2>3. CASE ResultArrives(h, op)
    <3>1. \A k \in Keys : CommandSound(k)
      BY DEF RunInv, LedgerInv
    <3>2. op.kind = "result" /\ UNCHANGED controlVars /\ Stay
      BY <2>3, <3>1, ResultArrivesEffect
    <3>3. Idles(h) \/ \E k \in Keys : Serves(h, op, Cmd(k, "acknowledged"), 0, "claim")
      BY <2>3, <3>1, ResultArrivesEffect
    <3>4. Suits("claim", op, {})
      BY <3>2 DEF Suits, Places, LoopPlaces, AdapterPlaces, ControlPlaces
    <3>5. Moved(h) /\ PlaceFits(h)'
      BY <2>2, <3>3, <3>4, IdlesFit, GoesFit DEF Serves
    <3> QED
      BY <2>2, <3>2, <3>5, QuietTyped, StayFits
  <2>4. CASE ControlArrives(h, op)
    <3>1. op.kind = "control" /\ UNCHANGED controlVars /\ Stay
      BY <2>4, ControlArrivesEffect
    <3>2. \/ Idles(h) \/ Serves(h, op, NoCmd, 0, "controlRequest")
          \/ \E token : Serves(h, op, NoCmd, token, "commit")
      BY <2>4, ControlArrivesEffect
    <3>3. Suits("controlRequest", op, {}) /\ Suits("commit", op, {})
      BY <3>1, SuitsControl DEF ControlPlaces, AdapterPlaces
    <3>4. Moved(h) /\ PlaceFits(h)'
      BY <2>2, <3>2, <3>3, IdlesFit, GoesFit DEF Serves
    <3> QED
      BY <2>2, <3>1, <3>4, QuietTyped, StayFits
  <2>5. CASE ApproveArrives(h, op)
    <3>1. /\ op.kind = "approve" /\ UNCHANGED controlVars /\ Stay
          /\ Idles(h) \/ Serves(h, op, NoCmd, 0, "claimDecision")
      BY <2>5, ApproveArrivesEffect
    <3>2. Suits("claimDecision", op, {})
      BY <3>1 DEF Suits, Places, LoopPlaces, AdapterPlaces, ControlPlaces
    <3>3. Moved(h) /\ PlaceFits(h)'
      BY <2>2, <3>1, <3>2, IdlesFit, GoesFit DEF Serves
    <3> QED
      BY <2>2, <3>1, <3>3, QuietTyped, StayFits
  <2>6. CASE ReconcileArrives(h, op)
    <3>1. op.kind = "reconcile" /\ UNCHANGED controlVars /\ Stay
      BY <2>6, ReconcileArrivesEffect
    <3>2. \/ Idles(h)
          \/ \E events : \E then \in {"done", "settle"} :
               /\ events # <<>>
               /\ Becomes(h, <<"append", op, NoCmd, 0, {}, NoSnap, events, then>>)
      BY <2>6, ReconcileArrivesEffect
    <3>3. Suits("done", op, {}) /\ Suits("settle", op, {})
      BY <3>1, SuitsDone
    <3>4. Moved(h) /\ PlaceFits(h)'
      <4>1. CASE Idles(h)
        BY <2>2, <4>1, IdlesFit
      <4>2. CASE \E events : \E then \in {"done", "settle"} :
               /\ events # <<>>
               /\ Becomes(h, <<"append", op, NoCmd, 0, {}, NoSnap, events, then>>)
        <5> PICK events : \E then \in {"done", "settle"} :
               /\ events # <<>>
               /\ Becomes(h, <<"append", op, NoCmd, 0, {}, NoSnap, events, then>>)
          BY <4>2
        <5>1. PICK then \in {"done", "settle"} :
               /\ events # <<>>
               /\ Becomes(h, <<"append", op, NoCmd, 0, {}, NoSnap, events, then>>)
          OBVIOUS
        <5> QED
          BY <2>2, <3>3, <5>1, QueuesFit
      <4> QED
        BY <3>2, <4>1, <4>2
    <3> QED
      BY <2>2, <3>1, <3>4, QuietTyped, StayFits
  <2> QED
    BY <2>1, <2>3, <2>4, <2>5, <2>6
<1> QED
  BY <1>1, <1>2

LEMMA AppendFits ==
  ASSUME RunInv, NEW h \in Handlers, AppendEvent(h) \/ AppendFails(h)
  PROVE  Fits'
<1> DEFINE a == at[h]
<1> USE RunFits
<1>1. CASE AppendEvent(h)
  <2>1. /\ a.pc = "append" /\ a.todo # <<>> /\ a.todo[1] \in EventType
        /\ log' = Append(log, a.todo[1])
        /\ UNCHANGED <<controlVars, claims, fatal, calls, lapsed, found, crashes, faults>>
        /\ \/ Resumes(h)
           \/ /\ Tail(a.todo) # <<>>
              /\ Becomes(h, <<"append", a.op, a.cmd, a.token, a.rest, a.snap,
                              Tail(a.todo), a.then>>)
    BY <1>1, AppendEventEffect
  <2>2. Suits(a.then, a.op, a.rest)
    BY <2>1 DEF PlaceFits, At
  <2>3. Moved(h) /\ PlaceFits(h)'
    <3>1. CASE /\ Tail(a.todo) # <<>>
               /\ Becomes(h, <<"append", a.op, a.cmd, a.token, a.rest, a.snap,
                               Tail(a.todo), a.then>>)
      <4> DEFINE events == Tail(a.todo)
      <4> HIDE DEF events
      <4>1. events # <<>> /\ Becomes(h, <<"append", a.op, a.cmd, a.token, a.rest, a.snap,
                                          events, a.then>>)
        BY <3>1 DEF events
      <4> QED
        BY <2>2, <4>1, QueuesFit
    <3>2. CASE a.then = "done" /\ Idles(h)
      BY <3>2, IdlesFit
    <3>3. CASE /\ a.then = "advance" /\ a.rest # {} /\ Moved(h)
               /\ LeavesLoop(a.op, at'[h]) \/ Visits(a.op, a.snap, a.rest \ {First(a.rest)}, at'[h])
      <4>1. Scheduler(a.op)
        BY <2>2, <3>3 DEF Suits
      <4> QED
        BY <3>3, <4>1, LeavesFit, VisitsFit
    <3>4. CASE a.then = "scheduled" /\ Moved(h) /\ LeavesLoop(a.op, at'[h])
      BY <3>4, LeavesFit
    <3>5. CASE Becomes(h, <<a.then, a.op, a.cmd, a.token, a.rest, a.snap, <<>>, "">>)
      BY <2>2, <3>5, GoesFit
    <3> QED
      BY <2>1, <3>1, <3>2, <3>3, <3>4, <3>5 DEF Resumes
  <2>4. TypeOK'
    <3>1. LedgerTyped'
      BY <2>1, QuietTyped
    <3>2. log' \in Seq(EventType)
      BY <2>1 DEF TypeOK
    <3> QED
      BY <2>1, <2>3, <3>1, <3>2 DEF TypeOK, LedgerTyped, Moved
  <2> QED
    BY <2>3, <2>4, OthersFit DEF Fits
<1>2. CASE AppendFails(h)
  <2>1. /\ Moved(h) /\ LeavesLoop(a.op, at'[h])
        /\ claims' = IF a.todo[1].type \in Decision THEN claims \ {a.op.task} ELSE claims
        /\ faults' \in 0..MaxFaults /\ fatal' = TRUE
        /\ UNCHANGED <<controlVars, log, calls, lapsed, found, crashes>>
    BY <1>2, AppendFailsEffect
  <2>2. PlaceFits(h)'
    BY <2>1, LeavesFit
  <2>3. TypeOK'
    <3>1. LedgerTyped'
      BY <2>1, QuietTyped
    <3> QED
      BY <2>1, <3>1 DEF TypeOK, LedgerTyped, Moved
  <2> QED
    BY <2>1, <2>2, <2>3, OthersFit DEF Fits
<1> QED
  BY <1>1, <1>2

LEMMA CallFits ==
  ASSUME RunInv, NEW h \in Handlers, CallAdapter(h)
  PROVE  Fits'
<1> DEFINE a == at[h]
           call == [what |-> IF a.rest # {} THEN "dispatch" ELSE a.op.what, task |-> a.cmd.task,
                    key |-> a.cmd.key, fence |-> a.cmd.fence, logged |-> Len(log)]
<1> USE RunFits
<1>1. /\ a.pc = "call" /\ calls' = Append(calls, call)
      /\ UNCHANGED <<controlVars, log, claims, fatal, lapsed, found, crashes, faults>>
  BY CallAdapterEffect
<1>2. PICK outcome \in {"accepted", "refused", "lost"} :
        Becomes(h, <<outcome, a.op, a.cmd, a.token, a.rest, a.snap, a.todo, a.then>>)
  BY CallAdapterEffect
<1>3. /\ At(h) = "call" /\ a.todo = <<>>
      /\ a.rest # {} => Scheduler(a.op)
      /\ a.rest = {} => a.op.kind = "control" /\ a.op.what # "emergency-stop"
  BY <1>1 DEF PlaceFits, Suits, At, AdapterPlaces
<1>4. Suits(outcome, a.op, a.rest)
  BY <1>3, SuitsLoop, SuitsControl DEF AdapterPlaces, ControlPlaces
<1>5. Moved(h) /\ PlaceFits(h)'
  BY <1>2, <1>3, <1>4, GoesFit
<1>6. call \in CallType
  <2>1. /\ a.cmd.key \in Keys /\ a.cmd.fence \in Nat \ {0}
    BY <1>3, HandlerTyped DEF HandSound, Owns, OwnerPlaces
  <2>2. a.cmd.task \in Tasks
    <3>1. CASE a.rest # {}
      BY <1>3, <3>1 DEF RunInv, PromiseInv, HandlerPromised, AdapterPlaces
    <3>2. CASE a.rest = {}
      <4>1. a.op.task \in Released
        BY <1>3, <3>2 DEF RunInv, PromiseInv, HandlerPromised, AdapterPlaces
      <4>2. a.cmd.task = a.op.task
        BY <1>3, <3>2 DEF HandSound, Owns, OwnerPlaces
      <4> QED
        BY <4>1, <4>2 DEF Released
    <3> QED
      BY <3>1, <3>2
  <2>3. call.what \in Controls \cup {"dispatch"}
    BY <1>3, HandlerTyped, OperationForm
  <2>4. Len(log) \in Nat
    BY DEF TypeOK
  <2> QED
    BY <2>1, <2>2, <2>3, <2>4 DEF CallType
<1>7. TypeOK'
  <2>1. LedgerTyped'
    BY <1>1, QuietTyped
  <2>2. calls' \in Seq(CallType)
    <3> HIDE DEF call
    <3> QED
      BY <1>1, <1>6 DEF TypeOK
  <2> QED
    BY <1>1, <1>5, <2>1, <2>2 DEF TypeOK, LedgerTyped, Moved
<1> QED
  BY <1>5, <1>7, OthersFit DEF Fits

LEMMA RestartFits ==
  ASSUME RunInv, Restart
  PROVE  Fits'
<1> USE RunFits
<1>1. /\ LedgerTyped'
      /\ at' \in [Handlers -> HandlerType]
      /\ \A h \in Handlers : at'[h] = IF at[h].pc = "idle" THEN at[h] ELSE Done
      /\ claims' = {} /\ fatal' = FALSE /\ found' \subseteq Parts /\ crashes' \in 0..MaxCrashes
      /\ log' \in Seq(EventType)
      /\ UNCHANGED <<calls, lapsed, faults>>
  BY RestartEffect
<1>2. TypeOK'
  BY <1>1 DEF TypeOK, LedgerTyped
<1>3. ASSUME NEW h \in Handlers
      PROVE  PlaceFits(h)'
  <2>1. CASE at'[h] = at[h]
    BY <2>1 DEF PlaceFits, At
  <2>2. CASE at'[h] = Done
    <3>1. at'[h].pc = "done" /\ at'[h].rest = {} /\ at'[h].todo = <<>>
      BY <2>2, DoneFields DEF Fields
    <3> QED
      BY <3>1, SuitsDone DEF PlaceFits, At
  <2> QED
    BY <1>1, <2>1, <2>2
<1> QED
  BY <1>2, <1>3 DEF Fits

LEMMA LapseFits ==
  ASSUME RunInv, NEW t \in Tasks, Lapse(t)
  PROVE  Fits'
<1>1. TypeOK'
  BY RunFits DEF TypeOK, Lapse, controlVars
<1>2. at' = at
  BY DEF Lapse
<1> QED
  BY <1>1, <1>2, RunFits DEF Fits, PlaceFits, At

(* A step keeps the types and leaves every handler at a fitting place.     *)
LEMMA StepFits ==
  ASSUME RunInv, [Next]_vars
  PROVE  Fits'
<1>1. CASE UNCHANGED vars
  BY <1>1, RunFits DEF vars, Fits, TypeOK, PlaceFits, At
<1>2. CASE Next
  BY <1>2, ScheduleFits, AdapterFits, ControlFits, ResultFits, DecisionFits, ArrivalFits,
     AppendFits, CallFits, RestartFits, LapseFits DEF Next, HandlerStep
<1> QED
  BY <1>1, <1>2
=============================================================================
