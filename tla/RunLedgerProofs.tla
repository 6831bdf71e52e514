----------------------------- MODULE RunLedgerProofs -----------------------------
(***************************************************************************)
(* The ledger, the log, the calls and what the handlers know of them: no   *)
(* step of a handler breaks LedgerInv.                                     *)
(***************************************************************************)
EXTENDS RunSteps

-----------------------------------------------------------------------------
(* A step of handler h touches command k at most.  It creates it, or moves *)
(* it, as its owner or poller if it has one, or gives it its first fence.  *)

Creates(k) == ~Known(k)

MovesIt(h, k) ==
  /\ Known(k) /\ Known(k)'
  /\ commands'[k].task = commands[k].task /\ commands'[k].fence = commands[k].fence
  /\ commands[k].state = "requested" => Owns(h) /\ at[h].cmd.key = k
  /\ commands[k].state = "polling" => Polls(h) /\ at[h].cmd.key = k

RotatesIt(h, k) ==
  /\ at[h].pc = "rotate" /\ at[h].cmd.key = k
  /\ commands'[k].state = commands[k].state /\ commands'[k].task = commands[k].task

LeavesIt(h, k) ==
  /\ commands'[k] = commands[k]
  /\ \A e \in Queue(h)' : e \in Events \/ e.state = ""

Touches(h, k) == Creates(k) \/ MovesIt(h, k) \/ RotatesIt(h, k) \/ LeavesIt(h, k)

(* What the events it queues and its hand owe to the ledger.               *)
LedgerStep(h, k) ==
  /\ Moved(h)
  /\ \A j \in Keys \ {k} : commands'[j] = commands[j]
  /\ \A t \in TaskIDs : fences[t] <= fences'[t]
  /\ k \in Keys => Touches(h, k) /\ CommandSound(k)'
  /\ \A e \in Queue(h)' : e \in Events \/ (EventSound(e)' /\ (e.state # "" => e.key = k /\ k \in Keys))
  /\ HandSound(h)'
  /\ Owns(h)' => \/ Owns(h) /\ at'[h].cmd.key = at[h].cmd.key
                 \/ at'[h].cmd.key = k /\ k \in Keys /\ ~Known(k)
  /\ Polls(h)' => \/ Polls(h) /\ at'[h].cmd.key = at[h].cmd.key
                  \/ at'[h].cmd.key = k /\ k \in Keys /\ commands[k].state # "polling"

LEMMA LedgerNow ==
  ASSUME RunInv
  PROVE  /\ \A k \in Keys : CommandSound(k)
         /\ \A e \in Events : EventSound(e)
         /\ \A n \in 1..Len(calls) : CallSound(n)
         /\ \A m, n \in 1..Len(calls) : calls[m].key = calls[n].key => m = n
         /\ \A h \in Handlers : HandSound(h)
         /\ HandsApart
         /\ TypeOK
  BY RunFits DEF RunInv, LedgerInv

LEMMA EventsFrom ==
  ASSUME NEW h \in Handlers, Moved(h), log' = log
  PROVE  \A e \in Events' : e \in Events \/ e \in Queue(h)'
<1> SUFFICES ASSUME NEW e \in Events'
             PROVE  e \in Events \/ e \in Queue(h)'
  OBVIOUS
<1>1. CASE e \in LogEvents'
  BY <1>1 DEF LogEvents, Events
<1>2. CASE e \in UNION {Queue(g)' : g \in Handlers}
  <2>1. PICK g \in Handlers : e \in Queue(g)'
    BY <1>2
  <2>2. g # h => Queue(g)' = Queue(g)
    BY DEF Moved, Queue
  <2> QED
    BY <2>1, <2>2 DEF Events
<1> QED
  BY <1>1, <1>2 DEF Events

(* Commands stay known and stay of their task.                             *)
LEMMA KeepsTasks ==
  ASSUME RunInv, NEW h \in Handlers, NEW k, LedgerStep(h, k), NEW j \in Keys, Known(j)
  PROVE  /\ Known(j)' /\ commands'[j].task = commands[j].task
         /\ commands'[j].fence # commands[j].fence => at[h].pc = "rotate" /\ at[h].cmd.key = j
<1>1. CASE j = k
  <2>1. Touches(h, k) /\ ~Creates(k)
    BY <1>1 DEF LedgerStep, Creates
  <2> QED
    BY <1>1, <2>1 DEF Touches, MovesIt, RotatesIt, LeavesIt, Known
<1>2. CASE j # k
  BY <1>2 DEF LedgerStep, Known
<1> QED
  BY <1>1, <1>2

LEMMA KeepsCommands ==
  ASSUME RunInv, TypeOK', NEW h \in Handlers, NEW k, LedgerStep(h, k)
  PROVE  \A j \in Keys : CommandSound(j)'
<1> SUFFICES ASSUME NEW j \in Keys, j # k
             PROVE  CommandSound(j)'
  BY DEF LedgerStep
<1>1. commands'[j] = commands[j] /\ \A t \in TaskIDs : fences[t] <= fences'[t]
  BY DEF LedgerStep
<1>2. CommandSound(j) /\ commands[j].task \in TaskIDs /\ commands[j].fence \in Nat
  BY LedgerNow DEF TypeOK, Command
<1>3. fences[commands[j].task] \in Nat /\ fences'[commands[j].task] \in Nat
  BY <1>2, LedgerNow DEF TypeOK
<1>4. fences[commands[j].task] <= fences'[commands[j].task]
  BY <1>1, <1>2
<1> QED
  BY <1>1, <1>2, <1>3, <1>4 DEF CommandSound, Known

LEMMA KeepsEvents ==
  ASSUME RunInv, TypeOK', NEW h \in Handlers, NEW k, LedgerStep(h, k), log' = log
  PROVE  \A e \in Events' : EventSound(e)'
<1> SUFFICES ASSUME NEW e \in Events
             PROVE  EventSound(e)'
  BY EventsFrom DEF LedgerStep
<1>1. EventSound(e)
  BY LedgerNow
<1>2. CASE e.state = ""
  BY <1>1, <1>2 DEF EventSound
<1>3. CASE e.state # ""
  <2>1. e.key \in Keys /\ Known(e.key)
        /\ commands[e.key].task = e.task /\ commands[e.key].fence = e.fence
    BY <1>1, <1>3 DEF EventSound
  <2>2. ~(at[h].pc = "rotate" /\ at[h].cmd.key = e.key)
    <3>1. at[h].pc = "rotate" => NeverShown(at[h].cmd.key)
      BY LedgerNow DEF HandSound, At
    <3> QED
      BY <1>3, <3>1 DEF NeverShown
  <2> QED
    BY <1>3, <2>1, <2>2, KeepsTasks DEF EventSound
<1> QED
  BY <1>2, <1>3

(* No step of h touches the command another handler owns or polls.         *)
LEMMA KeepsOthers ==
  ASSUME RunInv, NEW h \in Handlers, NEW k, LedgerStep(h, k), NEW g \in Handlers, g # h
  PROVE  LET j == at[g].cmd.key IN
         /\ Owns(g) => /\ commands'[j] = commands[j]
                       /\ \A e \in Queue(h)' : e.state # "" /\ e.key = j => e \in Events
         /\ Polls(g) => commands'[j] = commands[j]
<1> DEFINE j == at[g].cmd.key
<1>1. /\ Owns(g) => j \in Keys /\ commands[j].state = "requested"
      /\ Polls(g) => j \in Keys /\ commands[j].state = "polling"
  BY LedgerNow DEF HandSound, Polls, At
<1>2. /\ Owns(g) => ~(Owns(h) /\ at[h].cmd.key = j)
      /\ Polls(g) => ~(Polls(h) /\ at[h].cmd.key = j)
  BY LedgerNow DEF HandsApart
<1>3. CASE j # k
  BY <1>1, <1>3 DEF LedgerStep
<1>4. CASE j = k /\ (Owns(g) \/ Polls(g))
  <2>1. Touches(h, k) /\ ~Creates(k)
    BY <1>1, <1>4 DEF LedgerStep, Creates, Known
  <2>2. ~MovesIt(h, k)
    BY <1>1, <1>2, <1>4 DEF MovesIt
  <2>3. RotatesIt(h, k) => Owns(h) /\ at[h].cmd.key = k /\ commands[k].state = "requested"
    <3>1. at[h].pc = "rotate" => Owns(h)
      BY DEF Owns, At, OwnerPlaces
    <3> QED
      BY <3>1, LedgerNow DEF RotatesIt, HandSound
  <2>4. LeavesIt(h, k)
    BY <1>1, <1>2, <1>4, <2>1, <2>2, <2>3 DEF Touches
  <2> QED
    BY <1>4, <2>4 DEF LeavesIt
<1> QED
  BY <1>3, <1>4

LEMMA KeepsHands ==
  ASSUME RunInv, TypeOK', NEW h \in Handlers, NEW k, LedgerStep(h, k), log' = log,
         NEW g \in Handlers, g # h, NeverCalled(at[g].cmd.key) /\ Owns(g) => NeverCalled(at[g].cmd.key)'
  PROVE  HandSound(g)'
<1> DEFINE a == at[g]
           j == a.cmd.key
<1>1. at'[g] = at[g] /\ (At(g) = At(g)') /\ (Owns(g) <=> Owns(g)') /\ (Polls(g) <=> Polls(g)')
  BY DEF LedgerStep, Moved, At, Owns, Polls
<1>2. HandSound(g)
  BY LedgerNow
<1>3. \A t \in TaskIDs : fences[t] <= fences'[t] /\ fences[t] \in Nat /\ fences'[t] \in Nat
  BY LedgerNow DEF LedgerStep, TypeOK
<1>4. a.cmd.task \in TaskIDs /\ a.cmd.fence \in Nat /\ a.op.task \in TaskIDs /\ a.token \in Nat
  BY LedgerNow, HandlerTyped, OperationForm
<1>5. /\ Owns(g) => commands'[j] = commands[j]
      /\ Polls(g) => commands'[j] = commands[j]
      /\ Owns(g) => \A e \in Queue(h)' : e.state # "" /\ e.key = j => e \in Events
  BY KeepsOthers
<1>6. LogEvents' = LogEvents
  BY DEF LogEvents
<1>7. NeverShown(j) /\ Owns(g) => NeverShown(j)'
  <2>1. \A e \in Events' : e \in Events \/ e \in Queue(h)'
    BY EventsFrom DEF LedgerStep
  <2> SUFFICES ASSUME NeverShown(j), Owns(g), NEW e \in Events', e.state # ""
               PROVE  e.key # j
    BY <1>1 DEF NeverShown
  <2> QED
    BY <1>5, <2>1 DEF NeverShown
<1>8. At(g) \in {"claim", "poll"} => Known(j)' /\ commands'[j].task = a.op.task
  <2> SUFFICES ASSUME At(g) \in {"claim", "poll"}
               PROVE  commands'[j].state # "absent" /\ commands'[j].task = a.op.task
    BY <1>1 DEF Known
  <2>1. j \in Keys /\ Known(j) /\ commands[j].task = a.op.task
    BY <1>2 DEF HandSound
  <2> HIDE DEF j
  <2> QED
    BY <2>1, KeepsTasks DEF Known
<1>9. At(g) = "rotate" \/ At(g) = "call" => Owns(g)
  BY DEF Owns, OwnerPlaces
<1>10. (Owns(g) \/ At(g) = "retryRequest" =>
          /\ a.cmd.fence <= fences'[a.cmd.task]
          /\ a.rest = {} => a.cmd.task = a.op.task)
  BY <1>2, <1>3, <1>4 DEF HandSound
<1>11. At(g) = "controlRequest" => a.token <= fences'[a.op.task]
  BY <1>2, <1>3, <1>4 DEF HandSound
<1> QED
  BY <1>1, <1>2, <1>5, <1>6, <1>7, <1>8, <1>9, <1>10, <1>11 DEF HandSound

LEMMA KeepsApart ==
  ASSUME RunInv, NEW h \in Handlers, NEW k, LedgerStep(h, k)
  PROVE  HandsApart'
<1>1. \A g \in Handlers : g # h =>
        at'[g] = at[g] /\ (Owns(g)' <=> Owns(g)) /\ (Polls(g)' <=> Polls(g))
  BY DEF LedgerStep, Moved, Owns, At, Polls
<1>2. ASSUME NEW g \in Handlers, g # h, at'[g].cmd.key = at'[h].cmd.key
      PROVE  ~(Owns(g)' /\ Owns(h)') /\ ~(Polls(g)' /\ Polls(h)')
  <2>1. /\ Owns(g) => at[g].cmd.key \in Keys /\ commands[at[g].cmd.key].state = "requested"
        /\ Polls(g) => commands[at[g].cmd.key].state = "polling"
    BY LedgerNow DEF HandSound
  <2>2. at[g].cmd.key = at[h].cmd.key => ~(Owns(g) /\ Owns(h)) /\ ~(Polls(g) /\ Polls(h))
    BY <1>2, LedgerNow DEF HandsApart
  <2> QED
    BY <1>1, <1>2, <2>1, <2>2 DEF LedgerStep, Known
<1>3. ASSUME NEW f \in Handlers, NEW g \in Handlers, f # h, g # h,
             at'[f].cmd.key = at'[g].cmd.key
      PROVE  (Owns(f)' /\ Owns(g)' => f = g) /\ (Polls(f)' /\ Polls(g)' => f = g)
  BY <1>1, <1>3, LedgerNow DEF HandsApart
<1> QED
  BY <1>2, <1>3 DEF HandsApart

(* A step that appends nothing and calls nobody.                           *)
LEMMA LedgerFrame ==
  ASSUME RunInv, TypeOK', NEW h \in Handlers, NEW k, LedgerStep(h, k), log' = log, calls' = calls
  PROVE  LedgerInv'
<1>1. \A j \in Keys : CommandSound(j)'
  BY KeepsCommands
<1>2. \A e \in Events' : EventSound(e)'
  BY KeepsEvents
<1>3. /\ \A n \in 1..Len(calls') : CallSound(n)'
      /\ \A m, n \in 1..Len(calls') : calls'[m].key = calls'[n].key => m = n
  BY LedgerNow DEF CallSound
<1>4. \A g \in Handlers : HandSound(g)'
  <2>1. \A j : NeverCalled(j) => NeverCalled(j)'
    BY DEF NeverCalled
  <2>2. ASSUME NEW g \in Handlers, g # h
        PROVE  HandSound(g)'
    <3>1. at'[g] = at[g]
      BY <2>2 DEF LedgerStep, Moved
    <3> QED
      BY <2>1, <2>2, <3>1, KeepsHands
  <2> QED
    BY <2>2 DEF LedgerStep
<1>5. HandsApart'
  BY KeepsApart
<1> QED
  BY <1>1, <1>2, <1>3, <1>4, <1>5 DEF LedgerInv

-----------------------------------------------------------------------------
(* Where nothing is known of the hand, and what gets queued there.         *)

Unbound == {"idle", "done", "schedule", "guard", "request", "advance", "scheduled", "commit",
            "finish", "claimDecision", "settle", "pending"}

(* Handler h is where nothing is asked of its hand, its queue records      *)
(* nothing.                                                                *)
Free(h) == At(h)' \in Unbound /\ \A e \in Queue(h)' : e.state = "" /\ e.fence = 0

LEMMA UnboundHand ==
  ASSUME NEW h \in Handlers, At(h)' \in Unbound
  PROVE  HandSound(h)' /\ ~Owns(h)' /\ ~Polls(h)'
<1>1. /\ At(h)' \notin OwnerPlaces \cup {"retryRequest", "claim", "poll", "doubt", "rotate", "call",
                                        "controlRequest"}
      /\ at'[h].pc \notin RecordedPlaces
      /\ At(h)' \notin RecordedPlaces
  BY DEF Unbound, At, OwnerPlaces, RecordedPlaces
<1> QED
  BY <1>1 DEF HandSound, Owns, Polls

LEMMA PlainQueue ==
  ASSUME NEW h \in Handlers, NEW events, NEW first, Reports(events, first), at'[h].todo = events
  PROVE  \A e \in Queue(h)' : e = first \/ Plain(e)
<1> SUFFICES ASSUME NEW i \in 1..Len(events)
             PROVE  events[i] = first \/ Plain(events[i])
  BY DEF Queue
<1>1. i = 1 \/ i \in 2..Len(events)
  BY DEF Reports
<1> QED
  BY <1>1 DEF Reports

LEMMA EmptyQueue ==
  ASSUME NEW h \in Handlers, at'[h].todo = <<>>
  PROVE  Queue(h)' = {}
  BY DEF Queue

LEMMA SingleQueue ==
  ASSUME NEW h \in Handlers, NEW e, at'[h].todo = <<e>>
  PROVE  Queue(h)' = {e}
  BY DEF Queue

LEMMA PairQueue ==
  ASSUME NEW h \in Handlers, NEW e, NEW f, at'[h].todo = <<e, f>>
  PROVE  Queue(h)' = {e, f}
<1>1. Len(<<e, f>>) = 2
  OBVIOUS
<1> QED
  BY <1>1 DEF Queue

LEMMA LeavesQueue ==
  ASSUME NEW op, NEW h \in Handlers, LeavesLoop(op, at'[h])
  PROVE  At(h)' \in {"done", "finish", "pending"} /\ \A e \in Queue(h)' : Plain(e)
<1>1. CASE at'[h].todo = <<>> /\ at'[h].pc \in {"done", "finish", "pending"}
  BY <1>1, EmptyQueue DEF At
<1>2. CASE /\ at'[h].todo = <<RunEvent("dispatch.failed")>> /\ at'[h].pc = "append"
           /\ at'[h].then = "done"
  <2>1. Plain(RunEvent("dispatch.failed"))
    BY EventPlain, RunTaskAssumption DEF RunEvent, PlainTypes, EventTypes
  <2> QED
    BY <1>2, <2>1, SingleQueue DEF At
<1> QED
  BY <1>1, <1>2 DEF LeavesLoop

LEMMA VisitsQueue ==
  ASSUME NEW op, NEW snap, NEW rest, rest \subseteq Tasks, NEW h \in Handlers,
         Visits(op, snap, rest, at'[h])
  PROVE  At(h)' = "guard" /\ \A e \in Queue(h)' : Plain(e)
<1>1. First(rest) \in TaskIDs
  BY FirstIn, TasksAreIDs DEF Visits
<1>2. Plain(Event("routing.decided", First(rest)))
  BY <1>1, EventPlain DEF PlainTypes, EventTypes
<1>3. /\ at'[h].todo = <<Event("routing.decided", First(rest))>>
      /\ at'[h].pc = "append" /\ at'[h].then = "guard"
  BY DEF Visits
<1> QED
  BY <1>2, <1>3, SingleQueue DEF At

LEMMA IdlesQueue ==
  ASSUME NEW h \in Handlers, Idles(h)
  PROVE  Moved(h) /\ At(h)' = "done" /\ Queue(h)' = {}
<1>1. Moved(h) /\ at'[h].pc = "done" /\ at'[h].todo = <<>>
  BY DEF Idles, Becomes, Fields
<1> QED
  BY <1>1, EmptyQueue DEF At

LEMMA LoopFree ==
  ASSUME NEW op, NEW snap, NEW rest, rest \subseteq Tasks, NEW h \in Handlers,
         LeavesLoop(op, at'[h]) \/ Visits(op, snap, rest, at'[h])
  PROVE  Free(h)
  BY LeavesQueue, VisitsQueue DEF Free, Plain, Unbound

LEMMA LeavesFree ==
  ASSUME NEW op, NEW h \in Handlers, LeavesLoop(op, at'[h])
  PROVE  Free(h)
  BY LeavesQueue DEF Free, Plain, Unbound

LEMMA IdlesFree ==
  ASSUME NEW h \in Handlers, Idles(h)
  PROVE  Free(h)
  BY IdlesQueue DEF Free, Unbound

LEMMA GoesFree ==
  ASSUME NEW h \in Handlers, NEW pc \in Unbound, NEW op, NEW cmd, NEW token, NEW rest, NEW snap,
         NEW then, Becomes(h, <<pc, op, cmd, token, rest, snap, <<>>, then>>)
  PROVE  Free(h)
<1>1. at'[h].pc = pc /\ at'[h].todo = <<>> /\ pc # "append"
  BY DEF Becomes, Fields, Unbound
<1> QED
  BY <1>1, EmptyQueue DEF Free, At

LEMMA EmitsFree ==
  ASSUME NEW h \in Handlers, NEW pc \in Unbound, NEW op, NEW cmd, NEW token, NEW rest, NEW snap,
         NEW events, Becomes(h, <<"append", op, cmd, token, rest, snap, events, pc>>),
         \A e \in Queue(h)' : e.state = "" /\ e.fence = 0
  PROVE  Free(h)
<1>1. at'[h].pc = "append" /\ at'[h].then = pc
  BY DEF Becomes, Fields
<1> QED
  BY <1>1 DEF Free, At

-----------------------------------------------------------------------------
(* Steps that leave the ledger alone.                                      *)

LEMMA SameFences ==
  ASSUME RunInv, fences' = fences
  PROVE  \A t \in TaskIDs : fences[t] <= fences'[t]
<1>1. \A t \in TaskIDs : fences[t] \in Nat
  BY LedgerNow DEF TypeOK
<1> QED
  BY <1>1

LEMMA QuietLedger ==
  ASSUME RunInv, TypeOK', NEW h \in Handlers, Moved(h), UNCHANGED controlVars, log' = log,
         calls' = calls, \A e \in Queue(h)' : e.state = "" /\ e.fence = 0,
         HandSound(h)', ~Owns(h)', ~Polls(h)'
  PROVE  LedgerInv'
<1> DEFINE k == NoKey
<1>1. k \notin Keys
  BY KeyFormAssumption
<1>2. commands' = commands /\ fences' = fences
  BY DEF controlVars
<1>3. \A t \in TaskIDs : fences[t] <= fences'[t]
  BY <1>2, SameFences
<1>4. \A e \in Queue(h)' : EventSound(e)'
  BY DEF EventSound
<1> HIDE DEF k
<1>5. LedgerStep(h, k)
  BY <1>1, <1>2, <1>3, <1>4 DEF LedgerStep
<1> QED
  BY <1>5, LedgerFrame

LEMMA FreeLedger ==
  ASSUME RunInv, TypeOK', NEW h \in Handlers, Moved(h), UNCHANGED controlVars, log' = log,
         calls' = calls, Free(h)
  PROVE  LedgerInv'
  BY QuietLedger, UnboundHand DEF Free

-----------------------------------------------------------------------------
(* Steps that move a command.                                              *)

LEMMA CommandEventFields ==
  ASSUME NEW c, NEW e, \E type : e = CommandEvent(type, c)
  PROVE  e.key = c.key /\ e.task = c.task /\ e.state = c.state /\ e.fence = c.fence
  BY DEF CommandEvent

LEMMA NoCmdFields == NoCmd.state = "" /\ NoCmd.fence = 0
  BY DEF NoCmd

LEMMA CmdFields ==
  ASSUME NEW k, NEW t, NEW to, NEW f, NEW c, c = [key |-> k, task |-> t, state |-> to, fence |-> f]
  PROVE  c.key = k /\ c.task = t /\ c.state = to /\ c.fence = f
  OBVIOUS

LEMMA MoveLedger ==
  ASSUME RunInv, TypeOK', NEW h \in Handlers, Moved(h), NEW k \in Keys, NEW to \in CommandState,
         TryTransition(k, to), log' = log, calls' = calls,
         TransitionAllowed(k, to) =>
           /\ commands[k].state = "requested" => Owns(h) /\ at[h].cmd.key = k
           /\ commands[k].state = "polling" => Polls(h) /\ at[h].cmd.key = k,
         \A e \in Queue(h)' : \/ e.state = "" /\ e.fence = 0
                              \/ \E type : e = CommandEvent(type, Returned(k, to)),
         HandSound(h)', ~Owns(h)',
         Polls(h)' => at'[h].cmd.key = k /\ commands[k].state # "polling"
  PROVE  LedgerInv'
<1>1. /\ LedgerTyped' /\ OnlyState(k)
      /\ \/ /\ TransitionAllowed(k, to) /\ commands'[k].state = to
            /\ Returned(k, to) = [key |-> k, task |-> commands'[k].task, state |-> to,
                                  fence |-> commands'[k].fence]
         \/ ~TransitionAllowed(k, to) /\ UNCHANGED controlVars /\ Returned(k, to) = NoCmd
  BY RunFits, TryEffect
<1>2. /\ \A j \in Keys \ {k} : commands'[j] = commands[j]
      /\ commands'[k].task = commands[k].task /\ commands'[k].fence = commands[k].fence
      /\ fences' = fences
  BY <1>1 DEF OnlyState
<1>3. \A t \in TaskIDs : fences[t] <= fences'[t]
  BY <1>2, SameFences
<1>4. Touches(h, k) /\ CommandSound(k)'
       /\ \A e \in Queue(h)' : EventSound(e)' /\ (e.state # "" => e.key = k)
  <2>1. CASE /\ TransitionAllowed(k, to) /\ commands'[k].state = to
             /\ Returned(k, to) = [key |-> k, task |-> commands'[k].task, state |-> to,
                                   fence |-> commands'[k].fence]
    <3>1. Known(k) /\ Known(k)'
      BY <2>1 DEF TransitionAllowed, Moves, Known, CommandState
    <3>2. MovesIt(h, k)
      BY <1>2, <2>1, <3>1 DEF MovesIt
    <3>3. CommandSound(k)'
      BY <1>2, <3>1, LedgerNow DEF CommandSound
    <3>4. ASSUME NEW e \in Queue(h)'
          PROVE  EventSound(e)' /\ (e.state # "" => e.key = k)
      <4>1. CASE e.state = "" /\ e.fence = 0
        BY <4>1 DEF EventSound
      <4>2. CASE \E type : e = CommandEvent(type, Returned(k, to))
        <5>1. /\ e.key = k /\ e.task = commands'[k].task /\ e.fence = commands'[k].fence
              /\ e.state = to
          <6> DEFINE c == Returned(k, to)
          <6>1. e.key = c.key /\ e.task = c.task /\ e.state = c.state /\ e.fence = c.fence
            BY <4>2, CommandEventFields
          <6>2. /\ c.key = k /\ c.task = commands'[k].task /\ c.fence = commands'[k].fence
                /\ c.state = to
            <7> DEFINE t == commands'[k].task
                       f == commands'[k].fence
            <7>1. c = [key |-> k, task |-> t, state |-> to, fence |-> f]
              BY <2>1
            <7> HIDE DEF c, t, f
            <7>2. c.key = k /\ c.task = t /\ c.fence = f /\ c.state = to
              BY <7>1, CmdFields
            <7> QED
              BY <7>2 DEF c, t, f
          <6> QED
            BY <6>1, <6>2
        <5>2. e.state # ""
          BY <5>1 DEF CommandState
        <5> QED
          BY <3>1, <5>1, <5>2 DEF EventSound, Known
      <4> QED
        BY <4>1, <4>2
    <3> QED
      BY <3>2, <3>3, <3>4 DEF Touches
  <2>2. CASE ~TransitionAllowed(k, to) /\ UNCHANGED controlVars /\ Returned(k, to) = NoCmd
    <3>1. commands' = commands
      BY <2>2 DEF controlVars
    <3>2. ASSUME NEW e \in Queue(h)'
          PROVE  e.state = "" /\ e.fence = 0
      <4>1. CASE \E type : e = CommandEvent(type, Returned(k, to))
        <5>1. e.state = NoCmd.state /\ e.fence = NoCmd.fence
          BY <2>2, <4>1, CommandEventFields
        <5> QED
          BY <5>1, NoCmdFields
      <4> QED
        BY <4>1
    <3>3. LeavesIt(h, k)
      BY <3>1, <3>2 DEF LeavesIt
    <3>4. CommandSound(k)'
      BY <1>2, <3>1, LedgerNow DEF CommandSound, Known
    <3> QED
      BY <3>2, <3>3, <3>4 DEF Touches, EventSound
  <2> QED
    BY <1>1, <2>1, <2>2
<1>5. LedgerStep(h, k)
  BY <1>2, <1>3, <1>4 DEF LedgerStep
<1> QED
  BY <1>5, LedgerFrame

-----------------------------------------------------------------------------
(* Steps that leave the ledger alone and leave nothing to know of a hand.  *)

LEMMA BlankEvent ==
  ASSUME NEW type, NEW t
  PROVE  Event(type, t).state = "" /\ Event(type, t).fence = 0
  BY DEF Event

LEMMA EmitsOneFree ==
  ASSUME NEW h \in Handlers, NEW pc \in Unbound, NEW op, NEW cmd, NEW token, NEW rest, NEW snap,
         NEW e, e.state = "" /\ e.fence = 0,
         Becomes(h, <<"append", op, cmd, token, rest, snap, <<e>>, pc>>)
  PROVE  Free(h)
<1>1. at'[h].todo = <<e>>
  BY DEF Becomes, Fields
<1>2. \A d \in Queue(h)' : d.state = "" /\ d.fence = 0
  BY <1>1, SingleQueue
<1> QED
  BY <1>2, EmitsFree

LEMMA EmitsPlainFree ==
  ASSUME NEW h \in Handlers, NEW pc \in Unbound, NEW op, NEW cmd, NEW token, NEW rest, NEW snap,
         NEW events, AllPlain(events),
         Becomes(h, <<"append", op, cmd, token, rest, snap, events, pc>>)
  PROVE  Free(h)
<1>1. at'[h].todo = events
  BY DEF Becomes, Fields
<1>2. \A e \in Queue(h)' : e.state = "" /\ e.fence = 0
  BY <1>1 DEF Queue, AllPlain, Plain
<1> QED
  BY <1>2, EmitsFree

LEMMA EmitsReportFree ==
  ASSUME NEW h \in Handlers, NEW pc \in Unbound, NEW op, NEW cmd, NEW token, NEW rest, NEW snap,
         NEW events, NEW first, first.state = "" /\ first.fence = 0, Reports(events, first),
         Becomes(h, <<"append", op, cmd, token, rest, snap, events, pc>>)
  PROVE  Free(h)
<1>1. at'[h].todo = events
  BY DEF Becomes, Fields
<1>2. \A e \in Queue(h)' : e = first \/ Plain(e)
  BY <1>1, PlainQueue
<1>3. \A e \in Queue(h)' : e.state = "" /\ e.fence = 0
  BY <1>2 DEF Plain
<1> QED
  BY <1>3, EmitsFree

LEMMA StartLedger ==
  ASSUME RunInv, TypeOK', StartDispatch
  PROVE  LedgerInv'
<1>1. /\ Start \in Handlers /\ UNCHANGED controlVars /\ Stay
      /\ Becomes(Start, <<"append", StartOp, NoCmd, 0, {}, NoSnap,
                          <<RunEvent("dispatch.started")>>, "schedule">>)
  BY RunFits, StartEffect
<1>2. Moved(Start)
  BY <1>1 DEF Becomes
<1>3. Free(Start)
  BY <1>1, BlankEvent, EmitsOneFree DEF RunEvent, Unbound
<1> QED
  BY <1>1, <1>2, <1>3, FreeLedger DEF Stay

LEMMA ScheduleLedger ==
  ASSUME RunInv, TypeOK', NEW h \in Handlers, Schedule(h) \/ AskApproval(h) \/ LookUp(h)
  PROVE  LedgerInv'
<1> DEFINE a == at[h]
<1>0. "scheduled" \in Unbound /\ "request" \in Unbound
  BY DEF Unbound
<1>1. a.rest \subseteq Tasks
  BY RunFits, HandlerTyped
<1>2. UNCHANGED controlVars /\ Stay /\ Moved(h)
  BY RunFits, ScheduleEffect, AskEffect, LookUpEffect
<1>3. CASE Schedule(h)
  <2>1. {t \in Tasks : Defined /\ Ready(t)} \subseteq Tasks
    OBVIOUS
  <2>2. Free(h)
    BY <1>3, <2>1, RunFits, ScheduleEffect, LoopFree
  <2> QED
    BY <1>2, <2>2, FreeLedger DEF Stay
<1>4. CASE AskApproval(h)
  <2> DEFINE e == Event("approval.requested", First(a.rest))
  <2>1. \/ LeavesLoop(a.op, at'[h])
        \/ Fields(at'[h]) = <<"append", a.op, a.cmd, a.token, a.rest, a.snap, <<e>>, "scheduled">>
    BY <1>4, RunFits, AskEffect
  <2>2. ASSUME LeavesLoop(a.op, at'[h])
        PROVE  Free(h)
    BY <2>2, LeavesFree
  <2>3. ASSUME Fields(at'[h]) = <<"append", a.op, a.cmd, a.token, a.rest, a.snap, <<e>>, "scheduled">>
        PROVE  Free(h)
    <3>1. Becomes(h, <<"append", a.op, a.cmd, a.token, a.rest, a.snap, <<e>>, "scheduled">>)
      BY <1>2, <2>3 DEF Becomes
    <3>2. e.state = "" /\ e.fence = 0
      BY BlankEvent
    <3> HIDE DEF a, e
    <3> QED
      BY <1>0, <3>1, <3>2, EmitsOneFree
  <2> QED
    BY <1>2, <2>1, <2>2, <2>3, FreeLedger DEF Stay
<1>5. CASE LookUp(h)
  <2>1. /\ a.pc = "guard"
        /\ \/ LeavesLoop(a.op, at'[h])
           \/ Visits(a.op, a.snap, a.rest \ {First(a.rest)}, at'[h])
           \/ Fields(at'[h]) = <<"request", a.op, a.cmd, a.token, a.rest, a.snap, a.todo, a.then>>
    BY <1>5, RunFits, LookUpEffect
  <2>2. a.rest \ {First(a.rest)} \subseteq Tasks
    BY <1>1
  <2>3. ASSUME Fields(at'[h]) = <<"request", a.op, a.cmd, a.token, a.rest, a.snap, a.todo, a.then>>
        PROVE  Free(h)
    <3>1. a.todo = <<>>
      BY <2>1, PlaceNow
    <3>2. Becomes(h, <<"request", a.op, a.cmd, a.token, a.rest, a.snap, <<>>, a.then>>)
      BY <1>2, <2>3, <3>1 DEF Becomes
    <3> HIDE DEF a
    <3> QED
      BY <1>0, <3>2, GoesFree
  <2> QED
    BY <1>2, <2>1, <2>2, <2>3, LeavesFree, LoopFree, FreeLedger DEF Stay
<1> QED
  BY <1>3, <1>4, <1>5

-----------------------------------------------------------------------------
(* Steps that create a command.                                            *)

(* Of a key never requested the log shows nothing and the runtime heard    *)
(* nothing.                                                                *)
LEMMA UnknownKey ==
  ASSUME RunInv, NEW k \in Keys, ~Known(k)
  PROVE  NeverShown(k) /\ NeverCalled(k)
<1>1. NeverShown(k)
  BY LedgerNow DEF NeverShown, EventSound
<1>2. ASSUME NEW n \in 1..Len(calls), calls[n].key = k
      PROVE  FALSE
  <2>1. calls \in Seq(CallType) /\ calls[n] \in CallType
    BY <1>2, LedgerNow DEF TypeOK
  <2>2. calls[n].logged \in Nat /\ Len(log) \in Nat
    BY <2>1, LedgerNow DEF CallType, TypeOK
  <2>3. PICK i \in 1..calls[n].logged : Records(log[i], calls[n])
    BY <1>2, LedgerNow DEF CallSound
  <2>4. calls[n].logged <= Len(log)
    BY <1>2, LedgerNow DEF CallSound
  <2>5. i \in 1..Len(log)
    BY <2>2, <2>3, <2>4
  <2>6. log[i] \in Events
    BY <2>5 DEF LogEvents, Events
  <2>7. log[i].state = "requested" /\ log[i].key = k
    BY <1>2, <2>3 DEF Records
  <2> QED
    BY <1>1, <2>6, <2>7 DEF NeverShown
<1> QED
  BY <1>1, <1>2 DEF NeverCalled

LEMMA CommandEventRecords ==
  ASSUME NEW type, NEW k, NEW t, NEW f, NEW cmd,
         cmd = [key |-> k, task |-> t, state |-> "requested", fence |-> f]
  PROVE  LET e == CommandEvent(type, cmd) IN
         /\ e.key = k /\ e.task = t /\ e.state = "requested" /\ e.fence = f
         /\ cmd.key = k /\ cmd.task = t /\ cmd.fence = f /\ cmd.state = "requested"
         /\ Records(e, cmd)
  BY DEF CommandEvent, Records

(* Handler h has command k, just requested, in its hand.                   *)
Takes(h, cmd) ==
  /\ Moved(h)
  /\ at'[h].cmd = cmd /\ at'[h].op = at[h].op /\ at'[h].rest = at[h].rest
  /\ \/ at'[h].pc = "rotate" /\ at'[h].todo = <<>>
     \/ /\ at'[h].pc = "append" /\ at'[h].then \in {"stop", "call", "retryAck"}
        /\ at'[h].then = "call" => cmd.fence # 0
        /\ \E type : at'[h].todo = <<CommandEvent(type, cmd)>>

LEMMA TakesQueue ==
  ASSUME NEW h \in Handlers, NEW k, NEW t, NEW f, NEW cmd, Takes(h, cmd),
         cmd = [key |-> k, task |-> t, state |-> "requested", fence |-> f]
  PROVE  /\ \A e \in Queue(h)' : /\ e.key = k /\ e.task = t /\ e.state = "requested"
                                 /\ e.fence = f
         /\ at'[h].pc = "append" => Len(at'[h].todo) = 1 /\ Records(at'[h].todo[1], cmd)
         /\ at'[h].pc = "rotate" => Queue(h)' = {}
<1>1. CASE at'[h].pc = "rotate" /\ at'[h].todo = <<>>
  BY <1>1, EmptyQueue
<1>2. CASE at'[h].pc = "append" /\ \E type : at'[h].todo = <<CommandEvent(type, cmd)>>
  <2>1. PICK type : at'[h].todo = <<CommandEvent(type, cmd)>>
    BY <1>2
  <2> DEFINE e == CommandEvent(type, cmd)
  <2>2. e.key = k /\ e.task = t /\ e.state = "requested" /\ e.fence = f /\ Records(e, cmd)
    BY CommandEventRecords
  <2> HIDE DEF e
  <2>3. Queue(h)' = {e}
    BY <2>1, SingleQueue DEF e
  <2>4. Len(at'[h].todo) = 1 /\ at'[h].todo[1] = e
    BY <2>1 DEF e
  <2> QED
    BY <1>2, <2>2, <2>3, <2>4
<1> QED
  BY <1>1, <1>2 DEF Takes

LEMMA CreateLedger ==
  ASSUME RunInv, TypeOK', NEW h \in Handlers, NEW k \in Keys, NEW t \in TaskIDs, NEW f \in Nat,
         t = k[2], f <= fences[t], RequestOnce(k, t, f), log' = log, calls' = calls,
         NEW cmd, cmd = [key |-> k, task |-> t, state |-> "requested", fence |-> f],
         at[h].rest = {} => t = at[h].op.task, Takes(h, cmd)
  PROVE  LedgerInv'
<1>1. /\ ~Known(k) /\ \A j \in Keys \ {k} : commands'[j] = commands[j]
      /\ commands'[k].state = "requested" /\ commands'[k].task = t /\ commands'[k].fence = f
      /\ fences' = fences
  BY RunFits, RequestEffect
<1>2. NeverShown(k) /\ NeverCalled(k)
  BY <1>1, UnknownKey
<1>3. /\ \A e \in Queue(h)' : e.key = k /\ e.task = t /\ e.state = "requested" /\ e.fence = f
      /\ at'[h].pc = "append" => Len(at'[h].todo) = 1 /\ Records(at'[h].todo[1], cmd)
      /\ at'[h].pc = "rotate" => Queue(h)' = {}
  BY TakesQueue
<1>4. cmd.key = k /\ cmd.task = t /\ cmd.fence = f /\ cmd.state = "requested"
  BY CommandEventRecords
<1>5. /\ Moved(h) /\ at'[h].cmd = cmd /\ at'[h].op = at[h].op /\ at'[h].rest = at[h].rest
      /\ \/ at'[h].pc = "rotate" /\ At(h)' = "rotate"
         \/ /\ at'[h].pc = "append" /\ At(h)' \in {"stop", "call", "retryAck"}
            /\ At(h)' = "call" => f # 0
  BY <1>4 DEF Takes, At
<1>6. Owns(h)' /\ ~Polls(h)'
  BY <1>5 DEF Owns, OwnerPlaces, Polls
<1>7. CommandSound(k)'
  BY <1>1 DEF CommandSound
<1>8. ASSUME At(h)' = "rotate"
      PROVE  NeverShown(k)'
  <2>1. Queue(h)' = {}
    BY <1>3, <1>5, <1>8
  <2>2. Events' \subseteq Events
    BY <1>5, <2>1, EventsFrom
  <2> QED
    BY <1>2, <2>2 DEF NeverShown
<1>9. NeverCalled(k)'
  BY <1>2 DEF NeverCalled
<1>10. HandSound(h)'
  <2>1. /\ At(h)' \notin {"retryRequest", "claim", "poll", "doubt", "controlRequest"}
        /\ at'[h].pc \notin RecordedPlaces
    BY <1>5 DEF RecordedPlaces, OwnerPlaces
  <2>2. cmd.fence <= fences'[cmd.task] /\ (at'[h].rest = {} => cmd.task = at'[h].op.task)
    BY <1>1, <1>4, <1>5
  <2>3. cmd.key \in Keys /\ commands'[cmd.key].state = "requested"
        /\ commands'[cmd.key].task = cmd.task
    BY <1>1, <1>4
  <2> QED
    BY <1>3, <1>4, <1>5, <1>6, <1>8, <1>9, <2>1, <2>2, <2>3 DEF HandSound
<1>11. \A e \in Queue(h)' : EventSound(e)' /\ e.key = k
  BY <1>1, <1>3 DEF EventSound, Known
<1>12. \A u \in TaskIDs : fences[u] <= fences'[u]
  BY <1>1, SameFences
<1>13. Touches(h, k)
  BY <1>1 DEF Touches, Creates
<1>14. LedgerStep(h, k)
  BY <1>1, <1>4, <1>5, <1>6, <1>7, <1>10, <1>11, <1>12, <1>13 DEF LedgerStep
<1> QED
  BY <1>14, LedgerFrame

LEMMA IdlesLedger ==
  ASSUME RunInv, TypeOK', NEW h \in Handlers, Idles(h), UNCHANGED controlVars, log' = log,
         calls' = calls
  PROVE  LedgerInv'
  BY IdlesFree, FreeLedger DEF Idles, Becomes

(* A handler with nothing queued goes to `rotate` with a new command.      *)
LEMMA GoesTakes ==
  ASSUME NEW h \in Handlers, NEW cmd, NEW then,
         Becomes(h, <<"rotate", at[h].op, cmd, at[h].token, at[h].rest, at[h].snap, <<>>, then>>)
  PROVE  Takes(h, cmd)
  BY DEF Takes, Becomes, Fields

LEMMA QueuesTakes ==
  ASSUME NEW h \in Handlers, NEW cmd, NEW then \in {"stop", "call", "retryAck"},
         then = "call" => cmd.fence # 0, NEW type,
         Queues(h, cmd, <<CommandEvent(type, cmd)>>, then)
  PROVE  Takes(h, cmd)
  BY DEF Takes, Queues, Becomes, Fields

LEMMA RequestDispatchLedger ==
  ASSUME RunInv, TypeOK', NEW h \in Handlers, RequestDispatch(h)
  PROVE  LedgerInv'
<1> DEFINE a == at[h]
           t == First(a.rest)
           k == DispatchKey(t)
           cmd == [key |-> k, task |-> t, state |-> "requested", fence |-> 0]
<1>1. /\ a.pc = "request" /\ a.rest # {} /\ Moved(h) /\ Stay
      /\ t \in TaskIDs /\ k \in Keys
      /\ \/ UNCHANGED controlVars /\ LeavesLoop(a.op, at'[h])
         \/ UNCHANGED controlVars /\ Visits(a.op, a.snap, a.rest \ {t}, at'[h])
         \/ /\ RequestOnce(k, t, 0)
            /\ Fields(at'[h]) = <<"rotate", a.op, cmd, a.token, a.rest, a.snap, a.todo, a.then>>
  BY RunFits, RequestDispatchEffect
<1>2. CASE UNCHANGED controlVars /\ LeavesLoop(a.op, at'[h])
  BY <1>1, <1>2, LeavesFree, FreeLedger DEF Stay
<1>3. CASE UNCHANGED controlVars /\ Visits(a.op, a.snap, a.rest \ {t}, at'[h])
  <2>1. a.rest \ {t} \subseteq Tasks
    BY RunFits, HandlerTyped
  <2>2. Free(h)
    BY <1>3, <2>1, LoopFree
  <2> QED
    BY <1>1, <1>3, <2>2, FreeLedger DEF Stay
<1>4. CASE /\ RequestOnce(k, t, 0)
           /\ Fields(at'[h]) = <<"rotate", a.op, cmd, a.token, a.rest, a.snap, a.todo, a.then>>
  <2>1. a.todo = <<>>
    BY <1>1, PlaceNow
  <2>2. Becomes(h, <<"rotate", at[h].op, cmd, at[h].token, at[h].rest, at[h].snap, <<>>, a.then>>)
    BY <1>1, <1>4, <2>1 DEF Becomes
  <2>3. fences[t] \in Nat
    BY <1>1, LedgerNow DEF TypeOK
  <2>4. t = k[2] /\ 0 <= fences[t]
    BY <2>3 DEF DispatchKey
  <2>5. cmd = [key |-> k, task |-> t, state |-> "requested", fence |-> 0]
    OBVIOUS
  <2>6. log' = log /\ calls' = calls
    BY <1>1 DEF Stay
  <2>7. at[h].rest # {} /\ RequestOnce(k, t, 0) /\ t \in TaskIDs /\ k \in Keys
    BY <1>1, <1>4
  <2> HIDE DEF a, t, k, cmd
  <2>8. Takes(h, cmd)
    BY <2>2, GoesTakes
  <2> QED
    BY <2>4, <2>5, <2>6, <2>7, <2>8, CreateLedger
<1> QED
  BY <1>1, <1>2, <1>3, <1>4

LEMMA RequestControlLedger ==
  ASSUME RunInv, TypeOK', NEW h \in Handlers, RequestControl(h)
  PROVE  LedgerInv'
<1> DEFINE a == at[h]
           k == a.op.key
           t == a.op.task
           f == a.token
           cmd == [key |-> k, task |-> t, state |-> "requested", fence |-> f]
           e == CommandEvent("control.requested", cmd)
<1>1. /\ a.pc = "controlRequest" /\ a.op.kind = "control" /\ k \in Keys /\ Stay
      /\ t \in TaskIDs /\ t = k[2]
      /\ \/ UNCHANGED controlVars /\ Idles(h)
         \/ /\ RequestOnce(k, t, f)
            /\ \/ /\ a.op.what # "emergency-stop"
                  /\ Becomes(h, <<"rotate", a.op, cmd, a.token, a.rest, a.snap, a.todo, a.then>>)
               \/ a.op.what = "emergency-stop" /\ Queues(h, cmd, <<e>>, "stop")
               \/ a.op.what # "emergency-stop" /\ Queues(h, cmd, <<e>>, "call")
  BY RunFits, RequestControlEffect
<1>2. log' = log /\ calls' = calls
  BY <1>1 DEF Stay
<1>3. CASE UNCHANGED controlVars /\ Idles(h)
  BY <1>2, <1>3, IdlesLedger
<1>4. /\ At(h) = "controlRequest" /\ a.todo = <<>> /\ f \in Nat
      /\ cmd = [key |-> k, task |-> t, state |-> "requested", fence |-> f]
  BY <1>1, PlaceNow, RunFits, HandlerTyped
<1>5. f <= fences[t]
  BY <1>4, RunFits DEF HandSound
<1>6. a.op.what # "emergency-stop" => f # 0
  <2>1. At(h) \in ControlPlaces
    BY <1>4 DEF ControlPlaces
  <2> QED
    BY <1>1, <2>1 DEF RunInv, PromiseInv, HandlerPromised
<1>7. cmd.fence = f
  OBVIOUS
<1>8. ASSUME RequestOnce(k, t, f), Takes(h, cmd)
      PROVE  LedgerInv'
  <2>1. k \in Keys /\ t \in TaskIDs /\ t = k[2] /\ (at[h].rest = {} => t = at[h].op.task)
    BY <1>1
  <2> HIDE DEF a, k, t, f, cmd
  <2> QED
    BY <1>2, <1>4, <1>5, <1>8, <2>1, CreateLedger
<1>9. ASSUME Becomes(h, <<"rotate", a.op, cmd, a.token, a.rest, a.snap, a.todo, a.then>>)
      PROVE  Takes(h, cmd)
  <2>1. Becomes(h, <<"rotate", at[h].op, cmd, at[h].token, at[h].rest, at[h].snap, <<>>, a.then>>)
    BY <1>4, <1>9
  <2> HIDE DEF a, cmd
  <2> QED
    BY <2>1, GoesTakes
<1>10. ASSUME NEW then \in {"stop", "call"}, then = "call" => a.op.what # "emergency-stop",
              Queues(h, cmd, <<e>>, then)
       PROVE  Takes(h, cmd)
  <2>1. then = "call" => cmd.fence # 0
    BY <1>6, <1>7, <1>10
  <2>2. Queues(h, cmd, <<CommandEvent("control.requested", cmd)>>, then)
    BY <1>10
  <2> HIDE DEF a, cmd
  <2> QED
    BY <2>1, <2>2, QueuesTakes
<1> QED
  <2> HIDE DEF a, k, t, f, cmd, e
  <2> QED
    BY <1>1, <1>3, <1>8, <1>9, <1>10

LEMMA RequestRetryLedger ==
  ASSUME RunInv, TypeOK', NEW h \in Handlers, RequestRetry(h)
  PROVE  LedgerInv'
<1> DEFINE a == at[h]
           k == RetryKey(a.op.task, a.op.key[3])
           t == a.op.task
           f == a.cmd.fence
           cmd == [key |-> k, task |-> t, state |-> "requested", fence |-> f]
           e == CommandEvent("command.requested", cmd)
<1>1. /\ a.pc = "retryRequest" /\ k \in Keys /\ Stay /\ t \in TaskIDs
      /\ \/ UNCHANGED controlVars /\ Idles(h)
         \/ RequestOnce(k, t, f) /\ Queues(h, cmd, <<e>>, "retryAck")
  BY RunFits, RequestRetryEffect
<1>2. log' = log /\ calls' = calls
  BY <1>1 DEF Stay
<1>3. CASE UNCHANGED controlVars /\ Idles(h)
  BY <1>2, <1>3, IdlesLedger
<1>4. /\ At(h) = "retryRequest" /\ f \in Nat
      /\ cmd = [key |-> k, task |-> t, state |-> "requested", fence |-> f]
  BY <1>1, PlaceNow, RunFits, HandlerTyped
<1>5. a.rest = {}
  BY <1>4, RunFits DEF PlaceFits, Suits, AdapterPlaces, LoopPlaces
<1>6. f <= fences[t]
  BY <1>4, <1>5, RunFits DEF HandSound
<1>7. t = k[2]
  BY DEF RetryKey
<1>8. ASSUME RequestOnce(k, t, f), Queues(h, cmd, <<e>>, "retryAck")
      PROVE  LedgerInv'
  <2>1. Takes(h, cmd)
    <3>1. Queues(h, cmd, <<CommandEvent("command.requested", cmd)>>, "retryAck")
      BY <1>8
    <3> HIDE DEF a, cmd
    <3> QED
      BY <3>1, QueuesTakes
  <2>2. k \in Keys /\ t \in TaskIDs /\ (at[h].rest = {} => t = at[h].op.task)
    BY <1>1
  <2> HIDE DEF a, k, t, f, cmd
  <2> QED
    BY <1>2, <1>4, <1>6, <1>7, <1>8, <2>1, <2>2, CreateLedger
<1> QED
  <2> HIDE DEF a, k, t, f, cmd, e
  <2> QED
    BY <1>1, <1>3, <1>8

-----------------------------------------------------------------------------
(* The rotation of a fence and the emergency stop.                         *)

(* What a handler that owns the command in its hand knows of it.           *)
LEMMA OwnedHand ==
  ASSUME RunInv, NEW h \in Handlers, at[h].pc \in OwnerPlaces
  PROVE  LET a == at[h] IN
         /\ At(h) = a.pc /\ Owns(h) /\ ~Polls(h) /\ a.todo = <<>>
         /\ a.cmd.key \in Keys /\ Known(a.cmd.key)
         /\ commands[a.cmd.key].state = "requested" /\ commands[a.cmd.key].task = a.cmd.task
         /\ a.cmd.task \in TaskIDs /\ a.cmd.fence \in Nat
         /\ a.cmd.fence <= fences[a.cmd.task]
         /\ a.rest = {} => a.cmd.task = a.op.task
         /\ a.pc \in RecordedPlaces => \E e \in LogEvents : Records(e, a.cmd)
<1>1. at[h].pc # "append" /\ at[h].pc # "poll"
  BY DEF OwnerPlaces
<1>2. At(h) = at[h].pc /\ at[h].todo = <<>>
  BY <1>1, PlaceNow
<1>3. Owns(h) /\ ~Polls(h)
  BY <1>1, <1>2 DEF Owns, Polls
<1> QED
  BY <1>2, <1>3, RunFits, HandlerTyped DEF HandSound, Known

LEMMA RotatedLedger ==
  ASSUME RunInv, TypeOK', NEW h \in Handlers, at[h].pc = "rotate",
         NEW k \in Keys, k = at[h].cmd.key, NEW t \in TaskIDs, t = at[h].cmd.task,
         RotateFenceForCommand(k, t), log' = log, calls' = calls,
         NEW cmd, cmd.key = k, cmd.task = t, cmd.fence = fences[t] + 1, cmd.state = at[h].cmd.state,
         NEW e, e.key = cmd.key, e.task = cmd.task, e.state = cmd.state, e.fence = cmd.fence,
         Queues(h, cmd, <<e>>, "call")
  PROVE  LedgerInv'
<1> DEFINE a == at[h]
<1>1. /\ a.pc = "rotate" /\ k \in Keys /\ t \in TaskIDs /\ a.cmd \in CmdType
  BY RunFits, HandlerTyped
<1>2. /\ Known(k) /\ \A j \in Keys \ {k} : commands'[j] = commands[j]
      /\ commands'[k].state = commands[k].state /\ commands[k].task = t /\ commands'[k].task = t
      /\ commands'[k].fence = fences[t] + 1
      /\ fences'[t] = fences[t] + 1 /\ \A u \in TaskIDs \ {t} : fences'[u] = fences[u]
  BY RunFits, RotateFenceEffect
<1>3. \A u \in TaskIDs : fences[u] \in Nat
  BY LedgerNow DEF TypeOK
<1>4. \A u \in TaskIDs : fences[u] <= fences'[u]
  BY <1>2, <1>3
<1>5. /\ Moved(h) /\ at'[h].pc = "append" /\ at'[h].then = "call" /\ at'[h].op = a.op
      /\ at'[h].cmd = cmd /\ at'[h].rest = a.rest /\ at'[h].todo = <<e>>
  BY DEF Queues, Becomes, Fields
<1>6. /\ Owns(h) /\ commands[k].state = "requested"
      /\ a.rest = {} => t = a.op.task
  BY <1>1, OwnedHand DEF OwnerPlaces
<1>7. At(h) = "rotate" /\ a.cmd.state = "requested" /\ NeverCalled(k)
  BY <1>1, PlaceNow, RunFits DEF HandSound
<1>8. e.key = k /\ e.task = t /\ e.state = "requested" /\ e.fence = cmd.fence /\ Records(e, cmd)
  BY <1>7 DEF Records
<1>9. Queue(h)' = {e} /\ Len(at'[h].todo) = 1 /\ at'[h].todo[1] = e
  BY <1>5, SingleQueue
<1>10. At(h)' = "call" /\ Owns(h)' /\ ~Polls(h)'
  BY <1>5 DEF At, Owns, Polls, OwnerPlaces
<1>11. NeverCalled(k)'
  BY <1>1, <1>7 DEF NeverCalled
<1>12. HandSound(h)'
  <2>1. at'[h].pc \notin RecordedPlaces
    BY <1>5 DEF RecordedPlaces, OwnerPlaces
  <2>2. cmd.fence <= fences'[cmd.task] /\ (at'[h].rest = {} => cmd.task = at'[h].op.task)
    BY <1>1, <1>2, <1>3, <1>5, <1>6
  <2>3. cmd.key \in Keys /\ commands'[cmd.key].state = "requested"
        /\ commands'[cmd.key].task = cmd.task
    BY <1>1, <1>2, <1>6
  <2>4. cmd.fence # 0
    BY <1>1, <1>3
  <2> QED
    BY <1>5, <1>8, <1>9, <1>10, <1>11, <2>1, <2>2, <2>3, <2>4 DEF HandSound
<1>13. EventSound(e)'
  BY <1>1, <1>2, <1>8 DEF EventSound, Known
<1>14. CommandSound(k)'
  <2>1. commands'[k].task = k[2]
    BY <1>1, <1>2, LedgerNow DEF CommandSound
  <2>2. commands'[k].fence <= fences'[commands'[k].task]
    BY <1>1, <1>2, <1>3
  <2> QED
    BY <2>1, <2>2 DEF CommandSound
<1>15. Touches(h, k)
  BY <1>1, <1>2 DEF Touches, RotatesIt
<1>16. Owns(h)' => Owns(h) /\ at'[h].cmd.key = at[h].cmd.key
  BY <1>5, <1>6
<1>17. LedgerStep(h, k)
  BY <1>1, <1>2, <1>4, <1>5, <1>8, <1>9, <1>10, <1>12, <1>13, <1>14, <1>15, <1>16 DEF LedgerStep
<1> QED
  BY <1>1, <1>17, LedgerFrame

LEMMA RotateLedger ==
  ASSUME RunInv, TypeOK', NEW h \in Handlers, Rotate(h)
  PROVE  LedgerInv'
<1> DEFINE k == at[h].cmd.key
           t == at[h].cmd.task
           cmd == [at[h].cmd EXCEPT !.fence = fences[t] + 1]
           e == CommandEvent(Family(at[h]).requested, cmd)
<1>1. /\ at[h].pc = "rotate" /\ k \in Keys /\ t \in TaskIDs
      /\ RotateFenceForCommand(k, t) /\ log' = log /\ calls' = calls
      /\ Queues(h, cmd, <<e>>, "call")
  BY RunFits, RotateEffect DEF Stay
<1>2. at[h].cmd \in CmdType
  BY RunFits, HandlerTyped
<1>3. cmd.key = k /\ cmd.task = t /\ cmd.fence = fences[t] + 1 /\ cmd.state = at[h].cmd.state
  BY <1>2 DEF CmdType
<1>4. e.key = cmd.key /\ e.task = cmd.task /\ e.state = cmd.state /\ e.fence = cmd.fence
  BY CommandEventFields
<1>5. k = at[h].cmd.key /\ t = at[h].cmd.task
  OBVIOUS
<1> HIDE DEF k, t, cmd, e
<1> QED
  BY <1>1, <1>3, <1>4, <1>5, RotatedLedger

LEMMA StopLedger ==
  ASSUME RunInv, TypeOK', NEW h \in Handlers, Stop(h)
  PROVE  LedgerInv'
<1> DEFINE a == at[h]
<1>1. /\ a.pc = "stop" /\ log' = log /\ calls' = calls
      /\ Becomes(h, <<"stopAck", a.op, a.cmd, a.token, a.rest, a.snap, a.todo, a.then>>)
      /\ commands' = commands /\ \A t \in TaskIDs : fences[t] <= fences'[t]
  BY RunFits, EmergencyStopEffect, StopEffect DEF Stay
<1>2. /\ Moved(h) /\ at'[h].pc = "stopAck" /\ at'[h].op = a.op /\ at'[h].cmd = a.cmd
      /\ at'[h].rest = a.rest /\ at'[h].todo = a.todo
  BY <1>1 DEF Becomes, Fields
<1>3. a.pc \in OwnerPlaces /\ a.pc \in RecordedPlaces
  BY <1>1 DEF OwnerPlaces, RecordedPlaces
<1>4. /\ Owns(h) /\ a.todo = <<>> /\ a.cmd.key \in Keys
      /\ commands[a.cmd.key].state = "requested" /\ commands[a.cmd.key].task = a.cmd.task
      /\ a.cmd.task \in TaskIDs /\ a.cmd.fence \in Nat
      /\ a.cmd.fence <= fences[a.cmd.task]
      /\ a.rest = {} => a.cmd.task = a.op.task
      /\ \E e \in LogEvents : Records(e, a.cmd)
  BY <1>3, OwnedHand
<1>5. At(h)' = "stopAck" /\ Owns(h)' /\ ~Polls(h)'
  BY <1>2 DEF At, Owns, Polls, OwnerPlaces
<1>6. Queue(h)' = {}
  BY <1>2, <1>4, EmptyQueue
<1>7. a.cmd.fence <= fences'[a.cmd.task]
  <2>1. \A t \in TaskIDs : fences[t] \in Nat /\ fences'[t] \in Nat
    BY LedgerNow DEF TypeOK
  <2> QED
    BY <1>1, <1>4, <2>1
<1>8. HandSound(h)'
  <2>1. LogEvents' = LogEvents
    BY <1>1 DEF LogEvents
  <2> QED
    BY <1>1, <1>2, <1>4, <1>5, <1>7, <2>1 DEF HandSound
<1>9. NoKey \notin Keys
  BY KeyFormAssumption
<1>10. LedgerStep(h, NoKey)
  BY <1>1, <1>2, <1>4, <1>5, <1>6, <1>8, <1>9 DEF LedgerStep
<1> QED
  BY <1>1, <1>10, LedgerFrame

-----------------------------------------------------------------------------
(* Steps that move a command and report it.                                *)

LEMMA ReportsMoveFields ==
  ASSUME NEW h \in Handlers, NEW cmd, NEW to, NEW type, NEW then \in Places \ {"append"},
         ReportsMove(h, cmd, to, type, then)
  PROVE  /\ Moved(h) /\ at'[h].pc = "append" /\ At(h)' = then
         /\ at'[h].op = at[h].op /\ at'[h].cmd = cmd /\ at'[h].rest = at[h].rest
<1>1. PICK events : Queues(h, cmd, events, then)
  BY DEF ReportsMove
<1>2. /\ Moved(h) /\ at'[h].pc = "append" /\ at'[h].then = then
      /\ at'[h].op = at[h].op /\ at'[h].cmd = cmd /\ at'[h].rest = at[h].rest
  BY <1>1 DEF Queues, Becomes, Fields
<1> QED
  BY <1>2 DEF At

LEMMA ReportsQueue ==
  ASSUME NEW h \in Handlers, NEW cmd, NEW to, NEW type, NEW then, ReportsMove(h, cmd, to, type, then)
  PROVE  \A e \in Queue(h)' : \/ e.state = "" /\ e.fence = 0
                              \/ \E ty : e = CommandEvent(ty, Returned(at[h].cmd.key, to))
<1> DEFINE first == CommandEvent(type, Returned(at[h].cmd.key, to))
<1>1. PICK events : Reports(events, first) /\ Queues(h, cmd, events, then)
  BY DEF ReportsMove
<1>2. at'[h].todo = events
  BY <1>1 DEF Queues, Becomes, Fields
<1>3. first = CommandEvent(type, Returned(at[h].cmd.key, to))
  OBVIOUS
<1> HIDE DEF first
<1>4. \A e \in Queue(h)' : e = first \/ Plain(e)
  BY <1>1, <1>2, PlainQueue
<1> QED
  BY <1>3, <1>4 DEF Plain

(* A handler that owns or polls the command reports what became of it.     *)
LEMMA ReportsLedger ==
  ASSUME RunInv, TypeOK', NEW h \in Handlers, NEW cmd, NEW to \in CommandState, NEW type,
         NEW then \in Places \ {"append"}, ReportsMove(h, cmd, to, type, then), Stay,
         TransitionAllowed(at[h].cmd.key, to) =>
           /\ commands[at[h].cmd.key].state = "requested" => Owns(h)
           /\ commands[at[h].cmd.key].state = "polling" => Polls(h),
         HandSound(h)', ~Owns(h)', ~Polls(h)'
  PROVE  LedgerInv'
<1> PICK k : k = at[h].cmd.key
  OBVIOUS
<1>1. k \in Keys /\ TryTransition(k, to)
  BY DEF ReportsMove
<1>2. Moved(h)
  BY ReportsMoveFields
<1>3. \A e \in Queue(h)' : \/ e.state = "" /\ e.fence = 0
                           \/ \E ty : e = CommandEvent(ty, Returned(k, to))
  BY ReportsQueue
<1>4. log' = log /\ calls' = calls
  BY DEF Stay
<1> QED
  BY <1>1, <1>2, <1>3, <1>4, MoveLedger

LEMMA ReportsLedgerUnbound ==
  ASSUME RunInv, TypeOK', NEW h \in Handlers, NEW cmd, NEW to \in CommandState, NEW type,
         NEW then \in Unbound, ReportsMove(h, cmd, to, type, then), Stay,
         TransitionAllowed(at[h].cmd.key, to) =>
           /\ commands[at[h].cmd.key].state = "requested" => Owns(h)
           /\ commands[at[h].cmd.key].state = "polling" => Polls(h)
  PROVE  LedgerInv'
<1>1. then \in Places \ {"append"}
  BY DEF Unbound, Places
<1>2. At(h)' \in Unbound
  BY <1>1, ReportsMoveFields
<1>3. HandSound(h)' /\ ~Owns(h)' /\ ~Polls(h)'
  BY <1>2, UnboundHand
<1> QED
  BY <1>1, <1>3, ReportsLedger

LEMMA OwnerMoves ==
  ASSUME RunInv, NEW h \in Handlers, at[h].pc \in OwnerPlaces
  PROVE  /\ commands[at[h].cmd.key].state = "requested" => Owns(h)
         /\ commands[at[h].cmd.key].state = "polling" => Polls(h)
  BY OwnedHand

LEMMA AcceptedLedger ==
  ASSUME RunInv, TypeOK', NEW h \in Handlers, Accepted(h)
  PROVE  LedgerInv'
<1> DEFINE a == at[h]
<1>1. a.pc = "accepted" /\ Stay
  BY RunFits, AcceptedEffect
<1>2. PICK type \in PlainTypes : \E then \in {"advance", "retryRequest", "done"} :
        ReportsMove(h, a.cmd, "acknowledged", type, then)
  BY RunFits, AcceptedEffect
<1>3. PICK then \in {"advance", "retryRequest", "done"} :
        ReportsMove(h, a.cmd, "acknowledged", type, then)
  BY <1>2
<1>4. a.pc \in OwnerPlaces /\ "acknowledged" \in CommandState
  BY <1>1 DEF OwnerPlaces, CommandState
<1>5. /\ commands[a.cmd.key].state = "requested" => Owns(h)
      /\ commands[a.cmd.key].state = "polling" => Polls(h)
  BY <1>4, OwnerMoves
<1>6. CASE then \in Unbound
  BY <1>1, <1>3, <1>4, <1>5, <1>6, ReportsLedgerUnbound
<1>7. CASE then = "retryRequest"
  <2>1. then \in Places \ {"append"}
    BY <1>7 DEF Places
  <2>2. /\ at'[h].pc = "append" /\ At(h)' = "retryRequest"
        /\ at'[h].op = a.op /\ at'[h].cmd = a.cmd /\ at'[h].rest = a.rest
    BY <1>3, <1>7, <2>1, ReportsMoveFields
  <2>3. ~Owns(h)' /\ ~Polls(h)'
    BY <2>2 DEF Owns, Polls, OwnerPlaces
  <2>4. /\ a.cmd.key \in Keys /\ a.cmd.fence <= fences[a.cmd.task]
        /\ a.rest = {} => a.cmd.task = a.op.task
    BY <1>4, OwnedHand
  <2>5. fences' = fences
    BY <1>3, <1>4, <2>4, RunFits, TryEffect DEF ReportsMove, OnlyState
  <2>6. HandSound(h)'
    <3>1. /\ At(h)' \notin {"rotate", "call", "claim", "poll", "doubt", "controlRequest"}
          /\ at'[h].pc \notin RecordedPlaces /\ At(h)' \notin RecordedPlaces
      BY <2>2 DEF RecordedPlaces, OwnerPlaces
    <3> QED
      BY <2>2, <2>3, <2>4, <2>5, <3>1 DEF HandSound
  <2> QED
    BY <1>1, <1>3, <1>4, <1>5, <2>1, <2>3, <2>6, ReportsLedger
<1> QED
  BY <1>6, <1>7 DEF Unbound

LEMMA OwnerReportsLedger ==
  ASSUME RunInv, TypeOK', NEW h \in Handlers, Refused(h) \/ RetryAck(h)
  PROVE  LedgerInv'
<1> DEFINE a == at[h]
<1>1. a.pc \in OwnerPlaces /\ Stay
  BY RunFits, RefusedEffect, RetryAckEffect DEF OwnerPlaces
<1>2. PICK to \in {"failed", "acknowledged"} : \E type : \E then \in {"advance", "done"} :
        ReportsMove(h, a.cmd, to, type, then)
  BY RunFits, RefusedEffect, RetryAckEffect
<1>3. PICK type : \E then \in {"advance", "done"} : ReportsMove(h, a.cmd, to, type, then)
  BY <1>2
<1>4. PICK then \in {"advance", "done"} : ReportsMove(h, a.cmd, to, type, then)
  BY <1>3
<1>5. to \in CommandState /\ then \in Unbound
  BY DEF CommandState, Unbound
<1> QED
  BY <1>1, <1>4, <1>5, OwnerMoves, ReportsLedgerUnbound

LEMMA LostLedger ==
  ASSUME RunInv, TypeOK', NEW h \in Handlers, Lost(h)
  PROVE  LedgerInv'
<1> PICK k : k = at[h].cmd.key
  OBVIOUS
<1> DEFINE a == at[h]
<1>1. /\ a.pc = "lost" /\ log' = log /\ calls' = calls /\ k \in Keys
      /\ TryTransition(k, "acknowledged")
      /\ Becomes(h, <<"doubt", a.op, a.cmd, a.token, a.rest, a.snap, a.todo, a.then>>)
  BY RunFits, LostEffect DEF Stay
<1>2. a.pc \in OwnerPlaces
  BY <1>1 DEF OwnerPlaces
<1>3. a.todo = <<>> /\ Owns(h)
  BY <1>2, OwnedHand
<1>4. /\ commands[k].state = "requested" => Owns(h) /\ at[h].cmd.key = k
      /\ commands[k].state = "polling" => Polls(h) /\ at[h].cmd.key = k
  BY <1>2, OwnerMoves
<1>5. Moved(h) /\ at'[h].pc = "doubt" /\ at'[h].cmd = a.cmd /\ at'[h].todo = <<>>
  BY <1>1, <1>3 DEF Becomes, Fields
<1>6. At(h)' = "doubt" /\ Queue(h)' = {}
  BY <1>5, EmptyQueue DEF At
<1>7. ~Owns(h)' /\ ~Polls(h)'
  BY <1>6 DEF Owns, Polls, OwnerPlaces
<1>8. HandSound(h)'
  <2>1. at'[h].pc \notin RecordedPlaces
    BY <1>5 DEF RecordedPlaces, OwnerPlaces
  <2> QED
    BY <1>1, <1>5, <1>6, <1>7, <2>1 DEF HandSound
<1>9. "acknowledged" \in CommandState
  BY DEF CommandState
<1> QED
  BY <1>1, <1>4, <1>5, <1>6, <1>7, <1>8, <1>9, MoveLedger

LEMMA DoubtLedger ==
  ASSUME RunInv, TypeOK', NEW h \in Handlers, Doubt(h)
  PROVE  LedgerInv'
<1> DEFINE a == at[h]
<1>1. Stay
  BY RunFits, DoubtEffect
<1>2. PICK type \in PlainTypes : \E then \in {"advance", "done"} :
        ReportsMove(h, a.cmd, "outcome_unknown", type, then)
  BY RunFits, DoubtEffect
<1>3. PICK then \in {"advance", "done"} : ReportsMove(h, a.cmd, "outcome_unknown", type, then)
  BY <1>2
<1>4. "outcome_unknown" \in CommandState /\ then \in Unbound
  BY DEF CommandState, Unbound
<1>5. TransitionAllowed(a.cmd.key, "outcome_unknown") =>
        commands[a.cmd.key].state \notin {"requested", "polling"}
  BY DEF TransitionAllowed, Moves
<1> QED
  BY <1>1, <1>3, <1>4, <1>5, ReportsLedgerUnbound

LEMMA StopAckLedger ==
  ASSUME RunInv, TypeOK', NEW h \in Handlers, StopAck(h)
  PROVE  LedgerInv'
<1> PICK k : k = at[h].cmd.key
  OBVIOUS
<1> DEFINE a == at[h]
           e == CommandEvent("control.acknowledged", Returned(k, "acknowledged"))
           f == RunEvent("dispatch.emergency_stopped")
<1>1. /\ a.pc = "stopAck" /\ log' = log /\ calls' = calls /\ k \in Keys
      /\ TryTransition(k, "acknowledged") /\ Queues(h, a.cmd, <<e, f>>, "done")
  BY RunFits, StopAckEffect DEF Stay
<1>2. a.pc \in OwnerPlaces
  BY <1>1 DEF OwnerPlaces
<1>3. /\ commands[k].state = "requested" => Owns(h) /\ at[h].cmd.key = k
      /\ commands[k].state = "polling" => Polls(h) /\ at[h].cmd.key = k
  BY <1>2, OwnerMoves
<1>4. Moved(h) /\ at'[h].pc = "append" /\ at'[h].then = "done" /\ at'[h].todo = <<e, f>>
  BY <1>1 DEF Queues, Becomes, Fields
<1>5. f.state = "" /\ f.fence = 0
  BY BlankEvent DEF RunEvent
<1>6. \E type : e = CommandEvent(type, Returned(k, "acknowledged"))
  OBVIOUS
<1> HIDE DEF e, f
<1>7. \A d \in Queue(h)' : \/ d.state = "" /\ d.fence = 0
                           \/ \E type : d = CommandEvent(type, Returned(k, "acknowledged"))
  <2>1. Queue(h)' = {e, f}
    BY <1>4, PairQueue
  <2> QED
    BY <1>5, <1>6, <2>1
<1>8. At(h)' \in Unbound
  BY <1>4 DEF At, Unbound
<1>9. "acknowledged" \in CommandState
  BY DEF CommandState
<1> QED
  BY <1>1, <1>3, <1>4, <1>7, <1>8, <1>9, UnboundHand, MoveLedger

-----------------------------------------------------------------------------
(* Result checks.                                                          *)

(* What a handler that claims or polls a command knows of it.              *)
LEMMA PolledHand ==
  ASSUME RunInv, NEW h \in Handlers, at[h].pc \in {"claim", "poll"}
  PROVE  LET a == at[h] IN
         /\ a.todo = <<>> /\ ~Owns(h) /\ a.cmd.key \in Keys /\ Known(a.cmd.key)
         /\ commands[a.cmd.key].task = a.op.task
         /\ a.pc = "poll" => Polls(h) /\ commands[a.cmd.key].state = "polling"
<1>1. at[h].pc # "append"
  OBVIOUS
<1>2. At(h) = at[h].pc /\ at[h].todo = <<>>
  BY <1>1, PlaceNow
<1>3. ~Owns(h) /\ (at[h].pc = "poll" => Polls(h))
  BY <1>2 DEF Owns, OwnerPlaces, Polls
<1> QED
  BY <1>2, <1>3, RunFits DEF HandSound

LEMMA ClaimPollLedger ==
  ASSUME RunInv, TypeOK', NEW h \in Handlers, ClaimPoll(h)
  PROVE  LedgerInv'
<1> PICK k : k = at[h].cmd.key
  OBVIOUS
<1> DEFINE a == at[h]
<1>1. /\ a.pc = "claim" /\ log' = log /\ calls' = calls /\ k \in Keys
      /\ TryTransition(k, "polling")
      /\ \/ Idles(h)
         \/ /\ TransitionAllowed(k, "polling")
            /\ Becomes(h, <<"poll", a.op, a.cmd, a.token, a.rest, a.snap, a.todo, a.then>>)
  BY RunFits, ClaimPollEffect DEF Stay
<1>2. /\ a.todo = <<>> /\ Known(k) /\ commands[k].task = a.op.task
  BY <1>1, PolledHand
<1>3. TransitionAllowed(k, "polling") => commands[k].state = "acknowledged"
  BY DEF TransitionAllowed, Moves
<1>4. "polling" \in CommandState
  BY DEF CommandState
<1>5. CASE Idles(h)
  <2>1. Moved(h) /\ At(h)' \in Unbound /\ Queue(h)' = {}
    BY <1>5, IdlesQueue DEF Unbound
  <2> QED
    BY <1>1, <1>3, <1>4, <2>1, UnboundHand, MoveLedger
<1>6. CASE /\ TransitionAllowed(k, "polling")
           /\ Becomes(h, <<"poll", a.op, a.cmd, a.token, a.rest, a.snap, a.todo, a.then>>)
  <2>1. /\ Moved(h) /\ at'[h].pc = "poll" /\ at'[h].op = a.op /\ at'[h].cmd = a.cmd
        /\ at'[h].todo = <<>>
    BY <1>2, <1>6 DEF Becomes, Fields
  <2>2. At(h)' = "poll" /\ Queue(h)' = {}
    BY <2>1, EmptyQueue DEF At
  <2>3. ~Owns(h)'
    BY <2>2 DEF Owns, OwnerPlaces
  <2>4. commands'[k].state = "polling" /\ commands'[k].task = commands[k].task
    BY <1>1, <1>4, <1>6, RunFits, TryEffect DEF OnlyState
  <2>5. HandSound(h)'
    <3>1. at'[h].pc \notin RecordedPlaces
      BY <2>1 DEF RecordedPlaces, OwnerPlaces
    <3> QED
      BY <1>1, <1>2, <2>1, <2>2, <2>3, <2>4, <3>1 DEF HandSound, Known
  <2>6. at'[h].cmd.key = k /\ commands[k].state # "polling"
    BY <1>3, <1>6, <2>1
  <2> QED
    BY <1>1, <1>3, <1>4, <2>1, <2>2, <2>3, <2>5, <2>6, MoveLedger
<1> QED
  BY <1>1, <1>5, <1>6

LEMMA ResultPendingLedger ==
  ASSUME RunInv, TypeOK', NEW h \in Handlers, ResultPending(h)
  PROVE  LedgerInv'
<1> PICK k : k = at[h].cmd.key
  OBVIOUS
<1>1. /\ at[h].pc = "poll" /\ log' = log /\ calls' = calls /\ k \in Keys
      /\ TryTransition(k, "acknowledged") /\ Idles(h)
  BY RunFits, ResultPendingEffect DEF Stay
<1>2. commands[k].state = "polling" /\ Polls(h)
  BY <1>1, PolledHand
<1>3. Moved(h) /\ At(h)' \in Unbound /\ Queue(h)' = {}
  BY <1>1, IdlesQueue DEF Unbound
<1>4. "acknowledged" \in CommandState
  BY DEF CommandState
<1> QED
  BY <1>1, <1>2, <1>3, <1>4, UnboundHand, MoveLedger

LEMMA ResultEndsLedger ==
  ASSUME RunInv, TypeOK', NEW h \in Handlers, ResultFailed(h) \/ ResultCancelled(h)
  PROVE  LedgerInv'
<1>1. at[h].pc = "poll" /\ Stay
  BY RunFits, ResultEndsEffect
<1>2. PICK to \in {"failed", "cancelled"} : \E type \in PlainTypes :
        ReportsMove(h, NoCmd, to, type, "done")
  BY RunFits, ResultEndsEffect
<1>3. PICK type \in PlainTypes : ReportsMove(h, NoCmd, to, type, "done")
  BY <1>2
<1>4. commands[at[h].cmd.key].state = "polling" /\ Polls(h)
  BY <1>1, PolledHand
<1>5. to \in CommandState /\ "done" \in Unbound
  BY DEF CommandState, Unbound
<1> QED
  BY <1>1, <1>3, <1>4, <1>5, ReportsLedgerUnbound

LEMMA ResultCompletedLedger ==
  ASSUME RunInv, TypeOK', NEW h \in Handlers, ResultCompleted(h)
  PROVE  LedgerInv'
<1> PICK k : k = at[h].cmd.key
  OBVIOUS
<1> DEFINE e == CommandEvent("command.completed", Returned(k, "completed"))
           f == Event("task.completed", at[h].op.task)
<1>1. /\ at[h].pc = "poll" /\ log' = log /\ calls' = calls /\ k \in Keys
      /\ TryTransition(k, "completed") /\ Queues(h, NoCmd, <<e, f>>, "schedule")
  BY RunFits, ResultCompletedEffect DEF Stay
<1>2. commands[k].state = "polling" /\ Polls(h)
  BY <1>1, PolledHand
<1>3. Moved(h) /\ at'[h].pc = "append" /\ at'[h].then = "schedule" /\ at'[h].todo = <<e, f>>
  BY <1>1 DEF Queues, Becomes, Fields
<1>4. f.state = "" /\ f.fence = 0
  BY BlankEvent
<1>5. \E type : e = CommandEvent(type, Returned(k, "completed"))
  OBVIOUS
<1> HIDE DEF e, f
<1>6. \A d \in Queue(h)' : \/ d.state = "" /\ d.fence = 0
                           \/ \E type : d = CommandEvent(type, Returned(k, "completed"))
  <2>1. Queue(h)' = {e, f}
    BY <1>3, PairQueue
  <2> QED
    BY <1>4, <1>5, <2>1
<1>7. At(h)' \in Unbound
  BY <1>3 DEF At, Unbound
<1>8. "completed" \in CommandState
  BY DEF CommandState
<1> QED
  BY <1>1, <1>2, <1>3, <1>6, <1>7, <1>8, UnboundHand, MoveLedger

-----------------------------------------------------------------------------
(* Decisions, reconciliations, the end of a run.                           *)

LEMMA SettleLedger ==
  ASSUME RunInv, TypeOK', NEW h \in Handlers, Settle(h)
  PROVE  LedgerInv'
<1> PICK k : k = at[h].op.key
  OBVIOUS
<1> DEFINE a == at[h]
<1>1. /\ k \in Keys /\ Stay
      /\ \/ UNCHANGED controlVars /\ Idles(h)
         \/ /\ TransitionAllowed(k, "reconciled") /\ TryTransition(k, "reconciled")
            /\ \E e, f : \E then \in {"schedule", "pending"} :
                 /\ Plain(e)
                 /\ Plain(f) \/ f = Event("task.completed", a.op.task)
                 /\ Queues(h, a.cmd, <<e, f>>, then)
  BY RunFits, SettleEffect
<1>2. CASE UNCHANGED controlVars /\ Idles(h)
  BY <1>1, <1>2, IdlesLedger DEF Stay
<1>3. CASE /\ TransitionAllowed(k, "reconciled") /\ TryTransition(k, "reconciled")
           /\ \E e, f : \E then \in {"schedule", "pending"} :
                /\ Plain(e)
                /\ Plain(f) \/ f = Event("task.completed", a.op.task)
                /\ Queues(h, a.cmd, <<e, f>>, then)
  <2>1. PICK e, f : \E then \in {"schedule", "pending"} :
               /\ Plain(e)
               /\ Plain(f) \/ f = Event("task.completed", a.op.task)
               /\ Queues(h, a.cmd, <<e, f>>, then)
    BY <1>3
  <2>2. PICK then \in {"schedule", "pending"} : Queues(h, a.cmd, <<e, f>>, then)
    BY <2>1
  <2>3. Moved(h) /\ at'[h].pc = "append" /\ at'[h].then = then /\ at'[h].todo = <<e, f>>
    BY <2>2 DEF Queues, Becomes, Fields
  <2>4. e.state = "" /\ e.fence = 0 /\ f.state = "" /\ f.fence = 0
    <3>1. e.state = "" /\ e.fence = 0
      BY <2>1 DEF Plain
    <3>2. CASE Plain(f)
      BY <3>1, <3>2 DEF Plain
    <3>3. CASE f = Event("task.completed", a.op.task)
      <4> DEFINE d == Event("task.completed", a.op.task)
      <4>1. d.state = "" /\ d.fence = 0 /\ f = d
        BY <3>3, BlankEvent
      <4> HIDE DEF d
      <4> QED
        BY <3>1, <4>1
    <3> QED
      BY <2>1, <3>2, <3>3
  <2>5. \A d \in Queue(h)' : d.state = "" /\ d.fence = 0
    <3>1. Queue(h)' = {e, f}
      BY <2>3, PairQueue
    <3> QED
      BY <2>4, <3>1
  <2>6. At(h)' \in Unbound
    BY <2>3 DEF At, Unbound
  <2>7. TransitionAllowed(k, "reconciled") => commands[k].state \notin {"requested", "polling"}
    BY DEF TransitionAllowed, Moves
  <2>8. "reconciled" \in CommandState
    BY DEF CommandState
  <2> QED
    BY <1>1, <1>3, <2>3, <2>5, <2>6, <2>7, <2>8, UnboundHand, MoveLedger DEF Stay
<1> QED
  BY <1>1, <1>2, <1>3

LEMMA PendingLedger ==
  ASSUME RunInv, TypeOK', NEW h \in Handlers, Pending(h)
  PROVE  LedgerInv'
<1> DEFINE a == at[h]
           e == RunEvent("dispatch.failed")
<1>1. /\ a.pc = "pending" /\ UNCHANGED controlVars /\ log' = log /\ calls' = calls
      /\ \/ Idles(h)
         \/ Becomes(h, <<"finish", a.op, a.cmd, a.token, a.rest, a.snap, a.todo, a.then>>)
         \/ Queues(h, a.cmd, <<e>>, "done")
  BY RunFits, PendingEffect DEF Stay
<1>2. a.todo = <<>> /\ "finish" \in Unbound /\ "done" \in Unbound
  BY <1>1, PlaceNow DEF Unbound
<1>3. e.state = "" /\ e.fence = 0
  BY BlankEvent DEF RunEvent
<1>4. ASSUME Becomes(h, <<"finish", a.op, a.cmd, a.token, a.rest, a.snap, a.todo, a.then>>)
      PROVE  Free(h)
  <2>1. Becomes(h, <<"finish", a.op, a.cmd, a.token, a.rest, a.snap, <<>>, a.then>>)
    BY <1>2, <1>4
  <2> HIDE DEF a
  <2> QED
    BY <1>2, <2>1, GoesFree
<1>5. ASSUME Queues(h, a.cmd, <<e>>, "done")
      PROVE  Free(h)
  <2>1. Becomes(h, <<"append", a.op, a.cmd, a.token, a.rest, a.snap, <<e>>, "done">>)
    BY <1>5 DEF Queues
  <2> HIDE DEF a, e
  <2> QED
    BY <1>2, <1>3, <2>1, EmitsOneFree
<1>6. Moved(h)
  BY <1>1 DEF Idles, Becomes, Queues
<1> QED
  BY <1>1, <1>4, <1>5, <1>6, IdlesFree, FreeLedger

LEMMA FinishLedger ==
  ASSUME RunInv, TypeOK', NEW h \in Handlers, Finish(h)
  PROVE  LedgerInv'
<1> DEFINE a == at[h]
           e == RunEvent("dispatch.completed")
<1>1. /\ UNCHANGED controlVars /\ log' = log /\ calls' = calls
      /\ Idles(h) \/ Queues(h, a.cmd, <<e>>, "done")
  BY RunFits, FinishEffect DEF Stay
<1>2. e.state = "" /\ e.fence = 0
  BY BlankEvent DEF RunEvent
<1>3. ASSUME Queues(h, a.cmd, <<e>>, "done")
      PROVE  Free(h)
  <2>1. Becomes(h, <<"append", a.op, a.cmd, a.token, a.rest, a.snap, <<e>>, "done">>)
    BY <1>3 DEF Queues
  <2>2. "done" \in Unbound
    BY DEF Unbound
  <2> HIDE DEF a, e
  <2> QED
    BY <1>2, <2>1, <2>2, EmitsOneFree
<1>4. Moved(h)
  BY <1>1 DEF Idles, Becomes, Queues
<1> QED
  BY <1>1, <1>3, <1>4, IdlesFree, FreeLedger

LEMMA ClaimDecisionLedger ==
  ASSUME RunInv, TypeOK', NEW h \in Handlers, ClaimDecision(h)
  PROVE  LedgerInv'
<1> DEFINE a == at[h]
<1>1. UNCHANGED controlVars /\ log' = log /\ calls' = calls
  BY RunFits, ClaimDecisionEffect
<1>2. \/ Idles(h)
      \/ \E type \in Decision : \E events : \E then \in {"schedule", "done"} :
           Reports(events, Event(type, a.op.task)) /\ Queues(h, a.cmd, events, then)
  BY RunFits, ClaimDecisionEffect
<1>3. ASSUME NEW type \in Decision, NEW events, NEW then \in {"schedule", "done"},
             Reports(events, Event(type, a.op.task)), Queues(h, a.cmd, events, then)
      PROVE  Moved(h) /\ Free(h)
  <2> DEFINE e == Event(type, a.op.task)
  <2>1. e.state = "" /\ e.fence = 0 /\ Reports(events, e)
    BY <1>3, BlankEvent
  <2>2. Becomes(h, <<"append", a.op, a.cmd, a.token, a.rest, a.snap, events, then>>) /\ Moved(h)
    BY <1>3 DEF Queues, Becomes
  <2>3. then \in Unbound
    BY DEF Unbound
  <2> HIDE DEF a, e
  <2> QED
    BY <2>1, <2>2, <2>3, EmitsReportFree
<1>4. CASE Idles(h)
  BY <1>1, <1>4, IdlesLedger
<1>5. CASE \E type \in Decision : \E events : \E then \in {"schedule", "done"} :
             Reports(events, Event(type, a.op.task)) /\ Queues(h, a.cmd, events, then)
  BY <1>1, <1>3, <1>5, FreeLedger
<1> QED
  BY <1>2, <1>4, <1>5

-----------------------------------------------------------------------------
(* Controls and arrivals.                                                  *)

LEMMA CommitTokenLedger ==
  ASSUME RunInv, TypeOK', NEW h \in Handlers, CommitToken(h)
  PROVE  LedgerInv'
<1> DEFINE a == at[h]
<1>1. /\ a.pc = "commit" /\ UNCHANGED controlVars /\ log' = log /\ calls' = calls
      /\ \/ Idles(h)
         \/ /\ Commit(a.op.task, a.token)
            /\ Becomes(h, <<"controlRequest", a.op, a.cmd, a.token, a.rest, a.snap,
                            a.todo, a.then>>)
  BY RunFits, CommitTokenEffect DEF Stay
<1>2. CASE Idles(h)
  BY <1>1, <1>2, IdlesLedger
<1>3. CASE /\ Commit(a.op.task, a.token)
           /\ Becomes(h, <<"controlRequest", a.op, a.cmd, a.token, a.rest, a.snap,
                           a.todo, a.then>>)
  <2>1. a.todo = <<>> /\ a.token \in Nat
    BY <1>1, PlaceNow, RunFits, HandlerTyped
  <2>2. /\ Moved(h) /\ at'[h].pc = "controlRequest" /\ at'[h].op = a.op
        /\ at'[h].token = a.token /\ at'[h].todo = <<>>
    BY <1>3, <2>1 DEF Becomes, Fields
  <2>3. At(h)' = "controlRequest" /\ Queue(h)' = {}
    BY <2>2, EmptyQueue DEF At
  <2>4. a.token = fences[a.op.task] /\ fences' = fences
    BY <1>1, <1>3 DEF Commit, controlVars
  <2>5. ~Owns(h)' /\ ~Polls(h)'
    BY <2>3 DEF Owns, Polls, OwnerPlaces
  <2>6. HandSound(h)'
    <3>1. at'[h].pc \notin RecordedPlaces
      BY <2>2 DEF RecordedPlaces, OwnerPlaces
    <3>2. at'[h].token <= fences'[at'[h].op.task]
      BY <2>1, <2>2, <2>4
    <3> QED
      BY <2>2, <2>3, <2>5, <3>1, <3>2 DEF HandSound
  <2> QED
    BY <1>1, <2>2, <2>3, <2>5, <2>6, QuietLedger
<1> QED
  BY <1>1, <1>2, <1>3

LEMMA CallNobodyLedger ==
  ASSUME RunInv, TypeOK', NEW h \in Handlers, CallNobody(h)
  PROVE  LedgerInv'
<1>1. UNCHANGED controlVars /\ log' = log /\ calls' = calls /\ Idles(h)
  BY RunFits, CallNobodyEffect DEF Stay, Idles
<1> QED
  BY <1>1, IdlesLedger

LEMMA ResultArrivesLedger ==
  ASSUME RunInv, TypeOK', NEW h \in Requests, NEW op \in Menu[h], ResultArrives(h, op)
  PROVE  LedgerInv'
<1>1. h \in Handlers
  BY MenuTyped
<1>2. /\ UNCHANGED controlVars /\ log' = log /\ calls' = calls
      /\ \/ Idles(h)
         \/ \E k \in Keys :
              /\ commands[k].state = "acknowledged" /\ commands[k].task = op.task
              /\ Serves(h, op, Cmd(k, "acknowledged"), 0, "claim")
  BY RunFits, LedgerNow, ResultArrivesEffect DEF Stay
<1>3. CASE Idles(h)
  BY <1>1, <1>2, <1>3, IdlesLedger
<1>4. ASSUME NEW k \in Keys, commands[k].state = "acknowledged", commands[k].task = op.task,
             Serves(h, op, Cmd(k, "acknowledged"), 0, "claim")
      PROVE  LedgerInv'
  <2> DEFINE cmd == Cmd(k, "acknowledged")
  <2>1. cmd.key = k
    BY DEF Cmd
  <2>2. Serves(h, op, cmd, 0, "claim")
    BY <1>4
  <2> HIDE DEF cmd
  <2>3. /\ Moved(h) /\ at'[h].pc = "claim" /\ at'[h].op = op /\ at'[h].cmd = cmd
        /\ at'[h].todo = <<>>
    BY <2>2 DEF Serves, Becomes, Fields
  <2>4. At(h)' = "claim" /\ Queue(h)' = {}
    BY <1>1, <2>3, EmptyQueue DEF At
  <2>5. ~Owns(h)' /\ ~Polls(h)'
    BY <2>4 DEF Owns, Polls, OwnerPlaces
  <2>6. HandSound(h)'
    <3>1. at'[h].pc \notin RecordedPlaces
      BY <2>3 DEF RecordedPlaces, OwnerPlaces
    <3>2. commands' = commands
      BY <1>2 DEF controlVars
    <3> QED
      BY <1>4, <2>1, <2>3, <2>4, <2>5, <3>1, <3>2 DEF HandSound, Known
  <2> QED
    BY <1>1, <1>2, <2>3, <2>4, <2>5, <2>6, QuietLedger
<1> QED
  BY <1>2, <1>3, <1>4

LEMMA ServesFree ==
  ASSUME NEW h \in Handlers, NEW op, NEW cmd, NEW token, NEW pc \in Unbound,
         Serves(h, op, cmd, token, pc)
  PROVE  Moved(h) /\ Free(h)
  BY GoesFree DEF Serves, Becomes

LEMMA ControlArrivesLedger ==
  ASSUME RunInv, TypeOK', NEW h \in Requests, NEW op \in Menu[h], ControlArrives(h, op)
  PROVE  LedgerInv'
<1>1. h \in Handlers
  BY MenuTyped
<1>2. /\ UNCHANGED controlVars /\ log' = log /\ calls' = calls
      /\ \/ Idles(h)
         \/ Serves(h, op, NoCmd, 0, "controlRequest")
         \/ \E token : Serves(h, op, NoCmd, token, "commit")
  BY RunFits, ControlArrivesEffect DEF Stay
<1>3. CASE Idles(h)
  BY <1>1, <1>2, <1>3, IdlesLedger
<1>4. CASE Serves(h, op, NoCmd, 0, "controlRequest")
  <2>1. /\ Moved(h) /\ at'[h].pc = "controlRequest" /\ at'[h].op = op /\ at'[h].token = 0
        /\ at'[h].todo = <<>>
    BY <1>4 DEF Serves, Becomes, Fields
  <2>2. At(h)' = "controlRequest" /\ Queue(h)' = {}
    BY <1>1, <2>1, EmptyQueue DEF At
  <2>3. ~Owns(h)' /\ ~Polls(h)'
    BY <2>2 DEF Owns, Polls, OwnerPlaces
  <2>4. fences' = fences /\ fences[op.task] \in Nat
    BY <1>2, MenuTyped, OperationForm, LedgerNow DEF controlVars, TypeOK
  <2>5. HandSound(h)'
    <3>1. at'[h].pc \notin RecordedPlaces
      BY <2>1 DEF RecordedPlaces, OwnerPlaces
    <3>2. 0 <= fences'[op.task]
      BY <2>4
    <3> QED
      BY <2>1, <2>2, <2>3, <3>1, <3>2 DEF HandSound
  <2> QED
    BY <1>1, <1>2, <2>1, <2>2, <2>3, <2>5, QuietLedger
<1>5. CASE \E token : Serves(h, op, NoCmd, token, "commit")
  <2>1. "commit" \in Unbound
    BY DEF Unbound
  <2> QED
    BY <1>1, <1>2, <1>5, <2>1, ServesFree, FreeLedger
<1> QED
  BY <1>2, <1>3, <1>4, <1>5

LEMMA OtherArrivesLedger ==
  ASSUME RunInv, TypeOK', NEW h \in Requests, NEW op \in Menu[h],
         ApproveArrives(h, op) \/ ReconcileArrives(h, op)
  PROVE  LedgerInv'
<1>1. h \in Handlers
  BY MenuTyped
<1>2. UNCHANGED controlVars /\ log' = log /\ calls' = calls
  BY RunFits, ApproveArrivesEffect, ReconcileArrivesEffect DEF Stay
<1>3. \/ Idles(h)
      \/ Serves(h, op, NoCmd, 0, "claimDecision")
      \/ \E events : \E then \in {"done", "settle"} :
           /\ AllPlain(events)
           /\ Becomes(h, <<"append", op, NoCmd, 0, {}, NoSnap, events, then>>)
  BY RunFits, ApproveArrivesEffect, ReconcileArrivesEffect
<1>4. "claimDecision" \in Unbound /\ "done" \in Unbound /\ "settle" \in Unbound
  BY DEF Unbound
<1>5. ASSUME NEW events, NEW then \in {"done", "settle"}, AllPlain(events),
             Becomes(h, <<"append", op, NoCmd, 0, {}, NoSnap, events, then>>)
      PROVE  LedgerInv'
  <2>1. Moved(h)
    BY <1>5 DEF Becomes
  <2>2. Free(h)
    BY <1>1, <1>4, <1>5, EmitsPlainFree
  <2> QED
    BY <1>1, <1>2, <2>1, <2>2, FreeLedger
<1> QED
  BY <1>1, <1>2, <1>3, <1>4, <1>5, IdlesLedger, ServesFree, FreeLedger

-----------------------------------------------------------------------------
(* The adapter call.                                                       *)

LEMMA AppendFailsLedger ==
  ASSUME RunInv, TypeOK', NEW h \in Handlers, AppendFails(h)
  PROVE  LedgerInv'
<1>1. /\ Moved(h) /\ LeavesLoop(at[h].op, at'[h])
      /\ UNCHANGED controlVars /\ log' = log /\ calls' = calls
  BY RunFits, AppendFailsEffect
<1> QED
  BY <1>1, LeavesFree, FreeLedger

LEMMA CallLedger ==
  ASSUME RunInv, TypeOK', NEW h \in Handlers, CallAdapter(h)
  PROVE  LedgerInv'
<1> DEFINE a == at[h]
           call == [what |-> IF a.rest # {} THEN "dispatch" ELSE a.op.what,
                    task |-> a.cmd.task, key |-> a.cmd.key,
                    fence |-> a.cmd.fence, logged |-> Len(log)]
<1>1. /\ a.pc = "call" /\ calls' = Append(calls, call) /\ log' = log /\ UNCHANGED controlVars
  BY RunFits, CallAdapterEffect
<1>2. PICK outcome \in {"accepted", "refused", "lost"} :
        Becomes(h, <<outcome, a.op, a.cmd, a.token, a.rest, a.snap, a.todo, a.then>>)
  BY RunFits, CallAdapterEffect
<1>3. a.pc \in OwnerPlaces /\ a.pc \in RecordedPlaces
  BY <1>1 DEF OwnerPlaces, RecordedPlaces
<1>4. /\ At(h) = "call" /\ Owns(h) /\ a.todo = <<>> /\ a.cmd.key \in Keys
      /\ commands[a.cmd.key].state = "requested" /\ commands[a.cmd.key].task = a.cmd.task
      /\ a.cmd.fence <= fences[a.cmd.task]
      /\ a.rest = {} => a.cmd.task = a.op.task
      /\ \E e \in LogEvents : Records(e, a.cmd)
  BY <1>1, <1>3, OwnedHand
<1>5. NeverCalled(a.cmd.key)
  BY <1>4, RunFits DEF HandSound
<1>6. /\ Moved(h) /\ at'[h].pc = outcome /\ at'[h].op = a.op /\ at'[h].cmd = a.cmd
      /\ at'[h].rest = a.rest /\ at'[h].todo = <<>>
  BY <1>2, <1>4 DEF Becomes, Fields
<1>7. At(h)' = outcome /\ Owns(h)' /\ ~Polls(h)' /\ Queue(h)' = {}
  BY <1>6, EmptyQueue DEF At, Owns, Polls, OwnerPlaces
<1>8. commands' = commands /\ fences' = fences /\ LogEvents' = LogEvents
  BY <1>1 DEF controlVars, LogEvents
<1>9. HandSound(h)'
  BY <1>4, <1>6, <1>7, <1>8 DEF HandSound
<1>10. NoKey \notin Keys
  BY KeyFormAssumption
<1>11. LedgerStep(h, NoKey)
  BY <1>4, <1>6, <1>7, <1>8, <1>9, <1>10, SameFences DEF LedgerStep
<1>12. /\ calls \in Seq(CallType) /\ Len(calls) \in Nat /\ Len(calls') = Len(calls) + 1
       /\ \A n \in 1..Len(calls) : calls'[n] = calls[n]
       /\ calls'[Len(calls) + 1] = call
  <2>1. calls \in Seq(CallType)
    BY LedgerNow DEF TypeOK
  <2> HIDE DEF call
  <2> QED
    BY <1>1, <2>1
<1>13. /\ call.key = a.cmd.key /\ call.task = a.cmd.task /\ call.fence = a.cmd.fence
       /\ call.logged = Len(log)
  OBVIOUS
<1>14. \A n \in 1..Len(calls') : n \in 1..Len(calls) \/ n = Len(calls) + 1
  BY <1>12
<1>15. PICK i \in 1..Len(log) : Records(log[i], a.cmd)
  BY <1>4 DEF LogEvents
<1>16. ASSUME NEW n \in 1..Len(calls')
       PROVE  CallSound(n)'
  <2>1. CASE n \in 1..Len(calls)
    BY <1>1, <1>12, <2>1, LedgerNow DEF CallSound
  <2>2. CASE n = Len(calls) + 1
    <3>1. calls'[n].logged = Len(log) /\ Records(log[i], calls'[n])
      BY <1>12, <1>13, <1>15, <2>2 DEF Records
    <3>2. Len(log) \in Nat
      BY LedgerNow DEF TypeOK
    <3> QED
      BY <1>1, <1>15, <3>1, <3>2 DEF CallSound
  <2> QED
    BY <1>14, <2>1, <2>2
<1>17. \A m, n \in 1..Len(calls') : calls'[m].key = calls'[n].key => m = n
  BY <1>5, <1>12, <1>13, <1>14, LedgerNow DEF NeverCalled
<1>18. ASSUME NEW g \in Handlers, g # h
       PROVE  HandSound(g)'
  <2>1. at'[g] = at[g]
    BY <1>6, <1>18 DEF Moved
  <2>2. Owns(g) => at[g].cmd.key # a.cmd.key
    BY <1>4, <1>18, LedgerNow DEF HandsApart
  <2>3. NeverCalled(at[g].cmd.key) /\ Owns(g) => NeverCalled(at[g].cmd.key)'
    <3> SUFFICES ASSUME NeverCalled(at[g].cmd.key), Owns(g), NEW n \in 1..Len(calls')
                 PROVE  calls'[n].key # at[g].cmd.key
      BY <2>1 DEF NeverCalled
    <3> QED
      BY <1>12, <1>13, <1>14, <2>2 DEF NeverCalled
  <2> QED
    BY <1>1, <1>11, <1>18, <2>3, KeepsHands
<1> QED
  BY <1>1, <1>9, <1>11, <1>16, <1>17, <1>18, KeepsCommands, KeepsEvents, KeepsApart DEF LedgerInv

-----------------------------------------------------------------------------
(* An append.                                                              *)

(* The log grows by the first event of the queue, and what is queued then  *)
(* was queued before or records nothing.                                   *)
LEMMA AppendEvents ==
  ASSUME RunInv, NEW h \in Handlers, AppendEvent(h)
  PROVE  /\ Moved(h) /\ Len(log') = Len(log) + 1 /\ Len(log) \in Nat
         /\ \A i \in 1..Len(log) : log'[i] = log[i]
         /\ log'[Len(log) + 1] = at[h].todo[1]
         /\ at[h].todo[1] \in Queue(h)
         /\ LogEvents' = LogEvents \cup {at[h].todo[1]}
         /\ \A e \in Queue(h)' : e \in Queue(h) \/ Plain(e)
         /\ \A e \in Events' : e \in Events \/ Plain(e)
<1> DEFINE a == at[h]
<1>1. /\ a.todo # <<>> /\ a.todo[1] \in EventType /\ log' = Append(log, a.todo[1])
      /\ \/ Resumes(h)
         \/ /\ Tail(a.todo) # <<>>
            /\ Becomes(h, <<"append", a.op, a.cmd, a.token, a.rest, a.snap,
                            Tail(a.todo), a.then>>)
  BY RunFits, AppendEventEffect
<1>2. a.todo \in Seq(EventType) /\ log \in Seq(EventType) /\ a.rest \subseteq Tasks
  BY RunFits, HandlerTyped, LedgerNow DEF TypeOK
<1>3. /\ Len(a.todo) \in Nat \ {0} /\ Len(Tail(a.todo)) = Len(a.todo) - 1
      /\ \A i \in 1..Len(Tail(a.todo)) : Tail(a.todo)[i] = a.todo[i + 1]
  BY <1>1, <1>2, TailQueue
<1>4. a.todo[1] \in Queue(h)
  BY <1>3 DEF Queue
<1>5. /\ Len(log) \in Nat /\ Len(log') = Len(log) + 1
      /\ \A i \in 1..Len(log) : log'[i] = log[i]
      /\ log'[Len(log) + 1] = a.todo[1]
  BY <1>1, <1>2
<1>6. LogEvents' = LogEvents \cup {a.todo[1]}
  <2>1. \A i \in 1..Len(log') : i \in 1..Len(log) \/ i = Len(log) + 1
    BY <1>5
  <2>2. LogEvents' \subseteq LogEvents \cup {a.todo[1]}
    BY <1>5, <2>1 DEF LogEvents
  <2>3. \A i \in 1..Len(log) : i \in 1..Len(log')
    BY <1>5
  <2>4. Len(log) + 1 \in 1..Len(log')
    BY <1>5
  <2>5. a.todo[1] \in LogEvents'
    BY <1>5, <2>4 DEF LogEvents
  <2>6. LogEvents \subseteq LogEvents'
    BY <1>5, <2>3 DEF LogEvents
  <2> QED
    BY <2>2, <2>5, <2>6
<1>7. Moved(h)
  BY <1>1 DEF Resumes, Idles, Becomes
<1>8. \A e \in Queue(h)' : e \in Queue(h) \/ Plain(e)
  <2>1. CASE /\ Tail(a.todo) # <<>>
             /\ Becomes(h, <<"append", a.op, a.cmd, a.token, a.rest, a.snap,
                             Tail(a.todo), a.then>>)
    <3>1. at'[h].todo = Tail(a.todo)
      BY <2>1 DEF Becomes, Fields
    <3>2. \A i \in 1..Len(Tail(a.todo)) : i + 1 \in 1..Len(a.todo)
      BY <1>3
    <3> QED
      BY <1>3, <3>1, <3>2 DEF Queue
  <2>2. CASE Resumes(h)
    <3>1. CASE Idles(h)
      BY <3>1, IdlesQueue
    <3>2. ASSUME LeavesLoop(a.op, at'[h])
          PROVE  \A e \in Queue(h)' : Plain(e)
      BY <3>2, LeavesQueue
    <3>3. ASSUME Visits(a.op, a.snap, a.rest \ {First(a.rest)}, at'[h])
          PROVE  \A e \in Queue(h)' : Plain(e)
      <4>1. a.rest \ {First(a.rest)} \subseteq Tasks
        BY <1>2
      <4> QED
        BY <3>3, <4>1, VisitsQueue
    <3>4. CASE Becomes(h, <<a.then, a.op, a.cmd, a.token, a.rest, a.snap, <<>>, "">>)
      <4>1. at'[h].todo = <<>>
        BY <3>4 DEF Becomes, Fields
      <4> QED
        BY <4>1, EmptyQueue
    <3> QED
      BY <2>2, <3>1, <3>2, <3>3, <3>4 DEF Resumes
  <2> QED
    BY <1>1, <2>1, <2>2
<1>9. ASSUME NEW e \in Events'
      PROVE  e \in Events \/ Plain(e)
  <2>1. CASE e \in LogEvents'
    BY <1>4, <1>6, <2>1 DEF Events
  <2>2. CASE e \in UNION {Queue(g)' : g \in Handlers}
    <3>1. PICK g \in Handlers : e \in Queue(g)'
      BY <2>2
    <3>2. g # h => Queue(g)' = Queue(g)
      BY <1>7 DEF Moved, Queue
    <3> QED
      BY <1>8, <3>1, <3>2 DEF Events
  <2> QED
    BY <2>1, <2>2 DEF Events
<1> QED
  BY <1>4, <1>5, <1>6, <1>7, <1>8, <1>9

(* After an append the handler knows nothing of a hand, or stands for the  *)
(* same place as before.                                                   *)
LEMMA AppendPlace ==
  ASSUME RunInv, NEW h \in Handlers, AppendEvent(h)
  PROVE  LET a == at[h] IN
         /\ a.pc = "append"
         /\ \/ At(h)' \in Unbound
            \/ /\ At(h)' = At(h) /\ at'[h].op = a.op /\ at'[h].cmd = a.cmd
               /\ at'[h].rest = a.rest /\ at'[h].token = a.token /\ at'[h].snap = a.snap
               /\ \/ at'[h].pc = "append" /\ at'[h].todo = Tail(a.todo) /\ Len(a.todo) # 1
                  \/ at'[h].pc = At(h) /\ at'[h].pc # "append" /\ Len(a.todo) = 1
<1> DEFINE a == at[h]
<1>1. /\ a.pc = "append"
      /\ \/ Len(a.todo) = 1 /\ Resumes(h)
         \/ /\ Len(a.todo) # 1
            /\ Becomes(h, <<"append", a.op, a.cmd, a.token, a.rest, a.snap,
                            Tail(a.todo), a.then>>)
  BY RunFits, AppendEventEffect
<1>2. At(h) = a.then
  BY <1>1 DEF At
<1>3. CASE /\ Len(a.todo) # 1
           /\ Becomes(h, <<"append", a.op, a.cmd, a.token, a.rest, a.snap,
                           Tail(a.todo), a.then>>)
  <2>1. /\ at'[h].pc = "append" /\ at'[h].op = a.op /\ at'[h].cmd = a.cmd
        /\ at'[h].rest = a.rest /\ at'[h].token = a.token /\ at'[h].snap = a.snap
        /\ at'[h].then = a.then /\ at'[h].todo = Tail(a.todo)
    BY <1>3 DEF Becomes, Fields
  <2>2. At(h)' = a.then
    BY <2>1 DEF At
  <2> QED
    BY <1>1, <1>2, <1>3, <2>1, <2>2
<1>4. CASE Len(a.todo) = 1 /\ Resumes(h)
  <2>1. Idles(h) => At(h)' \in Unbound
    BY IdlesQueue DEF Unbound
  <2>2. LeavesLoop(a.op, at'[h]) => At(h)' \in Unbound
    BY LeavesQueue DEF Unbound
  <2>3. Visits(a.op, a.snap, a.rest \ {First(a.rest)}, at'[h]) => At(h)' \in Unbound
    BY VisitFields DEF Visits, At, Unbound
  <2>4. ASSUME a.then \in Places \ {"append", "done", "advance", "scheduled"},
               Becomes(h, <<a.then, a.op, a.cmd, a.token, a.rest, a.snap, <<>>, "">>)
        PROVE  /\ At(h)' = At(h) /\ at'[h].op = a.op /\ at'[h].cmd = a.cmd
               /\ at'[h].rest = a.rest /\ at'[h].token = a.token /\ at'[h].snap = a.snap
               /\ at'[h].pc = At(h) /\ at'[h].pc # "append"
    <3>1. /\ at'[h].pc = a.then /\ at'[h].op = a.op /\ at'[h].cmd = a.cmd
          /\ at'[h].rest = a.rest /\ at'[h].token = a.token /\ at'[h].snap = a.snap
      BY <2>4 DEF Becomes, Fields
    <3> QED
      BY <1>2, <2>4, <3>1 DEF At
  <2> QED
    BY <1>1, <1>4, <2>1, <2>2, <2>3, <2>4 DEF Resumes
<1> QED
  BY <1>1, <1>3, <1>4

(* A hand that stays keeps what is known of it while the log grows.        *)
LEMMA HandStays ==
  ASSUME RunInv, UNCHANGED <<commands, fences, calls>>, LogEvents \subseteq LogEvents',
         \A e \in Events' : e \in Events \/ e.state = "",
         NEW g \in Handlers, At(g)' = At(g), at'[g].op = at[g].op, at'[g].cmd = at[g].cmd,
         at'[g].rest = at[g].rest, at'[g].token = at[g].token,
         at'[g].pc \in RecordedPlaces => \E e \in LogEvents' : Records(e, at[g].cmd),
         at'[g].pc = "append" /\ At(g) \in RecordedPlaces =>
           Len(at'[g].todo) = 1 /\ Records(at'[g].todo[1], at[g].cmd)
  PROVE  HandSound(g)'
<1>1. HandSound(g)
  BY RunFits
<1>2. (Owns(g) <=> Owns(g)') /\ (Polls(g) <=> Polls(g)')
  BY DEF Owns, Polls
<1>3. \A k : NeverShown(k) => NeverShown(k)'
  BY DEF NeverShown
<1>4. \A k : NeverCalled(k) => NeverCalled(k)'
  BY DEF NeverCalled
<1> QED
  BY <1>1, <1>2, <1>3, <1>4 DEF HandSound, Known

LEMMA AppendLedger ==
  ASSUME RunInv, TypeOK', NEW h \in Handlers, AppendEvent(h)
  PROVE  LedgerInv'
<1> DEFINE a == at[h]
<1>1. /\ Moved(h) /\ Len(log') = Len(log) + 1 /\ Len(log) \in Nat
      /\ \A i \in 1..Len(log) : log'[i] = log[i]
      /\ LogEvents' = LogEvents \cup {a.todo[1]}
      /\ \A e \in Queue(h)' : e \in Queue(h) \/ Plain(e)
      /\ \A e \in Events' : e \in Events \/ Plain(e)
  BY AppendEvents
<1>2. commands' = commands /\ fences' = fences /\ calls' = calls
  BY RunFits, AppendEventEffect DEF controlVars
<1>3. /\ a.pc = "append"
      /\ \/ At(h)' \in Unbound
         \/ /\ At(h)' = At(h) /\ at'[h].op = a.op /\ at'[h].cmd = a.cmd
            /\ at'[h].rest = a.rest /\ at'[h].token = a.token
            /\ \/ at'[h].pc = "append" /\ at'[h].todo = Tail(a.todo) /\ Len(a.todo) # 1
               \/ at'[h].pc = At(h) /\ at'[h].pc # "append" /\ Len(a.todo) = 1
  BY AppendPlace
<1>4. \A e \in Events' : e \in Events \/ e.state = ""
  BY <1>1 DEF Plain
<1>5. At(h) \in RecordedPlaces => Len(a.todo) = 1 /\ Records(a.todo[1], a.cmd)
  BY <1>3, RunFits DEF HandSound
<1>6. /\ HandSound(h)'
      /\ Owns(h)' => Owns(h) /\ at'[h].cmd.key = a.cmd.key
      /\ Polls(h)' => Polls(h) /\ at'[h].cmd.key = a.cmd.key
  <2>1. CASE At(h)' \in Unbound
    BY <2>1, UnboundHand
  <2>2. CASE /\ At(h)' = At(h) /\ at'[h].op = a.op /\ at'[h].cmd = a.cmd
             /\ at'[h].rest = a.rest /\ at'[h].token = a.token
             /\ \/ at'[h].pc = "append" /\ at'[h].todo = Tail(a.todo) /\ Len(a.todo) # 1
                \/ at'[h].pc = At(h) /\ at'[h].pc # "append" /\ Len(a.todo) = 1
    <3>1. at'[h].pc \in RecordedPlaces => \E e \in LogEvents' : Records(e, a.cmd)
      <4>1. "append" \notin RecordedPlaces
        BY DEF RecordedPlaces, OwnerPlaces
      <4> QED
        BY <1>1, <1>5, <2>2, <4>1
    <3>2. ~(at'[h].pc = "append" /\ At(h) \in RecordedPlaces)
      BY <1>5, <2>2
    <3>3. HandSound(h)'
      BY <1>1, <1>2, <1>4, <2>2, <3>1, <3>2, HandStays
    <3> QED
      BY <2>2, <3>3 DEF Owns, Polls
  <2> QED
    BY <1>3, <2>1, <2>2
<1>7. ASSUME NEW g \in Handlers, g # h
      PROVE  HandSound(g)'
  <2>1. at'[g] = at[g] /\ At(g)' = At(g)
    BY <1>1, <1>7 DEF Moved, At
  <2>2. HandSound(g)
    BY RunFits
  <2>3. /\ at[g].pc \in RecordedPlaces => \E e \in LogEvents' : Records(e, at[g].cmd)
        /\ at[g].pc = "append" /\ At(g) \in RecordedPlaces =>
             Len(at[g].todo) = 1 /\ Records(at[g].todo[1], at[g].cmd)
    BY <1>1, <2>2 DEF HandSound
  <2> QED
    BY <1>1, <1>2, <1>4, <2>1, <2>3, HandStays
<1>8. \A e \in Events' : EventSound(e)'
  <2> SUFFICES ASSUME NEW e \in Events'
               PROVE  EventSound(e)'
    OBVIOUS
  <2>1. EventSound(e)
    <3>1. CASE Plain(e)
      BY <3>1 DEF Plain, EventSound
    <3> QED
      BY <1>1, <3>1, LedgerNow
  <2> QED
    BY <1>2, <2>1 DEF EventSound, Known
<1>9. \A k \in Keys : CommandSound(k)'
  BY <1>2, LedgerNow DEF CommandSound, Known
<1>10. ASSUME NEW n \in 1..Len(calls')
       PROVE  CallSound(n)'
  <2>1. CallSound(n) /\ calls[n].logged \in Nat
    <3>1. calls \in Seq(CallType) /\ n \in 1..Len(calls)
      BY <1>2, <1>10, LedgerNow DEF TypeOK
    <3>2. calls[n] \in CallType
      BY <3>1
    <3> QED
      BY <3>1, <3>2, LedgerNow DEF CallType
  <2>2. PICK i \in 1..calls[n].logged : Records(log[i], calls[n])
    BY <2>1 DEF CallSound
  <2>3. calls[n].logged <= Len(log)
    BY <2>1 DEF CallSound
  <2>4. calls[n].logged <= Len(log') /\ log'[i] = log[i]
    BY <1>1, <2>1, <2>2, <2>3
  <2> QED
    BY <1>2, <2>2, <2>4 DEF CallSound
<1>11. HandsApart'
  <2>1. \A t \in TaskIDs : fences[t] <= fences'[t]
    BY <1>2, SameFences
  <2>2. \A e \in Queue(h)' : e \in Events \/ (e.state = "" /\ e.fence = 0)
    <3>1. Queue(h) \subseteq Events
      BY DEF Events
    <3> QED
      BY <1>1, <3>1 DEF Plain
  <2>3. \A e : e.state = "" /\ e.fence = 0 => EventSound(e)'
    BY DEF EventSound
  <2>4. NoKey \notin Keys
    BY KeyFormAssumption
  <2>5. LedgerStep(h, NoKey)
    BY <1>1, <1>2, <1>6, <2>1, <2>2, <2>3, <2>4 DEF LedgerStep
  <2> QED
    BY <2>5, KeepsApart
<1> QED
  BY <1>2, <1>6, <1>7, <1>8, <1>9, <1>10, <1>11, LedgerNow DEF LedgerInv

-----------------------------------------------------------------------------
(* A restart.                                                              *)

(* What the log restores of a command is its task and its fence.           *)
LEMMA SavedAgrees ==
  ASSUME RunInv, NEW k \in Keys
  PROVE  /\ Saved[k].state # "absent" =>
              Known(k) /\ Saved[k].task = commands[k].task /\ Saved[k].fence = commands[k].fence
         /\ \A e \in LogEvents : e.state # "" /\ e.key = k => Saved[k].state # "absent"
<1>1. /\ Marks(k) = {} => Saved[k] = NoCommand
      /\ Marks(k) # {} => \E i \in Marks(k) :
           /\ Saved[k].task = log[i].task /\ Saved[k].fence = log[i].fence
           /\ Saved[k].state # "absent"
  BY RunFits, SavedFromLog
<1>2. NoCommand.state = "absent"
  BY DEF NoCommand
<1>3. ASSUME NEW i \in Marks(k)
      PROVE  Known(k) /\ commands[k].task = log[i].task /\ commands[k].fence = log[i].fence
  <2>1. i \in 1..Len(log) /\ log[i].key = k /\ log[i].state # ""
    BY DEF Marks
  <2>2. EventSound(log[i])
    BY <2>1, LedgerNow DEF Events, LogEvents
  <2> QED
    BY <2>1, <2>2 DEF EventSound
<1>4. ASSUME NEW e \in LogEvents, e.state # "", e.key = k
      PROVE  Marks(k) # {}
  BY <1>4 DEF LogEvents, Marks
<1> QED
  BY <1>1, <1>2, <1>3, <1>4

(* After a restart every handler is idle or done, and the log is what it   *)
(* was or has one plain event more.                                        *)
LEMMA RestartEvents ==
  ASSUME RunInv, Restart
  PROVE  /\ \A h \in Handlers : At(h)' \in {"idle", "done"} /\ Queue(h)' = {}
         /\ \A e \in Events' : e \in LogEvents \/ Plain(e)
         /\ \A e \in LogEvents' : e \in LogEvents \/ Plain(e)
         /\ LogEvents \subseteq LogEvents'
<1>1. /\ \A h \in Handlers : at'[h] = IF at[h].pc = "idle" THEN at[h] ELSE Done
      /\ log' \in Seq(EventType) /\ Len(log) <= Len(log')
      /\ \A i \in 1..Len(log) : log'[i] = log[i]
      /\ \A i \in 1..Len(log') : i <= Len(log) \/ Plain(log'[i])
  BY RunFits, RestartEffect
<1>2. Len(log) \in Nat /\ Len(log') \in Nat
  BY <1>1, LedgerNow DEF TypeOK
<1>3. ASSUME NEW h \in Handlers
      PROVE  At(h)' \in {"idle", "done"} /\ Queue(h)' = {}
  <2>1. CASE at[h].pc = "idle"
    <3>1. at'[h].pc = "idle" /\ at'[h].todo = <<>>
      BY <1>1, <2>1, PlaceNow
    <3> QED
      BY <3>1, EmptyQueue DEF At
  <2>2. CASE at[h].pc # "idle"
    <3>1. at'[h].pc = "done" /\ at'[h].todo = <<>>
      BY <1>1, <2>2, DoneFields DEF Fields
    <3> QED
      BY <3>1, EmptyQueue DEF At
  <2> QED
    BY <2>1, <2>2
<1>4. \A e \in LogEvents' : e \in LogEvents \/ Plain(e)
  <2> SUFFICES ASSUME NEW i \in 1..Len(log')
               PROVE  log'[i] \in LogEvents \/ Plain(log'[i])
    BY DEF LogEvents
  <2>1. CASE i <= Len(log)
    <3>1. i \in 1..Len(log)
      BY <1>2, <2>1
    <3> QED
      BY <1>1, <3>1 DEF LogEvents
  <2> QED
    BY <1>1, <2>1
<1>5. LogEvents \subseteq LogEvents'
  <2>1. \A i \in 1..Len(log) : i \in 1..Len(log')
    BY <1>1, <1>2
  <2> QED
    BY <1>1, <2>1 DEF LogEvents
<1>6. Events' \subseteq LogEvents'
  BY <1>3 DEF Events
<1> QED
  BY <1>3, <1>4, <1>5, <1>6

LEMMA RestartLedger ==
  ASSUME RunInv, TypeOK', Restart
  PROVE  LedgerInv'
<1>1. /\ commands' = Saved /\ fences' \in HighestFences(Saved) /\ calls' = calls
      /\ Len(log) <= Len(log') /\ \A i \in 1..Len(log) : log'[i] = log[i]
      /\ log' \in Seq(EventType)
  BY RunFits, RestartEffect
<1>2. /\ \A h \in Handlers : At(h)' \in {"idle", "done"} /\ Queue(h)' = {}
      /\ \A e \in Events' : e \in LogEvents \/ Plain(e)
  BY RestartEvents
<1>3. ASSUME NEW h \in Handlers
      PROVE  HandSound(h)' /\ ~Owns(h)' /\ ~Polls(h)'
  BY <1>2, UnboundHand DEF Unbound
<1>4. ASSUME NEW k \in Keys
      PROVE  CommandSound(k)'
  <2> SUFFICES ASSUME Saved[k].state # "absent"
               PROVE  Saved[k].task = k[2] /\ Saved[k].fence <= fences'[Saved[k].task]
    BY <1>1 DEF CommandSound, Known
  <2>1. Known(k) /\ Saved[k].task = commands[k].task
    BY SavedAgrees
  <2>2. Saved[k].task = k[2]
    BY <2>1, LedgerNow DEF CommandSound
  <2>3. Saved[k].task \in TaskIDs
    BY RunFits, SavedTyped DEF Command
  <2> DEFINE t == Saved[k].task
             own == {j \in SavedKeys(Saved) : Saved[j].task = t}
  <2>4. k \in own
    BY DEF SavedKeys
  <2>5. \A j \in own : Saved[j].fence <= fences'[t]
    BY <1>1, <2>3 DEF HighestFences
  <2> QED
    BY <2>2, <2>4, <2>5
<1>5. ASSUME NEW e \in Events'
      PROVE  EventSound(e)'
  <2>1. CASE Plain(e)
    BY <2>1 DEF Plain, EventSound
  <2>2. CASE e \in LogEvents
    <3>1. EventSound(e)
      BY <2>2, LedgerNow DEF Events
    <3>2. CASE e.state = ""
      BY <3>1, <3>2 DEF EventSound
    <3>3. CASE e.state # ""
      <4>1. e.key \in Keys /\ commands[e.key].task = e.task /\ commands[e.key].fence = e.fence
        BY <3>1, <3>3 DEF EventSound
      <4>2. /\ Saved[e.key].state # "absent"
            /\ Saved[e.key].task = e.task /\ Saved[e.key].fence = e.fence
        BY <2>2, <3>3, <4>1, SavedAgrees
      <4> QED
        BY <1>1, <3>3, <4>1, <4>2 DEF EventSound, Known
    <3> QED
      BY <3>2, <3>3
  <2> QED
    BY <1>2, <2>1, <2>2
<1>6. ASSUME NEW n \in 1..Len(calls')
      PROVE  CallSound(n)'
  <2>1. CallSound(n) /\ calls[n].logged \in Nat
    <3>1. calls \in Seq(CallType) /\ n \in 1..Len(calls)
      BY <1>1, <1>6, LedgerNow DEF TypeOK
    <3>2. calls[n] \in CallType
      BY <3>1
    <3> QED
      BY <3>1, <3>2, LedgerNow DEF CallType
  <2>2. PICK i \in 1..calls[n].logged : Records(log[i], calls[n])
    BY <2>1 DEF CallSound
  <2>3. calls[n].logged <= Len(log) /\ Len(log) \in Nat /\ Len(log') \in Nat
    BY <1>1, <2>1, LedgerNow DEF CallSound, TypeOK
  <2>4. calls[n].logged <= Len(log') /\ log'[i] = log[i]
    BY <1>1, <2>1, <2>2, <2>3
  <2> QED
    BY <1>1, <2>2, <2>4 DEF CallSound
<1>7. HandsApart'
  BY <1>3 DEF HandsApart
<1> QED
  BY <1>1, <1>3, <1>4, <1>5, <1>6, <1>7, LedgerNow DEF LedgerInv

-----------------------------------------------------------------------------
(* Every step.                                                             *)

LEMMA SameLedger ==
  ASSUME RunInv, UNCHANGED <<commands, fences, calls, log, at>>
  PROVE  LedgerInv'
<1>1. Events' = Events
  BY DEF Events, LogEvents, Queue
<1>2. ASSUME NEW h \in Handlers
      PROVE  HandSound(h)'
  <2>1. HandSound(h)
    BY LedgerNow
  <2>2. LogEvents' = LogEvents /\ At(h)' = At(h)
    BY DEF LogEvents, At
  <2>3. /\ at[h].pc \in RecordedPlaces => \E e \in LogEvents' : Records(e, at[h].cmd)
        /\ at[h].pc = "append" /\ At(h) \in RecordedPlaces =>
             Len(at[h].todo) = 1 /\ Records(at[h].todo[1], at[h].cmd)
    BY <2>1, <2>2 DEF HandSound
  <2> QED
    BY <1>1, <2>2, <2>3, HandStays
<1>3. HandsApart'
  BY LedgerNow DEF HandsApart, Owns, Polls, At
<1>4. \A e \in Events' : EventSound(e)'
  BY <1>1, LedgerNow DEF EventSound, Known
<1>5. \A k \in Keys : CommandSound(k)'
  BY LedgerNow DEF CommandSound, Known
<1>6. \A n \in 1..Len(calls') : CallSound(n)'
  BY LedgerNow DEF CallSound
<1> QED
  BY <1>2, <1>3, <1>4, <1>5, <1>6, LedgerNow DEF LedgerInv

(* A step keeps the ledger, the log and the calls consistent.              *)
LEMMA StepLedger ==
  ASSUME RunInv, [Next]_vars
  PROVE  LedgerInv'
<1>1. TypeOK'
  BY StepFits DEF Fits
<1>2. CASE UNCHANGED vars
  BY <1>2, SameLedger DEF vars
<1>3. ASSUME NEW h \in Requests, RequestArrives(h)
      PROVE  LedgerInv'
  BY <1>1, <1>3, ResultArrivesLedger, ControlArrivesLedger, OtherArrivesLedger DEF RequestArrives
<1>4. ASSUME NEW h \in Handlers, HandlerStep(h)
      PROVE  LedgerInv'
  BY <1>1, <1>4, AppendLedger, ScheduleLedger, RequestDispatchLedger, RotateLedger, CallLedger,
     CallNobodyLedger, AcceptedLedger, OwnerReportsLedger, LostLedger, DoubtLedger,
     CommitTokenLedger, RequestControlLedger, StopLedger, StopAckLedger, RequestRetryLedger,
     ClaimPollLedger, ResultPendingLedger, ResultEndsLedger, ResultCompletedLedger, FinishLedger,
     ClaimDecisionLedger, SettleLedger, PendingLedger DEF HandlerStep
<1>5. ASSUME NEW t \in Tasks, Lapse(t)
      PROVE  LedgerInv'
  BY <1>5, SameLedger DEF Lapse, controlVars
<1> QED
  BY <1>1, <1>2, <1>3, <1>4, <1>5, StartLedger, AppendFailsLedger, RestartLedger DEF Next
=============================================================================
