----------------------------- MODULE EventStore -----------------------------
(***************************************************************************)
(* The event store: core.Store (internal/core/core.go) over SQLite         *)
(* (internal/persistence/sqlite.go), and the recovery that NewConfigured   *)
(* runs before it serves.  A write holds Store.mu from the transaction to  *)
(* the update of the maps, and a crash can come between the two; readers   *)
(* take the same mutex, so they wait for the end of a write.               *)
(*                                                                         *)
(* EventStream.tla adds the readers and the specification.                 *)
(***************************************************************************)
EXTENDS Naturals, Sequences, SequencesExt

CONSTANTS
  Runs,        \* run ids
  Types,       \* event types, as pairs of a first and a last word
  Appended,    \* those that handlers append; recovery appends its own
  Streams,     \* the clients of GET /runs/{id}/events
  NoRow,       \* the write of a run has no row
  NoWrite,     \* Store.mu is free
  MaxEvents,   \* bound: events that handlers append
  MaxCrashes   \* bound

ASSUME TypesAssumption ==
  /\ Types \subseteq STRING \X STRING
  /\ Appended \cup {<<"dispatch", "interrupted">>} \subseteq Types
ASSUME RunsAssumption == Runs # {}
ASSUME BoundsAssumption == MaxEvents \in Nat /\ MaxCrashes \in Nat

VARIABLES
  diskRuns,    \* table runs
  rows,        \* table events, in the order of its ids
  projections, \* table projections
  runs,        \* Store.runs
  events,      \* Store.events
  pending,     \* a write that is committed and not yet in the maps
  open,        \* the streams that hold the current Store.notify channel
  server,      \* "down", "recovering" or "serving"
  recover,     \* runs that recoverInterrupted has still to mark
  fatal,       \* who set Server.fatalErr: "none", "recovery" or "handler"
  crashes

diskVars == <<diskRuns, rows, projections>>
memoryVars == <<runs, events, pending, open>>
serverVars == <<server, recover, fatal, crashes>>
storeVars == <<diskRuns, rows, projections, runs, events, pending, open,
               server, recover, fatal, crashes>>

-----------------------------------------------------------------------------
(* Rows and projections.                                                   *)

Row == [id : Nat, run : Runs, sequence : Nat, type : Types]
PendingWrite == [run : Runs, row : Row \cup {NoRow}]

ASSUME NoneAssumption == NoRow \notin Row /\ NoWrite \notin PendingWrite

Status == {"created", "running", "completed", "failed", "cancelled", "interrupted", "stopped"}

Projection == [status : Status, steps : Nat, last : Nat]

(* What an event of the run makes of its status: the last word of a        *)
(* dispatch event.  Events about tasks and commands change nothing.        *)
StatusOf == [started |-> "running", resumed |-> "running", completed |-> "completed",
             failed |-> "failed", cancelled |-> "cancelled",
             interrupted |-> "interrupted", emergency_stopped |-> "stopped"]

(* A status that is the word itself.                                       *)
NextWord(current, type) == IF type[1] = "dispatch" THEN type[2] ELSE current

NextStatus(current, type) ==
  IF type[1] = "dispatch" /\ type[2] \in DOMAIN StatusOf
  THEN StatusOf[type[2]] ELSE current

ProjectStatus(log) ==
  LET status[n \in 0..Len(log)] ==
        IF n = 0 THEN "created" ELSE NextStatus(status[n - 1], log[n].type)
  IN status[Len(log)]

(* Store.Replay over all events of a run.                                  *)
NoEvents == [status |-> "created", steps |-> 0, last |-> 0]

NextProjection(p, row) ==
  [status |-> NextStatus(p.status, row.type), steps |-> p.steps + 1, last |-> row.id]

Replay(log) ==
  LET projection[n \in 0..Len(log)] ==
        IF n = 0 THEN NoEvents ELSE NextProjection(projection[n - 1], log[n])
  IN projection[Len(log)]

(* The rows of a sequence that are in a set, in their order.               *)
Among(s, S) ==
  LET kept[n \in 0..Len(s)] ==
        IF n = 0 THEN <<>>
        ELSE IF s[n] \in S THEN Append(kept[n - 1], s[n]) ELSE kept[n - 1]
  IN kept[Len(s)]

RowsOf(r) == Among(rows, {row \in Row : row.run = r})

(* The checks of OpenStore on what Load returns.                           *)
Intact ==
  /\ \A i \in 1..Len(rows) : rows[i].run \in diskRuns
  /\ \A r \in Runs : LET log == RowsOf(r) IN \A i \in 1..Len(log) : log[i].sequence = i

Free == pending = NoWrite

-----------------------------------------------------------------------------
(* Writing.                                                                *)

(* Handlers that write: none is admitted once fatalErr is set, but those   *)
(* that were admitted before go on (Server.security).                      *)
Handling == server = "serving" /\ fatal # "recovery"

(* The transaction of SQLite.CreateRun.                                    *)
CreateRun(r) ==
  /\ Handling /\ Free
  /\ r \notin runs
  /\ diskRuns' = diskRuns \cup {r}
  /\ projections' = [projections EXCEPT ![r] = Replay(<<>>)]
  /\ pending' = [run |-> r, row |-> NoRow]
  /\ UNCHANGED <<rows, runs, events, open, server, recover, fatal, crashes>>

RowFor(r, t) == [id |-> Len(rows) + 1, run |-> r, sequence |-> Len(RowsOf(r)) + 1, type |-> t]

(* The transaction of SQLite.Append: the row, and the projection, whose    *)
(* status Store.Append computed from the events in memory.                 *)
Commit(row) ==
  /\ rows' = Append(rows, row)
  /\ projections' = [projections EXCEPT
       ![row.run] = [status |-> NextStatus(ProjectStatus(events[row.run]), row.type),
                     steps |-> @.steps + 1, last |-> row.id]]
  /\ pending' = [run |-> row.run, row |-> row]
  /\ UNCHANGED <<diskRuns, runs, events, open>>

(* A write without the mutex, and one that numbers the events of all runs. *)
WriteUnlocked(r, t) == r \in runs /\ Commit(RowFor(r, t))
WriteSharedSequence(r, t) ==
  Free /\ r \in runs /\ Commit([RowFor(r, t) EXCEPT !.sequence = Len(rows) + 1])

Write(r, t) == Free /\ r \in runs /\ Commit(RowFor(r, t))

(* A handler appends an event.                                             *)
AppendEvent(r, t) ==
  /\ Handling
  /\ Len(rows) < MaxEvents
  /\ Write(r, t)
  /\ UNCHANGED <<server, recover, fatal, crashes>>

(* An append that updates the maps although its transaction failed.        *)
AppendRefusedKept ==
  /\ Handling /\ Free
  /\ \E r \in runs, t \in Appended : events' = [events EXCEPT ![r] = Append(@, RowFor(r, t))]
  /\ fatal' = "handler"
  /\ UNCHANGED <<diskRuns, rows, projections, runs, pending, open, server, recover, crashes>>

(* The transaction fails and is rolled back; appendCritical latches the    *)
(* error.                                                                  *)
AppendRefused ==
  /\ Handling /\ Free
  /\ runs # {}
  /\ fatal' = "handler"
  /\ UNCHANGED <<diskRuns, rows, projections, runs, events, pending, open,
                 server, recover, crashes>>

(* The rest of Store.CreateRun and Store.Append: the maps, then            *)
(* signalLocked, which closes the channel and makes a new one.             *)
Publish ==
  /\ ~Free
  /\ runs' = runs \cup {pending.run}
  /\ events' = IF pending.row = NoRow THEN events
               ELSE [events EXCEPT ![pending.run] = Append(@, pending.row)]
  /\ pending' = NoWrite
  /\ open' = {}
  /\ UNCHANGED <<diskRuns, rows, projections, server, recover, fatal, crashes>>

-----------------------------------------------------------------------------
(* Crash and restart.                                                      *)

Crash ==
  /\ server # "down"
  /\ crashes < MaxCrashes
  /\ server' = "down"
  /\ crashes' = crashes + 1
  /\ runs' = {} /\ events' = [r \in Runs |-> <<>>]
  /\ pending' = NoWrite /\ open' = {}
  /\ recover' = {} /\ fatal' = "none"
  /\ UNCHANGED diskVars

(* OpenStore loads the tables; recoverInterrupted then looks for the runs  *)
(* that were running.                                                      *)
OpenStore ==
  /\ server = "down"
  /\ Intact
  /\ runs' = diskRuns
  /\ events' = [r \in Runs |-> RowsOf(r)]
  /\ recover' = {r \in diskRuns : Replay(RowsOf(r)).status = "running"}
  /\ server' = "recovering"
  /\ UNCHANGED <<diskRuns, rows, projections, pending, open, fatal, crashes>>

(* One append of recoverInterrupted.  Its error is dropped, but            *)
(* appendCritical has latched it.                                          *)
RecoverInterrupted(r) ==
  /\ server = "recovering"
  /\ r \in recover
  /\ recover' = recover \ {r}
  /\ \/ Write(r, <<"dispatch", "interrupted">>) /\ UNCHANGED fatal
     \/ Free /\ fatal' = "recovery" /\ UNCHANGED <<diskVars, memoryVars>>
  /\ UNCHANGED <<server, crashes>>

(* A server that serves before it has marked the runs.                     *)
ServeAtOnce ==
  /\ server = "recovering"
  /\ server' = "serving"
  /\ recover' = {}
  /\ UNCHANGED <<diskRuns, rows, projections, runs, events, pending, open, fatal, crashes>>

Serve ==
  /\ server = "recovering" /\ recover = {} /\ Free
  /\ server' = "serving"
  /\ UNCHANGED <<diskRuns, rows, projections, runs, events, pending, open,
                 recover, fatal, crashes>>

-----------------------------------------------------------------------------
StoreInit ==
  /\ diskRuns = {} /\ rows = <<>>
  /\ projections = [r \in Runs |-> Replay(<<>>)]
  /\ runs = {} /\ events = [r \in Runs |-> <<>>]
  /\ pending = NoWrite /\ open = {}
  /\ server = "serving" /\ recover = {} /\ fatal = "none" /\ crashes = 0

StoreTypeOK ==
  /\ diskRuns \subseteq Runs
  /\ rows \in Seq(Row)
  /\ projections \in [Runs -> Projection]
  /\ runs \subseteq Runs
  /\ events \in [Runs -> Seq(Row)]
  /\ pending \in {NoWrite} \cup PendingWrite
  /\ open \subseteq Streams
  /\ server \in {"down", "recovering", "serving"}
  /\ recover \subseteq Runs
  /\ fatal \in {"none", "recovery", "handler"}
  /\ crashes \in 0..MaxCrashes
=============================================================================
