----------------------------- MODULE EventStream ----------------------------
(***************************************************************************)
(* The readers of the event store: GET /runs/{id}/events as a stream       *)
(* (Server.events in internal/httpapi/server.go), the two kinds of clients *)
(* that follow it, and the export of a run (internal/bundle/bundle.go).    *)
(*                                                                         *)
(* An API client resumes with the id of the last event it received         *)
(* (docs/api.md).  A stream of the web page (web/app.js) starts after the  *)
(* last sequence number the page holds at that moment and keeps a cursor   *)
(* of its own; ids count over all runs, sequence numbers within one.  The  *)
(* page can have two streams at a time, since its mode handler starts one  *)
(* without stopping the other; each is one of Streams, and both bring the  *)
(* page what comes after their cursors.                                    *)
(***************************************************************************)
EXTENDS EventStore

CONSTANTS
  MaxBacklog,  \* maxSSEBacklog
  MaxBundle    \* events of a bundle that fits the 8 MiB an import reads

ASSUME BacklogAssumption == MaxBacklog \in Nat \ {0} /\ MaxBundle \in Nat

VARIABLES
  client,      \* per stream: what the client holds and where the handler stands
  export       \* bundle.Export

vars == <<diskRuns, rows, projections, runs, events, pending, open, server,
          recover, fatal, crashes, client, export>>

(* pc: "idle", "selected" (ready to connect), "behind" (refused with 409), *)
(* and, while connected, the next step of the handler's loop.  got is what *)
(* the stream has brought, base the number of events it does not bring:    *)
(* those a resync skipped, or those the page held when it started it.      *)
Client == [kind : {"web", "api", "exporter"},
           pc : {"idle", "selected", "behind", "subscribe", "send", "wait"},
           run : Runs, base : Nat, got : Seq(Row), cursor : Nat]

Export == [pc : {"idle", "read", "done"}, run : Runs, events : Seq(Row),
           projection : Projection]

Readable == server = "serving" /\ Free

Connected(c) == client[c].pc \in {"subscribe", "send", "wait"}

(* What a handler finds after the cursor, and whether it is too much.      *)
After(r, cursor) == Among(events[r], {row \in Row : row.id > cursor})
More(r, cursor) == Len(After(r, cursor)) > MaxBacklog

(* The loop of the handler: subscribe, then read and send, then wait; and  *)
(* one that reads before it subscribes.                                    *)
LoopReadingFirst == [connect |-> "send", send |-> "subscribe", subscribe |-> "wait",
                     wake |-> "send"]
Loop == [connect |-> "subscribe", subscribe |-> "send", send |-> "wait",
         wake |-> "subscribe"]

(* Where the client is when its stream has ended.                          *)
Ended(c) == IF client[c].kind = "web" THEN "idle" ELSE "selected"

-----------------------------------------------------------------------------
(* The clients.                                                            *)

(* How many events the page holds when it starts a stream: as many of the  *)
(* run as it read or was sent, or as many of another one, since selectRun  *)
(* names the run before it has its events.  An API client starts without.  *)
Held(c) == IF client[c].kind = "web" THEN UNION {0..Len(events[r]) : r \in runs} ELSE {0}

Select(c, r) ==
  /\ Readable
  /\ client[c].kind # "exporter"
  /\ client[c].pc \in {"idle", "selected", "behind"}
  /\ r \in runs
  /\ \E held \in Held(c) : client' = [client EXCEPT ![c] =
       [kind |-> @.kind, pc |-> "selected", run |-> r, base |-> held, cursor |-> 0, got |-> <<>>]]
  /\ UNCHANGED <<storeVars, export>>

(* The cursor of a new stream.  An API client sends the last id, the web   *)
(* page the last sequence number.                                          *)
ResumeAt(c) == IF client[c].kind = "web" THEN client[c].base ELSE client[c].cursor

Connect(c) ==
  /\ Readable
  /\ client[c].pc = "selected"
  /\ client' = [client EXCEPT
       ![c].cursor = ResumeAt(c),
       ![c].pc = IF ~More(client[c].run, ResumeAt(c)) THEN Loop.connect
                 ELSE IF client[c].kind = "web" THEN "idle" ELSE "behind"]
  /\ UNCHANGED <<storeVars, export>>

(* "resync from snapshot": the client takes the projection and goes on     *)
(* after its last event.                                                   *)
Resync(c) ==
  /\ Readable
  /\ client[c].pc = "behind"
  /\ LET p == Replay(events[client[c].run])
     IN client' = [client EXCEPT ![c].pc = "selected", ![c].got = <<>>,
                                 ![c].base = p.steps, ![c].cursor = p.last]
  /\ UNCHANGED <<storeVars, export>>

-----------------------------------------------------------------------------
(* The handler of a stream.                                                *)

Subscribe(c) ==
  /\ server = "serving" /\ Free
  /\ client[c].pc = "subscribe"
  /\ open' = open \cup {c}
  /\ client' = [client EXCEPT ![c].pc = Loop.subscribe]
  /\ UNCHANGED <<diskVars, runs, events, pending, serverVars, export>>

(* What the client keeps of the events it is sent.  The web page drops     *)
(* those that do not come after the cursor of the stream, by sequence      *)
(* number.                                                                 *)
KeepAll(c, sent) == sent
Keep(c, sent) ==
  IF client[c].kind = "web"
  THEN LET cursor == client[c].base + Len(client[c].got)
       IN  Among(sent, {row \in Row : row.sequence > cursor})
  ELSE sent

(* send reads the backlog.  A backlog above the limit ends the stream; so  *)
(* does a write that fails, after the first k events.                      *)
Send(c) ==
  /\ Readable
  /\ client[c].pc = "send"
  /\ LET backlog == After(client[c].run, client[c].cursor)
     IN IF Len(backlog) > MaxBacklog
        THEN client' = [client EXCEPT ![c].pc = Ended(c)]
        ELSE \E k \in 0..Len(backlog) :
               client' = [client EXCEPT
                 ![c].got = @ \o Keep(c, SubSeq(backlog, 1, k)),
                 ![c].cursor = IF k = 0 THEN @ ELSE backlog[k].id,
                 ![c].pc = IF k = Len(backlog) THEN Loop.send ELSE Ended(c)]
  /\ UNCHANGED <<storeVars, export>>

(* The channel was closed, that is, replaced.                              *)
Wake(c) ==
  /\ server = "serving"
  /\ client[c].pc = "wait"
  /\ c \notin open
  /\ client' = [client EXCEPT ![c].pc = Loop.wake]
  /\ UNCHANGED <<storeVars, export>>

(* Fifteen seconds without an event.                                       *)
Keepalive(c) ==
  /\ server = "serving"
  /\ client[c].pc = "wait"
  /\ client' = [client EXCEPT ![c].pc = Loop.wake]
  /\ UNCHANGED <<storeVars, export>>

(* The client goes away: r.Context().Done().                               *)
Leave(c) ==
  /\ Connected(c)
  /\ client' = [client EXCEPT ![c].pc = Ended(c)]
  /\ open' = open \ {c}
  /\ UNCHANGED <<diskVars, runs, events, pending, serverVars, export>>

-----------------------------------------------------------------------------
(* Export and import.  GetRun and Events are one reading here, since a run *)
(* never changes; Replay is another.                                       *)

ExportEvents(c, r) ==
  /\ Readable
  /\ client[c].kind = "exporter"
  /\ export.pc # "read"
  /\ r \in runs
  /\ export' = [pc |-> "read", run |-> r, events |-> events[r], projection |-> Replay(<<>>)]
  /\ UNCHANGED <<storeVars, client>>

ExportProjection ==
  /\ Readable
  /\ export.pc = "read"
  /\ export' = [export EXCEPT !.pc = "done", !.projection = Replay(events[export.run])]
  /\ UNCHANGED <<storeVars, client>>

(* projectionDigest: storage cursors are left out.                         *)
Digest(p) == <<p.status, p.steps>>

(* The import reads the bundle and VerifyAndReplay accepts it.  An export  *)
(* has no limit on its size.                                               *)
VerifiedWithoutReplay(b) ==
  \A i \in DOMAIN b.events : b.events[i].run = b.run /\ b.events[i].sequence = i
Verified(b) ==
  /\ Len(b.events) <= MaxBundle
  /\ \A i \in DOMAIN b.events :
       /\ b.events[i].run = b.run
       /\ b.events[i].sequence = i
       /\ \A j \in 1..(i - 1) : b.events[j].id # b.events[i].id
  /\ Digest(Replay(b.events)) = Digest(b.projection)

-----------------------------------------------------------------------------
(* A crash ends every stream and an export in progress.                    *)
CrashAll ==
  /\ Crash
  /\ client' = [c \in Streams |-> IF Connected(c)
                  THEN [client[c] EXCEPT !.pc = Ended(c)] ELSE client[c]]
  /\ export' = IF export.pc = "read" THEN [export EXCEPT !.pc = "idle"] ELSE export

Init ==
  /\ StoreInit
  /\ client \in [Streams -> [kind : {"web", "api", "exporter"}, pc : {"idle"}, base : {0}, cursor : {0},
                              run : {CHOOSE r \in Runs : TRUE}, got : {<<>>}]]
  /\ export = [pc |-> "idle", run |-> CHOOSE r \in Runs : TRUE, events |-> <<>>,
               projection |-> Replay(<<>>)]

StoreStep ==
  /\ \/ \E r \in Runs : CreateRun(r)
     \/ \E r \in Runs, t \in Appended : AppendEvent(r, t)
     \/ AppendRefused
     \/ Publish
     \/ OpenStore
     \/ \E r \in Runs : RecoverInterrupted(r)
     \/ Serve
  /\ UNCHANGED <<client, export>>

StreamStep(c) == Connect(c) \/ Subscribe(c) \/ Send(c) \/ Wake(c)

Next ==
  \/ StoreStep
  \/ CrashAll
  \/ \E c \in Streams : StreamStep(c) \/ Keepalive(c) \/ Leave(c) \/ Resync(c)
                        \/ \E r \in Runs : Select(c, r) \/ ExportEvents(c, r)
  \/ ExportProjection

Spec == Init /\ [][Next]_vars

(* A write that has begun ends, and the handler of a stream takes its      *)
(* steps.  Nothing is assumed of the clients, of the keepalive timer, or   *)
(* of the handlers that append.                                            *)
Fairness ==
  /\ WF_vars(Publish /\ UNCHANGED <<client, export>>)
  /\ \A c \in Streams : WF_vars(Subscribe(c)) /\ WF_vars(Send(c)) /\ WF_vars(Wake(c))

FairSpec == Spec /\ Fairness

-----------------------------------------------------------------------------
(* Properties.                                                             *)

(* Every variable keeps its type.                                          *)
TypeOK ==
  /\ StoreTypeOK
  /\ client \in [Streams -> Client]
  /\ export \in Export

(* Whatever a crash cuts off, the tables pass the checks that OpenStore    *)
(* makes of them: a server can always be started again (core.go:172-186).  *)
Reopenable == Intact

(* The projection that SQLite keeps, computed event by event from the      *)
(* events in memory, is at any time what a replay of the rows gives        *)
(* (core.go:256-260 against core.go:349-383).                              *)
ProjectionIsReplay == \A r \in Runs : projections[r] = Replay(RowsOf(r))

(* Disk and memory together keep the promise of EventLog: an event is      *)
(* durable before a reader can see it, it is never changed, and what       *)
(* readers see never shrinks, not even over a crash (core.go:243-273).     *)
LogOf(r) == LET log == RowsOf(r) IN [i \in 1..Len(log) |-> log[i].type]
Promise == INSTANCE EventLog WITH
  log <- [r \in Runs |-> LogOf(r)],
  shown <- [r \in Runs |-> IF server = "down" THEN Len(RowsOf(r)) ELSE Len(events[r])]
LogKept == Promise!Spec

(* When the server begins to serve after a restart, no run is shown as     *)
(* running that nothing runs any more, unless the mark could not be        *)
(* written, and then no mutation is served (dispatch.go:40-47).            *)
InterruptedRunsMarked ==
  [][server = "recovering" /\ server' = "serving"
       => fatal # "none" \/ \A r \in runs : Replay(events[r]).status # "running"]_vars

(* What a stream has brought is a stretch of the log on disk that begins   *)
(* right after what it was to leave out, without a gap, a repetition or an *)
(* exchange: for an API client over any number of connections, resyncs and *)
(* restarts, for the web page within each of its streams, which it starts  *)
(* with a sequence number where an id is expected (server.go:298-312,      *)
(* app.js:40).  Two streams of one page bring the same events twice.       *)
HoldsTheLog ==
  \A c \in Streams : client[c].got # <<>> =>
    LET log == RowsOf(client[c].run)
        n == client[c].base
    IN /\ n + Len(client[c].got) <= Len(log)
       /\ client[c].got = SubSeq(log, n + 1, n + Len(client[c].got))

(* A connected client receives every event that is appended, without the   *)
(* help of the keepalive timer: the handler subscribes before it reads     *)
(* (server.go:313-322).                                                    *)
StreamDelivers ==
  \A c \in Streams, n \in 1..MaxEvents :
    (Connected(c) /\ Len(events[client[c].run]) >= n)
      ~> (~Connected(c) \/ client[c].base + Len(client[c].got) >= n)

(* A bundle is verified by its import, unless an event was appended while  *)
(* it was being exported or it is larger than an import reads; whatever is *)
(* verified is a prefix of the log with the status it had then             *)
(* (bundle.go:50-64, 66-110, server.go:108).                               *)
ExportSound ==
  export.pc = "done" =>
    LET log == RowsOf(export.run)
        n == Len(export.events)
    IN IF Verified(export)
       THEN /\ export.events = SubSeq(log, 1, n)
            /\ export.projection.status = ProjectStatus(SubSeq(log, 1, n))
       ELSE Len(log) > n \/ n > MaxBundle
=============================================================================
