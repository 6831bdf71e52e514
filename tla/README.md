# A TLA+ model of n0ding-dispatch

n0ding-dispatch routes the tasks of a DAG to agents of an external runtime, keeps
every step in a durable event log, and lets operators intervene (pause, retry,
stop, approve, reconcile). What is difficult about it is not any one handler: it is
that handlers run concurrently over a ledger in memory and a log on disk, which are
two separate critical sections, around calls to a runtime that may lose its answer,
in a process that may die between any two of those steps. This directory models
that core in TLA+, checks it with TLC and proves most of its safety with TLAPS.

Paths and line numbers are those of the repository; `control.go` is
`internal/dispatch/control.go`, `dispatch.go` is `internal/httpapi/dispatch.go`.

## The system

| Part | State it keeps | Operations | What is hard about it |
|---|---|---|---|
| Command controller (`control.go`) | commands by idempotency key, fences and leases by task, results, the stopped flag, the command count; one mutex | `RequestOnce`, `Transition`, `Reconcile`, `RotateFenceForCommand`, `Commit`, `RenewLease`, `AcquireLease`, `CommitLease`, `ExecuteOnce`, `EmergencyStop`, `Restore*` | callers compose several operations that are atomic one by one; counts, fences and results are kept in maps of their own and must agree |
| Run handlers (`dispatch.go`, `startDispatch`, `scheduleRun`, `dispatchTask`) | none of their own; they work on one reading of the log | create a run, route ready tasks, ask for approvals, dispatch | several schedules of one run at once; adapter call without a lock |
| Controls (`control`) | none | pause, resume, cancel, retry, reassign, emergency-stop | token check, request, rotation, append, call, transition and append are seven steps |
| Approvals (`approve`) | `approvalClaims` in memory, decisions in the log | grant, deny; expiry after 15 minutes | two deciders; the claim is lost in a crash, the decision is not |
| Result checks (`taskResult`) | the `polling` state of a command | ask the runtime, record the answer, schedule what it releases, end the run | concurrent checks, joins, a claim that must be given back |
| Reconciliation (`reconcile`) | none | record evidence, settle a command in doubt | its events are not read on recovery |
| Recovery (`recover*`) | rebuilds the controllers and adapters | one pass over the log at start-up | the log is behind the ledger, or ahead of it |
| Event store (`core.go`, `sqlite.go`) | tables of runs, events, projections, definitions; maps of runs and events in memory | create, append, open, replay, subscribe | a write is a transaction and then an update of the maps; a failed one latches `fatalErr`; the stored projection is computed from memory |
| Event stream (`server.go`, `events`) | a cursor per client, the notify channel | backlog, subscribe, send, keepalive | subscribe before reading, bounded backlog, clients that resume after a restart |
| HTTP front (`server.go`) | the mutation window, `fatalErr` | authentication, origin, rate limit | refused mutations while the store is unhealthy |
| Adapters (`adapters/`) | tasks of the fixture; the hook of a request | dispatch, controls, result | which failure may have had an effect |
| Definitions (`putCatalog`, `putDAG`, `runDefinitions`, `loadDefinitions`) | a table, and maps under `Server.mu` | put, look up, load | the table and the map are two critical sections; what is stored is redacted and rounded |
| Router, catalog, DAG (`router.go`, `model.go`, `topological`) | none | choose an agent, validate, sort | fixed width, cycles, determinism |
| Bundle (`bundle.go`) | none | export, verify, replay | two readings of a store that others append to |
| CLI, web interface | none | clients of the API | the page resumes a stream with a sequence number |

How they meet: a handler calls the controller (atomic under `Controller.mu`), appends
to and reads the log (atomic under `Store.mu`), and calls the adapter (no lock). The
controller never touches the log; the handlers keep the two in step, and after a
restart the controller is whatever `recoverControllers` reads from the log. So the
correctness of the whole is a relation between the ledger, the log, and the calls the
runtime has received, and that relation is what most properties below are about.

What makes each part correct:

- *Controller*: the count of commands is their number, whatever created them, and at most
  `maxCommands`; a key is created once and follows the transition table; an answered
  command keeps its answer; fences never fall behind a token that was handed out; one holder per lease; nothing new after a stop.
- *Scheduling and dispatch*: a task is released after its dependencies and its
  approval, once; no call precedes its durable request; a run reported completed is, if its
  DAG is known.
- *Controls*: a key reaches the runtime once; no retry against an outcome in doubt; a
  durable stop is final, restarts included.
- *Approvals*: one decision per digest; a grant releases its task.
- *Result checks*: one poller at a time, which gives the command back; whichever
  check is last releases the dependants of a join.
- *Recovery*: the log restores a ledger that is never ahead of the live one, and whose
  tokens are as new as any that were handed out.
- *Event store*: nothing is shown before it is durable, nothing durable is changed or
  forgotten, the tables always load, and the stored projection is a replay of the rows.
- *Streams and exports*: a stream brings a stretch of the log without gaps; a connected client
  gets every event; a bundle is what the log was, or its import refuses it.
- *Definitions*: exactly the DAGs that can be run are accepted; memory and table agree; a
  run keeps the definitions that survive the table; plans are the same whenever they are made.
- *Adapters*: no call that had or may still have an effect is taken for a definite failure
  unless the gateway itself said so. (One kind of request is an exception, see below.)

## Modules

| Module | Models |
|---|---|
| `CommandControl` | the operations of `dispatch.Controller` that the HTTP layer drives, as actions over the ledger; no specification of its own |
| `Controller` | `CommandControl` with leases and `ExecuteOnce`: the Go type as a component, called by any clients in any order; its properties and the inductive invariant |
| `CommandLifecycle` | abstract: what the ledger promises about one idempotency key (absent, open, in doubt, closed, with an answer that never changes) |
| `ControllerProofs` | the theorems about `Controller` |
| `DispatchRun` | one run: the handlers of `dispatch.go` step by step over `CommandControl`, the log, the adapter, crashes, restarts and refused appends |
| `RunPromise` | abstract: what a run promises about its tasks (decided once, released after dependencies and approval, completed after release, ended when all are completed unless the DAG is not known, never taken back) |
| `RunProperties` | the properties of `DispatchRun`, with `RunPromise` as a refinement |
| `RunInvariant` | the inductive invariants of `DispatchRun`: of the run itself, of the ends of handlers, and of how the log trails the ledger |
| `RunSteps` | lemmas: what each action of `DispatchRun` changes, field by field; none breaks the types and places |
| `RunLedgerProofs`, `RunPromiseProofs` | lemmas: no action breaks the ledger, the stop, the decisions and the promise |
| `RunProofs` | the theorems about `DispatchRun` |
| `EventStore` | `core.Store` over SQLite, and `recoverInterrupted`: tables, maps, writes cut in two, refused writes, crash and opening |
| `EventStream` | `EventStore` with its readers: streams of an API client and of the web page, resync, export; the specification and its properties |
| `EventLog` | abstract: what the store promises (a log per run that grows by one event, shown after it is durable) |
| `StoreProofs` | the theorems about `EventStore` and `EventStream`, with their inductive invariant |
| `TaskPlan` | pure definitions: validation of DAGs and catalogs, `topological`, `Route` |
| `Definitions` | `TaskPlan` with the puts, the table, the maps, a run that uses them, crash and loading |
| `DefinitionsProofs` | the theorems about `Definitions`, with their inductive invariant |
| `AdapterCall` | the calls for one task through the OpenClaw client or a fixture, with gateway and network |
| `AdapterProofs` | the theorems about `AdapterCall` |
| `MCController`, `MCDispatchRun`, `MCEventStream`, `MCDefinitions`, `MCAdapterCall` | instances for TLC: DAGs, menus of requests, catalogs, event types |

`DispatchRun` uses what the others establish. It appends to a log that is atomic and
durable, which is `EventLog`, implemented by `EventStore`. It takes `Order` and `Routable`
as given, which `TaskPlan` computes; that a restart may not find the definitions of a run,
which `Definitions` explains; and a classified outcome of every call, which `AdapterCall`
explains. They are not composed into one specification, because their
states do not share variables that any property relates.

Next to some definitions stands a variant of it, marked as a mutant or with a line that
says what it does wrong. It is used by nothing; `PROJECT.json` names it as the change
that makes a property fail.

### Controller

Every method of the Go type holds `c.mu` throughout, so every method is one action; a
call the code refuses changes nothing and its guard is false. `commands` maps every key,
with an `absent` record for one that was never requested. `fences[t] = 0` means the Go
map has no entry for `t`; `EmergencyStop` raises only fences that have one. `newer` is
the order of `UpdatedAt`: only comparisons of it matter, and a restored controller has
the zero time everywhere, so nothing is newer than anything. Callers' `now` is one
`clock`. `issued`, `handed`, `committed` and `executed` are history variables. A fence is a
natural number (a `uint64` that a client increments once per request does not overflow).

`RequestOnce` checks no token: the command it creates has the one the caller sent, or the
task's fence if that is zero, and for an emergency stop the HTTP layer makes no check
either (`dispatch.go:525-539`). `Tokens` are the tokens a caller may send, above the fence
included. So no property says that a command's token is at most the fence of its task.
`FencesCover` says it of the tokens the controller handed out itself (`handed`), which is what
a new token must be newer than.

No handler that serves a run calls the leases or `ExecuteOnce`: tests do, and the fixed example
of `core/fixtures.go`. What is shown of them matters to a later caller.

`Init` is a controller that is empty or restored from any ledger the caller can have
saved: `recoverControllers` can save every state except `polling`, because no event is
appended when a poll is claimed.

### DispatchRun

A handler is a record `at[h]`: its program counter `pc` stands before its next access
to shared state, that is one controller call, one append or read of the log, or one
adapter call. What it computes between two accesses belongs to the first of them.
Events that follow one another with nothing in between are queued in `todo` and
appended one at a time by `AppendEvent`, so another handler or a crash can come between
any two. `AppendFails` is the refused append: `fatalErr` is set, later mutations are
refused, the handler answers an error, and inside `scheduleRun` the error is returned to
its caller, each of which does something else with it (`ScheduleFailed`).

| Code | Actions |
|---|---|
| `startDispatch` | `StartDispatch`, then scheduling |
| `scheduleRun` | `Schedule` (the one reading of the log), `AskApproval`, `LookUp`, `Visit`, `ScheduleEnded`, `ScheduleFailed` |
| `dispatchTask` | `RequestDispatch`, `Rotate`, `CallAdapter`, then `Accepted`, `Refused` or `Lost` and `Doubt` |
| `control` | `ControlArrives`, `CommitToken`, `RequestControl`, `Rotate`, `CallAdapter`, `Accepted`, `Refused`, `Lost`, `Doubt`, `Stop`, `StopAck`, `RequestRetry`, `RetryAck` |
| `approve` | `ApproveArrives`, `ClaimDecision`, then scheduling; `Lapse` is the expiry |
| `taskResult` | `ResultArrives`, `ClaimPoll`, `ResultPending`, `ResultFailed`, `ResultCancelled`, `ResultCompleted`, then scheduling, `Finish` |
| `reconcile` | `ReconcileArrives`, `Settle`, `Pending`, then scheduling, `Finish` |
| `recover*` | `Restart` |

Abstractions, each with its reason:

- *Reads.* Two reads with no write of the same handler in between are merged when what
  the first one decides cannot be undone by a step in between (the checks at the arrival
  of a request: existence of the run, known key).
- *Tokens.* An operator presents a token read from an event of the task. Inventing one
  is not modelled; a control with no published token cannot be sent. The emergency stop
  is sent as the command line sends it, without a task and a token; with an invented
  token a run could hold a command above its task's fence, which `Controller` has.
- *Digests.* The digest of a task's action is a function of the task, so approvals are
  named by their tasks. An approval is requested once (`dispatch.go:340`).
- *Evidence.* Reconciliation evidence either matches the command, or is refused without
  a trace; only matching evidence is modelled.
- *Routing.* `dispatch.Route` is deterministic; `Routable` is the set of tasks it finds
  an agent for. The order of a DAG is `topological`'s, given as `Order`; `rest`, what a
  schedule still has to visit, is a set of tasks, and `First` takes the next one in that order.
- *Keys.* A key says what it was made for: a dispatch, or an operation of a client
  (`KeyFormAssumption`, `MenuAssumption`). A client that chooses the key of a dispatch as its
  own is not modelled.
- *Adapter.* A side-effecting call has the three outcomes the handlers tell apart:
  accepted, refused, lost (`IsOutcomeUnknown`). `Result` only reads, so its answer is
  decided with the transition that follows it, while the command is in `polling`.
- *Restart* is one step: nothing is served before recovery is finished. `found` says what the
  new server has of the run's `Parts`: its adapter (`recoverAdapters` installs none for an
  OpenClaw run when there is no endpoint), its catalog and its DAG (`loadDefinitions` drops what
  it cannot read, see `Definitions`). `Survivals` lists what a restart may find. Without the
  definitions nothing is scheduled: `approve` answers 409 after it has recorded the grant,
  `reconcile` leaves the run open, and `taskResult` ends it (`RunEnds`). `CallNobody` is a
  call of the nil adapter, a panic that `net/http` turns into the end of the handler.
- *Projection.* `Status` is computed from the log, which is what `Replay` returns; that
  the stored projection agrees with it is `ProjectionIsReplay` of the event store.
- *Start.* The model begins when `startDispatch` has created the run and installed its
  controller.
- *The bound* is `MaxCommands`; the code's is 10000 (`NewController`). One run makes it
  small enough to be reached.

### EventStore and EventStream

A write holds `Store.mu` from the transaction to the maps. It is two actions, so that a
crash can come in between: the transaction (`CreateRun`, `Write`), which leaves the row in
`pending`, and `Publish`, which updates the maps and replaces the notify channel. Readers
need the mutex, so every reading has the guard `Free`. `AppendRefused` is a transaction
that is rolled back. `OpenStore` loads the tables if they pass the checks of
`core.OpenStore`; `RecoverInterrupted` is one append of `recoverInterrupted`, whose error
the code drops; `Serve` is the end of `NewConfigured`. After `fatalErr` was set by a
handler, the handlers admitted before go on; after it was set by recovery there are none.

A stream is a record `client[c]`: what the client has received, the cursor, and the next
step of the handler's loop. `Loop` is the order of those steps. `open` is the set of
streams that hold the current channel; a stream outside it is awake. An API client
resumes with the id of the last event it received, and after a 409 it takes the
projection and goes on from there (`Resync`). Of the web page each stream is a client of its
own, since a page can have several: the handler of the mode switch starts one without
stopping the other (`app.js:49`). A stream starts with the last sequence number the page
holds at that moment (`base`), which the server compares with ids, and drops what is not
after its cursor by sequence number. What the page holds is any number of the events of any
run (`Held`), since `selectRun` names a run before it has its events. `Send` may end in the
middle, when the client is gone.

An export reads the events and the projection in two steps. The hashes of a bundle are
injective: what they protect cannot change, and what is left of `VerifyAndReplay` is the
sequence check, the unique ids and the comparison of projections. An import reads 8 MiB
at most (`bundle.go:66-69`, `server.go:108`), which `MaxBundle` stands for, counted in
events; an export has no limit.

The rows of a run are picked from the table by `Among`. It, `Replay` and `ProjectStatus`,
the loops of `core.go`, are recursive functions over positions of a sequence, a form the
proofs can unfold.

Event types are pairs of words because `nextStatus` looks at both. Event data, sources and
times are left out. Handlers append at most `MaxEvents` events; recovery may exceed that.

### TaskPlan and Definitions

Ids are naturals in the order of the code's strings. A DAG is a record of a sequence of
tasks, the fanout limit and the cost budget; a catalog has capabilities and agents. `Visit`
is the closure of the depth-first search as a recursive function over tasks and search
states; `Topological` is the loop as a recursive function of the number of iterations.
The retry budget is summed like the cost budget and is left out. `Route` gets no agent
states, since schedules pass none (`dispatch.go:326`).

Definitions of different ids do not interact, so the table and the maps hold one catalog and one
DAG. A put is validated (`Put`), saved (`SaveDefinition`, or `SaveFails`), and then put into the
map (`Publish`). `Stored` is what the table makes of a definition: numbers go through a
floating-point number (`AsFloat`; above `MaxExact` only even numbers are exact), and texts in
`SecretLike` come back as one text, in DAGs and in catalogs: ids, versions, capabilities.
`LoadDefinitions` keeps what decodes and is valid. A run takes both definitions at once when it starts, and looks them up again at every
later schedule (`ResumeRun`). Each behaviour has one menu of definitions, so that the
graphs, the numbers and the agents vary one at a time.

### AdapterCall

A call passes through the hook of `net/http` that sets `wrote` when the request has been
written to a buffer of 4 KiB. A request that fits the buffer leaves when it is flushed, after
the hook. One that does not (`large`; bodies may have 1 MiB) goes to the connection as it is
written, so it can have left before the hook runs (`Flush`). `Untraced` are large requests
whose hook has not run: the client takes their timeout for a definite failure. A call that
has returned has closed its connection and sends nothing more.

The gateway (external) may apply a request or not and answer anything, except that it does not acknowledge what it has not applied; the network
may delay or lose. `DoFails` and `BodyFails` are the timeout or a broken connection before and
after the head of the answer, possible at any time. `answered` is the history of calls
whose outcome is an answer the gateway itself gave. Pause, cancel, resume, retry and
reassign go through the same code as dispatch, heartbeat through the same as result. The
calls for a task are made one after the other; overlapping ones are in `DispatchRun`.

## What the runs check

### Runs that pass

| Run | Instance | Properties |
|---|---|---|
| `controller` | 2 keys against a bound of 1 command, 2 holders, 1 task, requests without a token or with one above the fence, fences up to 4, 3 instants | `TypeOK`, `AnswersRecorded`, `FencesCover`, `LeaseTokensUnique`, `CommandsCounted`, `LifecycleSpec`, `LeaseCommitsOrdered`, `LeaseExclusive`, `StoppedGrantsNothing` |
| `run_schedule` | guarded `t1`, then `t2`; two deciders, two result checks, one client doing either; 2 requests at a time, 1 crash with or without the DAG afterwards, 1 refused append, expiry, all outcomes, a bound of 2 commands | `TypeOK`, `CallsDurable`, `PollExclusive`, `DecidedOnce`, `PromiseKept` |
| `run_operator` | one task; one of retry, cancel, resume and reassign next to an emergency stop, a result check or a reconciliation of the dispatch; 2 at a time, accepted and lost calls, 1 crash with or without adapter and definitions afterwards | `FencesCoverAll`, `LedgerAhead`, `StopIsFinal`, `RetryAfterResolution`, `NoneLeftRequested` |
| `run_liveness` | guarded `t1` and `t2`, joined in `t3`; a grant and two result checks, 2 at a time, no crash, fairness | `OneCallPerKey`, `RequestsEnd`, `PollReleased`, `DependantsReleased`, `GrantReleases` |
| `store` | 2 runs, 3 events of handlers, 1 stream of either kind or an export, a backlog of 2, bundles of 2 events, 1 crash, refused writes, fairness | `TypeOK`, `Reopenable`, `ProjectionIsReplay`, `HoldsTheLog`, `ExportSound`, `LogKept`, `InterruptedRunsMarked`, `StreamDelivers` |
| `definitions` | all graphs over 3 tasks, malformed DAGs, costs and budgets up to a largest number of 15, catalogs of 2 agents, ids and capabilities that look like secrets, 2 clients putting 2 definitions, any number of crashes | `AcceptsExactlyRunnable`, `PlansSound`, `MemoryIsTable`, `RunKeepsDefinitions` |
| `adapter` | OpenClaw and the four modes of the fixture, small and large requests, 3 calls, fairness | `Classified`, `AcceptedHadEffect`, `EffectsRepeatOnlyAnswered`, `CallsEnd` |

What they show, in words:

- The ledger of `control.go` does what its callers rely on, for any sequence of calls,
  from any restored state. `LifecycleSpec` is the refinement of `CommandLifecycle`.
- `PromiseKept` is the refinement of `RunPromise`: with concurrent schedules, polls,
  decisions, crashes and refused appends, no task is released before its dependencies
  and approval, none twice, only released tasks complete, and the run ends only when all
  have, provided that the process which ends it knows the DAG. Without the DAG it does end
  the run (`bug_run_ended`), so `RunPromise` has a step for losing it (`Reload`).
- `CallsDurable` ties the calls of the runtime to the log: whatever a crash cuts off,
  the request is on disk with the fence the runtime saw. `FencesCoverAll` ties both to
  the ledger: after a restart the next token is newer than all that were handed out.
- `LedgerAhead` says how far a restart may fall behind, with any requests in service at once:
  what the log restores has the task and the fence of the live command, in a state that
  command has or has left behind. That the two are equal is not true of the code, though
  `docs/release-gate.md:3` asks for it (below).
- `RetryAfterResolution`: a retry is admitted only over doubts that are on record as
  reconciled. A doubt that arises after it was admitted is `bug_retry_in_doubt`.
- `NoneLeftRequested`: no way out of a handler forgets the command it has created, but for
  the nil adapter; otherwise only a crash or a refused append leaves one as requested.
- Liveness: requests end whatever other requests do; a grant and a completed join
  release their tasks in every interleaving that has no crash, and a grant also releases
  the ready task that the guarded one had kept from being visited.
- The store keeps the promise of `EventLog` through crashes in the middle of a write. A
  stream that starts with a sequence number in place of an id still brings a stretch of
  the log, from right after that number: it receives some events again and drops them. The
  property is about each stream; two streams of one page bring events twice (below).
- `ExportSound`: a bundle that an import refuses was overtaken by an event or is too large.
- `AcceptsExactlyRunnable` compares the code's validation with a definition that knows
  neither colours nor widths; `PlansSound` compares Kahn's queue with the order that takes
  the least free task each time, and `Route` with the best of the able agents.
- `MemoryIsTable` says that outside a put the table holds what `SaveDefinition` made of the
  definition in memory, and that whatever a restart could read is in memory; it does not
  say that a restart can read it (`bug_definition_lost`). `RunKeepsDefinitions` says that a
  run goes on with what it started with if redaction and rounding leave it as it is. Both
  name their exceptions: overlapping puts, and a definition put again.
- The adapter's classification is right wherever the gateway has not answered, except for
  `Untraced` requests (below). Where it has answered, it is believed, also when it says
  "error" after an effect (below).

The mutants in `PROJECT.json` show that each of these can fail: one small change of a
definition per property, of the kind a patch could make (a token not rotated, a claim
not given back, a call before its event, a table with one entry too many).

### Runs that are violated

Each of these states something the repository says of itself and finds a behaviour of
the code that does otherwise.

| Run | Property | What happens |
|---|---|---|
| `bug_two_results` | `SucceededIsTerminal` | `taskResult` takes any acknowledged command that is newer than the dispatch (`dispatch.go:868`). Task completes, a pause is acknowledged, a result check follows: `task.completed` or `task.failed` again |
| `bug_stop_lost` | `AcknowledgedStopRecovered` | crash between `control.acknowledged` and `dispatch.emergency_stopped` (`dispatch.go:567`): the restarted run is not stopped |
| `bug_retry_in_doubt` | `UnknownNotRetried` | the check for outcomes in doubt (`dispatch.go:513`) is made when the retry arrives; the dispatch in flight falls in doubt afterwards, the retry goes out |
| `bug_definition_lost` | `DefinitionsStored` | `SaveDefinition` redacts every string (`core.go:127`) and `secretValue` (`core.go:387`) matches inside a word: `task-review` and `task-rewrite` are both stored as `ta[REDACTED]`; `loadDefinitions` finds a duplicate, drops the DAG, and the run cannot go on |
| `bug_run_ended` | `RunEndsCompleted` | after a restart that does not find the DAG, a result check of the first task goes on without it (`dispatch.go:937-959`): the loop that looks for uncompleted tasks has none to look at, and `dispatch.completed` is appended with the second task never dispatched |

### Known behaviour that no run shows

- *Token check and call.* `control` checks the token (`Commit`, `dispatch.go:525`) several
  steps before it calls the adapter. A second control can rotate the fence and call in
  between, and the older token arrives last. `run_operator` contains this schedule. The
  runtime, which compares tokens, is the last line of defence.
- *Lost response and result check.* A lost response takes two transitions, to
  acknowledged and then to outcome_unknown (`dispatch.go:388`). A result check that claims
  the command in between makes the second fail; its error is dropped and
  `command.outcome_unknown` is appended with a blank command.
- *An expired approval* is not requested again (`dispatch.go:340`): the run waits forever.
- *A crash between `command.completed` and `task.completed`* closes the command without
  completing the task; no result check is accepted any more.
- *A restart zeroes every `UpdatedAt`*, so the command of a retry is no longer newer than
  a closed dispatch and its result can no longer be asked for.
- *A run without its adapter.* After a restart in which the adapter of a run is not
  configured, pause and cancel are refused before anything is recorded; resume, retry
  and reassign (`dispatch.go:583`) record `control.requested` and then call a nil adapter.
  `NoneLeftRequested` names them as its exception.
- *A dispatch that passes a stop.* A dispatch requested before an emergency stop still rotates
  its fence and calls the runtime after it (`dispatch.go:365-377`): nothing looks at the stop
  between request and call. `StopIsFinal` is about new commands.
- *Tokens of an emergency stop.* It is not checked (`dispatch.go:525-539`), so a stop may record
  any token a client sends, also one above the fence, and a restart makes that the fence.
- *A late acknowledgement.* `dispatchTask` moves the command to acknowledged and appends
  `command.acknowledged` later (`dispatch.go:408`). A quick result check appends
  `command.completed` in between; recovery takes the last event of a key and restores the
  command as acknowledged. `docs/release-gate.md:3` asks that LIVE equals replay after restart.
- *Reconciled twice.* Recovery reads `command.*` and `control.*` only (`dispatch.go:62`), so
  a reconciled command comes back in doubt and can be reconciled again, the other way;
  `docs/domain-contracts.md:13` says that reconciliation does not rewrite history, and LIVE does
  not equal the replay here either. `LedgerAhead` allows this, and nothing that goes forward.
- *A call cut off by a crash* is restored as `requested` (`dispatch.go:76`), a state that
  nothing can retry, poll or reconcile.
- *Dependants after a crash.* A crash between `task.completed` and the scheduling after it
  (`dispatch.go:937`), or between `approval.granted` and its scheduling (`dispatch.go:804`),
  leaves tasks that no later step schedules.
- *An early emergency stop.* Between `CreateRun` and the installation of the controller
  (`dispatch.go:251-257`) a control finds the run and no controller, and installs one of its own
  (`dispatch.go:496-499`). `startDispatch` then replaces it: a stop that was acknowledged is lost,
  and with a restart it comes back. A resume, retry or reassignment in that window needs a
  token, which has not been published yet.
- *Definitions put again.* The log records the ids and versions of a run's definitions
  and `runDefinitions` uses the ids (`dispatch.go:844`): a put under the same id changes a run
  in progress, which `docs/domain-contracts.md:3` calls the immutable identity of one
  execution. Two puts of one id at once can leave the map with one and the table with the
  other (`dispatch.go:164-170`).
- *Large budgets.* A budget above 2^53 is rounded when it is stored (`core.go:123-127`), and
  one near 2^64 is stored as a number that does not decode; the DAG is dropped after a restart.
- *Redacted events.* `Append` redacts event data too (`core.go:253`). A task id that looks like a
  secret is written differently to the log than it stands in the DAG, so its completion
  releases nobody; a command whose key does is restored under another key.
- *A large request.* Of a request above 4 KiB `net/http` sends the first part before it runs the
  hook (`openclaw.go:163-168`), and can have sent all of it. A timeout in between is reported
  as a definite failure of a call that may have been applied, and a retry applies it twice.
  `docs/domain-contracts.md:13` and `docs/release-gate.md:3` ask for `outcome_unknown`.
  `Classified` and `EffectsRepeatOnlyAnswered` name the case with `Untraced`.
- *An answer after an effect.* A status other than 2xx, a malformed body or one that is too
  large is a definite failure (`openclaw.go:171-187`), also of a call that took effect, and may
  be retried (`docs/domain-contracts.md:13` speaks of lost responses only).
  `EffectsRepeatOnlyAnswered` names the case with `answered`.
- *The fixture forgets.* Its tasks are in memory, and a task it does not know is completed
  (`fixture.go:82`): a task cancelled before a restart is reported as completed.
- *Limits of agents.* Schedules pass no agent states to `Route` (`dispatch.go:326`), so
  `max_concurrent` only tells zero from more.
- *A torn or large export.* An event appended between the two readings (`bundle.go:55-56`) gives
  a bundle that its own import refuses; so does a run whose bundle is above 8 MiB, which an
  export writes all the same. `ExportSound` says that nothing else makes an import refuse.
- *A page with two streams.* Switching the mode to LIVE starts a stream and does not stop the
  one that runs (`app.js:49`); each has its own cursor and both push into the same list, so
  events are shown twice. `selectRun` names a run before it has its events (`app.js:20`), so a
  stream can start with the cursor of another run and leave out the first events of this one.
- *A page that cannot reconnect.* The web page resumes with a sequence number
  (`app.js:40`), which is smaller than the id when there are several runs; the backlog after it
  may exceed the limit and be refused with 409 although little is new.

### Bounds

Handlers interact only through one task's command, fence, lease and approval, the run's
log, and the stop flag. Two tasks, one depending on the other, give every relation
between tasks but the join, and the join has a run of its own. Two requests served at the
same time, beside those already answered and the start of the run, give every pairwise race, and
all findings need two at most. One crash is enough for a property that relates the state before
to the state after; a second would restart from a log like the first one's. The bound of
commands is reached in `controller` and `run_schedule`. Clients are symmetric in the menus
that give all of them the same operations, and symmetry is used only there and never with
liveness. Runs of `DispatchRun` turn deadlock checking off because a run really ends: once
all requests are answered and the crashes spent, nothing happens any more.

In `store`, two runs make ids differ from sequence numbers, which is what the web page
confuses; three events exceed a backlog and a bundle of two, so the refusals and the resync
happen; one crash can cut off a creation, an append, a stream or an export. Streams do not interact,
so one at a time is enough, of any kind, and the streams of one page are independent of each
other. The run has no deadlock check because a
server whose recovery could not write refuses every mutation until it is restarted.
In `definitions`, three tasks are the fewest with a cycle that is not one task or a pair,
with a fork, a join and a queue that must be sorted; a largest number of 15, exact up to
4, has sums that fit, sums that wrap, numbers that round and numbers that no longer
decode. In `adapter` three calls are an attempt, its retry and a result in any order;
the theorems are for any number. That run stops when the calls have been made.

### Fairness

`FairSpec` assumes weak fairness of `HandlerStep(h)` for each handler: a goroutine that
can take its next step does so eventually. The Go scheduler runs every runnable
goroutine, mutexes are held for finite computations, and adapter calls have a context with
the run's timeout, so they return. Nothing is assumed of clients: requests need not arrive,
approvals need not be decided, and a crash need not or may happen. Nor is it assumed that
the runtime ever completes a task.

`EventStream` assumes that a write which has begun is finished, and that the handler of a
stream takes its steps; not that anybody appends, connects or resumes, and not that the
keepalive timer fires: `StreamDelivers` holds by the notify channel alone. `AdapterCall`
assumes of the client that its timeout ends (`http.Client.Timeout` covers the body, and
the handlers give a context with the run's timeout) and of the fixture that it returns,
in the mode `timeout` when that context ends; nothing of the gateway or the network.

## What is proved

`ControllerProofs` proves, for every finite set of keys, any non-empty set of tasks, any
holders, tokens in requests, results, durations and bounds (the named assumptions of `CommandControl` and
`Controller`, and no others):

| Theorem | States |
|---|---|
| `TypeCorrect` | `Spec => []TypeOK` |
| `Invariance` | `Spec => []ControllerInv` |
| `LedgerSafety` | the count is the number of commands, answered commands have their answer on record, a function ran to success at most once per key |
| `FenceSafety` | no token that was handed out, with a command or a lease, before or after a restore, is above its task's fence; tokens of leases unique; only the newest lease is held |
| `TokensUnique` | `LeaseTokensUnique` on its own |
| `CommitsOrdered` | `Spec => LeaseCommitsOrdered` |
| `LeasesExclusive` | `Spec => LeaseExclusive` |
| `StopFinal` | `Spec => StoppedGrantsNothing` |
| `LifecycleRefinement` | `Spec => Lifecycle!Spec` under `phaseOf`, `answerOf` |

`ExecutedOnce` and `NewestLeaseHeld`, and `TypeOK` of `AdapterCall`, hold for all values
of the constants by these theorems and those of `AdapterProofs`, so no run repeats them.

`ControllerInv` is the conjunction of `TypeOK`, `LedgerInv`, `FenceInv` and `LeaseInv`.
The properties alone are not inductive, and three conjuncts are there to make them so.
`ExecutedAnswered` (a key whose function ran has a result) is why `ExecuteOnce` cannot run
it again. `LeasesBelowFence` (the held lease is at most the fence) is why a new token,
the fence plus one, is above every earlier one: `NewestLeaseHeld` needs it when a lease is
granted. `CommitsBelowLease` is why a commit, which must show the held lease, is never
below an earlier commit. The argument has one lemma per group: `NextTypeOK`,
`NextLedgerInv`, `NextFenceInv`, `NextLeaseInv`, each with one step per action. The count
of commands uses `FS_AddElement` on the set of known keys. The refinement maps a
transition to `Doubt`, `CloseAnswered`, `CloseUnanswered` or a stutter by the pair of
states it joins, and every other operation to `Open` or a stutter; it needs `LedgerInv` for
the answer of a key that `ExecuteOnce` touches.

`AdapterProofs` proves, for any number of calls and any set of adapters
(`AdaptersAssumption`):

| Theorem | States |
|---|---|
| `CallInvariance` | `Spec => []CallInv` |
| `FailuresClassified` | `Spec => []Classified` |
| `AcceptedApplied` | `Spec => []AcceptedHadEffect` |
| `EffectsNotRepeated` | `Spec => []EffectsRepeatOnlyAnswered` |
| `CallTypes` | `Spec => []TypeOK` |

`CallInv` adds three conjuncts to the properties. `Traced` orders what happens to a request:
hook, request, effect, answer; without it a definite failure could be followed by an effect.
`Returned` ties outcomes to it: a side-effecting call that failed without an answer has not
been traced, so unless it is a large one nothing of it is or will be on the wire.
`InTurn` says that whatever came before a dispatch has returned without doubt, which is why a second effect has an answered
first one, or an untraced one. There is one lemma per conjunct with one step per action, and
`EffectsRepeatOnlyAnswered` follows from the invariant without induction.

`RunProofs` proves, for any number of handlers, any DAG in topological order, any menu of
requests, any number of them in service at once, any bound on commands, any number of
crashes and refused appends, and whatever a restart finds of the run (the named assumptions
of `CommandControl` and `DispatchRun`, and no others):

| Theorem | States |
|---|---|
| `RunInvariance` | `Spec => []RunInv` |
| `RunTypes` | `Spec => []TypeOK` |
| `CallsAreDurable`, `CallsAreUnique` | `CallsDurable`, `OneCallPerKey`: every call has its request in the log before it, and no key has two |
| `FencesAreHighest` | `Spec => []FencesCoverAll` |
| `PollingIsExclusive` | `Spec => []PollExclusive` |
| `DecisionsAreFinal` | `Spec => []DecidedOnce` |
| `StopStays` | `Spec => StopIsFinal` |
| `PromiseRefinement` | `Spec => PromiseKept`, the refinement of `RunPromise` |
| `RequestsAreClosed` | `Spec => NoneLeftRequested` |
| `LedgerIsAhead` | `Spec => []LedgerAhead` |
| `RetriesAreResolved` | `Spec => RetryAfterResolution` |

`RunInv` (in `RunInvariant`) says what the program counter of a handler means for the rest
of the state. A handler that appends events is placed where it goes next, `At(h)`, because
it owes its events to what it did before and its rights to what it does after. Its parts:

- `PlaceFits` ties the program counter to the request that is served and to the tasks
  left to schedule. Without it a control could be at a place that only schedules reach.
- `LedgerInv` ties events, calls and hands to commands. `EventSound`: an event that records
  a command shows the task and the fence the command has, also while it waits in a queue;
  that is what makes a restart from the log agree with what the runtime has seen.
  `CallSound`: the request is in the part of the log that was there when the call was made.
  `HandSound` and `HandsApart`: who is between a request and its outcome owns the command
  alone, who asks for a result polls it alone, and no event or call has used the key of
  a command that is yet to be rotated (`NeverShown`, `NeverCalled`). A fence may be
  rotated and a call made once because of these.
- `StopInv`: an acknowledgement of the stop in somebody's hand implies the stopped flag.
  `StopIsFinal` needs it for the moment between the flag and the event, and a restart
  reads the flag back from the event.
- `DecisionInv`: a decision in a queue is of a claimed task that has no decision and no
  other decider. The log alone does not say so, and the claims alone are lost in a crash.
- `PromiseInv`: what a schedule has read stays true (`HandlerPromised`: completed
  dependencies and granted approvals are never taken back), so a release that rests on
  an old reading of the log is still right when it happens. The end of a run in a queue is
  owed to a handler that has seen all tasks completed, if the DAG is known (`EndPromised`);
  the DAG may be lost only in a restart, and that empties the queues.
- `EndInv` goes beside `RunInv` for `NoneLeftRequested`: a handler that lets go of its command
  has moved it on, and one that will call has an adapter unless its control did not look.

`TrailInv` goes beside both for the last two theorems. It says what the log owes to the
ledger while handlers overlap, each with a state behind it that it has not recorded yet. An
event in a queue shows a state that its command has or has left behind (`QueueTrails`; the
order of the states is `After`), and the last event of a key on record does too
(`SavedTrails`). The states that a claim to poll and a reconciliation reach are on record
nowhere (`Unlogged`), which is why the log can be behind at rest. That the last event of a
key may be appended late is harmless unless it hides a doubt: nothing but doubts of a key is
recorded after a doubt (`DoubtTrails`), because a command whose acknowledgement still waits in
a queue is not about to fall in doubt (the second half of `QueueTrails`: who owns a command
appends before it goes on). So a doubt on record is a doubt in the ledger or has been
reconciled there, and then the reconciliation is on record or on its way, or the server
serves no more mutations (`Settled`). A retry that found no doubt in the ledger therefore
finds each doubt on record resolved. `TrailInv` is not inductive without `RunInv`: who owns a
command, and that an event shows the fence the command has, come from `LedgerInv`.

The argument goes module by module. `RunSteps` states the effect of each action once, so
that later proofs do not unfold it again, and proves types and places;
`RunLedgerProofs` that a step of one handler touches at most one command and how
(`Touches`), from which the parts of `LedgerInv` follow for all the others (`LedgerFrame`);
`RunPromiseProofs` does the same with what may only grow, the log, the released tasks and the
claims (`PromiseFrame`). Crash and restart have lemmas of their own (`RestartLedger`,
`RestartPromise`): they relate the last event of a key to the command it restores
(`SavedFromLog`). `PromiseRefinement` maps the append of an event to the step of
`RunPromise` its type names, a restart to `Reload`, and every other action to a stutter
(`EventKeepsPromise`, `FoundStep`). For `TrailInv` every action of a handler but the append
leaves the log alone, moves at most the command in its hand, forward, and queues at most an
event of that command: `TrailFrame` takes the invariant from there for all handlers
(`OthersTrail`, `OwnTrails`). An append moves one event from a queue to the log
(`AppendTrails`), and a restart makes the ledger what the log shows (`RestartTrails`).

`StoreProofs` proves, for any non-empty set of runs, any streams, any event types, any
positive backlog and any bounds (the assumptions of `EventStore` and `EventStream`):

| Theorem | States |
|---|---|
| `StoreInvariance` | `Spec => []StoreInv` |
| `StoreTypes` | `Spec => []TypeOK` |
| `TablesReopen` | `Spec => []Reopenable` |
| `ProjectionsAreReplays` | `Spec => []ProjectionIsReplay` |
| `ClientsHoldTheLog` | `Spec => []HoldsTheLog` |
| `ExportsAreSound` | `Spec => []ExportSound` |
| `RunsAreMarked` | `Spec => InterruptedRunsMarked` |
| `LogRefinement` | `Spec => LogKept`, the refinement of `EventLog` |

`StoreInv` has a part for each place where events are kept. `DiskInv`: the rows of a run are
numbered without gaps, their ids grow, and the stored projection is their replay.
`MemoryInv`: the maps are the tables but for the one write that is committed and not yet
published; `Write` computes the projection from memory, so `ProjectionIsReplay` is not
inductive without it. `RecoveryInv`: a run still marked running is still on the list of
those to be marked. `ClientSound`: what a stream has brought begins after `base` and
ends at a position of the log, its cursor hides nothing that comes after, and the cursor of
an API client repeats nothing from before; the page's does, and the page drops it. A stream
of the page may begin beyond the end of its run (with the cursor of another), and then it
has brought nothing. `ExportInv`: the events are a prefix of the log and the
projection is of that prefix or of a longer one.

What `Replay` or `Among` returns is known from how it changes when a row is added
(`ReplayAppends`, `StatusAppends`, `AmongAppends`), because a log only ever grows by one.
Those lemmas need that a recursive function over positions exists (`FoldExists`) and that
two of them agree on a common prefix (`FoldAppends`). Both are inductions over a set of
positions, made by taking the least position that fails (`LeastExists`, `InductionTo`): the
induction theorems of the library take an operator as a parameter, which the provers cannot
instantiate. `LogRefinement` maps the commit of a row to the step that records it, its
publication, or the crash that cuts the publication off, to the step that shows it, and
every other action to a stutter.

`DefinitionsProofs` proves, for any clients and any definitions they put whose numbers fit
their fields (`MaxUintAssumption`, `MenusAssumption`):

| Theorem | States |
|---|---|
| `DefinitionsInvariant` | `Spec => []DefinitionsInv` |
| `MemoryFollowsTable` | `Spec => []MemoryIsTable` |
| `RunsKeepDefinitions` | `Spec => []RunKeepsDefinitions` |
| `ServesExactlyRunnable` | `Spec => []AcceptsExactlyRunnable` |
| `PlansAreSound` | `Spec => []PlansSound` |

`DefinitionsInv` says what is true in the middle of a put. `DefinitionsSound`: what is on its way
or in memory can be loaded, and what is in the table does not change on another trip
through it; that needs rounding and redaction to be idempotent (`AsFloatTwice`,
`RedactedTwice`, `StoredDagTwice`, `StoredCatalogTwice`). `PutsApart`: two puts of one kind
in service have raced.
`TableLeads`: memory and table differ only between the two critical sections of a put, and
the put that is there holds what the table has. `RunKept`: whatever a run may look up next
(memory, the table after a restart, a put about to be published) is the definition it
started with, if the table leaves that one as it is and it was not put again. For these three
nothing of what `TaskPlan` computes is used: `Valid` may be any predicate.

The last two add `JudgedInv` (what a request holds has been judged, and a DAG in memory
fits its fields, also after a trip through the table) and `PlansInv` (a plan was made from
definitions that the server accepted). The rest is about what `TaskPlan` computes, for DAGs
and catalogs of any size, and is made of inductions as in `StoreProofs`:

- *Costs.* Both the checked addition and the sum it is compared with are folds; each step of
  the one either agrees with the sum of the first costs or has found that it exceeds the
  width, and then the sum exceeds the budget, which fits the width (`CostSteps`,
  `SumIsTotal`, `BudgetSound`).
- *Cycles.* `Visit` is a recursive function of the colours, so first such a function must
  exist: an inner visit has fewer uncoloured tasks (`VisitExists`, `VisitSolves`). Then, by
  induction on the uncoloured tasks, a visit either has found tasks that wait for one another,
  or leaves a set of finished tasks that is closed under dependencies and of which every
  part has a task that waits for none of the part (`Searched`, `VisitSearches`). A task met while it is
  being visited is below itself (`Visitable`, `BelowItself`). All tasks visited, the finished
  set is the whole DAG (`NoCycleSound`).
- *Order.* `KahnRight` is the invariant of the loop: the degrees count the dependencies that are
  not out yet, and the queue lists the free tasks in order. A task taken frees those that
  waited for it alone (`FreedByTaking`); as long as tasks are left, one of them is free
  (`SomeFree`), because the DAG was validated, so the queue runs dry only with the last task
  (`TopologicalSound`).
- *Agents.* The first eligible candidate of any list sorted by `Before` is a best able one,
  whichever list it is: two versions of one agent may be in either order (`RouteSound`).

`Sorted` and `Candidates` are stated as the sorted lists themselves; that there is one, for
every finite set, is proved (`CanBeSorted`, `CanBeRanked`).

Only model-checked:

- Liveness (`RequestsEnd`, `PollReleased`, `DependantsReleased`, `GrantReleases`,
  `StreamDelivers`, `CallsEnd`): the proof system handles neither fairness nor `ENABLED`.

## Not modelled

`PROJECT.json` lists every part with its status. Not modelled:

- the installation of a controller against an early control: the run would have two
  ledgers at once, and the behaviour is described above;
- the window of 120 mutations a minute: one list under one mutex;
- the states of the fixture's tasks, and the validation of endpoints and dials of the OpenClaw
  client (stateless);
- authentication and origin checks (stateless);
- hashes and canonical JSON, the texts that redaction matches, names and versions of
  definitions (data that no property tells apart);
- a store without a database and `Reset`, which only tests use; the fixed example events;
- the command line and the rendering of the web page (clients without state the server
  depends on).

## State of the project

`CommandControl`, `Controller`, `DispatchRun` with `RunPromise`, `EventStore` and `EventStream` with
`EventLog`, `TaskPlan` and `Definitions`, and `AdapterCall` are modelled and checked. Every safety
property and refinement that a passing run checks is proved; the hazards that no property
covers are listed with their reasons in `PROJECT.json`. Open: the installation of a
controller against an early control, as a second ledger of one run.
