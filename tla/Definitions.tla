---------------------------- MODULE Definitions ----------------------------
(***************************************************************************)
(* The catalogs and DAGs of the server: put by clients, saved to a table,  *)
(* kept in memory, looked up by the runs and read back after a restart     *)
(* (internal/httpapi/dispatch.go, internal/core/core.go).  Definitions     *)
(* with different ids do not interact, so there is one id of each kind.    *)
(***************************************************************************)
EXTENDS TaskPlan

CONSTANTS
  Clients,    \* requests that put definitions, served concurrently
  Menus,      \* each behaviour has one: its clients, and the definitions they put
  None,       \* no definition
  MaxExact,   \* the largest number below which floating point is exact
  SecretLike  \* ids, versions and capabilities that the redaction takes for secrets

(* DAGs and catalogs as a client sends them: their numbers fit their       *)
(* fields, or decoding refuses them.                                       *)
MaxInt == MaxUint \div 2
Ints == (-MaxInt - 1)..MaxInt

DagTask == [id : Nat, cost : 0..MaxUint, requires : SUBSET Nat, dependsOn : Seq(Nat)]
SentDag == [tasks : Seq(DagTask), maxFanout : Ints, budget : 0..MaxUint]

CatalogAgent ==
  [id : Nat, version : Nat, capabilities : SUBSET Nat, priority : Ints, enabled : BOOLEAN,
   maxConcurrent : Ints]
SentCatalog == [capabilities : Seq(Nat), agents : Seq(CatalogAgent)]

ASSUME MenusAssumption ==
  /\ MaxExact \in 0..MaxUint
  /\ \A m \in Menus :
       /\ DOMAIN m = {"clients", "catalog", "dag"} /\ m.clients \subseteq Clients
       /\ m.catalog \subseteq SentCatalog /\ m.dag \subseteq SentDag
       /\ None \notin m.catalog \cup m.dag

VARIABLES
  menu,   \* the clients of this behaviour and what they put
  table,  \* table definitions
  defs,   \* Server.catalogs and Server.dags
  put,    \* the requests of the clients
  run,    \* a run: the definitions it started with, and those it goes on with
  up,     \* the server serves
  raced   \* history: kinds of which two puts have overlapped

vars == <<menu, table, defs, put, run, up, raced>>

Kinds == {"catalog", "dag"}

-----------------------------------------------------------------------------
(* What the table makes of a definition.  SaveDefinition turns it into     *)
(* untyped JSON and back, which rounds its numbers, and redacts every      *)
(* string: ids of tasks and agents, versions, capabilities.  (A spacing of *)
(* 2 stands for the wider ones of larger numbers, and 0 for what the       *)
(* redaction leaves of a text.)                                            *)

AsFloat(n) ==
  IF n \in (-MaxExact)..MaxExact \/ n % 2 = 0 THEN n
  ELSE IF (n \div 2) % 2 = 0 THEN n - 1 ELSE n + 1

Redacted(id) == IF id \in SecretLike THEN 0 ELSE id
AllRedacted(S) == {Redacted(c) : c \in S}

StoredTask(t) ==
  [t EXCEPT !.id = Redacted(@), !.cost = AsFloat(@), !.requires = AllRedacted(@),
            !.dependsOn = [i \in DOMAIN @ |-> Redacted(@[i])]]

StoredAgent(a) ==
  [a EXCEPT !.id = Redacted(@), !.version = Redacted(@), !.capabilities = AllRedacted(@),
            !.priority = AsFloat(@), !.maxConcurrent = AsFloat(@)]

Stored(k, d) ==
  IF k = "catalog"
  THEN [d EXCEPT !.capabilities = [i \in DOMAIN @ |-> Redacted(@[i])],
                 !.agents = [i \in DOMAIN @ |-> StoredAgent(@[i])]]
  ELSE [d EXCEPT !.budget = AsFloat(@), !.maxFanout = AsFloat(@),
                 !.tasks = [i \in DOMAIN @ |-> StoredTask(@[i])]]

(* Go refuses a number that does not fit its field.                        *)
Decodes(k, d) ==
  IF k = "catalog"
  THEN \A i \in DOMAIN d.agents : {d.agents[i].priority, d.agents[i].maxConcurrent} \subseteq Ints
  ELSE /\ d.budget <= MaxUint /\ d.maxFanout \in Ints
       /\ \A i \in DOMAIN d.tasks : d.tasks[i].cost <= MaxUint

Valid(k, d) == IF k = "catalog" THEN ValidateCatalog(d) ELSE Validate(d)

-----------------------------------------------------------------------------
(* putCatalog, putDAG.                                                     *)

NoPut == [step |-> "none", kind |-> "dag", def |-> None]
InService == {c \in Clients : put[c].step \in {"save", "publish"}}

(* Mutant: The definition is used before it is saved.                      *)
PutPublishingFirst(c) ==
  /\ up /\ c \in menu.clients \ InService
  /\ \E k \in Kinds : \E d \in menu[k] :
       /\ put' = [put EXCEPT ![c] =
                    [step |-> IF Valid(k, d) THEN "save" ELSE "refused", kind |-> k, def |-> d]]
       /\ defs' = IF Valid(k, d) THEN [defs EXCEPT ![k] = d] ELSE defs
       /\ raced' = IF Valid(k, d) /\ \E b \in InService : put[b].kind = k
                   THEN raced \cup {k} ELSE raced
  /\ UNCHANGED <<menu, table, run, up>>

(* The definition is decoded and validated; an invalid one is answered 422. *)
Put(c) ==
  /\ up /\ c \in menu.clients \ InService
  /\ \E k \in Kinds : \E d \in menu[k] :
       /\ put' = [put EXCEPT ![c] =
                    [step |-> IF Valid(k, d) THEN "save" ELSE "refused", kind |-> k, def |-> d]]
       /\ raced' = IF Valid(k, d) /\ \E b \in InService : put[b].kind = k
                   THEN raced \cup {k} ELSE raced
  /\ UNCHANGED <<menu, table, defs, run, up>>

(* History: the run's definition of kind k is put again with another value. *)
Replaced(k, d) ==
  IF run.started # None /\ run.started[k] # d THEN [run EXCEPT !.replaced = @ \cup {k}] ELSE run

SaveDefinition(c) ==
  /\ put[c].step = "save"
  /\ table' = [table EXCEPT ![put[c].kind] = Stored(put[c].kind, put[c].def)]
  /\ put' = [put EXCEPT ![c].step = "publish"]
  /\ run' = Replaced(put[c].kind, put[c].def)
  /\ UNCHANGED <<menu, defs, up, raced>>

(* Mutant: The error of SaveDefinition is not looked at.                   *)
SaveFailsUnnoticed(c) ==
  /\ put[c].step = "save"
  /\ put' = [put EXCEPT ![c].step = "publish"]
  /\ UNCHANGED <<menu, table, defs, run, up, raced>>

(* The database refuses the row: 500.                                      *)
SaveFails(c) ==
  /\ put[c].step = "save"
  /\ put' = [put EXCEPT ![c].step = "failed"]
  /\ UNCHANGED <<menu, table, defs, run, up, raced>>

(* The definition goes into the map, under Server.mu: 201.                 *)
Publish(c) ==
  /\ put[c].step = "publish"
  /\ defs' = [defs EXCEPT ![put[c].kind] = put[c].def]
  /\ put' = [put EXCEPT ![c].step = "answered"]
  /\ UNCHANGED <<menu, table, run, up, raced>>

-----------------------------------------------------------------------------
(* A run.                                                                  *)

(* What scheduleRun works with: the order of the tasks, the agent of each. *)
Plan(c, d) == [order |-> Topological(d), agent |-> [id \in Ids(d) |-> Route(c, TaskOf(d, id))]]

NoRun == [started |-> None, used |-> None, plan |-> None, replaced |-> {}]

(* startDispatch takes both definitions under one lock (404 without them), *)
(* writes their ids to the log and schedules with what it took.            *)
StartRun ==
  /\ up /\ run = NoRun
  /\ \A k \in Kinds : defs[k] # None
  /\ run' = [started |-> defs, used |-> defs, plan |-> Plan(defs.catalog, defs.dag),
             replaced |-> {put[c].kind : c \in {b \in Clients : put[b].step = "publish"}}]
  /\ UNCHANGED <<menu, table, defs, put, up, raced>>

(* A grant, a result or a reconciliation schedules again: runDefinitions   *)
(* looks the two ids up, and without both nothing is scheduled.  What the  *)
(* handlers then do differs (approve answers 409, taskResult and reconcile *)
(* go on): DispatchRun has them.                                           *)
ResumeRun ==
  /\ up /\ run.started # None
  /\ run' = IF \A k \in Kinds : defs[k] # None
            THEN [run EXCEPT !.used = defs, !.plan = Plan(defs.catalog, defs.dag)]
            ELSE [run EXCEPT !.used = defs, !.plan = None]
  /\ UNCHANGED <<menu, table, defs, put, up, raced>>

-----------------------------------------------------------------------------
Crash ==
  /\ up
  /\ up' = FALSE
  /\ defs' = [k \in Kinds |-> None]
  /\ put' = [c \in Clients |-> NoPut]
  /\ UNCHANGED <<menu, table, run, raced>>

(* loadDefinitions drops silently what it cannot decode or validate.       *)
LoadDefinitions ==
  /\ ~up
  /\ up' = TRUE
  /\ defs' = [k \in Kinds |->
                IF table[k] # None /\ Decodes(k, table[k]) /\ Valid(k, table[k])
                THEN table[k] ELSE None]
  /\ UNCHANGED <<menu, table, put, run, raced>>

Init ==
  /\ menu \in Menus
  /\ table = [k \in Kinds |-> None]
  /\ defs = table
  /\ put = [c \in Clients |-> NoPut]
  /\ run = NoRun
  /\ up = TRUE
  /\ raced = {}

Next ==
  \/ \E c \in Clients : Put(c) \/ SaveDefinition(c) \/ SaveFails(c) \/ Publish(c)
  \/ StartRun \/ ResumeRun \/ Crash \/ LoadDefinitions

Spec == Init /\ [][Next]_vars

-----------------------------------------------------------------------------
(* Properties.                                                             *)

(* A DAG that can be run: its costs, added without a width, are within the *)
(* budget, and every set of its tasks has one that depends on none of      *)
(* them.                                                                   *)
Runnable(d) ==
  /\ \A i, j \in DOMAIN d.tasks : d.tasks[i].id = d.tasks[j].id => i = j
  /\ SumFunction([i \in DOMAIN d.tasks |-> d.tasks[i].cost]) <= d.budget
  /\ \A id \in Ids(d) : IsInjective(DependsOn(d, id)) /\ Range(DependsOn(d, id)) \subseteq Ids(d)
  /\ \A S \in (SUBSET Ids(d)) \ {{}} : \E id \in S : S \cap Range(DependsOn(d, id)) = {}
  /\ d.maxFanout > 0
  /\ \A id \in Ids(d) :
       Cardinality({t \in Ids(d) : id \in Range(DependsOn(d, t))}) <= d.maxFanout

(* The server refuses exactly the DAGs that cannot be run, whatever their  *)
(* shape and however large their costs; what it holds, read back or put,   *)
(* can be run (TaskDAG.Validate, putDAG, loadDefinitions).                 *)
AcceptsExactlyRunnable ==
  /\ \A c \in Clients :
       put[c].step # "none" /\ put[c].kind = "dag"
         => (put[c].step = "refused" <=> ~Runnable(put[c].def))
  /\ defs.dag # None => Runnable(defs.dag)

(* The agents that may take a task, and the best of them.                  *)
Able(c, t) ==
  {a \in Range(c.agents) : a.enabled /\ a.maxConcurrent > 0 /\ t.requires \subseteq a.capabilities}
IsBest(a, S) ==
  /\ a \in S
  /\ \A b \in S \ {a} : a.priority > b.priority \/ (a.priority = b.priority /\ a.id <= b.id)

(* A run is scheduled in the one order that takes the least task whose     *)
(* dependencies precede it, with every task in it, and each task goes to   *)
(* the best agent able to do it; so a restart and a repeated schedule      *)
(* agree with the first one (topological, Route).                          *)
PlansSound ==
  run.plan # None =>
    LET d == run.used.dag
        order == run.plan.order
        Left(i) == Ids(d) \ {order[j] : j \in 1..(i - 1)}
        Free(i) == {id \in Left(i) : Range(DependsOn(d, id)) \cap Left(i) = {}}
    IN /\ Len(order) = Cardinality(Ids(d))
       /\ \A i \in DOMAIN order : order[i] \in Free(i) /\ \A id \in Free(i) : order[i] <= id
       /\ \A id \in Ids(d) :
            LET able == Able(run.used.catalog, TaskOf(d, id))
            IN IF able = {} THEN run.plan.agent[id] = 0
               ELSE \E a \in able : a.id = run.plan.agent[id] /\ IsBest(a, able)

(* Outside a put, memory and table agree, whatever failed or crashed       *)
(* before: the table holds what SaveDefinition makes of the definition in  *)
(* memory, which may be less than a restart needs to read it back          *)
(* (DefinitionsStored); and a definition that a restart would read from    *)
(* the table is in memory.  Two puts of one id that overlap may leave them *)
(* apart (SaveDefinition and the map are two critical sections).           *)
MemoryIsTable ==
  up => \A k \in Kinds \ (raced \cup {put[c].kind : c \in InService}) :
          IF defs[k] = None
          THEN table[k] # None => ~(Decodes(k, table[k]) /\ Valid(k, table[k]))
          ELSE table[k] = Stored(k, defs[k])

(* A run goes on, across restarts, with the definitions it was started     *)
(* with, unless one was put again or by two clients at once.  It holds for *)
(* a definition that its way into the table does not change: no text in it *)
(* looks like a secret and every number is exact (runDefinitions).         *)
RunKeepsDefinitions ==
  run.started # None =>
    \A k \in Kinds \ (run.replaced \cup raced) :
      Stored(k, run.started[k]) = run.started[k] => run.used[k] = run.started[k]

(* A run never loses a definition that no client replaced:                 *)
(* docs/operations.md says that definitions are stored,                    *)
(* docs/domain-contracts.md that identifiers are opaque.  It fails when    *)
(* redaction makes two ids one, or rounding makes a number too large.      *)
DefinitionsStored ==
  run.started # None => \A k \in Kinds \ (run.replaced \cup raced) : run.used[k] # None
=============================================================================
