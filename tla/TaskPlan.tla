------------------------------ MODULE TaskPlan ------------------------------
(***************************************************************************)
(* What startDispatch computes from a catalog and a DAG before it sends    *)
(* anything: validation (internal/dispatch/model.go), the order of the     *)
(* tasks (topological in internal/httpapi/dispatch.go) and the choice of   *)
(* an agent for each (internal/dispatch/router.go).  Pure definitions;     *)
(* ids are naturals, ordered as the code orders its strings.               *)
(*                                                                         *)
(* A DAG is [tasks, maxFanout, budget], its tasks a sequence of            *)
(* [id, cost, requires, dependsOn] with dependsOn a sequence.  A catalog   *)
(* is [capabilities, agents], both sequences, with agents [id, version,    *)
(* capabilities, priority, enabled, maxConcurrent]; a capability stands    *)
(* for its name@version.                                                   *)
(***************************************************************************)
EXTENDS Integers, FiniteSets, SequencesExt

CONSTANT MaxUint  \* the largest uint64

ASSUME MaxUintAssumption == MaxUint \in Nat

Ids(d) == {d.tasks[i].id : i \in DOMAIN d.tasks}
TaskOf(d, id) == d.tasks[CHOOSE i \in DOMAIN d.tasks : d.tasks[i].id = id]
DependsOn(d, id) == TaskOf(d, id).dependsOn
Sorted(S) ==
  CHOOSE s \in [1..Cardinality(S) -> S] : \A i, j \in DOMAIN s : i < j => s[i] < s[j]

-----------------------------------------------------------------------------
(* TaskDAG.Validate                                                        *)

UniqueIds(d) == Cardinality(Ids(d)) = Len(d.tasks)

(* Mutant: the addition is not checked.                                    *)
WrappingCost(sum, cost) == [fits |-> sum.fits, value |-> (sum.value + cost) % (MaxUint + 1)]

(* The costs are added in fixed width, each addition checked before it is  *)
(* made.                                                                   *)
AddCost(sum, cost) ==
  IF ~sum.fits \/ MaxUint - sum.value < cost THEN [sum EXCEPT !.fits = FALSE]
  ELSE [sum EXCEPT !.value = @ + cost]

WithinBudget(d) ==
  LET sum == FoldLeft(LAMBDA s, t : AddCost(s, t.cost), [fits |-> TRUE, value |-> 0], d.tasks)
  IN sum.fits /\ sum.value <= d.budget

DependenciesKnown(d) ==
  \A i \in DOMAIN d.tasks :
    /\ ToSet(d.tasks[i].dependsOn) \subseteq Ids(d)
    /\ IsInjective(d.tasks[i].dependsOn)

FanoutBounded(d) ==
  /\ d.maxFanout > 0
  /\ \A id \in Ids(d) :
       Cardinality({i \in DOMAIN d.tasks : id \in ToSet(d.tasks[i].dependsOn)}) <= d.maxFanout

(* The closure visit: a depth-first search that colours a task 1 on the    *)
(* way in and 2 on the way out, and fails when it meets a 1.               *)
Visit(d) ==
  LET visit[x \in Ids(d) \X [colour : [Ids(d) -> 0..2], cyclic : BOOLEAN]] ==
        LET id == x[1]
            s == x[2]
            inside == FoldLeft(LAMBDA r, dep : visit[<<dep, r>>],
                               [s EXCEPT !.colour[id] = 1], DependsOn(d, id))
        IN IF s.cyclic \/ s.colour[id] = 2 THEN s
           ELSE IF s.colour[id] = 1 THEN [s EXCEPT !.cyclic = TRUE]
           ELSE [inside EXCEPT !.colour[id] = 2]
  IN visit

NoCycle(d) ==
  LET start == [colour |-> [id \in Ids(d) |-> 0], cyclic |-> FALSE]
      end == FoldLeft(LAMBDA s, id : Visit(d)[<<id, s>>], start, Sorted(Ids(d)))
  IN ~end.cyclic

Validate(d) ==
  UniqueIds(d) /\ WithinBudget(d) /\ DependenciesKnown(d) /\ FanoutBounded(d) /\ NoCycle(d)

(* Catalog.Validate                                                        *)
ValidateCatalog(c) ==
  /\ IsInjective(c.capabilities)
  /\ \A i, j \in DOMAIN c.agents :
       c.agents[i].id = c.agents[j].id /\ c.agents[i].version = c.agents[j].version => i = j
  /\ \A i \in DOMAIN c.agents : c.agents[i].capabilities \subseteq ToSet(c.capabilities)

-----------------------------------------------------------------------------
(* topological: Kahn's algorithm over a sorted queue.                      *)

(* Mutant: freed tasks go to the end of the queue.                         *)
QueueUnsorted(ready, freed) == ready \o freed

Queue(ready, freed) == Sorted(ToSet(ready \o freed))

(* Take the first ready task; its children are freed by their last         *)
(* dependency.                                                             *)
TakeReady(d, s) ==
  LET id == Head(s.ready)
      left == [t \in Ids(d) |-> s.indegree[t] - (IF id \in ToSet(DependsOn(d, t)) THEN 1 ELSE 0)]
      freed == {t \in Ids(d) : id \in ToSet(DependsOn(d, t)) /\ left[t] = 0}
  IN [out |-> Append(s.out, id), ready |-> Queue(Tail(s.ready), Sorted(freed)), indegree |-> left]

Topological(d) ==
  LET indegree == [t \in Ids(d) |-> Len(DependsOn(d, t))]
      state[k \in 0..Len(d.tasks)] ==
        IF k = 0
        THEN [out |-> <<>>, ready |-> Sorted({t \in Ids(d) : indegree[t] = 0}), indegree |-> indegree]
        ELSE IF state[k - 1].ready = <<>> THEN state[k - 1] ELSE TakeReady(d, state[k - 1])
  IN state[Len(d.tasks)].out

-----------------------------------------------------------------------------
(* Route.  Schedules pass no agent states, so no agent counts as loaded or *)
(* quarantined.                                                            *)

Eligible(a, task) ==
  a.enabled /\ a.maxConcurrent > 0 /\ task.requires \subseteq a.capabilities

(* The order of the candidates: eligible ones first, then by priority,     *)
(* then by id.                                                             *)
Before(a, b, task) ==
  \/ Eligible(a, task) /\ ~Eligible(b, task)
  \/ /\ Eligible(a, task) = Eligible(b, task)
     /\ \/ a.priority > b.priority
        \/ a.priority = b.priority /\ a.id < b.id

(* Two versions of one agent are in either order.                          *)
Candidates(c, task) ==
  LET agents == ToSet(c.agents)
  IN CHOOSE s \in [1..Cardinality(agents) -> agents] :
       IsInjective(s) /\ \A i, j \in DOMAIN s : i < j => ~Before(s[j], s[i], task)

(* The first eligible candidate, or 0.                                     *)
Route(c, task) ==
  LET candidates == Candidates(c, task)
      eligible == {i \in DOMAIN candidates : Eligible(candidates[i], task)}
  IN IF eligible = {} THEN 0 ELSE candidates[Min(eligible)].id
=============================================================================
