--------------------------- MODULE MCDefinitions ---------------------------
(* Instances of Definitions for TLC.  One dimension of the input varies in *)
(* each family of menus: the graph, the numbers, the agents, or the        *)
(* definition that is put in place of another.                             *)
EXTENDS Definitions

CONSTANTS c1, c2

Task(id, cost, requires, dependsOn) ==
  [id |-> id, cost |-> cost, requires |-> requires, dependsOn |-> dependsOn]
Dag(tasks, maxFanout, budget) == [tasks |-> tasks, maxFanout |-> maxFanout, budget |-> budget]

(* Every graph over three tasks, those with a cycle included, and what is  *)
(* wrong in other ways: a task or a dependency named twice, an unknown     *)
(* dependency, no fanout.                                                  *)
Graph(d1, d2, d3, fanout) ==
  Dag(<<Task(1, 0, {}, Sorted(d1)), Task(2, 0, {}, Sorted(d2)), Task(3, 0, {}, Sorted(d3))>>, fanout, 0)
Graphs3 == {Graph(d1, d2, d3, 2) : d1, d2, d3 \in SUBSET (1..3)}
Tight == {Graph({}, d2, d3, f) : d2, d3 \in SUBSET (1..2), f \in 0..1}
Malformed ==
  {Dag(<<Task(1, 0, {}, <<>>), Task(1, 0, {}, <<>>)>>, 1, 0),
   Dag(<<Task(1, 0, {}, <<>>), Task(2, 0, {}, <<1, 1>>)>>, 2, 0),
   Dag(<<Task(1, 0, {}, <<4>>)>>, 1, 0)}

(* Costs and budgets around the largest number.                            *)
Numbers == {1, 4, 5, 7, 8, 15}
Costed == {Dag(<<Task(1, a, {}, <<>>), Task(2, b, {}, <<1>>)>>, 1, m) : a, b, m \in Numbers}

(* Two agents, or two versions of one, or one named twice.                 *)
Agents(id, v) ==
  {[id |-> id, version |-> v, capabilities |-> c, priority |-> p, enabled |-> e, maxConcurrent |-> m] :
     c \in {{}, {4}}, p \in 1..2, e \in BOOLEAN, m \in 0..1}
Catalog(agents) == [capabilities |-> <<4>>, agents |-> agents]
Able1 == {a \in Agents(1, 1) \cup Agents(1, 2) : a.maxConcurrent = 1}
Catalogs ==
  {Catalog(<<a, b>>) : a \in Agents(2, 1), b \in Agents(1, 1)} \cup
  {Catalog(<<a, b>>) : a, b \in Able1} \cup
  {[capabilities |-> <<>>, agents |-> <<a>>] : a \in Agents(1, 1)}
(* Catalogs whose ids, capabilities and priorities the table may change.   *)
Named(caps, id, p) ==
  [id |-> id, version |-> 1, capabilities |-> ToSet(caps), priority |-> p, enabled |-> TRUE,
   maxConcurrent |-> 1]
Renamed ==
  {[capabilities |-> caps, agents |-> <<Named(caps, 2, p), Named(caps, id, 2)>>] :
     caps \in {<<4>>, <<4, 2>>, <<4, 2, 3>>}, id \in {1, 3}, p \in {2, 5, 7}}
OneAgent ==
  Catalog(<<[id |-> 1, version |-> 1, capabilities |-> {4}, priority |-> 1, enabled |-> TRUE, maxConcurrent |-> 1]>>)

Secretive == Dag(<<Task(2, 0, {2}, <<>>), Task(1, 0, {4}, <<2>>)>>, 5, 0)
Chain == Dag(<<Task(2, 0, {4}, <<>>), Task(1, 0, {}, <<2>>)>>, 1, 0)
Other == Dag(<<Task(1, 0, {}, <<>>)>>, 1, 1)
Menu(clients, c, d) == [clients |-> clients, catalog |-> c, dag |-> d]

ShapeMenus == {Menu({c1}, {OneAgent}, {d}) : d \in Graphs3 \cup Tight \cup Malformed}
NumberMenus == {Menu({c1}, {OneAgent}, {d}) : d \in Costed}
AgentMenus == {Menu({c1}, {c}, {Chain}) : c \in Catalogs}
RenamedMenus == {Menu({c1}, {c}, {Secretive}) : c \in Renamed}
ReplacingMenus == {Menu({c1, c2}, {OneAgent}, {Chain, Other})}
AllMenus == ShapeMenus \cup NumberMenus \cup AgentMenus \cup RenamedMenus \cup ReplacingMenus
=============================================================================
