------------------------------ MODULE EventLog ------------------------------
(***************************************************************************)
(* What the event store promises about the log of each run: it grows by    *)
(* one event at a time and never changes otherwise, and readers see a      *)
(* prefix of it that only grows and ends up being all of it.               *)
(* (docs/domain-contracts.md:7, "Event: append-only observation")          *)
(***************************************************************************)
EXTENDS Naturals, Sequences

CONSTANTS Runs, Types

VARIABLES
  log,     \* the types of the events of each run
  shown    \* how many of them a reader sees

vars == <<log, shown>>

Init ==
  /\ log = [r \in Runs |-> <<>>]
  /\ shown = [r \in Runs |-> 0]

(* An event becomes durable before it is shown.                            *)
Record(r, t) ==
  /\ log' = [log EXCEPT ![r] = Append(@, t)]
  /\ UNCHANGED shown

Show(r) ==
  /\ shown[r] < Len(log[r])
  /\ shown' = [shown EXCEPT ![r] = Len(log[r])]
  /\ UNCHANGED log

Next == \E r \in Runs : Show(r) \/ \E t \in Types : Record(r, t)

Spec == Init /\ [][Next]_vars
=============================================================================
