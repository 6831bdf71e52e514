-------------------------- MODULE CommandLifecycle --------------------------
(***************************************************************************)
(* What the command ledger promises its callers about one idempotency key, *)
(* with fences, bounds and polling left out: a key is opened once; an open *)
(* command may fall in doubt; a command in doubt leaves that phase only    *)
(* with a recorded answer; a closed command and its answer never change.   *)
(* (docs/dispatch-state-machine.md:26, docs/domain-contracts.md:13)        *)
(***************************************************************************)
CONSTANTS Keys, Results, NoResult

VARIABLES phase, answer

vars == <<phase, answer>>

Phases == {"absent", "open", "inDoubt", "closed"}

Init ==
  /\ phase \in [Keys -> Phases]
  /\ answer \in [Keys -> Results \cup {NoResult}]

Open(k) ==
  /\ phase[k] = "absent"
  /\ phase' = [phase EXCEPT ![k] = "open"]
  /\ UNCHANGED answer

Doubt(k) ==
  /\ phase[k] = "open"
  /\ phase' = [phase EXCEPT ![k] = "inDoubt"]
  /\ UNCHANGED answer

CloseAnswered(k, r) ==
  /\ phase[k] \in {"open", "inDoubt"}
  /\ phase' = [phase EXCEPT ![k] = "closed"]
  /\ answer' = [answer EXCEPT ![k] = r]

CloseUnanswered(k) ==
  /\ phase[k] = "open"
  /\ phase' = [phase EXCEPT ![k] = "closed"]
  /\ UNCHANGED answer

Next == \E k \in Keys :
  \/ Open(k)
  \/ Doubt(k)
  \/ \E r \in Results : CloseAnswered(k, r)
  \/ CloseUnanswered(k)

Spec == Init /\ [][Next]_vars
=============================================================================
