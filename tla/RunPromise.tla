----------------------------- MODULE RunPromise -----------------------------
(***************************************************************************)
(* What a run promises about its tasks, whatever requests arrive and       *)
(* whenever the process dies: a guarded task is decided once, a task is    *)
(* released to the runtime only after all its dependencies are completed   *)
(* and, if guarded, after its approval was granted; only a released task   *)
(* completes, and the run ends only when every task has, unless its DAG is *)
(* not known to the process that ends it; and none of this is ever taken   *)
(* back.                                                                   *)
(* (docs/dispatch-state-machine.md:13-14, docs/domain-contracts.md:12)     *)
(***************************************************************************)
CONSTANTS Tasks, DependsOn, Guarded

VARIABLES granted, denied, released, done, ended, planned

vars == <<granted, denied, released, done, ended, planned>>

Init ==
  /\ granted = {} /\ denied = {} /\ released = {} /\ done = {}
  /\ ended = FALSE /\ planned = TRUE

Grant(t) ==
  /\ t \in Guarded \ (granted \cup denied)
  /\ granted' = granted \cup {t}
  /\ UNCHANGED <<denied, released, done, ended, planned>>

Deny(t) ==
  /\ t \in Guarded \ (granted \cup denied)
  /\ denied' = denied \cup {t}
  /\ UNCHANGED <<granted, released, done, ended, planned>>

Release(t) ==
  /\ t \notin released
  /\ DependsOn[t] \subseteq done
  /\ t \in Guarded => t \in granted
  /\ released' = released \cup {t}
  /\ UNCHANGED <<granted, denied, done, ended, planned>>

Complete(t) ==
  /\ t \in released \ done
  /\ done' = done \cup {t}
  /\ UNCHANGED <<granted, denied, released, ended, planned>>

End ==
  /\ planned => Tasks \subseteq done
  /\ ended' = TRUE
  /\ UNCHANGED <<granted, denied, released, done, planned>>

(* A restart finds the DAG of the run, or does not.                        *)
Reload ==
  /\ planned' \in BOOLEAN
  /\ UNCHANGED <<granted, denied, released, done, ended>>

Next == End \/ Reload \/ \E t \in Tasks : Grant(t) \/ Deny(t) \/ Release(t) \/ Complete(t)

Spec == Init /\ [][Next]_vars
=============================================================================
