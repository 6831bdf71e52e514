---------------------------- MODULE MCDispatchRun ----------------------------
(* Instances of DispatchRun for TLC: DAGs, and menus of requests.          *)
EXTENDS RunProperties, TLC

CONSTANTS t1, t2, t3, r1, r2, r3

One == <<t1>>
Chain == <<t1, t2>>
Join == <<t1, t2, t3>>
NoDeps == [t \in Tasks |-> {}]
ChainDeps == t1 :> {} @@ t2 :> {t1}
JoinDeps == t1 :> {} @@ t2 :> {} @@ t3 :> {t1, t2}

(* The keys that the dispatches and the operations of a menu can use.      *)
KeysOf(menu) ==
  LET ops == UNION {menu[r] : r \in Requests}
      controls == {op \in ops : op.kind = "control"}
      retries == {op \in controls : op.what = "retry"}
  IN  {DispatchKey(t) : t \in Tasks} \cup {op.key : op \in controls}
        \cup {RetryKey(op.task, op.key[3]) : op \in retries}

(* Result checks of every task.                                            *)
MenuResults == [r \in Requests |-> {ResultOp(t) : t \in Tasks}]
KeysResults == KeysOf(MenuResults)

(* A guarded t1 and a t2, which run at once and are joined in t3.          *)
MenuJoin == r1 :> {ApproveOp(t1, "grant")} @@ r2 :> {ResultOp(t1)}
              @@ r3 :> {ResultOp(t1), ResultOp(t2)}
KeysJoin == KeysOf(MenuJoin)

(* Decisions on a guarded t1, and result checks of it and of t2.           *)
MenuWork == r1 :> {ApproveOp(t1, "grant"), ApproveOp(t1, "deny")}
              @@ r2 :> {ApproveOp(t1, "grant"), ResultOp(t1)}
              @@ r3 :> {ResultOp(t1), ResultOp(t2)}
KeysWork == KeysOf(MenuWork)

(* Result checks of t1 around a pause.                                     *)
MenuPolls == [r \in Requests |-> {ResultOp(t1), ControlOp("pause", t1, "")}]
KeysPolls == KeysOf(MenuPolls)

(* What a restarted server finds: all of the run, or else all but its DAG, *)
(* or nothing.                                                             *)
Whole == {Parts}
Scheduled == {Parts, Parts \ {"dag"}}
Operated == {Parts, {}}

(* Controls of t1, a repeated key included, an emergency stop, a result.   *)
MenuControls == [r \in Requests |->
  {ControlOp(c, t1, "") : c \in {"retry", "pause"}}
  \cup {ControlOp("emergency-stop", RunTask, ""), ResultOp(t1)}]
KeysControls == KeysOf(MenuControls)

(* A control of t1, and an emergency stop, a result check or the           *)
(* reconciliation of an unknown outcome at the same time.                  *)
MenuOperator ==
  LET controls(names) == {ControlOp(c, t1, "") : c \in names}
      reconciles(kind, ds) == {ReconcileOp(<<kind, t1, "">>, d) : d \in ds}
  IN  r1 :> controls({"retry", "cancel", "resume", "reassign"})
   @@ r2 :> ({ControlOp("emergency-stop", RunTask, ""), ResultOp(t1)}
             \cup reconciles("dispatch", {"applied", "not_applied", "still_unknown"}))
KeysOperator == KeysOf(MenuOperator)

Symmetry == Permutations(Requests)
=============================================================================
