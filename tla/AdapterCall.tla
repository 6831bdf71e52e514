---------------------------- MODULE AdapterCall ----------------------------
(***************************************************************************)
(* The calls that Dispatch makes to the runtime for one task, one after    *)
(* the other, and what each of them is taken for: internal/adapters/       *)
(* (openclaw.go, fixture.go) under dispatchTask, control and taskResult.   *)
(* The gateway is external: it may apply a request late, apply it and say  *)
(* something else, stall, or not answer at all.                            *)
(***************************************************************************)
EXTENDS Naturals

CONSTANTS
  MaxCalls,  \* bound: calls for the task
  Adapters   \* "openclaw" and the modes of the fixture

ASSUME AdaptersAssumption ==
  /\ MaxCalls \in Nat
  /\ Adapters \subseteq {"openclaw", "pass", "fail", "timeout", "lost_response"}

Calls == 1..MaxCalls

(* dispatch stands for pause, cancel, resume, retry and reassign as well,  *)
(* result for heartbeat.                                                   *)
Ops == {"dispatch", "result"}

(* What a gateway answers: an acknowledgement or a well-formed result; an  *)
(* acknowledgement that is not accepted or of another task; a status other *)
(* than 2xx; a body that is malformed or too large; a body that stalls.    *)
Answers == {"accepted", "rejected", "error", "garbled", "stalled"}

VARIABLES
  adapter,   \* the adapter of the run
  op,        \* the operation of each call
  step,      \* where each call stands: "new", "open", "reading", "done"
  large,     \* calls whose request exceeds net/http's write buffer (4 KiB)
  wrote,     \* calls whose WroteRequest hook has run
  wire,      \* each request: "none", "flying" to the gateway, "gone"
  answer,    \* what the gateway answered to each
  outcome,   \* what each call is taken for
  effects,   \* history: calls that took effect in the runtime
  answered   \* history: calls whose outcome is the gateway's own answer

clientVars == <<adapter, op, step, large, outcome, answered>>
vars == <<adapter, op, step, large, wrote, wire, answer, outcome, effects, answered>>

SideEffect(c) == op[c] = "dispatch"

-----------------------------------------------------------------------------
(* The callers make the next call when the one before has returned; a      *)
(* retry is refused while an outcome is unknown (what happens when the two *)
(* overlap is the subject of DispatchRun).                                 *)

Open(c, o) ==
  /\ step[c] = "new" /\ \A b \in 1..(c - 1) : step[b] = "done"
  /\ op' = [op EXCEPT ![c] = o]
  /\ step' = [step EXCEPT ![c] = "open"]
  /\ large' \in IF adapter = "openclaw" /\ o = "dispatch" THEN {large, large \cup {c}} ELSE {large}
  /\ UNCHANGED <<adapter, wrote, wire, answer, outcome, effects, answered>>

(* Mutant: a retry does not look for outcomes in doubt.                    *)
CallInDoubt(c) == \E o \in Ops : Open(c, o)

Call(c) ==
  \E o \in Ops :
    /\ o = "dispatch" => \A b \in Calls : outcome[b] # "unknown"
    /\ Open(c, o)

Return(c, result) ==
  /\ step' = [step EXCEPT ![c] = "done"]
  /\ outcome' = [outcome EXCEPT ![c] = result]
  /\ UNCHANGED <<adapter, op, large, wrote, wire, answer>>

Failure(unknown) == IF unknown THEN "unknown" ELSE "failed"

-----------------------------------------------------------------------------
(* OpenClawHTTP.call.                                                      *)

(* Nothing is sent: the body cannot be marshalled or is above 1 MiB.       *)
TooLarge(c) ==
  /\ adapter = "openclaw" /\ step[c] = "open" /\ c \notin wrote /\ wire[c] = "none"
  /\ Return(c, "failed")
  /\ UNCHANGED <<effects, answered>>

(* net/http runs the hook when it has written the request to its buffer,   *)
(* and then flushes the buffer, unless the call has returned and closed    *)
(* the connection.  A request that does not fit the buffer goes to the     *)
(* connection as it is written, so it may have left before the hook runs.  *)
WroteRequest(c) ==
  /\ adapter = "openclaw" /\ step[c] = "open" /\ c \notin wrote
  /\ wrote' = wrote \cup {c}
  /\ UNCHANGED <<clientVars, wire, answer, effects>>

Flush(c) ==
  /\ adapter = "openclaw" /\ step[c] = "open" /\ c \in wrote \cup large /\ wire[c] = "none"
  /\ wire' = [wire EXCEPT ![c] = "flying"]
  /\ UNCHANGED <<clientVars, wrote, answer, effects>>

(* Mutant: a call that times out is taken for one that failed.             *)
DoFailsDefinitely(c) ==
  /\ adapter = "openclaw" /\ step[c] = "open"
  /\ Return(c, "failed")
  /\ UNCHANGED <<effects, answered>>

(* client.Do returns an error: the timeout, a connection refused or reset. *)
DoFails(c) ==
  /\ adapter = "openclaw" /\ step[c] = "open"
  /\ Return(c, Failure(SideEffect(c) /\ c \in wrote))
  /\ UNCHANGED <<effects, answered>>

(* The head of the answer arrives.                                         *)
HTTPError(c) ==
  /\ step[c] = "open" /\ answer[c] = "error"
  /\ Return(c, "failed")
  /\ answered' = answered \cup {c}
  /\ UNCHANGED effects

Head2xx(c) ==
  /\ step[c] = "open" /\ answer[c] \in Answers \ {"error"}
  /\ step' = [step EXCEPT ![c] = "reading"]
  /\ UNCHANGED <<adapter, op, large, wrote, wire, answer, outcome, effects, answered>>

(* Mutant: the body is read without the timeout.                           *)
BodyBreaksOff(c) ==
  /\ step[c] = "reading" /\ answer[c] # "stalled"
  /\ Return(c, Failure(SideEffect(c)))
  /\ UNCHANGED <<effects, answered>>

(* The body ends early or the timeout comes first.                         *)
BodyFails(c) ==
  /\ step[c] = "reading"
  /\ Return(c, Failure(SideEffect(c)))
  /\ UNCHANGED <<effects, answered>>

(* Mutant: the acknowledgement is not looked at.                           *)
VerdictUnread(a) == IF a = "garbled" THEN "failed" ELSE "ok"

(* A malformed body is a failure; so is, for the caller, one that is not   *)
(* about this task or not accepted.                                        *)
Verdict(a) == IF a = "accepted" THEN "ok" ELSE "failed"

Body(c) ==
  /\ step[c] = "reading" /\ answer[c] # "stalled"
  /\ Return(c, Verdict(answer[c]))
  /\ answered' = answered \cup {c}
  /\ UNCHANGED effects

-----------------------------------------------------------------------------
(* The gateway and the network (external).                                 *)

Arrives(c) ==
  /\ wire[c] = "flying"
  /\ wire' = [wire EXCEPT ![c] = "gone"]
  /\ \E applied \in BOOLEAN, a \in Answers \cup {"none"} :
       /\ applied => SideEffect(c)
       /\ a = "accepted" /\ SideEffect(c) => applied
       /\ effects' = IF applied THEN effects \cup {c} ELSE effects
       /\ answer' = [answer EXCEPT ![c] = a]
  /\ UNCHANGED <<clientVars, wrote>>

IsLost(c) ==
  /\ wire[c] = "flying"
  /\ wire' = [wire EXCEPT ![c] = "gone"]
  /\ UNCHANGED <<clientVars, wrote, answer, effects>>

-----------------------------------------------------------------------------
(* Fixture.operation and its callers: the mode decides, and only a call    *)
(* that passes changes the fixture's tasks.                                *)
FixtureCall(c) ==
  /\ adapter # "openclaw" /\ step[c] = "open"
  /\ Return(c, CASE adapter = "pass" -> "ok"
                 [] adapter = "lost_response" -> Failure(SideEffect(c))
                 [] OTHER -> "failed")
  /\ effects' = IF adapter = "pass" /\ SideEffect(c) THEN effects \cup {c} ELSE effects
  /\ UNCHANGED answered

-----------------------------------------------------------------------------
Init ==
  /\ adapter \in Adapters
  /\ op = [c \in Calls |-> "none"]
  /\ step = [c \in Calls |-> "new"]
  /\ large = {} /\ wrote = {} /\ effects = {} /\ answered = {}
  /\ wire = [c \in Calls |-> "none"]
  /\ answer = [c \in Calls |-> "none"]
  /\ outcome = [c \in Calls |-> "none"]

Answered(c) == HTTPError(c) \/ Head2xx(c) \/ Body(c)
TimesOut(c) == DoFails(c) \/ BodyFails(c)

Next ==
  \E c \in Calls :
    \/ Call(c) \/ TooLarge(c) \/ WroteRequest(c) \/ Flush(c)
    \/ Answered(c) \/ TimesOut(c) \/ FixtureCall(c)
    \/ Arrives(c) \/ IsLost(c)

Spec == Init /\ [][Next]_vars

(* Every call has a context with the run's timeout, and the client one of  *)
(* its own that covers the body; the fixture waits for nothing else.       *)
Fairness == \A c \in Calls : WF_vars(TimesOut(c)) /\ WF_vars(FixtureCall(c))
FairSpec == Spec /\ Fairness

-----------------------------------------------------------------------------
(* Properties.                                                             *)

(* Every variable has its type; only a request beyond the buffer of        *)
(* net/http has left before its hook ran.                                  *)
TypeOK ==
  /\ adapter \in Adapters
  /\ op \in [Calls -> Ops \cup {"none"}]
  /\ step \in [Calls -> {"new", "open", "reading", "done"}]
  /\ outcome \in [Calls -> {"none", "ok", "failed", "unknown"}]
  /\ wire \in [Calls -> {"none", "flying", "gone"}]
  /\ answer \in [Calls -> Answers \cup {"none"}]
  /\ large \subseteq Calls /\ effects \subseteq Calls /\ answered \subseteq Calls
  /\ {c \in Calls : wire[c] # "none"} \subseteq wrote \cup large

(* Requests the client cannot tell from ones it never sent: too long for   *)
(* the buffer, and the hook has not run.                                   *)
Untraced == large \ wrote

(* What the adapter reports without an answer of the gateway is right for  *)
(* good: after a definite failure nothing has taken effect and nothing     *)
(* will, except that a request beyond net/http's buffer may be on the wire *)
(* before the hook that would put it in doubt; and only a call with an     *)
(* effect of its own is ever in doubt (openclaw.go, the two places that    *)
(* set Unknown).                                                           *)
Classified ==
  \A c \in Calls :
    /\ SideEffect(c) /\ outcome[c] = "failed" /\ c \notin answered \cup Untraced
         => c \notin effects /\ wire[c] # "flying"
    /\ outcome[c] = "unknown"
         => SideEffect(c) /\ (adapter = "openclaw" => c \in wrote \cup large)

(* An acknowledgement that is taken for one means that the runtime has     *)
(* applied the request of this very task (dispatchTask, control).          *)
AcceptedHadEffect ==
  \A c \in Calls : SideEffect(c) /\ outcome[c] = "ok" => c \in effects

(* Across the retries of a task the runtime applies a second request only  *)
(* if the gateway had answered the first one itself, or the first one was  *)
(* beyond net/http's buffer and timed out before its hook ran: no other    *)
(* timeout, lost or broken answer leads to a repeated effect.              *)
EffectsRepeatOnlyAnswered ==
  \A b, c \in effects :
    b < c => b \in answered \cup Untraced \/ outcome[b] = "ok"

(* The inductive invariant behind these properties.  A call is in doubt or *)
(* accounted for from the moment its hook has run, and a dispatch begins   *)
(* only when every call before it has returned without doubt.              *)
Traced ==
  \A c \in Calls :
    /\ step[c] = "new" => c \notin wrote \cup large
    /\ c \in wrote => adapter = "openclaw"
    /\ answer[c] # "none" => wire[c] = "gone"
    /\ answer[c] = "accepted" /\ SideEffect(c) => c \in effects
    /\ step[c] = "reading" => answer[c] \notin {"none", "error"}
Returned ==
  \A c \in Calls :
    /\ step[c] = "new" <=> op[c] = "none"
    /\ step[c] = "done" <=> outcome[c] # "none"
    /\ c \in effects => SideEffect(c) /\ (wire[c] = "gone" \/ outcome[c] = "ok")
    /\ SideEffect(c) /\ outcome[c] = "failed" /\ c \notin answered => c \notin wrote
InTurn ==
  \A b, c \in Calls :
    b < c /\ step[c] # "new" => step[b] = "done" /\ (SideEffect(c) => outcome[b] # "unknown")
CallInv == TypeOK /\ Traced /\ Returned /\ InTurn /\ Classified /\ AcceptedHadEffect

(* Every call returns, whatever the gateway does with it.                  *)
CallsEnd == \A c \in Calls : step[c] = "open" ~> step[c] = "done"
=============================================================================
