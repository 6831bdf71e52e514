---------------------------- MODULE AdapterProofs ---------------------------
(***************************************************************************)
(* Theorems about AdapterCall, for any number of calls and any of the      *)
(* adapters.                                                               *)
(***************************************************************************)
EXTENDS AdapterCall, TLAPS

-----------------------------------------------------------------------------
(* The invariant holds initially and is kept by every step; one lemma for  *)
(* each of its parts.                                                      *)

(* Nothing has been called.                                                *)
LEMMA InitCallInv == Init => CallInv
<1> SUFFICES ASSUME Init PROVE CallInv
  OBVIOUS
<1> USE DEF Init
<1>1. TypeOK
  BY DEF TypeOK
<1>2. Traced
  BY DEF Traced
<1>3. Returned
  BY DEF Returned, SideEffect
<1>4. InTurn
  BY DEF InTurn
<1>5. Classified /\ AcceptedHadEffect
  BY DEF Classified, Untraced, AcceptedHadEffect
<1> QED
  BY <1>1, <1>2, <1>3, <1>4, <1>5 DEF CallInv

(* Every step keeps the types.                                             *)
LEMMA NextTypeOK == TypeOK /\ [Next]_vars => TypeOK'
<1> SUFFICES ASSUME TypeOK, [Next]_vars PROVE TypeOK'
  OBVIOUS
<1> USE DEF TypeOK, clientVars
<1>1. ASSUME NEW c \in Calls, Call(c) PROVE TypeOK'
  BY <1>1 DEF Call, Open, Ops
<1>2. ASSUME NEW c \in Calls, TooLarge(c) \/ TimesOut(c) PROVE TypeOK'
  BY <1>2 DEF TooLarge, TimesOut, DoFails, BodyFails, Return, Failure
<1>3. ASSUME NEW c \in Calls, WroteRequest(c) \/ Flush(c) PROVE TypeOK'
  BY <1>3 DEF WroteRequest, Flush
<1>4. ASSUME NEW c \in Calls, Answered(c) PROVE TypeOK'
  BY <1>4 DEF Answered, HTTPError, Head2xx, Body, Return, Verdict
<1>5. ASSUME NEW c \in Calls, FixtureCall(c) PROVE TypeOK'
  BY <1>5 DEF FixtureCall, Return, Failure
<1>6. ASSUME NEW c \in Calls, Arrives(c) \/ IsLost(c) PROVE TypeOK'
  BY <1>6 DEF Arrives, IsLost
<1>7. CASE UNCHANGED vars
  BY <1>7 DEF vars
<1> QED
  BY <1>1, <1>2, <1>3, <1>4, <1>5, <1>6, <1>7 DEF Next

(* Every step keeps the order of hook, request, effect and answer.         *)
LEMMA NextTraced == CallInv /\ [Next]_vars => Traced'
<1> SUFFICES ASSUME CallInv, [Next]_vars PROVE Traced'
  OBVIOUS
<1> USE DEF CallInv, TypeOK, Traced, SideEffect, clientVars
<1>1. ASSUME NEW c \in Calls, Call(c) PROVE Traced'
  BY <1>1 DEF Call, Open, Ops
<1>2. ASSUME NEW c \in Calls, TooLarge(c) \/ TimesOut(c) PROVE Traced'
  BY <1>2 DEF TooLarge, TimesOut, DoFails, BodyFails, Return
<1>3. ASSUME NEW c \in Calls, WroteRequest(c) \/ Flush(c) PROVE Traced'
  BY <1>3 DEF WroteRequest, Flush
<1>4. ASSUME NEW c \in Calls, Answered(c) PROVE Traced'
  BY <1>4 DEF Answered, HTTPError, Head2xx, Body, Return, Answers
<1>5. ASSUME NEW c \in Calls, FixtureCall(c) PROVE Traced'
  BY <1>5 DEF FixtureCall, Return
<1>6. ASSUME NEW c \in Calls, Arrives(c) \/ IsLost(c) PROVE Traced'
  BY <1>6 DEF Arrives, IsLost, Answers
<1>7. CASE UNCHANGED vars
  BY <1>7 DEF vars
<1> QED
  BY <1>1, <1>2, <1>3, <1>4, <1>5, <1>6, <1>7 DEF Next

(* Every step keeps what is known of the calls that have returned.         *)
LEMMA NextReturned == CallInv /\ [Next]_vars => Returned' /\ Classified' /\ AcceptedHadEffect'
<1> SUFFICES ASSUME CallInv, [Next]_vars PROVE Returned' /\ Classified' /\ AcceptedHadEffect'
  OBVIOUS
<1> DEFINE Kept == Returned' /\ Classified' /\ AcceptedHadEffect'
<1> USE DEF CallInv, TypeOK, Traced, Returned, Classified, Untraced, AcceptedHadEffect, SideEffect,
            clientVars
<1>1. ASSUME NEW c \in Calls, Call(c) PROVE Kept
  BY <1>1 DEF Call, Open, Ops
<1>2. ASSUME NEW c \in Calls, TooLarge(c) \/ TimesOut(c) PROVE Kept
  BY <1>2 DEF TooLarge, TimesOut, DoFails, BodyFails, Return, Failure
<1>3. ASSUME NEW c \in Calls, WroteRequest(c) \/ Flush(c) PROVE Kept
  BY <1>3 DEF WroteRequest, Flush
<1>4. ASSUME NEW c \in Calls, Answered(c) PROVE Kept
  BY <1>4 DEF Answered, HTTPError, Head2xx, Body, Return, Verdict
<1>5. ASSUME NEW c \in Calls, FixtureCall(c) PROVE Kept
  BY <1>5 DEF FixtureCall, Return, Failure
<1>6. ASSUME NEW c \in Calls, Arrives(c) \/ IsLost(c) PROVE Kept
  BY <1>6 DEF Arrives, IsLost
<1>7. CASE UNCHANGED vars
  BY <1>7 DEF vars
<1> QED
  BY <1>1, <1>2, <1>3, <1>4, <1>5, <1>6, <1>7 DEF Next

(* Every step keeps the order of the calls: the ones before have returned, *)
(* and a dispatch or a control follows no outcome in doubt.                *)
LEMMA NextInTurn == CallInv /\ [Next]_vars => InTurn'
<1> SUFFICES ASSUME CallInv, [Next]_vars PROVE InTurn'
  OBVIOUS
<1> USE DEF CallInv, TypeOK, Returned, InTurn, SideEffect, clientVars
<1>0. Calls \subseteq Nat
  BY AdaptersAssumption DEF Calls
<1>1. ASSUME NEW c \in Calls, Call(c) PROVE InTurn'
  <2>1. \A b \in Calls : b < c => step[b] = "done"
    BY <1>0, <1>1, AdaptersAssumption DEF Call, Open, Calls
  <2>2. \A b \in Calls : c < b => step[b] = "new"
    BY <1>0, <1>1 DEF Call, Open
  <2>3. PICK o \in Ops : (o = "dispatch" => \A b \in Calls : outcome[b] # "unknown") /\ Open(c, o)
    BY <1>1 DEF Call
  <2> QED
    BY <1>0, <2>1, <2>2, <2>3 DEF Open, Ops
<1>2. ASSUME NEW c \in Calls, TooLarge(c) \/ TimesOut(c) \/ Answered(c) \/ FixtureCall(c)
      PROVE InTurn'
  <2>1. /\ op' = op /\ step[c] \in {"open", "reading"} /\ step'[c] # "new"
        /\ \A b \in Calls \ {c} : step'[b] = step[b] /\ outcome'[b] = outcome[b]
    BY <1>2 DEF TooLarge, TimesOut, Answered, DoFails, BodyFails, HTTPError, Head2xx, Body,
                FixtureCall, Return
  <2>2. \A b \in Calls : c < b => step[b] = "new"
    BY <1>0, <2>1
  <2> QED
    BY <1>0, <2>1, <2>2
<1>3. ASSUME NEW c \in Calls, WroteRequest(c) \/ Flush(c) \/ Arrives(c) \/ IsLost(c)
      PROVE InTurn'
  BY <1>3 DEF WroteRequest, Flush, Arrives, IsLost
<1>4. CASE UNCHANGED vars
  BY <1>4 DEF vars
<1> QED
  BY <1>1, <1>2, <1>3, <1>4 DEF Next

(* In every state of every behaviour.                                      *)
THEOREM CallInvariance == Spec => []CallInv
<1>1. CallInv /\ [Next]_vars => CallInv'
  BY NextTypeOK, NextTraced, NextReturned, NextInTurn DEF CallInv
<1> QED
  BY <1>1, InitCallInv, PTL DEF Spec

-----------------------------------------------------------------------------
(* What it gives.                                                          *)

(* A failure reported without an answer is one for good, and only calls    *)
(* with an effect are ever in doubt.                                       *)
THEOREM FailuresClassified == Spec => []Classified
<1>1. CallInv => Classified
  BY DEF CallInv
<1> QED
  BY <1>1, CallInvariance, PTL

(* What is taken for accepted has been applied.                            *)
THEOREM AcceptedApplied == Spec => []AcceptedHadEffect
<1>1. CallInv => AcceptedHadEffect
  BY DEF CallInv
<1> QED
  BY <1>1, CallInvariance, PTL

(* The types.                                                              *)
THEOREM CallTypes == Spec => []TypeOK
<1>1. CallInv => TypeOK
  BY DEF CallInv
<1> QED
  BY <1>1, CallInvariance, PTL

(* Over any number of retries, a request is applied again only after the   *)
(* gateway's own answer to the one before: without an answer the earlier   *)
(* call is in doubt, which blocks the later one, or it has failed for good.*)
THEOREM EffectsNotRepeated == Spec => []EffectsRepeatOnlyAnswered
<1>1. CallInv => EffectsRepeatOnlyAnswered
  <2> SUFFICES ASSUME CallInv, NEW b \in effects, NEW c \in effects, b < c
               PROVE b \in answered \cup Untraced \/ outcome[b] = "ok"
    BY DEF EffectsRepeatOnlyAnswered
  <2>1. b \in Calls /\ c \in Calls /\ SideEffect(b) /\ SideEffect(c)
    BY DEF CallInv, TypeOK, Returned
  <2>2. step[c] # "new"
    BY <2>1 DEF CallInv, Returned, SideEffect
  <2>3. step[b] = "done" /\ outcome[b] # "unknown"
    BY <2>1, <2>2 DEF CallInv, InTurn
  <2>4. outcome[b] \in {"ok", "failed"}
    BY <2>1, <2>3 DEF CallInv, TypeOK, Returned
  <2> QED
    BY <2>1, <2>4 DEF CallInv, Classified
<1> QED
  BY <1>1, CallInvariance, PTL
=============================================================================
