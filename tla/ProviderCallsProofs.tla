-------------------------- MODULE ProviderCallsProofs --------------------------
(***************************************************************************)
(* The circuit breaker and the calls of a provider through it, for every   *)
(* set of callers, every threshold, every number of attempts and every     *)
(* bound.  First the breaker by itself: types, the spare failure of a      *)
(* closed breaker, and that it opens only on consecutive failures.  Then   *)
(* the calls: to their breaker they are the calls of CircuitBreaker, so    *)
(* what is proved there holds here, and what a call sends while the        *)
(* breaker is open, or after its context is over, is bounded.              *)
(***************************************************************************)
EXTENDS ProviderCalls, TLAPS

-------------------------------------------------------------------------------
(* The breaker.                                                              *)

\* While closed, the failures counted are among the last ones in a row.
CountsStreak == state = "closed" => failures <= streak

IInv == TypeOK /\ ClosedBelowThreshold /\ CountsStreak

-------------------------------------------------------------------------------
\* Counting stays within the bound, and reaches a threshold that is within it.
LEMMA IncFacts ==
    ASSUME NEW n \in 0..MaxCount
    PROVE  /\ Inc(n) \in 0..MaxCount
           /\ Inc(n) = n + 1 \/ (Inc(n) = n /\ n = MaxCount)
  BY BreakerAssumption DEF Inc

\* A new breaker satisfies the invariant.
LEMMA InitIInv == Init => IInv
<1> SUFFICES ASSUME Init PROVE IInv
  OBVIOUS
<1> USE BreakerAssumption DEF Init
<1>1. TypeOK
  <2>1. cooling \in BOOLEAN
    OBVIOUS
  <2>2. call \in [Callers -> {"idle", "admitted"}]
    OBVIOUS
  <2>3. 0 \in 0..MaxCount /\ 0 \in 0..MaxFaults
    OBVIOUS
  <2> QED
    BY <2>1, <2>2, <2>3 DEF TypeOK
<1>2. ClosedBelowThreshold /\ CountsStreak
  BY DEF ClosedBelowThreshold, CountsStreak
<1> QED
  BY <1>1, <1>2 DEF IInv

\* Every admission, result, timeout, reset and forced opening keeps it.
LEMMA NextIInv == ASSUME IInv, [Next]_vars PROVE IInv'
<1> USE BreakerAssumption DEF IInv, counters
<1>1. ASSUME NEW c \in Callers, Admit(c) PROVE IInv'
  <2>1. TypeOK'
    BY <1>1 DEF TypeOK, Admit
  <2>2. ClosedBelowThreshold' /\ CountsStreak'
    BY <1>1 DEF Admit, ClosedBelowThreshold, CountsStreak
  <2> QED
    BY <2>1, <2>2
<1>2. ASSUME NEW c \in Callers, Fail(c) PROVE IInv'
  <2>1. /\ failures' \in 0..MaxCount /\ streak' \in 0..MaxCount
        /\ state = "closed" => failures' = failures + 1
        /\ streak' = streak + 1 \/ (streak' = streak /\ streak = MaxCount)
    BY <1>2, IncFacts DEF Fail, TypeOK, ClosedBelowThreshold
  <2>2. TypeOK'
    BY <1>2, <2>1 DEF TypeOK, Fail, Fault, OpenIfAtThreshold
  <2>3. ClosedBelowThreshold'
    BY <1>2, <2>1 DEF TypeOK, Fail, OpenIfAtThreshold, ClosedBelowThreshold
  <2>4. CountsStreak'
    BY <1>2, <2>1 DEF TypeOK, Fail, OpenIfAtThreshold, CountsStreak
  <2> QED
    BY <2>2, <2>3, <2>4
<1>3. ASSUME NEW c \in Callers, Ignore(c) PROVE IInv'
  BY <1>3 DEF Ignore, TypeOK, ClosedBelowThreshold, CountsStreak
<1>4. ASSUME NEW c \in Callers, Succeed(c) PROVE IInv'
  <2>1. successes' \in 0..MaxCount
    BY <1>4, IncFacts DEF Succeed, TypeOK
  <2>2. \/ state' = "closed" /\ failures' = 0
        \/ state' = state /\ state # "closed" /\ failures' = failures
    BY <1>4 DEF Succeed, CloseIfEnough
  <2>3. TypeOK'
    BY <1>4, <2>1, <2>2 DEF TypeOK, Succeed
  <2>4. ClosedBelowThreshold' /\ CountsStreak'
    BY <1>4, <2>2 DEF Succeed, ClosedBelowThreshold, CountsStreak
  <2> QED
    BY <2>3, <2>4
<1>5. CASE TimeoutElapses
  BY <1>5 DEF TimeoutElapses, TypeOK, ClosedBelowThreshold, CountsStreak
<1>6. CASE Reset
  BY <1>6 DEF Reset, TypeOK, ClosedBelowThreshold, CountsStreak
<1>7. CASE ForceOpen
  BY <1>7 DEF ForceOpen, Fault, TypeOK, ClosedBelowThreshold, CountsStreak
<1>8. CASE UNCHANGED vars
  BY <1>8 DEF vars, TypeOK, ClosedBelowThreshold, CountsStreak
<1> QED
  BY <1>1, <1>2, <1>3, <1>4, <1>5, <1>6, <1>7, <1>8 DEF Next

\* The inductive invariant holds in every state: what a closed breaker has counted
\* is below its threshold and no more than the failures in a row.
THEOREM Invariance == Spec => []IInv
  BY InitIInv, NextIInv, PTL DEF Spec

\* Every variable keeps its type, for every set of callers.
THEOREM TypeCorrect == Spec => []TypeOK
  BY Invariance, PTL DEF IInv

\* However late results arrive and whoever resets or forces the breaker, while
\* it is closed its failures are below the threshold.
THEOREM ClosedHasSpareFailure == Spec => []ClosedBelowThreshold
  BY Invariance, PTL DEF IInv

\* The breaker opens by itself only on FailureThreshold failures in a row.
THEOREM OpensOnConsecutiveFailures == Spec => OpensAfterStreak
<1>1. ASSUME IInv, [Next]_vars,
             state = "closed", state' = "open", failures' # failures
      PROVE  streak' >= FailureThreshold
  <2> USE BreakerAssumption DEF counters
  <2>a. TypeOK /\ ClosedBelowThreshold /\ CountsStreak
    BY <1>1 DEF IInv
  <2>1. PICK c \in Callers : Fail(c)
    BY <1>1 DEF Next, vars, Admit, Ignore, Succeed, CloseIfEnough,
                TimeoutElapses, Reset, ForceOpen
  <2>2. failures' = failures + 1 /\ failures' >= FailureThreshold
    BY <1>1, <2>a, <2>1, IncFacts
       DEF Fail, OpenIfAtThreshold, TypeOK, ClosedBelowThreshold
  <2>3. streak' = streak + 1 \/ streak' = MaxCount
    BY <2>a, <2>1, IncFacts DEF Fail, TypeOK
  <2> QED
    BY <1>1, <2>a, <2>2, <2>3 DEF TypeOK, CountsStreak
<1> QED
  BY <1>1, Invariance, PTL DEF Spec, OpensAfterStreak

-------------------------------------------------------------------------------
(* The calls.                                                                *)

\* A caller that waits for a token or a delay has an attempt left; it has sent
\* nothing since its context is over, which is looked at after each attempt.
AttemptLeft ==
    \A c \in Callers :
        /\ step[c] = "idle" => attempt[c] = 0 /\ late[c] = 0
        /\ step[c] \in {"limiter", "backoff"} => attempt[c] < MaxAttempts /\ late[c] = 0
LateCancelled == \A c \in Callers : late[c] > 0 => c \in cancelled

\* The requests a caller sends while the breaker is open are attempts of the call
\* it is in, or was in when the breaker opened.
OverrunOfCall ==
    /\ state # "open" => \A c \in Callers : overrun[c] = 0
    /\ \A c \in Callers : step[c] # "idle" => overrun[c] <= attempt[c]

CallsInv ==
    /\ IInv /\ CallsTypeOK
    /\ AttemptLeft /\ LateCancelled /\ LateBounded
    /\ OverrunOfCall /\ OverrunBounded

-------------------------------------------------------------------------------
(* The refinement.  It maps the variables of the breaker to themselves.      *)

\* Every step of the calls is one of the breaker, or leaves it alone.
LEMMA StepOfBreaker == ASSUME [CallsNext]_allVars PROVE [Next]_vars
<1>1. ASSUME NEW c \in Callers, Begin(c) PROVE [Next]_vars
  BY <1>1 DEF Begin, Next
<1>2. ASSUME NEW c \in Callers, End(c) PROVE [Next]_vars
  BY <1>2 DEF End, Next
<1>3. ASSUME NEW c \in Callers, Answered(c) \/ CancelCall(c) PROVE UNCHANGED vars
  BY <1>3 DEF Answered, CancelCall, Over
<1>4. ASSUME NEW c \in Callers, CallStep(c), ~End(c) PROVE UNCHANGED vars
  BY <1>4 DEF CallStep, StartRequest, WaitCancelled, Rejected, AttemptFails,
              BackoffOver, BackoffCancelled, Over
<1>5. CASE Breaker
  BY <1>5 DEF Breaker, Next
<1>6. CASE UNCHANGED allVars
  BY <1>6 DEF allVars
<1> QED
  BY <1>1, <1>2, <1>3, <1>4, <1>5, <1>6 DEF CallsNext

\* Breaker, retries and limiter together behave, to the breaker's variables, as the
\* abstract breaker whose calls start and end at any time.
THEOREM RefinesBreaker == CallsSpec => Spec
<1>1. CallsInit => Init
  BY DEF CallsInit
<1> QED
  BY <1>1, StepOfBreaker, PTL DEF CallsSpec, Spec

\* ClosedBelowThreshold of the composition: what the runs check of it follows from
\* the proof for the breaker alone.
THEOREM ClosedHasSpareFailureInCalls == CallsSpec => []ClosedBelowThreshold
  BY RefinesBreaker, ClosedHasSpareFailure, PTL

\* OpensAfterStreak of the composition, likewise.
THEOREM OpensOnConsecutiveFailuresInCalls == CallsSpec => OpensAfterStreak
  BY RefinesBreaker, OpensOnConsecutiveFailures, PTL

-------------------------------------------------------------------------------
(* The inductive invariant.                                                  *)

\* It holds before the first call.
LEMMA CallsInitInv == CallsInit => CallsInv
<1> SUFFICES ASSUME CallsInit PROVE CallsInv
  OBVIOUS
<1> USE CallsAssumption
<1>1. IInv
  BY InitIInv DEF CallsInit
<1>2. CallsTypeOK
  BY <1>1 DEF CallsInit, CallsTypeOK, IInv
<1>3. AttemptLeft /\ LateCancelled /\ LateBounded
  BY DEF CallsInit, AttemptLeft, LateCancelled, LateBounded
<1>4. OverrunOfCall /\ OverrunBounded
  BY DEF CallsInit, OverrunOfCall, OverrunBounded
<1> QED
  BY <1>1, <1>2, <1>3, <1>4 DEF CallsInv

\* What a new count, or the one that goes on, leaves of the overrun.
LEMMA CountFacts ==
    ASSUME CallsInv, CountFromOpening
    PROVE  /\ overrun' \in [Callers -> 0..MaxAttempts + 1]
           /\ \A c \in Callers : overrun'[c] <= overrun[c]
           /\ state' # "open" => \A c \in Callers : overrun'[c] = 0
           /\ state # "open" => \A c \in Callers : overrun'[c] = 0
  BY CallsAssumption DEF CountFromOpening, CallsInv, CallsTypeOK, OverrunOfCall

\* A call that is over waits for afterRequest; nothing else has changed.
LEMMA OverKeepsInv ==
    ASSUME CallsInv, NEW c \in Callers, step[c] # "idle",
           NEW v \in {"succeeded", "failed", "timeout", "cancelled"}, Over(c, v)
    PROVE  CallsInv'
<1> USE CallsAssumption
<1>1. IInv'
  BY NextIInv DEF Over, CallsInv
<1>2. CallsTypeOK'
  BY <1>1 DEF Over, CallsInv, CallsTypeOK, IInv
<1>3. AttemptLeft' /\ LateCancelled' /\ LateBounded'
  BY DEF Over, CallsInv, CallsTypeOK, AttemptLeft, LateCancelled, LateBounded
<1>4. OverrunOfCall' /\ OverrunBounded'
  BY DEF Over, vars, CallsInv, CallsTypeOK, OverrunOfCall, OverrunBounded
<1> QED
  BY <1>1, <1>2, <1>3, <1>4 DEF CallsInv

\* Every step keeps it: one case per action.
LEMMA CallsNextInv == ASSUME CallsInv, [CallsNext]_allVars PROVE CallsInv'
<1> USE CallsAssumption
<1>0. IInv' /\ TypeOK'
  BY StepOfBreaker, NextIInv DEF CallsInv, IInv
<1>1. ASSUME NEW c \in Callers, Begin(c) PROVE CallsInv'
  <2>1. CallsTypeOK'
    BY <1>0, <1>1, CountFacts DEF Begin, CallsInv, CallsTypeOK
  <2>2. AttemptLeft' /\ LateCancelled' /\ LateBounded'
    BY <1>1 DEF Begin, CallsInv, CallsTypeOK, AttemptLeft, LateCancelled,
                LateBounded
  <2>3. state' # "open" /\ \A d \in Callers : overrun'[d] = 0
    BY <1>1, CountFacts DEF Begin, Admit
  <2>4. OverrunOfCall' /\ OverrunBounded'
    BY <2>1, <2>3 DEF CallsTypeOK, OverrunOfCall, OverrunBounded
  <2> QED
    BY <1>0, <2>1, <2>2, <2>4 DEF CallsInv
<1>2. ASSUME NEW c \in Callers, StartRequest(c) PROVE CallsInv'
  <2>1. attempt[c] < MaxAttempts /\ late[c] = 0
    BY <1>2 DEF StartRequest, CallsInv, AttemptLeft
  <2>2. CallsTypeOK'
    BY <1>0, <1>2, <2>1 DEF StartRequest, CallsInv, CallsTypeOK
  <2>3. AttemptLeft' /\ LateCancelled' /\ LateBounded'
    BY <1>2, <2>1 DEF StartRequest, CallsInv, CallsTypeOK, AttemptLeft,
                      LateCancelled, LateBounded
  <2>4. OverrunOfCall' /\ OverrunBounded'
    BY <1>2, <2>1 DEF StartRequest, vars, CallsInv, CallsTypeOK, OverrunOfCall,
                      OverrunBounded
  <2> QED
    BY <1>0, <2>2, <2>3, <2>4 DEF CallsInv
<1>3. ASSUME NEW c \in Callers,
             \/ WaitCancelled(c) \/ BackoffCancelled(c) \/ Rejected(c) \/ Answered(c)
      PROVE  CallsInv'
  BY <1>3, OverKeepsInv DEF WaitCancelled, BackoffCancelled, Rejected, Answered
<1>4. ASSUME NEW c \in Callers, AttemptFails(c) PROVE CallsInv'
  <2>1. CASE GivesUp(c)
    BY <1>4, <2>1, OverKeepsInv DEF AttemptFails
  <2>2. CASE ~GivesUp(c)
    <3>1. attempt[c] < MaxAttempts /\ late[c] = 0
      BY <1>4, <2>2 DEF AttemptFails, GivesUp, CallsInv, CallsTypeOK,
                        LateCancelled
    <3>2. CallsTypeOK'
      BY <1>0, <1>4, <2>2 DEF AttemptFails, CallsInv, CallsTypeOK
    <3>3. AttemptLeft' /\ LateCancelled' /\ LateBounded'
      BY <1>4, <2>2, <3>1 DEF AttemptFails, CallsInv, CallsTypeOK, AttemptLeft,
                              LateCancelled, LateBounded
    <3>4. OverrunOfCall' /\ OverrunBounded'
      BY <1>4, <2>2 DEF AttemptFails, vars, CallsInv, CallsTypeOK, OverrunOfCall,
                        OverrunBounded
    <3> QED
      BY <1>0, <3>2, <3>3, <3>4 DEF CallsInv
  <2> QED
    BY <2>1, <2>2
<1>5. ASSUME NEW c \in Callers, BackoffOver(c) PROVE CallsInv'
  <2>1. CallsTypeOK'
    BY <1>0, <1>5 DEF BackoffOver, CallsInv, CallsTypeOK
  <2>2. AttemptLeft' /\ LateCancelled' /\ LateBounded'
    BY <1>5 DEF BackoffOver, CallsInv, CallsTypeOK, AttemptLeft, LateCancelled,
                LateBounded
  <2>3. OverrunOfCall' /\ OverrunBounded'
    BY <1>5 DEF BackoffOver, vars, CallsInv, CallsTypeOK, OverrunOfCall,
                OverrunBounded
  <2> QED
    BY <1>0, <2>1, <2>2, <2>3 DEF CallsInv
<1>6. ASSUME NEW c \in Callers, End(c) PROVE CallsInv'
  <2>1. CallsTypeOK'
    BY <1>0, <1>6, CountFacts DEF End, CallsInv, CallsTypeOK
  <2>2. AttemptLeft' /\ LateCancelled' /\ LateBounded'
    BY <1>6 DEF End, CallsInv, CallsTypeOK, AttemptLeft, LateCancelled,
                LateBounded
  <2>3. CountFromOpening
    BY <1>6 DEF End
  <2>4. OverrunOfCall' /\ OverrunBounded'
    BY <1>6, <2>1, <2>3, CountFacts
       DEF End, CallsInv, CallsTypeOK, OverrunOfCall, OverrunBounded
  <2> QED
    BY <1>0, <2>1, <2>2, <2>4 DEF CallsInv
<1>7. ASSUME NEW c \in Callers, CancelCall(c) PROVE CallsInv'
  <2>1. CallsTypeOK'
    BY <1>0, <1>7 DEF CancelCall, CallsInv, CallsTypeOK
  <2>2. AttemptLeft' /\ LateCancelled' /\ LateBounded'
    BY <1>7 DEF CancelCall, CallsInv, CallsTypeOK, AttemptLeft, LateCancelled,
                LateBounded
  <2>3. OverrunOfCall' /\ OverrunBounded'
    BY <1>7 DEF CancelCall, vars, CallsInv, CallsTypeOK, OverrunOfCall,
                OverrunBounded
  <2> QED
    BY <1>0, <2>1, <2>2, <2>3 DEF CallsInv
<1>8. CASE Breaker
  <2>1. CountFromOpening
    BY <1>8 DEF Breaker
  <2>2. CallsTypeOK'
    BY <1>0, <1>8, <2>1, CountFacts DEF Breaker, CallsInv, CallsTypeOK
  <2>3. AttemptLeft' /\ LateCancelled' /\ LateBounded'
    BY <1>8 DEF Breaker, CallsInv, AttemptLeft, LateCancelled, LateBounded
  <2>4. OverrunOfCall' /\ OverrunBounded'
    BY <1>8, <2>1, <2>2, CountFacts
       DEF Breaker, CallsInv, CallsTypeOK, OverrunOfCall, OverrunBounded
  <2> QED
    BY <1>0, <2>2, <2>3, <2>4 DEF CallsInv
<1>9. CASE UNCHANGED allVars
  BY <1>0, <1>9 DEF allVars, callVars, vars, CallsInv, CallsTypeOK, AttemptLeft,
                    LateCancelled, LateBounded, OverrunOfCall, OverrunBounded
<1> QED
  BY <1>1, <1>2, <1>3, <1>4, <1>5, <1>6, <1>7, <1>8, <1>9
     DEF CallsNext, CallStep

-------------------------------------------------------------------------------
(* The theorems.                                                             *)

\* The inductive invariant holds in every state: types, what is left of a call, and
\* which call the requests counted belong to.
THEOREM CallsInvariance == CallsSpec => []CallsInv
  BY CallsInitInv, CallsNextInv, PTL DEF CallsSpec

\* Every variable keeps its type; no call makes more than MaxAttempts attempts.
THEOREM CallsTypeCorrect == CallsSpec => []CallsTypeOK
  BY CallsInvariance, PTL DEF CallsInv

\* While the breaker is open no caller starts more requests than one call has
\* attempts.
THEOREM OverrunIsBounded == CallsSpec => []OverrunBounded
  BY CallsInvariance, PTL DEF CallsInv

\* After its context is over a call starts one request at most.
THEOREM LateIsBounded == CallsSpec => []LateBounded
  BY CallsInvariance, PTL DEF CallsInv
===============================================================================
