----------------------------- MODULE ProviderCalls -----------------------------
(***************************************************************************)
(* The calls of a provider (GetOrderbook of internal/pricing/binance.go,   *)
(* callQuoter of internal/pricing/uniswap.go, Publish of                   *)
(* internal/platform/aws/sns.go) through the circuit breaker they share.   *)
(* The breaker is around the retries (internal/platform/resilience/        *)
(* retry.go), and each attempt waits for the rate limiter first: what the  *)
(* breaker sees of a call is its end, while its requests are spread out.   *)
(*                                                                         *)
(* The variables and the two critical sections of a call are those of      *)
(* CircuitBreaker.  The time a wait takes, for the limiter, an answer or a *)
(* delay, is not modelled: anything may happen meanwhile.                  *)
(***************************************************************************)
EXTENDS CircuitBreaker, FiniteSets

CONSTANTS MaxAttempts,  \* retryCfg.MaxAttempts: 3 for Binance and SNS, 2 for Uniswap
          MaxCancels    \* bound: calls whose context ends

ASSUME CallsAssumption ==
    IsFiniteSet(Callers) /\ MaxAttempts \in Nat \ {0} /\ MaxCancels \in Nat

VARIABLES
    step,       \* per caller: "idle", "limiter", "request", "backoff", "over"
    attempt,    \* per caller: requests made in this call
    verdict,    \* per caller: "none", or how the call ended
    cancelled,  \* callers whose context is over
    cancels,    \* contexts that have ended so far
    \* history, per caller: requests started since the breaker opened, and those
    \* started since its context was over (they saturate past what is allowed)
    overrun, late

callVars == <<step, attempt, verdict, cancelled, cancels, overrun, late>>
allVars  == <<vars, callVars>>

CallsInit ==
    /\ Init
    /\ step = [c \in Callers |-> "idle"]
    /\ attempt = [c \in Callers |-> 0]
    /\ verdict = [c \in Callers |-> "none"]
    /\ cancelled = {} /\ cancels = 0
    /\ overrun = [c \in Callers |-> 0] /\ late = [c \in Callers |-> 0]

\* Opening starts a new count.
CountFromOpening ==
    overrun' = IF state' = "open" /\ state = "open" THEN overrun
               ELSE [c \in Callers |-> 0]

\* Failures to come that the bound on them has to allow for.
Failing == Cardinality({c \in Callers : verdict[c] = "failed"})

-------------------------------------------------------------------------------
(* Execute: beforeRequest, the retries, afterRequest.  A call that an open   *)
(* breaker refuses changes nothing.                                          *)

Begin(c) ==
    /\ step[c] = "idle"
    /\ Admit(c)
    /\ step' = [step EXCEPT ![c] = "limiter"]
    /\ CountFromOpening
    /\ UNCHANGED <<attempt, verdict, cancelled, cancels, late>>

\* The call is over; afterRequest is still to come.
Over(c, v) ==
    /\ step' = [step EXCEPT ![c] = "over"]
    /\ verdict' = [verdict EXCEPT ![c] = v]
    /\ UNCHANGED <<vars, attempt, cancelled, cancels, overrun, late>>

\* Wait has a token, also for a caller whose context is over: it looks for a token
\* before it looks at the context.
StartRequest(c) ==
    /\ step[c] = "limiter"
    /\ step' = [step EXCEPT ![c] = "request"]
    /\ attempt' = [attempt EXCEPT ![c] = @ + 1]
    /\ overrun' = IF state = "open" /\ overrun[c] <= MaxAttempts
                  THEN [overrun EXCEPT ![c] = @ + 1] ELSE overrun
    /\ late' = IF c \in cancelled /\ late[c] <= 1
               THEN [late EXCEPT ![c] = @ + 1] ELSE late
    /\ UNCHANGED <<vars, verdict, cancelled, cancels>>

WaitCancelled(c) ==
    /\ step[c] = "limiter" /\ c \in cancelled
    /\ Over(c, "cancelled")

Answered(c) ==
    /\ step[c] = "request"
    /\ Over(c, "succeeded")

\* IsRetryable: not a revert, an invalid argument, or a status 4xx other than 429.
\* Such an error ends the call as it is, whatever its context.
Rejected(c) ==
    /\ step[c] = "request" /\ faults + Failing < MaxFaults
    /\ Over(c, "failed")

\* Mutant: the context is not looked at after an attempt.
GivesUpAttempts(c) == attempt[c] = MaxAttempts

\* After a failed attempt the context is looked at first, then the attempts left.
GivesUp(c) == c \in cancelled \/ attempt[c] = MaxAttempts

\* Mutant: an attempt that the context cuts short is given back.
AttemptFailsRefunded(c) ==
    /\ step[c] = "request"
    /\ IF c \notin cancelled /\ attempt[c] = MaxAttempts
       THEN \/ Over(c, "timeout")
            \/ faults + Failing < MaxFaults /\ Over(c, "failed")
       ELSE /\ step' = [step EXCEPT ![c] = "backoff"]
            /\ attempt' = IF c \in cancelled
                          THEN [attempt EXCEPT ![c] = @ - 1] ELSE attempt
            /\ UNCHANGED <<vars, verdict, cancelled, cancels, overrun, late>>

\* An attempt fails and may be repeated.  The error of the last one is that of the
\* call: the breaker ignores a timeout of the HTTP client as it does the end of the
\* context, and counts any other.
AttemptFails(c) ==
    /\ step[c] = "request"
    /\ IF GivesUp(c)
       THEN \/ c \in cancelled /\ Over(c, "cancelled")
            \/ c \notin cancelled /\ Over(c, "timeout")
            \/ c \notin cancelled /\ faults + Failing < MaxFaults /\ Over(c, "failed")
       ELSE /\ step' = [step EXCEPT ![c] = "backoff"]
            /\ UNCHANGED <<vars, attempt, verdict, cancelled, cancels, overrun,
                           late>>

\* The select finds the timer or the context, at random when it finds both.
BackoffOver(c) ==
    /\ step[c] = "backoff"
    /\ step' = [step EXCEPT ![c] = "limiter"]
    /\ UNCHANGED <<vars, attempt, verdict, cancelled, cancels, overrun,
                           late>>

BackoffCancelled(c) ==
    /\ step[c] = "backoff" /\ c \in cancelled
    /\ Over(c, "cancelled")

\* afterRequest, and the call returns.
End(c) ==
    /\ step[c] = "over"
    /\ CASE verdict[c] = "succeeded" -> Succeed(c)
         [] verdict[c] = "failed"    -> Fail(c)
         [] OTHER                    -> Ignore(c)
    /\ CountFromOpening
    /\ step' = [step EXCEPT ![c] = "idle"]
    /\ attempt' = [attempt EXCEPT ![c] = 0]
    /\ verdict' = [verdict EXCEPT ![c] = "none"]
    /\ cancelled' = cancelled \ {c}
    /\ UNCHANGED cancels
    /\ late' = [late EXCEPT ![c] = 0]

-------------------------------------------------------------------------------
(* The surroundings. *)

\* The context of a call ends: the program stops, or the time of the warm-up is up.
CancelCall(c) ==
    /\ step[c] # "idle" /\ c \notin cancelled
    /\ cancels < MaxCancels /\ cancels' = cancels + 1
    /\ cancelled' = cancelled \union {c}
    /\ UNCHANGED <<vars, step, attempt, verdict, overrun, late>>

\* The breaker's own clock and its manual control.
Breaker ==
    /\ \/ TimeoutElapses \/ Reset
       \/ faults + Failing < MaxFaults /\ ForceOpen
    /\ CountFromOpening
    /\ UNCHANGED <<step, attempt, verdict, cancelled, cancels, late>>

CallStep(c) ==
    \/ StartRequest(c) \/ WaitCancelled(c) \/ Rejected(c) \/ AttemptFails(c)
    \/ BackoffOver(c) \/ BackoffCancelled(c) \/ End(c)

CallsNext ==
    \/ \E c \in Callers : Begin(c) \/ Answered(c) \/ CallStep(c) \/ CancelCall(c)
    \/ Breaker

CallsSpec == CallsInit /\ [][CallsNext]_allVars

(***************************************************************************)
(* Fairness.  The goroutine of a call is scheduled, and delays and waits   *)
(* for a token are over some time; a request that the provider does not    *)
(* answer ends with the context.  Callers call again, and a provider that  *)
(* is asked again and again answers some time.  No call is owed a failure, *)
(* a cancellation or a reset.                                              *)
(***************************************************************************)
Scheduled(c) ==
    \/ StartRequest(c) \/ WaitCancelled(c) \/ BackoffOver(c)
    \/ BackoffCancelled(c) \/ End(c)
    \/ c \in cancelled /\ AttemptFails(c)

CallsFairSpec ==
    /\ CallsSpec
    /\ \A c \in Callers :
          /\ WF_allVars(Scheduled(c)) /\ WF_allVars(Begin(c))
          /\ SF_allVars(c \notin cancelled /\ Answered(c))
    /\ WF_allVars(TimeoutElapses /\ Breaker)

-------------------------------------------------------------------------------
(* Properties. *)

\* Types: no call is past its last attempt.
CallsTypeOK ==
    /\ TypeOK
    /\ step \in [Callers -> {"idle", "limiter", "request", "backoff", "over"}]
    /\ attempt \in [Callers -> 0..MaxAttempts]
    /\ verdict \in [Callers -> {"none", "succeeded", "failed", "timeout",
                                "cancelled"}]
    /\ cancelled \subseteq Callers /\ cancels \in 0..MaxCancels
    /\ overrun \in [Callers -> 0..MaxAttempts + 1] /\ late \in [Callers -> 0..2]

\* An open breaker does not stop the calls it has let through, but what they still
\* send is bounded: while it is open no caller starts more requests than the
\* attempts of one call, whoever opened it and however often.
OverrunBounded == \A c \in Callers : overrun[c] <= MaxAttempts

\* A call whose context is over starts one more request at most, although neither
\* the wait for a token nor the delay needs to notice.
LateBounded == \A c \in Callers : late[c] <= 1

\* A call whose context is over returns, even if the provider never answers.
CancelledEnds ==
    \A c \in Callers : c \in cancelled ~> c \notin cancelled
===============================================================================
