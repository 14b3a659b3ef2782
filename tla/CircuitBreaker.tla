---------------------------- MODULE CircuitBreaker ----------------------------
(***************************************************************************)
(* The circuit breaker (internal/platform/resilience/circuit_breaker.go)   *)
(* around the calls to Binance, Uniswap and SNS.  A call is two critical   *)
(* sections, beforeRequest and afterRequest, with the request between      *)
(* them, so the breaker may be in another state when a call ends than when *)
(* it was let through.                                                     *)
(*                                                                         *)
(* Time is one bit: cooling holds while time.Since(lastFailTime) is within *)
(* the timeout.  The counters saturate at MaxCount, which no comparison of *)
(* the code can tell from counting on.                                     *)
(***************************************************************************)
EXTENDS Integers

CONSTANTS Callers,           \* goroutines that call through the breaker
          FailureThreshold,
          SuccessThreshold,
          MaxCount,          \* bound: where the counters saturate
          MaxFaults          \* bound: failed calls and ForceOpens

ASSUME BreakerAssumption ==
    /\ FailureThreshold \in Nat \ {0}
    /\ SuccessThreshold \in Nat \ {0}
    /\ MaxCount \in Nat
    /\ MaxCount >= FailureThreshold /\ MaxCount >= SuccessThreshold
    /\ MaxFaults \in Nat

VARIABLES
    state,      \* "closed", "open", "half-open"
    failures,
    successes,
    cooling,    \* the timeout since lastFailTime has not elapsed
    call,       \* per caller: "idle", "admitted"
    faults,
    streak      \* history: failures in a row since the last success or Reset

counters == <<failures, successes>>
vars == <<state, counters, cooling, call, faults, streak>>

\* failures++ and successes++, up to the bound.
Inc(n) == IF n < MaxCount THEN n + 1 ELSE n
Fault  == faults < MaxFaults /\ faults' = faults + 1

\* NewCircuitBreaker; lastFailTime is the zero time.
Init ==
    /\ state = "closed"
    /\ failures = 0 /\ successes = 0
    /\ cooling = FALSE
    /\ call = [c \in Callers |-> "idle"]
    /\ faults = 0
    /\ streak = 0

-------------------------------------------------------------------------------
\* Mutant: the successes are cleared with every call let through while testing.
AdmitClearing(c) ==
    /\ call[c] = "idle"
    /\ state = "open" => ~cooling
    /\ call' = [call EXCEPT ![c] = "admitted"]
    /\ successes' = IF state = "closed" THEN successes ELSE 0
    /\ state' = IF state = "open" THEN "half-open" ELSE state
    /\ UNCHANGED <<failures, cooling, faults, streak>>

\* Mutant: the breaker stays open when its timeout is over.
AdmitStaysOpen(c) ==
    /\ call[c] = "idle"
    /\ state = "open" => ~cooling
    /\ call' = [call EXCEPT ![c] = "admitted"]
    /\ UNCHANGED <<state, counters, cooling, faults, streak>>

\* beforeRequest lets the call through.  An open breaker whose timeout is over
\* becomes half-open; a half-open one lets every call through.
Admit(c) ==
    /\ call[c] = "idle"
    /\ state = "open" => ~cooling
    /\ call' = [call EXCEPT ![c] = "admitted"]
    /\ state' = IF state = "open" THEN "half-open" ELSE state
    /\ UNCHANGED <<counters, cooling, faults, streak>>

\* Mutant: the threshold is compared with the count before this failure.
OpenIfAtThresholdLate ==
    state' = IF state = "half-open" \/ (state = "closed" /\
                failures >= FailureThreshold)
             THEN "open" ELSE state

\* The state after a failure, once failures counts it.
OpenIfAtThreshold ==
    state' = IF state = "half-open" \/ (state = "closed" /\
                failures' >= FailureThreshold)
             THEN "open" ELSE state

\* afterRequest with an error, in whatever state the breaker is by now.
Fail(c) ==
    /\ call[c] = "admitted"
    /\ Fault
    /\ call' = [call EXCEPT ![c] = "idle"]
    /\ failures' = Inc(failures)
    /\ successes' = 0
    /\ cooling' = TRUE
    /\ OpenIfAtThreshold
    /\ streak' = Inc(streak)

\* afterRequest with a cancelled context or a deadline: not counted.
Ignore(c) ==
    /\ call[c] = "admitted"
    /\ call' = [call EXCEPT ![c] = "idle"]
    /\ UNCHANGED <<state, counters, cooling, faults, streak>>

\* Mutant: a success while closed leaves the failures as they are.
KeepFailures ==
    IF state = "half-open" /\ successes' >= SuccessThreshold
    THEN state' = "closed" /\ failures' = 0
    ELSE UNCHANGED <<state, failures>>

\* A success clears the failures of a closed breaker, and closes a half-open one
\* once successes has reached the threshold.
CloseIfEnough ==
    IF state = "half-open" /\ successes' >= SuccessThreshold
    THEN state' = "closed" /\ failures' = 0
    ELSE /\ failures' = IF state = "closed" THEN 0 ELSE failures
         /\ UNCHANGED state

\* afterRequest without an error, in whatever state the breaker is by now.
Succeed(c) ==
    /\ call[c] = "admitted"
    /\ call' = [call EXCEPT ![c] = "idle"]
    /\ successes' = Inc(successes)
    /\ CloseIfEnough
    /\ streak' = 0
    /\ UNCHANGED <<cooling, faults>>

TimeoutElapses ==
    /\ cooling /\ cooling' = FALSE
    /\ UNCHANGED <<state, counters, call, faults, streak>>

-------------------------------------------------------------------------------
(* Manual control, whatever calls are under way. *)

Reset ==
    /\ state' = "closed"
    /\ failures' = 0 /\ successes' = 0
    /\ streak' = 0
    /\ UNCHANGED <<cooling, call, faults>>

\* The counters stay as they are.
ForceOpen ==
    /\ Fault
    /\ state' = "open"
    /\ cooling' = TRUE
    /\ UNCHANGED <<counters, call, streak>>

Next ==
    \/ \E c \in Callers : Admit(c) \/ Fail(c) \/ Ignore(c) \/ Succeed(c)
    \/ TimeoutElapses \/ Reset \/ ForceOpen

Spec == Init /\ [][Next]_vars

\* Callers keep calling, time passes, and not every call ends cancelled: a call
\* that could succeed again and again does.  Reset is not owed.
FairSpec ==
    /\ Spec
    /\ WF_vars(TimeoutElapses)
    /\ \A c \in Callers : WF_vars(Admit(c)) /\ SF_vars(Succeed(c))

-------------------------------------------------------------------------------
(* Properties. *)

TypeOK ==
    /\ state \in {"closed", "open", "half-open"}
    /\ failures \in 0..MaxCount /\ successes \in 0..MaxCount
    /\ cooling \in BOOLEAN
    /\ call \in [Callers -> {"idle", "admitted"}]
    /\ faults \in 0..MaxFaults
    /\ streak \in 0..MaxCount

\* A closed breaker always has failures to spare: no order of late results,
\* resets and forced openings leaves it closed at its threshold, where the next
\* failure would be judged by a stale count.
ClosedBelowThreshold == state = "closed" => failures < FailureThreshold

\* The breaker opens by itself from closed only after FailureThreshold failures
\* in a row: failures from before a success or a closing do not count.
OpensAfterStreak ==
    [][state = "closed" /\ state' = "open" /\ failures' # failures
          => streak' >= FailureThreshold]_vars

\* A service that stops failing is let through again: after finitely many
\* failures and forced openings the breaker keeps coming back to closed, even
\* when results arrive in the wrong state.
Recovers == []<>(state = "closed")
===============================================================================
