------------------------------ MODULE ClientPool ------------------------------
(***************************************************************************)
(* The pool of HTTP RPC endpoints (internal/blockchain/client_pool.go):    *)
(* round-robin selection, and the periodic health checks that run one      *)
(* goroutine per endpoint, close a failed client and dial a new one.       *)
(*                                                                         *)
(* A client is a number, reused once it is closed and nobody holds it.     *)
(* Rounds of checks may overlap; a slot holds the checks of one round.     *)
(***************************************************************************)
EXTENDS Integers, FiniteSets, FiniteSetsExt

CONSTANTS NumEndpoints,  \* len(cp.endpoints)
          Slots,         \* bound: rounds of health checks that may overlap
          MaxClients,    \* bound: clients of an endpoint in use at a time
          MaxFaults      \* bound: outages and MarkUnhealthy calls

ASSUME PoolAssumption ==
    /\ NumEndpoints \in Nat \ {0}
    /\ IsFiniteSet(Slots) /\ Slots # {}
    /\ MaxClients \in Nat \ {0}
    /\ MaxFaults \in Nat

VARIABLES
    client,    \* per endpoint: endpoint.Client, 0 for nil
    healthy,   \* per endpoint: endpoint.healthy
    current,   \* cp.current
    scan,      \* a GetClient under way: where it started, its attempts so far, the
               \* endpoint it is looking at (or -1) and the client read from it
    check,     \* per endpoint and slot: a checkEndpoint and its client
    round,     \* the slot checkAllEndpoints is starting, or "none"
    pool,      \* "open", "cancelled" (Close has cancelled the context), "closed"
    \* the outside
    up, faults,
    \* history: per endpoint the clients not closed, endpoints whose checks met
    \* another check or Close at work, endpoints usable all through the scan
    open, raced, usable

endpointVars == <<client, healthy>>
scanVars     == <<current, scan, usable>>
checkVars    == <<check, round>>
outsideVars  == <<up, faults>>
vars == <<endpointVars, scanVars, checkVars, pool, outsideVars, open, raced>>

Endpoints == 0..(NumEndpoints - 1)
Clients   == 1..MaxClients
NoScan    == [start |-> -1, attempts |-> 0, at |-> -1, client |-> 0]
NoCheck   == [pc |-> "idle", client |-> 0]

Fault == faults < MaxFaults /\ faults' = faults + 1

\* NewClientPool: endpoints that could not be dialled start without a client;
\* at least one has one.
Init ==
    /\ \E dialled \in SUBSET Endpoints \ {{}} :
          /\ client = [e \in Endpoints |-> IF e \in dialled THEN 1 ELSE 0]
          /\ healthy = [e \in Endpoints |-> e \in dialled]
          /\ open = [e \in Endpoints |-> IF e \in dialled THEN {1} ELSE {}]
    /\ current = 0 /\ scan = NoScan /\ usable = {}
    /\ check = [e \in Endpoints |-> [r \in Slots |-> NoCheck]]
    /\ round = "none"
    /\ pool = "open"
    /\ up = Endpoints /\ faults = 0
    /\ raced = {}

-------------------------------------------------------------------------------
(* GetClient, under cp.mu.  The checks do not take that lock: an endpoint may  *)
(* change between the attempts, and between the two reads of one attempt.      *)

\* History: what GetClient is looking for, as the endpoint is at one moment.
Usable(e) == healthy[e] /\ client[e] # 0

ScanStart ==
    /\ scan = NoScan
    /\ scan' = [start |-> current, attempts |-> 0, at |-> -1, client |-> 0]
    /\ usable' = {e \in Endpoints : Usable(e)}
    /\ UNCHANGED <<current, endpointVars, checkVars, pool, outsideVars,
                   open, raced>>

\* Mutant: the last endpoint is never tried.
MoreAttemptsShort == scan.attempts < NumEndpoints - 1

\* The loop condition of GetClient.
MoreAttempts == scan.attempts < NumEndpoints

\* Mutant: the position runs off the end of cp.endpoints.
NextPositionNoWrap(e) == e + 1

\* The position after endpoint e.
NextPosition(e) == (e + 1) % NumEndpoints

\* An attempt begins: move on, and read endpoint.Client under endpoint.mu.
ScanRead ==
    /\ scan # NoScan /\ scan.at = -1 /\ MoreAttempts
    /\ current' = NextPosition(current)
    /\ scan' = [start |-> scan.start, attempts |-> scan.attempts + 1,
                 at |-> current, client |-> client[current]]
    /\ UNCHANGED <<usable, endpointVars, checkVars, pool, outsideVars, open,
                   raced>>

\* The mark is read, without a lock: the answer is the client read before.
Accepted == healthy[scan.at] /\ scan.client # 0

HandOut ==
    /\ scan # NoScan /\ scan.at # -1 /\ Accepted
    /\ scan' = NoScan /\ usable' = {}
    /\ UNCHANGED <<current, endpointVars, checkVars, pool, outsideVars, open,
                   raced>>

PassOver ==
    /\ scan # NoScan /\ scan.at # -1 /\ ~Accepted
    /\ scan' = [start |-> scan.start, attempts |-> scan.attempts,
                 at |-> -1, client |-> 0]
    /\ UNCHANGED <<current, usable, endpointVars, checkVars, pool, outsideVars,
                   open, raced>>

\* No attempt found a client to hand out.
ScanFails ==
    /\ scan # NoScan /\ scan.at = -1 /\ ~MoreAttempts
    /\ current' = scan.start
    /\ scan' = NoScan /\ usable' = {}
    /\ UNCHANGED <<endpointVars, checkVars, pool, outsideVars, open, raced>>

\* Endpoints that stay usable through a step that changes them.
StillUsable ==
    usable' = {e \in usable : healthy'[e] /\ client'[e] # 0}

-------------------------------------------------------------------------------
(* The health checks. *)

\* checkCtx is cancelled when the pool is, and when its round returns.
CtxLive(r) == round = r /\ pool = "open"

\* Mutant: cp.endpoints is read without cp.mu.
TickWithoutLock == TRUE

\* cp.mu is free for checkAllEndpoints to read cp.endpoints.
TickLock == scan = NoScan

\* A tick: checkAllEndpoints starts a check of every endpoint.  A tick that is
\* ready together with the cancelled context may still be taken.
Tick(r) ==
    /\ round = "none" /\ pool # "closed" /\ TickLock
    /\ \A e \in Endpoints : check[e][r] = NoCheck
    /\ round' = r
    /\ check' = [e \in Endpoints |->
                    [check[e] EXCEPT ![r] = [pc |-> "start", client |-> 0]]]
    /\ UNCHANGED <<endpointVars, scanVars, pool, outsideVars, open, raced>>

\* checkAllEndpoints does not wait for the checks it has started.
RoundOver(r) == TRUE

\* It returns, and its deferred cancel ends the context of the checks.
RoundReturns(r) ==
    /\ round = r /\ RoundOver(r)
    /\ round' = "none"
    /\ UNCHANGED <<check, endpointVars, scanVars, pool, outsideVars, open, raced>>

\* The check of e in slot r is not the only one at work on e.
Raced(e, r) ==
    raced' = IF pool # "open" \/ \E s \in Slots \ {r} : check[e][s] # NoCheck
             THEN raced \union {e} ELSE raced

CheckStart(e, r) ==
    /\ check[e][r].pc = "start"
    /\ check' = [check EXCEPT ![e][r] =
                    [pc     |-> IF client[e] = 0 THEN "dial" ELSE "call",
                     client |-> client[e]]]
    /\ Raced(e, r)
    /\ UNCHANGED <<round, endpointVars, scanVars, pool, outsideVars,
                   open>>

\* Clients of e that somebody holds: a check, or GetClient.
Held(e) == {check[e][s].client : s \in Slots}
               \union (IF scan.at = e THEN {scan.client} ELSE {})

\* Numbers that a new client of e can take.
Fresh(e) == Clients \ (open[e] \union Held(e))

\* The new client replaces whatever the endpoint holds by now.  Dialling an HTTP
\* endpoint contacts no one, so it succeeds also while the endpoint is down.
DialSucceeds(e, r) ==
    /\ check[e][r].pc = "dial"
    /\ Fresh(e) # {}
    /\ LET c == Min(Fresh(e))
       IN  /\ client' = [client EXCEPT ![e] = c]
           /\ open' = [open EXCEPT ![e] = @ \union {c}]
           /\ check' = [check EXCEPT ![e][r] = [pc |-> "call", client |-> c]]
    /\ Raced(e, r)
    /\ UNCHANGED <<healthy, round, current, scan, pool, outsideVars>>
    /\ StillUsable

\* A WebSocket endpoint that is down cannot be dialled.
DialFails(e, r) ==
    /\ check[e][r].pc = "dial" /\ e \notin up
    /\ healthy' = [healthy EXCEPT ![e] = FALSE]
    /\ check' = [check EXCEPT ![e][r] = NoCheck]
    /\ Raced(e, r)
    /\ UNCHANGED <<client, round, current, scan, pool,
                   outsideVars, open>>
    /\ StillUsable

\* The endpoint answers before the context ends.
CheckPasses(e, r) ==
    /\ check[e][r].pc = "call" /\ CtxLive(r) /\ e \in up
    /\ healthy' = [healthy EXCEPT ![e] = TRUE]
    /\ check' = [check EXCEPT ![e][r] = NoCheck]
    /\ Raced(e, r)
    /\ UNCHANGED <<client, round, current, scan, pool,
                   outsideVars, open>>
    /\ StillUsable

\* A context that has ended is a "temporary error": nothing changes.
CheckCutOff(e, r) ==
    /\ check[e][r].pc = "call" /\ ~CtxLive(r)
    /\ check' = [check EXCEPT ![e][r] = NoCheck]
    /\ Raced(e, r)
    /\ UNCHANGED <<round, endpointVars, scanVars, pool, outsideVars,
                   open>>

\* A real error: the endpoint is down, or the client was closed meanwhile.
CheckFails(e, r) ==
    /\ check[e][r].pc = "call" /\ CtxLive(r)
    /\ e \notin up \/ check[e][r].client \notin open[e]
    /\ healthy' = [healthy EXCEPT ![e] = FALSE]
    /\ check' = [check EXCEPT ![e][r] = [pc |-> "closing", client |-> 0]]
    /\ Raced(e, r)
    /\ UNCHANGED <<client, round, current, scan, pool,
                   outsideVars, open>>
    /\ StillUsable

\* Mutant: the client is forgotten and not closed.
ForgetClient(e) ==
    /\ client' = [client EXCEPT ![e] = 0]
    /\ UNCHANGED open

\* Close whatever client the endpoint holds by now.
CloseClient(e) ==
    /\ client' = [client EXCEPT ![e] = 0]
    /\ open' = [open EXCEPT ![e] = @ \ {client[e]}]

CheckCloses(e, r) ==
    /\ check[e][r].pc = "closing"
    /\ CloseClient(e)
    /\ check' = [check EXCEPT ![e][r] = NoCheck]
    /\ Raced(e, r)
    /\ UNCHANGED <<healthy, round, current, scan, pool,
                   outsideVars>>
    /\ StillUsable

-------------------------------------------------------------------------------
(* The callers and the endpoints. *)

MarkUnhealthy(e) ==
    /\ Fault /\ scan = NoScan
    /\ healthy' = [healthy EXCEPT ![e] = FALSE]
    /\ UNCHANGED <<client, current, scan, checkVars, pool, up, open,
                   raced>>
    /\ StillUsable

\* Close cancels the context of the rounds, then takes the lock.
CancelChecks ==
    /\ pool = "open"
    /\ pool' = "cancelled"
    /\ raced' = raced \union {e \in Endpoints :
                                \E r \in Slots : check[e][r] # NoCheck}
    /\ UNCHANGED <<check, round, endpointVars, scanVars, outsideVars, open>>

\* The healthy marks stay as they are.
CloseAll ==
    /\ pool = "cancelled" /\ scan = NoScan
    /\ pool' = "closed"
    /\ client' = [e \in Endpoints |-> 0]
    /\ open' = [e \in Endpoints |-> open[e] \ {client[e]}]
    /\ UNCHANGED <<healthy, scanVars, checkVars, outsideVars, raced>>

Outage(e) ==
    /\ e \in up /\ up' = up \ {e}
    /\ Fault
    /\ UNCHANGED <<endpointVars, scanVars, checkVars, pool, open, raced>>

Recovery(e) ==
    /\ e \in Endpoints \ up /\ up' = up \union {e}
    /\ UNCHANGED <<endpointVars, scanVars, checkVars, pool, faults, open, raced>>

Check(e, r) ==
    \/ CheckStart(e, r) \/ DialSucceeds(e, r) \/ DialFails(e, r)
    \/ CheckPasses(e, r) \/ CheckCutOff(e, r)
    \/ CheckFails(e, r) \/ CheckCloses(e, r)

\* A GetClient under way takes its next step.
ScanGoesOn == ScanRead \/ HandOut \/ PassOver \/ ScanFails

GetClient == ScanStart \/ ScanGoesOn

Next ==
    \/ GetClient
    \/ \E r \in Slots : Tick(r) \/ RoundReturns(r)
    \/ \E e \in Endpoints, r \in Slots : Check(e, r)
    \/ \E e \in Endpoints : MarkUnhealthy(e) \/ Outage(e) \/ Recovery(e)
    \/ CancelChecks \/ CloseAll

Spec == Init /\ [][Next]_vars

\* The ticker goroutine and the checks it starts are scheduled, a GetClient goes
\* on, and endpoints come back.  A tick that waits for cp.mu gets it: an RWMutex
\* lets no reader starve.  A check that could be answered is answered in time or
\* cut off.
FairSpec ==
    /\ Spec
    /\ WF_vars(ScanGoesOn)
    /\ \A r \in Slots : SF_vars(Tick(r)) /\ WF_vars(RoundReturns(r))
    /\ \A e \in Endpoints, r \in Slots : WF_vars(Check(e, r))
    /\ \A e \in Endpoints : WF_vars(Recovery(e))

-------------------------------------------------------------------------------
(* Properties. *)

TypeOK ==
    /\ client \in [Endpoints -> 0..MaxClients]
    /\ healthy \in [Endpoints -> BOOLEAN]
    /\ current \in Endpoints
    /\ scan \in [start : Endpoints, attempts : 0..NumEndpoints,
                 at : Endpoints \union {-1}, client : 0..MaxClients]
                    \union {NoScan}
    /\ check \in [Endpoints -> [Slots ->
                    [pc : {"idle", "start", "dial", "call", "closing"},
                     client : 0..MaxClients]]]
    /\ round \in Slots \union {"none"}
    /\ pool \in {"open", "cancelled", "closed"}
    /\ up \subseteq Endpoints /\ faults \in 0..MaxFaults
    /\ open \in [Endpoints -> SUBSET Clients]
    /\ raced \subseteq Endpoints /\ usable \subseteq Endpoints

\* GetClient fails only if every endpoint was unusable at some time during the
\* call: checks that change the endpoints between its attempts, or between the
\* reads of one attempt, cannot make it miss one that stayed usable.
FailsOnlyWithoutUsable ==
    [][ScanFails => usable = {}]_vars

\* Client and mark are read apart, and checks do not take the lock of GetClient.
\* Still, where checks do not overlap, the client handed out is open: the check
\* that closes it has taken the mark away before, and the round that would dial
\* another, and find it healthy, cannot begin during the call.
HandsOutOpenClient ==
    [][\A e \in Endpoints \ raced :
          HandOut /\ scan.at = e => scan.client \in open[e]]_vars

\* Where checks do not overlap, no client is lost open: each one is the
\* endpoint's own, also after Close.
ClientsClosed ==
    \A e \in Endpoints \ raced : open[e] \subseteq {client[e]}

\* "Use longer timeout for health checks (RPC calls can be slow)"
\* (client_pool.go:215): the checks have time for an answer, so an endpoint that
\* stays reachable is found healthy again and again.
EndpointFoundHealthy ==
    \A e \in Endpoints :
        <>[](e \in up /\ pool = "open") => []<>healthy[e]
===============================================================================
