--------------------------- MODULE ClientPoolProofs ---------------------------
(***************************************************************************)
(* The pool of RPC endpoints for any number of endpoints, of rounds of     *)
(* checks that overlap, and of clients: types, the clients of endpoints    *)
(* whose checks do not meet, and the scan of GetClient.                    *)
(***************************************************************************)
EXTENDS ClientPool, FiniteSetTheorems, WellFoundedInduction, TLAPS

Waiting(e, r) == check[e][r].pc \in {"idle", "start"}

\* An endpoint whose checks have not met.  Of its checks one at most has got beyond
\* its start, and none once the pool is closing; what that check has seen of the
\* endpoint is still so.
Good(e) ==
    /\ open[e] = {client[e]} \ {0}
    /\ \A r \in Slots :
        /\ ~Waiting(e, r) =>
              /\ pool = "open"
              /\ \A s \in Slots \ {r} : Waiting(e, s)
        /\ check[e][r].pc = "dial" => client[e] = 0
        /\ check[e][r].pc = "closing" => ~healthy[e]

ChecksAlone == \A e \in Endpoints \ raced : Good(e)

IdleHasNoClient ==
    \A e \in Endpoints, r \in Slots :
        check[e][r].pc = "idle" => check[e][r] = NoCheck

\* What is left of usable has been so since the scan started, so nothing of it
\* has been tried in vain; the endpoint being looked at is not settled yet, unless
\* it had no client.
Tried ==
    IF scan.start + scan.attempts <= NumEndpoints
    THEN scan.start..(scan.start + scan.attempts - 1)
    ELSE (scan.start..(NumEndpoints - 1))
             \union 0..(scan.start + scan.attempts - NumEndpoints - 1)
ScanShape ==
    /\ \A e \in usable : Usable(e)
    /\ scan # NoScan =>
          /\ current = IF scan.start + scan.attempts < NumEndpoints
                       THEN scan.start + scan.attempts
                       ELSE scan.start + scan.attempts - NumEndpoints
          /\ usable \intersect Tried \subseteq {scan.at}
          /\ scan.client = 0 => scan.at \notin usable
    /\ scan = NoScan => usable = {}

\* The client that an attempt has read is still the endpoint's; or the check that
\* has closed it has unmarked the endpoint, and no check is left that could dial.
ScanClient ==
    \A e \in Endpoints \ raced :
        scan.at = e /\ scan.client # 0 =>
            \/ client[e] = scan.client
            \/ ~healthy[e] /\ \A r \in Slots : check[e][r] = NoCheck

IInv == TypeOK /\ ChecksAlone /\ IdleHasNoClient /\ ScanShape /\ ScanClient

-------------------------------------------------------------------------------
LEMMA MinOfNaturals ==
    ASSUME NEW S \in SUBSET Nat, S # {}
    PROVE  Min(S) \in S
<1> DEFINE R == OpToRel(<, Nat)
<1>1. PICK x \in S : \A y \in S : ~(<<y, x>> \in R)
  <2> HIDE DEF R
  <2>1. IsWellFoundedOn(R, Nat)
    BY NatLessThanWellFounded DEF R
  <2> QED
    BY <2>1, WFMin
<1>2. \A y \in S : x <= y
  <2>1. ASSUME NEW y \in S, y < x PROVE <<y, x>> \in R
    BY <2>1, Zenon DEF OpToRel
  <2> HIDE DEF R
  <2>2. \A y \in S : ~(y < x)
    BY <1>1, <2>1
  <2> QED
    BY <2>2
<1> QED
  BY <1>2 DEF Min

LEMMA NextPositionIs ==
    ASSUME NEW e \in Endpoints
    PROVE  NextPosition(e) = IF e + 1 = NumEndpoints THEN 0 ELSE e + 1
  BY PoolAssumption DEF Endpoints, NextPosition

-------------------------------------------------------------------------------
(* Types.                                                                    *)

ScanType == [start : Endpoints, attempts : 0..NumEndpoints,
             at : Endpoints \union {-1}, client : 0..MaxClients]

CheckType == [pc : {"idle", "start", "dial", "call", "closing"}, client : 0..MaxClients]

LEMMA FreshClient ==
    ASSUME NEW e, Fresh(e) # {}
    PROVE  Min(Fresh(e)) \in Fresh(e) /\ Min(Fresh(e)) \in Clients
<1>1. Fresh(e) \subseteq Clients /\ Clients \subseteq Nat
  BY PoolAssumption DEF Fresh, Clients
<1> QED
  BY <1>1, MinOfNaturals

\* Every step keeps the types.
LEMMA TypeKept ==
    ASSUME TypeOK, [Next]_vars
    PROVE  TypeOK'
<1> DEFINE Checks == check' \in [Endpoints -> [Slots -> CheckType]]
<1>1. NumEndpoints \in Nat \ {0} /\ MaxClients \in Nat \ {0} /\ MaxFaults \in Nat
      /\ check \in [Endpoints -> [Slots -> CheckType]]
  BY PoolAssumption DEF TypeOK, CheckType
<1>2. ASSUME NEW e \in Endpoints, NEW r \in Slots, NEW c \in CheckType,
             check' = [check EXCEPT ![e][r] = c]
      PROVE  Checks
  BY <1>1, <1>2
<1>3. NoCheck \in CheckType
      /\ \A c \in 0..MaxClients : \A pc \in {"start", "dial", "call", "closing"} :
            [pc |-> pc, client |-> c] \in CheckType
  BY <1>1 DEF NoCheck, CheckType
<1> HIDE DEF Checks
<1>5. ASSUME ScanStart PROVE TypeOK'
  <2>1. scan' \in ScanType
    BY <1>1, <1>5 DEF TypeOK, ScanStart, ScanType
  <2> QED
    BY <1>5, <2>1 DEF TypeOK, ScanType, ScanStart, endpointVars, checkVars, outsideVars
<1>6. ASSUME ScanRead PROVE TypeOK'
  <2>1. current' \in Endpoints
    <3>1. current \in Endpoints /\ current' = NextPosition(current)
      BY <1>6 DEF TypeOK, ScanRead
    <3>2. current' = IF current + 1 = NumEndpoints THEN 0 ELSE current + 1
      BY <3>1, NextPositionIs
    <3> QED
      BY <1>1, <3>1, <3>2 DEF Endpoints
  <2>2. scan' \in ScanType
    <3>1. /\ scan \in ScanType /\ scan.attempts < NumEndpoints
          /\ scan' = [start |-> scan.start, attempts |-> scan.attempts + 1,
                      at |-> current, client |-> client[current]]
          /\ current \in Endpoints /\ client[current] \in 0..MaxClients
      BY <1>6 DEF TypeOK, ScanRead, MoreAttempts, ScanType
    <3> QED
      BY <1>1, <3>1 DEF ScanType
  <2> QED
    BY <1>6, <2>1, <2>2 DEF TypeOK, ScanType, ScanRead, endpointVars, checkVars, outsideVars
<1>15. ASSUME HandOut \/ PassOver PROVE TypeOK'
  <2>1. scan' \in ScanType \union {NoScan}
    <3>1. CASE HandOut
      BY <3>1 DEF HandOut
    <3>2. CASE PassOver
      <4>1. scan \in ScanType /\ scan' = [start |-> scan.start, attempts |-> scan.attempts,
                                          at |-> -1, client |-> 0]
        BY <3>2 DEF TypeOK, PassOver, ScanType
      <4> QED
        BY <1>1, <4>1 DEF ScanType
    <3> QED
      BY <1>15, <3>1, <3>2
  <2> QED
    BY <1>15, <2>1 DEF TypeOK, ScanType, HandOut, PassOver, endpointVars, checkVars, outsideVars
<1>7. ASSUME ScanFails PROVE TypeOK'
  <2>1. current' \in Endpoints
    BY <1>7 DEF TypeOK, ScanFails
  <2> QED
    BY <1>7, <2>1 DEF TypeOK, ScanFails, endpointVars, checkVars, outsideVars
<1>8. ASSUME NEW r \in Slots, Tick(r) PROVE TypeOK'
  <2>1. Checks
    <3>1. check' = [e \in Endpoints |->
                       [check[e] EXCEPT ![r] = [pc |-> "start", client |-> 0]]]
      BY <1>8 DEF Tick
    <3>2. [pc |-> "start", client |-> 0] \in CheckType
      BY <1>1 DEF CheckType
    <3> QED
      BY <1>1, <3>1, <3>2 DEF Checks
  <2> QED
    BY <1>8, <2>1 DEF TypeOK, Tick, Checks, CheckType, endpointVars, scanVars, outsideVars
<1>9. ASSUME NEW r \in Slots, RoundReturns(r) PROVE TypeOK'
  BY <1>9 DEF TypeOK, RoundReturns, endpointVars, scanVars, outsideVars
<1>10. ASSUME NEW e \in Endpoints, NEW r \in Slots, Check(e, r) PROVE TypeOK'
  <2>1. Checks
    <3>1. client[e] \in 0..MaxClients /\ 0 \in 0..MaxClients
      BY <1>1 DEF TypeOK
    <3>2. ASSUME DialSucceeds(e, r) PROVE Checks
      <4>1. Min(Fresh(e)) \in 0..MaxClients
        BY <1>1, <3>2, FreshClient DEF DialSucceeds, Clients
      <4>2. check' = [check EXCEPT ![e][r] = [pc |-> "call", client |-> Min(Fresh(e))]]
        BY <3>2 DEF DialSucceeds
      <4> QED
        BY <1>2, <1>3, <4>1, <4>2
    <3>3. ASSUME CheckStart(e, r) PROVE Checks
      <4>1. PICK pc \in {"dial", "call"} :
               check' = [check EXCEPT ![e][r] = [pc |-> pc, client |-> client[e]]]
        BY <3>3 DEF CheckStart
      <4> QED
        BY <1>2, <1>3, <3>1, <4>1
    <3>4. ASSUME CheckFails(e, r) PROVE Checks
      BY <1>2, <1>3, <3>1, <3>4 DEF CheckFails
    <3>5. ASSUME DialFails(e, r) \/ CheckPasses(e, r) \/ CheckCutOff(e, r) \/ CheckCloses(e, r)
          PROVE  Checks
      BY <1>2, <1>3, <3>5 DEF DialFails, CheckPasses, CheckCutOff, CheckCloses
    <3> QED
      BY <1>10, <3>2, <3>3, <3>4, <3>5 DEF Check
  <2>2. client' \in [Endpoints -> 0..MaxClients] /\ open' \in [Endpoints -> SUBSET Clients]
    <3>1. /\ client \in [Endpoints -> 0..MaxClients] /\ open \in [Endpoints -> SUBSET Clients]
          /\ 0 \in 0..MaxClients
      BY <1>1 DEF TypeOK
    <3>2. CASE DialSucceeds(e, r)
      <4>1. Min(Fresh(e)) \in Clients /\ Clients \subseteq 0..MaxClients
        BY <1>1, <3>2, FreshClient DEF DialSucceeds, Clients
      <4>2. /\ client' = [client EXCEPT ![e] = Min(Fresh(e))]
            /\ open' = [open EXCEPT ![e] = @ \union {Min(Fresh(e))}]
        BY <3>2 DEF DialSucceeds
      <4> QED
        BY <3>1, <4>1, <4>2
    <3>3. CASE CheckCloses(e, r)
      BY <3>1, <3>3 DEF CheckCloses, CloseClient
    <3>4. CASE ~DialSucceeds(e, r) /\ ~CheckCloses(e, r)
      BY <1>10, <3>1, <3>4 DEF Check, CheckStart, DialFails, CheckPasses, CheckCutOff, CheckFails,
         endpointVars
    <3> QED
      BY <3>2, <3>3, <3>4
  <2>3. healthy' \in [Endpoints -> BOOLEAN]
    BY <1>10 DEF TypeOK, Check, CheckStart, DialSucceeds, DialFails, CheckPasses, CheckCutOff,
       CheckFails, CheckCloses, endpointVars
  <2>4. raced' \subseteq Endpoints /\ usable' \subseteq Endpoints
    BY <1>10 DEF TypeOK, Check, CheckStart, DialSucceeds, DialFails, CheckPasses, CheckCutOff,
       CheckFails, CheckCloses, Raced, StillUsable, scanVars
  <2>5. UNCHANGED <<round, current, scan, pool, outsideVars>>
    BY <1>10 DEF Check, CheckStart, DialSucceeds, DialFails, CheckPasses, CheckCutOff,
       CheckFails, CheckCloses, scanVars
  <2> QED
    BY <2>1, <2>2, <2>3, <2>4, <2>5 DEF TypeOK, Checks, CheckType, outsideVars
<1>11. ASSUME NEW e \in Endpoints, MarkUnhealthy(e) \/ Outage(e) \/ Recovery(e) PROVE TypeOK'
  <2>1. faults' \in 0..MaxFaults
    BY <1>1, <1>11 DEF TypeOK, MarkUnhealthy, Outage, Recovery, Fault
  <2>2. healthy' \in [Endpoints -> BOOLEAN] /\ up' \subseteq Endpoints /\ usable' \subseteq Endpoints
    BY <1>11 DEF TypeOK, MarkUnhealthy, Outage, Recovery, StillUsable, endpointVars, scanVars
  <2> QED
    BY <1>11, <2>1, <2>2 DEF TypeOK, MarkUnhealthy, Outage, Recovery, endpointVars, scanVars,
       checkVars
<1>12. ASSUME CancelChecks PROVE TypeOK'
  BY <1>12 DEF TypeOK, CancelChecks, endpointVars, scanVars, outsideVars
<1>13. ASSUME CloseAll PROVE TypeOK'
  <2>1. client' \in [Endpoints -> 0..MaxClients] /\ open' \in [Endpoints -> SUBSET Clients]
    BY <1>1, <1>13 DEF TypeOK, CloseAll
  <2> QED
    BY <1>13, <2>1 DEF TypeOK, CloseAll, scanVars, checkVars, outsideVars
<1>14. ASSUME UNCHANGED vars PROVE TypeOK'
  BY <1>14 DEF TypeOK, vars, endpointVars, scanVars, checkVars, outsideVars
<1> QED
  BY <1>5, <1>6, <1>7, <1>8, <1>9, <1>10, <1>11, <1>12, <1>13, <1>14,
     <1>15 DEF Next, GetClient, ScanGoesOn

-------------------------------------------------------------------------------
(* The scan of GetClient.                                                    *)

\* A step outside the scan takes endpoints out of usable at most.
LEMMA ScanFrame ==
    ASSUME ScanShape, UNCHANGED <<current, scan>>, usable' \subseteq usable,
           \A e \in usable' : Usable(e)'
    PROVE  ScanShape'
<1>1. Tried' = Tried
  BY DEF Tried
<1> QED
  BY <1>1 DEF ScanShape

LEMMA ScanKept ==
    ASSUME TypeOK, ScanShape, [Next]_vars
    PROVE  ScanShape'
<1>1. NumEndpoints \in Nat \ {0} /\ current \in Endpoints /\ usable \subseteq Endpoints
  BY PoolAssumption DEF TypeOK
<1>2. ASSUME ScanStart PROVE ScanShape'
  <2>1. /\ current' = current /\ scan' = [start |-> current, attempts |-> 0, at |-> -1, client |-> 0]
        /\ usable' = {e \in Endpoints : Usable(e)} /\ UNCHANGED <<healthy, client>>
    BY <1>2 DEF ScanStart, endpointVars
  <2>2. \A e : Usable(e)' = Usable(e)
    BY <2>1 DEF Usable
  <2>3. Tried' = {}
    BY <1>1, <2>1 DEF Tried, Endpoints
  <2>4. scan' # NoScan
    BY <1>1, <2>1 DEF NoScan, Endpoints
  <2> QED
    BY <1>1, <2>1, <2>2, <2>3, <2>4 DEF ScanShape, Endpoints
<1>3. ASSUME ScanRead PROVE ScanShape'
  <2>1. /\ UNCHANGED <<healthy, client, usable>> /\ scan # NoScan /\ scan.at = -1
        /\ current' = NextPosition(current)
        /\ scan' = [start |-> scan.start, attempts |-> scan.attempts + 1,
                    at |-> current, client |-> client[current]]
        /\ scan \in ScanType /\ scan.attempts < NumEndpoints
    BY <1>3 DEF TypeOK, ScanRead, MoreAttempts, endpointVars, ScanType
  <2>2. \A e : Usable(e)' = Usable(e)
    BY <2>1 DEF Usable
  <2>3. /\ scan'.start = scan.start /\ scan'.attempts = scan.attempts + 1
        /\ scan'.at = current /\ scan'.client = client[current]
        /\ scan.start \in Endpoints /\ scan.attempts \in 0..NumEndpoints
    BY <2>1 DEF ScanType
  <2>4. current' = IF current + 1 = NumEndpoints THEN 0 ELSE current + 1
    BY <1>1, <2>1, NextPositionIs
  <2>5. current = IF scan.start + scan.attempts < NumEndpoints
                  THEN scan.start + scan.attempts
                  ELSE scan.start + scan.attempts - NumEndpoints
    BY <2>1 DEF ScanShape
  <2>6. current' = IF scan'.start + scan'.attempts < NumEndpoints
                   THEN scan'.start + scan'.attempts
                   ELSE scan'.start + scan'.attempts - NumEndpoints
    BY <1>1, <2>1, <2>3, <2>4, <2>5 DEF Endpoints
  <2>7. Tried' \subseteq Tried \union {current}
    BY <1>1, <2>1, <2>3, <2>5 DEF Tried, Endpoints
  <2>8. usable \intersect Tried = {}
    BY <1>1, <2>1 DEF ScanShape, Endpoints
  <2>9. client[current] = 0 => current \notin usable
    BY DEF ScanShape, Usable
  <2>10. scan' # NoScan
    BY <1>1, <2>3 DEF NoScan, Endpoints
  <2> QED
    BY <2>1, <2>2, <2>3, <2>6, <2>7, <2>8, <2>9, <2>10 DEF ScanShape
<1>11. ASSUME HandOut PROVE ScanShape'
  BY <1>11 DEF HandOut, ScanShape
<1>12. ASSUME PassOver PROVE ScanShape'
  <2>1. /\ UNCHANGED <<current, usable, healthy, client>> /\ scan # NoScan
        /\ scan' = [start |-> scan.start, attempts |-> scan.attempts,
                    at |-> -1, client |-> 0]
        /\ scan \in ScanType
    BY <1>12 DEF TypeOK, PassOver, endpointVars, ScanType
  <2>2. \A e : Usable(e)' = Usable(e)
    BY <2>1 DEF Usable
  <2>3. /\ scan'.start = scan.start /\ scan'.attempts = scan.attempts
        /\ scan'.at = -1 /\ scan.start \in Endpoints
    BY <2>1 DEF ScanType
  <2>4. Tried' = Tried
    BY <2>3 DEF Tried
  <2>5. scan.at \notin usable
    BY <1>12, <2>1 DEF PassOver, Accepted, ScanShape, Usable
  <2>6. scan' # NoScan /\ -1 \notin usable
    BY <1>1, <2>3 DEF NoScan, Endpoints
  <2>7. usable \intersect Tried = {}
    BY <2>1, <2>5 DEF ScanShape
  <2> QED
    BY <2>1, <2>2, <2>3, <2>4, <2>6, <2>7 DEF ScanShape
<1>4. ASSUME ScanFails PROVE ScanShape'
  BY <1>4 DEF ScanFails, ScanShape
<1>5. ASSUME UNCHANGED <<current, scan, usable, healthy, client>> PROVE ScanShape'
  BY <1>5, ScanFrame DEF Usable, ScanShape
<1>6. ASSUME UNCHANGED <<current, scan>>, StillUsable PROVE ScanShape'
  BY <1>6, ScanFrame DEF StillUsable, Usable
<1>7. ASSUME NEW e \in Endpoints, NEW r \in Slots, Check(e, r) PROVE ScanShape'
  BY <1>5, <1>6, <1>7 DEF Check, CheckStart, DialSucceeds, DialFails, CheckPasses, CheckCutOff,
     CheckFails, CheckCloses, endpointVars, scanVars
<1>8. ASSUME NEW e \in Endpoints, MarkUnhealthy(e) \/ Outage(e) \/ Recovery(e) PROVE ScanShape'
  BY <1>5, <1>6, <1>8 DEF MarkUnhealthy, Outage, Recovery, endpointVars, scanVars
<1>9. ASSUME CloseAll PROVE ScanShape'
  <2>1. usable = {} /\ UNCHANGED <<current, scan, usable>>
    BY <1>9 DEF CloseAll, ScanShape, scanVars
  <2> QED
    BY <2>1, ScanFrame
<1>10. ASSUME CancelChecks \/ UNCHANGED vars \/ \E r \in Slots : Tick(r) \/ RoundReturns(r)
       PROVE  ScanShape'
  BY <1>5, <1>10 DEF CancelChecks, Tick, RoundReturns, vars, endpointVars, scanVars
<1> QED
  BY <1>2, <1>3, <1>4, <1>7, <1>8, <1>9, <1>10, <1>11, <1>12 DEF Next, GetClient, ScanGoesOn

\* When the scan has tried as often as there are endpoints, it has tried them all.
LEMMA FailedScan == TypeOK /\ ScanShape /\ ScanFails => usable = {}
<1> SUFFICES ASSUME TypeOK, ScanShape, ScanFails PROVE usable = {}
  OBVIOUS
<1>1. /\ scan.start \in Endpoints /\ scan.attempts = NumEndpoints
      /\ usable \subseteq Endpoints /\ usable \intersect Tried = {}
  <2>1. /\ scan \in ScanType /\ scan # NoScan /\ scan.at = -1
        /\ ~(scan.attempts < NumEndpoints) /\ NumEndpoints \in Nat
    BY PoolAssumption DEF TypeOK, ScanFails, MoreAttempts, ScanType
  <2>2. usable \subseteq Endpoints /\ usable \intersect Tried \subseteq {-1}
    BY <2>1 DEF TypeOK, ScanShape
  <2>3. scan.start \in Endpoints /\ scan.attempts \in 0..NumEndpoints
    BY <2>1 DEF ScanType
  <2>4. -1 \notin Endpoints
    BY DEF Endpoints
  <2> QED
    BY <2>1, <2>2, <2>3, <2>4
<1>2. Endpoints \subseteq Tried
  BY <1>1, PoolAssumption DEF Endpoints, Tried
<1> QED
  BY <1>1, <1>2

-------------------------------------------------------------------------------
(* The checks.                                                               *)

\* A step that leaves an endpoint alone, but may unmark it, keeps it good.
LEMMA GoodFrame ==
    ASSUME NEW e, Good(e), client'[e] = client[e], open'[e] = open[e], check'[e] = check[e],
           pool' = pool, healthy'[e] => healthy[e]
    PROVE  Good(e)'
  BY DEF Good, Waiting

\* A check that has met no other is the only one at work on its endpoint.
LEMMA CheckKeepsGood ==
    ASSUME TypeOK, ChecksAlone, IdleHasNoClient,
           NEW e \in Endpoints, NEW r \in Slots, Check(e, r), e \notin raced'
    PROVE  Good(e)'
<1>1. Raced(e, r) /\ pool' = pool
  BY DEF Check, CheckStart, DialSucceeds, DialFails, CheckPasses, CheckCutOff, CheckFails,
     CheckCloses
<1>2. pool = "open" /\ e \notin raced /\ \A s \in Slots \ {r} : check[e][s] = NoCheck
  BY <1>1 DEF Raced
<1>3. Good(e)
  BY <1>2 DEF ChecksAlone
<1>4. PICK c : check' = [check EXCEPT ![e][r] = c]
  BY DEF Check, CheckStart, DialSucceeds, DialFails, CheckPasses, CheckCutOff, CheckFails,
     CheckCloses
<1>5. check'[e][r] = c /\ \A s \in Slots \ {r} : check'[e][s] = NoCheck
  BY <1>2, <1>4 DEF TypeOK
<1>6. \A s \in Slots \ {r} : Waiting(e, s)' /\ check'[e][s].pc = "idle"
  BY <1>5 DEF Waiting, NoCheck
<1>7. /\ client \in [Endpoints -> 0..MaxClients] /\ healthy \in [Endpoints -> BOOLEAN]
      /\ open \in [Endpoints -> SUBSET Clients] /\ 0 \notin Clients
  BY DEF TypeOK, Clients
<1> DEFINE Result ==
        /\ open'[e] = {client'[e]} \ {0}
        /\ c.pc = "dial" => client'[e] = 0
        /\ c.pc = "closing" => ~healthy'[e]
<1>8. ASSUME CheckStart(e, r) PROVE Result
  <2>1. c = [pc |-> IF client[e] = 0 THEN "dial" ELSE "call", client |-> client[e]]
        /\ UNCHANGED <<client, healthy, open>>
    BY <1>4, <1>5, <1>8 DEF CheckStart, TypeOK, endpointVars
  <2> QED
    BY <1>2, <1>3, <2>1 DEF Good
<1>9. ASSUME DialSucceeds(e, r) PROVE Result
  <2> DEFINE m == Min(Fresh(e))
  <2>1. m \in Clients
    BY <1>9, FreshClient DEF DialSucceeds
  <2> HIDE DEF m
  <2>2. /\ c = [pc |-> "call", client |-> m] /\ client' = [client EXCEPT ![e] = m]
        /\ open' = [open EXCEPT ![e] = @ \union {m}] /\ healthy' = healthy
    BY <1>4, <1>5, <1>9 DEF DialSucceeds, TypeOK, m
  <2>3. open[e] = {}
    <3>1. client[e] = 0 /\ open[e] = {client[e]} \ {0}
      BY <1>3, <1>9 DEF Good, DialSucceeds
    <3> QED
      BY <1>7, <3>1
  <2>4. open'[e] = {m} /\ client'[e] = m /\ m # 0
    BY <1>7, <2>1, <2>2, <2>3
  <2> QED
    BY <2>2, <2>4
<1>10. ASSUME DialFails(e, r) \/ CheckCutOff(e, r) PROVE Result
  <2>1. /\ c = NoCheck /\ UNCHANGED <<client, open>>
        /\ healthy' = [healthy EXCEPT ![e] = FALSE] \/ healthy' = healthy
    BY <1>4, <1>5, <1>10 DEF DialFails, CheckCutOff, TypeOK, endpointVars
  <2>2. healthy'[e] => healthy[e]
    BY <1>7, <2>1
  <2> QED
    BY <1>2, <1>3, <2>1, <2>2 DEF Good, NoCheck
<1>11. ASSUME CheckPasses(e, r) PROVE Result
  <2>1. c = NoCheck /\ UNCHANGED <<client, open>>
    BY <1>4, <1>5, <1>11 DEF CheckPasses, TypeOK
  <2> QED
    BY <1>3, <2>1 DEF Good, NoCheck
<1>12. ASSUME CheckFails(e, r) PROVE Result
  <2>1. /\ c = [pc |-> "closing", client |-> 0] /\ UNCHANGED <<client, open>>
        /\ healthy' = [healthy EXCEPT ![e] = FALSE]
    BY <1>4, <1>5, <1>12 DEF CheckFails, TypeOK
  <2>2. ~healthy'[e]
    BY <1>7, <2>1
  <2> QED
    BY <1>3, <2>1, <2>2 DEF Good
<1>13. ASSUME CheckCloses(e, r) PROVE Result
  <2>1. /\ c = NoCheck /\ client' = [client EXCEPT ![e] = 0]
        /\ open' = [open EXCEPT ![e] = @ \ {client[e]}] /\ healthy' = healthy
    BY <1>4, <1>5, <1>13 DEF CheckCloses, CloseClient, TypeOK
  <2>2. ~healthy[e] /\ open[e] = {client[e]} \ {0}
    BY <1>3, <1>13 DEF Good, CheckCloses
  <2>3. client'[e] = 0 /\ open'[e] = {}
    BY <1>7, <2>1, <2>2
  <2> QED
    BY <2>1, <2>2, <2>3 DEF NoCheck
<1>14. Result
  BY <1>8, <1>9, <1>10, <1>11, <1>12, <1>13 DEF Check
<1>15. ASSUME NEW s \in Slots
       PROVE  /\ ~Waiting(e, s)' =>
                    /\ pool' = "open"
                    /\ \A t \in Slots \ {s} : Waiting(e, t)'
              /\ check'[e][s].pc = "dial" => client'[e] = 0
              /\ check'[e][s].pc = "closing" => ~healthy'[e]
  BY <1>1, <1>2, <1>5, <1>6, <1>14
<1> QED
  BY <1>14, <1>15 DEF Good

\* Every step keeps every endpoint good whose checks have not met.
LEMMA ChecksKept ==
    ASSUME IInv, [Next]_vars
    PROVE  ChecksAlone' /\ IdleHasNoClient'
<1>1. TypeOK /\ ChecksAlone /\ IdleHasNoClient
  BY DEF IInv
<1>2. /\ client \in [Endpoints -> 0..MaxClients] /\ healthy \in [Endpoints -> BOOLEAN]
      /\ open \in [Endpoints -> SUBSET Clients]
      /\ check \in [Endpoints -> [Slots -> CheckType]]
  BY <1>1 DEF TypeOK, CheckType
<1>3. ASSUME UNCHANGED <<client, open, check, pool, raced>>,
             \A e \in Endpoints : healthy'[e] => healthy[e]
      PROVE  ChecksAlone' /\ IdleHasNoClient'
  BY <1>1, <1>3, GoodFrame DEF ChecksAlone, IdleHasNoClient
<1>4. ASSUME GetClient \/ UNCHANGED vars \/ \E r \in Slots : RoundReturns(r)
      PROVE  ChecksAlone' /\ IdleHasNoClient'
  BY <1>3, <1>4 DEF GetClient, ScanGoesOn, ScanStart, ScanRead, HandOut, PassOver, ScanFails,
     RoundReturns, vars, endpointVars, checkVars
<1>5. ASSUME NEW e \in Endpoints, MarkUnhealthy(e) \/ Outage(e) \/ Recovery(e)
      PROVE  ChecksAlone' /\ IdleHasNoClient'
  <2>1. UNCHANGED <<client, open, check, pool, raced>>
    BY <1>5 DEF MarkUnhealthy, Outage, Recovery, endpointVars, checkVars
  <2>2. \A x \in Endpoints : healthy'[x] => healthy[x]
    BY <1>2, <1>5 DEF MarkUnhealthy, Outage, Recovery, endpointVars
  <2> QED
    BY <1>3, <2>1, <2>2
<1>6. ASSUME NEW r \in Slots, Tick(r) PROVE ChecksAlone' /\ IdleHasNoClient'
  <2>1. /\ UNCHANGED <<client, healthy, open, pool, raced>>
        /\ \A e \in Endpoints : check[e][r] = NoCheck
        /\ check' = [e \in Endpoints |->
                        [check[e] EXCEPT ![r] = [pc |-> "start", client |-> 0]]]
    BY <1>6 DEF Tick, endpointVars
  <2>2. \A e \in Endpoints, s \in Slots :
           check'[e][s] = IF s = r THEN [pc |-> "start", client |-> 0] ELSE check[e][s]
    BY <1>2, <2>1
  <2>3. \A e \in Endpoints, s \in Slots :
           /\ Waiting(e, s)' = Waiting(e, s)
           /\ check'[e][s].pc \notin {"idle", "start"} => check'[e][s].pc = check[e][s].pc
           /\ check'[e][s].pc = "idle" => check'[e][s] = check[e][s]
    BY <2>1, <2>2 DEF Waiting, NoCheck
  <2>4. IdleHasNoClient'
    BY <1>1, <2>3 DEF IdleHasNoClient
  <2>5. ASSUME NEW e \in Endpoints \ raced PROVE Good(e)'
    <3>1. Good(e)
      BY <1>1 DEF ChecksAlone
    <3> QED
      BY <2>1, <2>3, <3>1 DEF Good
  <2> QED
    BY <2>1, <2>4, <2>5 DEF ChecksAlone
<1>7. ASSUME NEW e \in Endpoints, NEW r \in Slots, Check(e, r)
      PROVE  ChecksAlone' /\ IdleHasNoClient'
  <2>1. Raced(e, r) /\ pool' = pool
    BY <1>7 DEF Check, CheckStart, DialSucceeds, DialFails, CheckPasses, CheckCutOff, CheckFails,
       CheckCloses
  <2>2. raced \subseteq raced'
    BY <2>1 DEF Raced
  <2>3. PICK c : check' = [check EXCEPT ![e][r] = c] /\ (c.pc = "idle" => c = NoCheck)
    <3>1. /\ [pc |-> "call", client |-> Min(Fresh(e))].pc # "idle"
          /\ [pc |-> "closing", client |-> 0].pc # "idle"
          /\ [pc |-> IF client[e] = 0 THEN "dial" ELSE "call", client |-> client[e]].pc # "idle"
      OBVIOUS
    <3>2. CASE CheckStart(e, r)
      BY <3>1, <3>2 DEF CheckStart
    <3>3. CASE DialSucceeds(e, r)
      BY <3>1, <3>3 DEF DialSucceeds
    <3>4. CASE CheckFails(e, r)
      BY <3>1, <3>4 DEF CheckFails
    <3>5. CASE DialFails(e, r) \/ CheckPasses(e, r) \/ CheckCutOff(e, r) \/ CheckCloses(e, r)
      BY <3>5 DEF DialFails, CheckPasses, CheckCutOff, CheckCloses
    <3> QED
      BY <1>7, <3>2, <3>3, <3>4, <3>5 DEF Check
  <2>4. IdleHasNoClient'
    BY <1>1, <1>2, <2>3 DEF IdleHasNoClient
  <2>5. ASSUME NEW x \in Endpoints \ raced', x # e PROVE Good(x)'
    <3>1. Good(x)
      BY <1>1, <2>2, <2>5 DEF ChecksAlone
    <3>2. check'[x] = check[x]
      BY <1>2, <2>3, <2>5
    <3>3. client'[x] = client[x] /\ open'[x] = open[x] /\ healthy'[x] = healthy[x]
      BY <1>2, <1>7, <2>5 DEF Check, CheckStart, DialSucceeds, DialFails, CheckPasses,
         CheckCutOff, CheckFails, CheckCloses, CloseClient, endpointVars
    <3> QED
      BY <2>1, <3>1, <3>2, <3>3, GoodFrame
  <2>6. e \notin raced' => Good(e)'
    BY <1>1, <1>7, CheckKeepsGood
  <2> QED
    BY <2>4, <2>5, <2>6 DEF ChecksAlone
<1>8. ASSUME CancelChecks PROVE ChecksAlone' /\ IdleHasNoClient'
  <2>1. /\ UNCHANGED <<client, healthy, open, check>> /\ pool' = "cancelled"
        /\ raced' = raced \union {e \in Endpoints : \E r \in Slots : check[e][r] # NoCheck}
    BY <1>8 DEF CancelChecks, endpointVars
  <2>2. ASSUME NEW e \in Endpoints \ raced' PROVE Good(e)'
    <3>1. Good(e) /\ \A r \in Slots : check[e][r] = NoCheck
      BY <1>1, <2>1, <2>2 DEF ChecksAlone
    <3>2. \A r \in Slots : check'[e][r].pc = "idle" /\ Waiting(e, r)'
      BY <2>1, <3>1 DEF NoCheck, Waiting
    <3> QED
      BY <2>1, <3>1, <3>2 DEF Good
  <2> QED
    BY <1>1, <2>1, <2>2 DEF ChecksAlone, IdleHasNoClient
<1>9. ASSUME CloseAll PROVE ChecksAlone' /\ IdleHasNoClient'
  <2>1. /\ UNCHANGED <<healthy, check, raced>> /\ pool = "cancelled" /\ pool' = "closed"
        /\ client' = [e \in Endpoints |-> 0]
        /\ open' = [e \in Endpoints |-> open[e] \ {client[e]}]
    BY <1>9 DEF CloseAll, checkVars
  <2>2. ASSUME NEW e \in Endpoints \ raced PROVE Good(e)'
    <3>1. Good(e)
      BY <1>1 DEF ChecksAlone
    <3>2. \A r \in Slots : Waiting(e, r) /\ Waiting(e, r)'
      BY <2>1, <3>1 DEF Good, Waiting
    <3>3. \A r \in Slots : check'[e][r].pc \in {"idle", "start"}
      BY <3>2 DEF Waiting
    <3>4. open'[e] = {}
      BY <2>1, <3>1 DEF Good
    <3> QED
      BY <2>1, <3>2, <3>3, <3>4 DEF Good
  <2> QED
    BY <1>1, <2>1, <2>2 DEF ChecksAlone, IdleHasNoClient
<1> QED
  BY <1>4, <1>5, <1>6, <1>7, <1>8, <1>9 DEF Next

\* Every step keeps the client that an attempt has read from being replaced.
LEMMA ScanClientKept ==
    ASSUME IInv, [Next]_vars
    PROVE  ScanClient'
<1>1. TypeOK /\ ChecksAlone /\ ScanClient
  BY DEF IInv
<1>2. ASSUME scan'.at = -1 PROVE ScanClient'
  BY <1>2 DEF ScanClient, Endpoints
<1>3. ASSUME UNCHANGED <<scan, client, healthy, check>>, raced \subseteq raced' PROVE ScanClient'
  BY <1>1, <1>3 DEF ScanClient
<1>4. ASSUME scan = NoScan, scan' = scan PROVE ScanClient'
  BY <1>2, <1>4 DEF NoScan
<1>5. CASE ScanStart \/ HandOut \/ PassOver \/ ScanFails
  <2>1. CASE PassOver
    <3>1. scan \in ScanType /\ scan' = [start |-> scan.start, attempts |-> scan.attempts,
                                        at |-> -1, client |-> 0]
      BY <1>1, <2>1 DEF TypeOK, PassOver, ScanType
    <3>2. scan'.at = -1
      BY <3>1 DEF ScanType
    <3> QED
      BY <1>2, <3>2
  <2>2. CASE ScanStart \/ HandOut \/ ScanFails
    BY <1>2, <2>2 DEF ScanStart, HandOut, ScanFails, NoScan
  <2> QED
    BY <1>5, <2>1, <2>2
<1>6. CASE ScanRead
  <2>1. /\ scan \in ScanType /\ UNCHANGED client
        /\ scan' = [start |-> scan.start, attempts |-> scan.attempts + 1,
                    at |-> current, client |-> client[current]]
    BY <1>1, <1>6 DEF TypeOK, ScanRead, ScanType, endpointVars
  <2>2. scan'.at = current /\ scan'.client = client[current]
    BY <2>1 DEF ScanType
  <2> QED
    BY <2>1, <2>2 DEF ScanClient
<1>7. CASE \E r \in Slots : Tick(r) \/ RoundReturns(r)
  BY <1>3, <1>4, <1>7 DEF Tick, TickLock, RoundReturns, endpointVars, scanVars
<1>8. ASSUME NEW e \in Endpoints, NEW r \in Slots, Check(e, r) PROVE ScanClient'
  <2>1. /\ Raced(e, r) /\ scan' = scan
        /\ check \in [Endpoints -> [Slots -> CheckType]]
        /\ client \in [Endpoints -> 0..MaxClients] /\ healthy \in [Endpoints -> BOOLEAN]
    BY <1>1, <1>8 DEF TypeOK, CheckType, Check, CheckStart, DialSucceeds, DialFails, CheckPasses,
       CheckCutOff, CheckFails, CheckCloses, scanVars
  <2>2. raced \subseteq raced'
    BY <2>1 DEF Raced
  <2>3. PICK c : check' = [check EXCEPT ![e][r] = c]
    BY <1>8 DEF Check, CheckStart, DialSucceeds, DialFails, CheckPasses, CheckCutOff, CheckFails,
       CheckCloses
  <2> SUFFICES ASSUME NEW x \in Endpoints \ raced', scan'.at = x, scan'.client # 0
               PROVE  \/ client'[x] = scan'.client
                      \/ ~healthy'[x] /\ \A s \in Slots : check'[x][s] = NoCheck
    BY DEF ScanClient
  <2>4. \/ client[x] = scan.client
        \/ ~healthy[x] /\ \A s \in Slots : check[x][s] = NoCheck
    BY <1>1, <2>1, <2>2 DEF ScanClient
  <2>5. CASE x # e
    <3>1. check'[x] = check[x]
      BY <2>1, <2>3, <2>5
    <3>2. client'[x] = client[x] /\ healthy'[x] = healthy[x]
      BY <1>8, <2>1, <2>5 DEF Check, CheckStart, DialSucceeds, DialFails, CheckPasses,
         CheckCutOff, CheckFails, CheckCloses, CloseClient, endpointVars
    <3> QED
      BY <2>1, <2>4, <3>1, <3>2
  <2>6. CASE x = e
    <3>1. Good(e) /\ \A s \in Slots \ {r} : check[e][s] = NoCheck
      BY <1>1, <2>1, <2>2, <2>6 DEF Raced, ChecksAlone
    <3>2. check[e][r] # NoCheck
      BY <1>8 DEF NoCheck, Check, CheckStart, DialSucceeds, DialFails, CheckPasses, CheckCutOff,
         CheckFails, CheckCloses
    <3>3. client[e] = scan.client
      BY <2>4, <2>6, <3>2
    <3>4. CASE DialSucceeds(e, r)
      <4>1. client[e] = 0
        BY <3>1, <3>4 DEF Good, DialSucceeds
      <4> QED
        BY <2>1, <3>3, <4>1
    <3>5. CASE CheckCloses(e, r)
      <4>1. ~healthy[e] /\ healthy' = healthy
        BY <3>1, <3>5 DEF Good, CheckCloses
      <4>2. check' = [check EXCEPT ![e][r] = NoCheck]
        BY <3>5 DEF CheckCloses
      <4>3. \A s \in Slots : check'[e][s] = NoCheck
        BY <2>1, <3>1, <4>2
      <4> QED
        BY <2>6, <4>1, <4>3
    <3>6. CASE ~DialSucceeds(e, r) /\ ~CheckCloses(e, r)
      <4>1. client' = client
        BY <1>8, <3>6 DEF Check, CheckStart, DialFails, CheckPasses, CheckCutOff, CheckFails,
           endpointVars
      <4> QED
        BY <2>1, <2>6, <3>3, <4>1
    <3> QED
      BY <3>4, <3>5, <3>6
  <2> QED
    BY <2>5, <2>6
<1>9. ASSUME NEW e \in Endpoints, MarkUnhealthy(e) \/ Outage(e) \/ Recovery(e) PROVE ScanClient'
  BY <1>3, <1>4, <1>9 DEF MarkUnhealthy, Outage, Recovery, endpointVars, scanVars, checkVars
<1>10. CASE CancelChecks
  BY <1>3, <1>10 DEF CancelChecks, endpointVars, scanVars
<1>11. CASE CloseAll
  BY <1>4, <1>11 DEF CloseAll, scanVars
<1>12. CASE UNCHANGED vars
  BY <1>3, <1>12 DEF vars, endpointVars, scanVars, checkVars
<1> QED
  BY <1>5, <1>6, <1>7, <1>8, <1>9, <1>10, <1>11, <1>12 DEF Next, GetClient, ScanGoesOn

-------------------------------------------------------------------------------
(* The theorems.                                                             *)

LEMMA InitIInv == ASSUME Init PROVE IInv
<1>1. PICK dialled \in SUBSET Endpoints :
         /\ client = [e \in Endpoints |-> IF e \in dialled THEN 1 ELSE 0]
         /\ healthy = [e \in Endpoints |-> e \in dialled]
         /\ open = [e \in Endpoints |-> IF e \in dialled THEN {1} ELSE {}]
  BY DEF Init
<1>2. /\ current = 0 /\ scan = NoScan /\ usable = {} /\ round = "none" /\ pool = "open"
      /\ check = [e \in Endpoints |-> [r \in Slots |-> NoCheck]]
      /\ up = Endpoints /\ faults = 0 /\ raced = {}
  BY DEF Init
<1>3. NumEndpoints \in Nat \ {0} /\ MaxClients \in Nat \ {0} /\ MaxFaults \in Nat
  BY PoolAssumption
<1>4. TypeOK
  <2>1. client \in [Endpoints -> 0..MaxClients] /\ open \in [Endpoints -> SUBSET Clients]
    BY <1>1, <1>3 DEF Clients
  <2>2. healthy \in [Endpoints -> BOOLEAN]
    BY <1>1
  <2>3. check \in [Endpoints -> [Slots -> CheckType]]
    BY <1>2, <1>3 DEF CheckType, NoCheck
  <2>4. current \in Endpoints /\ faults \in 0..MaxFaults
    BY <1>2, <1>3 DEF Endpoints
  <2> QED
    BY <1>2, <2>1, <2>2, <2>3, <2>4 DEF TypeOK, CheckType
<1>5. ChecksAlone /\ IdleHasNoClient
  <2>1. \A e \in Endpoints, r \in Slots : check[e][r] = NoCheck
    BY <1>2
  <2>2. \A e \in Endpoints, r \in Slots : check[e][r].pc = "idle" /\ Waiting(e, r)
    BY <2>1 DEF Waiting, NoCheck
  <2>3. ASSUME NEW e \in Endpoints
        PROVE  open[e] = {client[e]} \ {0}
    <3>1. client[e] = (IF e \in dialled THEN 1 ELSE 0) /\ open[e] = IF e \in dialled THEN {1} ELSE {}
      BY <1>1
    <3> QED
      BY <3>1
  <2> QED
    BY <2>1, <2>2, <2>3 DEF ChecksAlone, Good, IdleHasNoClient
<1>6. ScanShape /\ ScanClient
  BY <1>2 DEF ScanShape, ScanClient, NoScan
<1> QED
  BY <1>4, <1>5, <1>6 DEF IInv

\* Every reachable state of the pool satisfies the invariant.
THEOREM PoolInvariance == Spec => []IInv
<1>1. IInv /\ [Next]_vars => IInv'
  BY TypeKept, ScanKept, ChecksKept, ScanClientKept DEF IInv
<1> QED
  BY InitIInv, <1>1, PTL DEF Spec

\* Position, marks, clients and checks of the pool keep their types: the position of
\* the round robin stays in range.
THEOREM TypeCorrect == Spec => []TypeOK
  BY PoolInvariance, PTL DEF IInv

\* GetClient hands out no client that a check has closed between its two reads,
\* unless the checks of the endpoint overlap or meet Close.
THEOREM HandedOutOpen == Spec => HandsOutOpenClient
<1>1. ASSUME IInv, HandOut, NEW e \in Endpoints \ raced, scan.at = e
      PROVE  scan.client \in open[e]
  <2>1. scan.client # 0 /\ healthy[e]
    BY <1>1 DEF HandOut, Accepted
  <2>2. client[e] = scan.client
    BY <1>1, <2>1 DEF IInv, ScanClient
  <2>3. open[e] = {client[e]} \ {0}
    BY <1>1 DEF IInv, ChecksAlone, Good
  <2> QED
    BY <2>1, <2>2, <2>3
<1>2. IInv => [\A e \in Endpoints \ raced :
                  HandOut /\ scan.at = e => scan.client \in open[e]]_vars
  BY <1>1
<1> QED
  BY PoolInvariance, <1>2, PTL DEF HandsOutOpenClient

\* checkEndpoint and Close lose no client open, unless checks overlap.
THEOREM ClientsAreClosed == Spec => []ClientsClosed
<1>1. IInv => ClientsClosed
  BY DEF IInv, ChecksAlone, Good, ClientsClosed
<1> QED
  BY PoolInvariance, <1>1, PTL

\* GetClient misses no endpoint that was usable during all of its scan.
THEOREM ScanMissesNone == Spec => FailsOnlyWithoutUsable
<1>1. IInv /\ [Next]_vars => [ScanFails => usable = {}]_vars
  BY FailedScan DEF IInv
<1> QED
  BY PoolInvariance, <1>1, PTL DEF Spec, FailsOnlyWithoutUsable
===============================================================================
