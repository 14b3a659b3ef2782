------------------------------ MODULE Detectors -------------------------------
(***************************************************************************)
(* The block loop of the program (runDetector and the shutdown in          *)
(* cmd/detector/main.go) and the detectors it runs, one per trading pair   *)
(* (internal/arbitrage/detector.go) with the publication of what they find *)
(* (internal/notification, internal/platform/aws/sns.go).  The subscriber  *)
(* is represented by what it promises (BlockStream), a pipeline by the     *)
(* number of opportunities worth publishing that Process returns.          *)
(***************************************************************************)
EXTENDS Integers, Sequences, FiniteSets, SequencesExt

CONSTANTS Pairs,        \* trading pairs, one detector each
          Priced,       \* pairs whose detector has an Ethereum client
          BlockCap,     \* capacity of the block channel
          GasPrices,    \* gas prices the node may answer
          MaxGas,       \* d.maxGasPrice
          Threshold,    \* d.gasPriceVolatilityPct, in percent
          TTL,          \* d.gasPriceTTL, in ticks
          VolatileTTL,  \* d.gasPriceTTLVolatile
          MaxAttempts,  \* attempts of one publication
          MaxBlock,     \* bound: block numbers
          MaxSent,      \* bound: blocks delivered and errors reported
          Finding,      \* bound: pairs that find opportunities
          MaxOpps       \* bound: opportunities per pair and block

ASSUME DetectorsAssumption ==
    /\ IsFiniteSet(Pairs) /\ Pairs # {} /\ Priced \subseteq Pairs /\ Finding \subseteq Pairs
    /\ BlockCap \in Nat \ {0} /\ MaxAttempts \in Nat \ {0}
    /\ GasPrices \subseteq Nat \ {0} /\ MaxGas \in Nat \ {0}
    /\ Threshold \in Nat \ {0}
    /\ TTL \in Nat \ {0} /\ VolatileTTL \in Nat \ {0} /\ VolatileTTL <= TTL
    /\ {MaxBlock, MaxSent, MaxOpps} \subseteq Nat

VARIABLES
    \* the subscriber's end of the channels
    sent, blockOpen,   \* as BlockStream has them
    errOpen,
    announced,  \* the blocks delivered, in order
    blockCh,    \* the part of them that is still on the channel
    errCh,      \* errors on the error channel (0 or 1)
    reported,   \* errors put on it so far
    \* the block loop
    loop,       \* "select", "collect", "stopped"
    nilled,     \* the channels the loop has set to nil
    taken,      \* the blocks it has received
    results,    \* pairs with a result on resultsCh
    collected,  \* results received for this block
    ctxDone,
    \* the detectors
    det,        \* per pair: where Detect stands
    analysed,   \* per pair: the blocks it was called for
    gas,        \* per pair: the cached gas price
    \* publication, per pair and for its current block
    found,      \* opportunities to publish
    next,       \* the one in hand
    attempt,    \* attempts made for it
    topic,      \* copies of each that reached the topic
    unanswered, \* of these, copies whose answer was lost
    logged      \* those whose failure was logged

chanVars == <<sent, blockOpen, errOpen, announced, blockCh, errCh,
              reported>>
loopVars == <<loop, nilled, taken, results, collected>>
pubVars  == <<found, next, attempt, topic, unanswered, logged>>
vars == <<chanVars, loopVars, ctxDone, det, analysed, gas, pubVars>>

Stream == INSTANCE BlockStream WITH
    Blocks <- 1..MaxBlock, lost <- {}, open <- blockOpen

Opps  == 1..MaxOpps
NoGas == [price |-> 0, left |-> 0, age |-> 0, jumped |-> FALSE]

Init ==
    /\ sent = {} /\ blockOpen = TRUE /\ errOpen = TRUE
    /\ announced = <<>> /\ blockCh = <<>>
    /\ errCh = 0 /\ reported = 0
    /\ loop = "select" /\ nilled = {} /\ taken = <<>>
    /\ results = {} /\ collected = 0 /\ ctxDone = FALSE
    /\ det = [p \in Pairs |-> "idle"]
    /\ analysed = [p \in Pairs |-> <<>>]
    /\ gas = [p \in Pairs |-> NoGas]
    /\ found = [p \in Pairs |-> 0] /\ next = [p \in Pairs |-> 0]
    /\ attempt = [p \in Pairs |-> 0]
    /\ topic = [p \in Pairs |-> [k \in Opps |-> 0]]
    /\ unanswered = [p \in Pairs |-> [k \in Opps |-> 0]]
    /\ logged = [p \in Pairs |-> {}]

-------------------------------------------------------------------------------
(* The subscriber's side of the two channels. *)

Announce(n) ==
    /\ Len(announced) + reported < MaxSent /\ Len(blockCh) < BlockCap
    /\ Stream!Deliver(n)
    /\ announced' = Append(announced, n) /\ blockCh' = Append(blockCh, n)
    /\ UNCHANGED <<errOpen, errCh, reported, loopVars, ctxDone, det, analysed, gas,
                   pubVars>>

AnnounceError ==
    /\ errOpen /\ errCh = 0 /\ Len(announced) + reported < MaxSent
    /\ errCh' = 1 /\ reported' = reported + 1
    /\ UNCHANGED <<sent, blockOpen, errOpen, announced, blockCh, loopVars,
                   ctxDone, det, analysed, gas, pubVars>>

\* The end of the subscription: its deferred calls close the error channel first.
\* The Subscriber ends with the context only; the block loop does not count on it
\* (bound: a subscription that ends by itself has put MaxSent messages on them).
CloseErrors ==
    /\ errOpen /\ (ctxDone \/ Len(announced) + reported = MaxSent)
    /\ errOpen' = FALSE
    /\ UNCHANGED <<sent, blockOpen, announced, blockCh, errCh, reported, loopVars,
                   ctxDone, det, analysed, gas, pubVars>>

CloseBlocks ==
    /\ ~errOpen /\ Stream!CloseStream
    /\ UNCHANGED <<errOpen, announced, blockCh, errCh, reported, loopVars, ctxDone, det,
                   analysed, gas, pubVars>>

-------------------------------------------------------------------------------
(* runDetector: the select, and the fork and join of a block. *)

\* Start a Detect for every pair.
TakeBlock ==
    /\ loop = "select" /\ blockCh # <<>>
    /\ taken' = Append(taken, Head(blockCh))
    /\ blockCh' = Tail(blockCh)
    /\ loop' = "collect" /\ collected' = 0 /\ results' = {}
    /\ det' = [p \in Pairs |-> "forked"]
    /\ UNCHANGED <<sent, blockOpen, errOpen, announced, errCh, reported, nilled,
                   ctxDone, analysed, gas, pubVars>>

\* Mutant: the loop goes on when the first result is in.
AllCollectedFirst == TRUE

\* As many results as there are detectors.
AllCollected == collected + 1 = Cardinality(Pairs)

Collect(p) ==
    /\ loop = "collect" /\ p \in results
    /\ results' = results \ {p}
    /\ collected' = collected + 1
    /\ loop' = IF AllCollected THEN "select" ELSE "collect"
    /\ UNCHANGED <<chanVars, nilled, taken, ctxDone, det, analysed, gas,
                   pubVars>>

\* Mutant: one closed channel is enough to stop.
BothEndedEither(ch) == TRUE

\* The other channel has been set to nil before.
BothEnded(ch) == {"block", "err"} \subseteq nilled \union {ch}

\* A channel that is closed and empty is set to nil, so that the select no
\* longer finds it ready.
ChannelEnds(ch) ==
    /\ loop = "select" /\ ch \notin nilled
    /\ ch = "block" => ~blockOpen /\ blockCh = <<>>
    /\ ch = "err" => ~errOpen /\ errCh = 0
    /\ nilled' = nilled \union {ch}
    /\ loop' = IF BothEnded(ch) THEN "stopped" ELSE "select"
    /\ UNCHANGED <<chanVars, taken, results, collected, ctxDone, det,
                   analysed, gas, pubVars>>

TakeError ==
    /\ loop = "select" /\ errCh > 0
    /\ errCh' = errCh - 1
    /\ UNCHANGED <<sent, blockOpen, errOpen, announced, blockCh, reported, loopVars,
                   ctxDone, det, analysed, gas, pubVars>>

ContextDone ==
    /\ loop = "select" /\ ctxDone
    /\ loop' = "stopped"
    /\ UNCHANGED <<chanVars, nilled, taken, results, collected, ctxDone, det,
                   analysed, gas, pubVars>>

-------------------------------------------------------------------------------
(* Detect, one goroutine per pair. *)

Detect(p) ==
    /\ det[p] = "forked"
    /\ analysed' = [analysed EXCEPT ![p] = Append(@, Last(taken))]
    /\ det' = [det EXCEPT ![p] = "eth"]
    /\ UNCHANGED <<chanVars, loopVars, ctxDone, gas, pubVars>>

\* The ETH price comes from the exchange, whose requests have a deadline, or else
\* is the last one known (at first the 2000 main sets): there always is one.
FetchETHPrice(p) ==
    /\ det[p] = "eth"
    /\ det' = [det EXCEPT ![p] = "gas"]
    /\ UNCHANGED <<chanVars, loopVars, ctxDone, analysed, gas, pubVars>>

\* Mutant: only the presence of a cached price is tested.
CachedKept(p) == gas[p].price # 0

\* A cached price that has not expired.
Cached(p) == gas[p].price # 0 /\ gas[p].left > 0

\* getGasPrice from the cache, or nil without an Ethereum client.
GasAtHand(p) ==
    /\ det[p] = "gas"
    /\ p \in Priced => Cached(p)
    /\ det' = [det EXCEPT ![p] = "process"]
    /\ UNCHANGED <<chanVars, loopVars, ctxDone, analysed, gas, pubVars>>

GasRequest(p) ==
    /\ det[p] = "gas" /\ p \in Priced /\ ~Cached(p)
    /\ det' = [det EXCEPT ![p] = "fetching"]
    /\ UNCHANGED <<chanVars, loopVars, ctxDone, analysed, gas, pubVars>>

Capped(price) == IF price > MaxGas THEN MaxGas ELSE price

\* isGasPriceVolatile: the change since the last price fetched, which is the
\* cached one, as a share of it.
IsVolatile(old, new) ==
    old # 0 /\ 100 * (IF new > old THEN new - old ELSE old - new) >= Threshold * old

\* The node answers: cap the price and keep it, more briefly if it has jumped.
GasArrives(p) ==
    /\ det[p] = "fetching" /\ ~ctxDone
    /\ \E price \in GasPrices :
          LET new == Capped(price)
          IN  gas' = [gas EXCEPT ![p] =
                  [price  |-> new,
                   left   |-> IF IsVolatile(gas[p].price, new)
                              THEN VolatileTTL ELSE TTL,
                   age    |-> 0,
                   jumped |-> gas[p].price # 0 /\
                       (100 * new >= (100 + Threshold) * gas[p].price \/
                        100 * new <= (100 - Threshold) * gas[p].price)]]
    /\ det' = [det EXCEPT ![p] = "process"]
    /\ UNCHANGED <<chanVars, loopVars, ctxDone, analysed, pubVars>>

\* Mutant: the price is asked for until it comes.
GasFailsAgain(p) ==
    /\ det[p] = "fetching"
    /\ det' = [det EXCEPT ![p] = "gas"]
    /\ UNCHANGED <<chanVars, loopVars, ctxDone, analysed, gas, pubVars>>

\* No price: Detect goes on with nil, and asks again in the next block.
GasFails(p) ==
    /\ det[p] = "fetching"
    /\ det' = [det EXCEPT ![p] = "process"]
    /\ UNCHANGED <<chanVars, loopVars, ctxDone, analysed, gas, pubVars>>

\* What detectWithPipeline may return that is worth publishing.
FoundByPipeline(p) == 0..(IF p \in Finding THEN MaxOpps ELSE 0)

\* Process returns; n of its opportunities reach the threshold of the pair.
Process(p) ==
    /\ det[p] = "process"
    /\ \E n \in FoundByPipeline(p) :
          /\ found' = [found EXCEPT ![p] = n]
          /\ det' = [det EXCEPT ![p] = IF n = 0 THEN "done" ELSE "publish"]
    /\ next' = [next EXCEPT ![p] = 1]
    /\ UNCHANGED <<chanVars, loopVars, ctxDone, analysed, gas, attempt, topic,
                   unanswered, logged>>

\* On to the next opportunity, whatever became of this one.
PublishNext(p) ==
    IF next[p] < found[p]
    THEN next' = [next EXCEPT ![p] = @ + 1] /\ det' = [det EXCEPT ![p] = "publish"]
    ELSE UNCHANGED next /\ det' = [det EXCEPT ![p] = "done"]

\* PublishOpportunity returns an error: logged, not tried again.
PublishFailed(p) ==
    /\ logged' = [logged EXCEPT ![p] = @ \union {next[p]}]
    /\ attempt' = [attempt EXCEPT ![p] = 0]
    /\ PublishNext(p)

\* The breaker is open, as it may be once calls have failed.
PublishRefused(p) ==
    /\ det[p] = "publish" /\ attempt[p] = 0
    /\ PublishFailed(p)
    /\ UNCHANGED <<chanVars, loopVars, ctxDone, analysed, gas, found, topic,
                   unanswered>>

\* Mutant: one attempt more.
OneAttemptMore(p) == attempt[p] = MaxAttempts

LastAttempt(p) == attempt[p] + 1 = MaxAttempts

\* Mutant: Retry does not return on success while attempts are left.
PublishAcceptedAgain(p) ==
    /\ det[p] = "publish" /\ ~ctxDone
    /\ topic' = [topic EXCEPT ![p][next[p]] = @ + 1]
    /\ IF LastAttempt(p)
       THEN attempt' = [attempt EXCEPT ![p] = 0] /\ PublishNext(p)
       ELSE attempt' = [attempt EXCEPT ![p] = @ + 1] /\ UNCHANGED <<next, det>>
    /\ UNCHANGED <<chanVars, loopVars, ctxDone, analysed, gas, found,
                   unanswered, logged>>

PublishAccepted(p) ==
    /\ det[p] = "publish" /\ ~ctxDone
    /\ topic' = [topic EXCEPT ![p][next[p]] = @ + 1]
    /\ attempt' = [attempt EXCEPT ![p] = 0]
    /\ PublishNext(p)
    /\ UNCHANGED <<chanVars, loopVars, ctxDone, analysed, gas, found,
                   unanswered, logged>>

\* Retry gives up after MaxAttempts, or at once when cancelled; else it backs off.
\* The failed request may have reached the topic all the same.
PublishAttemptFails(p) ==
    /\ det[p] = "publish"
    /\ \/ UNCHANGED <<topic, unanswered>>
       \/ /\ topic' = [topic EXCEPT ![p][next[p]] = @ + 1]
          /\ unanswered' = [unanswered EXCEPT ![p][next[p]] = @ + 1]
    /\ IF ctxDone \/ LastAttempt(p)
       THEN PublishFailed(p)
       ELSE /\ attempt' = [attempt EXCEPT ![p] = @ + 1]
            /\ det' = [det EXCEPT ![p] = "backoff"]
            /\ UNCHANGED <<next, logged>>
    /\ UNCHANGED <<chanVars, loopVars, ctxDone, analysed, gas, found>>

\* The delay is over, whatever its length.
BackoffOver(p) ==
    /\ det[p] = "backoff"
    /\ det' = [det EXCEPT ![p] = "publish"]
    /\ UNCHANGED <<chanVars, loopVars, ctxDone, analysed, gas, pubVars>>

BackoffCancelled(p) ==
    /\ det[p] = "backoff" /\ ctxDone
    /\ PublishFailed(p)
    /\ UNCHANGED <<chanVars, loopVars, ctxDone, analysed, gas, found, topic,
                   unanswered>>

\* The variables of a publication are local to Detect.
ClearPublication(p) ==
    /\ found' = [found EXCEPT ![p] = 0] /\ next' = [next EXCEPT ![p] = 0]
    /\ topic' = [topic EXCEPT ![p] = [k \in Opps |-> 0]]
    /\ unanswered' = [unanswered EXCEPT ![p] = [k \in Opps |-> 0]]
    /\ logged' = [logged EXCEPT ![p] = {}]
    /\ UNCHANGED attempt

\* Mutant: nothing found, nothing sent.
ReturnOnlyFound(p) ==
    /\ det[p] = "done"
    /\ det' = [det EXCEPT ![p] = "idle"]
    /\ results' = IF found[p] > 0 THEN results \union {p} ELSE results
    /\ ClearPublication(p)
    /\ UNCHANGED <<chanVars, loop, nilled, taken, collected, ctxDone, analysed,
                   gas>>

\* The goroutine of the pair sends its result, and is never held up by it.
Return(p) ==
    /\ det[p] = "done"
    /\ det' = [det EXCEPT ![p] = "idle"]
    /\ results' = results \union {p}
    /\ ClearPublication(p)
    /\ UNCHANGED <<chanVars, loop, nilled, taken, collected, ctxDone, analysed,
                   gas>>

-------------------------------------------------------------------------------
(* The surroundings. *)

\* main, told to stop: HTTP server and connection are shut down first.  It then
\* exits, waiting for nobody, which cuts a behaviour off at any later point.
Cancel ==
    /\ ~ctxDone /\ ctxDone' = TRUE
    /\ UNCHANGED <<chanVars, loopVars, det, analysed, gas, pubVars>>

Older(g) ==
    [price  |-> g.price,
     left   |-> IF g.left > 0 THEN g.left - 1 ELSE 0,
     age    |-> IF g.age < TTL THEN g.age + 1 ELSE g.age,
     jumped |-> g.jumped]

\* A tick of the clock that a cached gas price can notice.
Tick ==
    /\ \E p \in Priced : gas[p].price # 0 /\ gas[p].age < TTL
    /\ gas' = [p \in Pairs |-> Older(gas[p])]
    /\ UNCHANGED <<chanVars, loopVars, ctxDone, det, analysed, pubVars>>

Subscription ==
    \/ \E n \in 1..MaxBlock : Announce(n)
    \/ AnnounceError \/ CloseErrors \/ CloseBlocks
Loop ==
    \/ TakeBlock \/ TakeError \/ ContextDone
    \/ \E p \in Pairs : Collect(p)
    \/ \E ch \in {"block", "err"} : ChannelEnds(ch)
\* What needs the node, the pipeline or the topic, and what does not.
Remote(p) ==
    \/ GasArrives(p) \/ GasFails(p) \/ Process(p)
    \/ PublishRefused(p) \/ PublishAccepted(p) \/ PublishAttemptFails(p)
Local(p) ==
    \/ Detect(p) \/ FetchETHPrice(p) \/ GasAtHand(p) \/ GasRequest(p)
    \/ BackoffOver(p) \/ BackoffCancelled(p) \/ Return(p)

\* The loop has ended; detectors and subscription may still move.
Stopped == loop = "stopped" /\ UNCHANGED vars

Next ==
    \/ Subscription \/ Loop \/ Cancel \/ Tick \/ Stopped
    \/ \E p \in Pairs : Remote(p) \/ Local(p)

Spec == Init /\ [][Next]_vars

(***************************************************************************)
(* Fairness.  The goroutines of the loop and of the detectors are          *)
(* scheduled.  Of the requests only the one for the ETH price has a        *)
(* deadline; the others end by themselves, or else with the context.  A    *)
(* subscription ends once it is cancelled (CancelStopsLoop of Subscriber). *)
(* Blocks, the signal and failures are not owed.                           *)
(***************************************************************************)
Fairness ==
    /\ WF_vars(Loop)
    /\ \A p \in Pairs : WF_vars(Local(p)) /\ WF_vars(ctxDone /\ Remote(p))
    /\ WF_vars(ctxDone /\ (CloseErrors \/ CloseBlocks))

FairSpec == Spec /\ Fairness

-------------------------------------------------------------------------------
(* Properties. *)

TypeOK ==
    /\ sent \subseteq 1..MaxBlock
    /\ {blockOpen, errOpen, ctxDone} \subseteq BOOLEAN
    /\ announced \in Seq(1..MaxBlock) /\ blockCh \in Seq(1..MaxBlock)
    /\ Len(announced) <= MaxSent /\ Len(blockCh) <= BlockCap
    /\ errCh \in 0..1 /\ reported \in 0..MaxSent
    /\ loop \in {"select", "collect", "stopped"}
    /\ nilled \subseteq {"block", "err"}
    /\ taken \in Seq(1..MaxBlock)
    /\ results \subseteq Pairs /\ collected \in 0..Cardinality(Pairs)
    /\ det \in [Pairs -> {"idle", "forked", "eth", "gas", "fetching",
                          "process", "publish", "backoff", "done"}]
    /\ analysed \in [Pairs -> Seq(1..MaxBlock)]
    /\ gas \in [Pairs -> [price : 0..MaxGas, left : 0..TTL, age : 0..TTL,
                          jumped : BOOLEAN]]
    /\ found \in [Pairs -> 0..MaxOpps] /\ next \in [Pairs -> 0..MaxOpps + 1]
    /\ attempt \in [Pairs -> 0..MaxAttempts - 1]
    /\ topic \in [Pairs -> [Opps -> 0..MaxAttempts]]
    /\ unanswered \in [Pairs -> [Opps -> 0..MaxAttempts]]
    /\ logged \in [Pairs -> SUBSET Opps]

\* Every pair analyses the blocks of the stream, each once and in the order they
\* were delivered, and no pair is more than the block in hand ahead of another:
\* between blocks all have analysed all that was taken.
LockStep ==
    /\ announced = taken \o blockCh
    /\ \A p \in Pairs :
          \/ analysed[p] = taken
          \/ loop = "collect" /\ det[p] = "forked" /\ analysed[p] = Front(taken)
    /\ loop # "collect" => \A p \in Pairs : det[p] = "idle"

\* The loop never waits for what nobody will send.  While it collects, a result is on
\* resultsCh or a detector is at work on one; in its select it still listens to a
\* channel (with both nil it would wait for the context only).
LoopNotStarved ==
    /\ loop = "collect" => results # {} \/ \E p \in Pairs : det[p] # "idle"
    /\ loop = "select" => ~({"block", "err"} \subseteq nilled)

\* The loop stops only after cancellation or when both channels are closed and
\* everything on them has been received.
StopsAtTheEnd ==
    loop = "stopped" =>
        ctxDone \/ (~blockOpen /\ ~errOpen /\ blockCh = <<>> /\ errCh = 0)

\* No detection uses a gas price after its time: the shorter one when the price
\* had jumped since the one before, in either direction.
GasInTime ==
    [][\A p \in Priced : det[p] = "gas" /\ det'[p] = "process" =>
          gas[p].age < (IF gas[p].jumped THEN VolatileTTL ELSE TTL)]_vars

\* When Detect is over, each opportunity worth publishing is on the topic or its
\* failure has been logged: one that fails does not take the others with it.  And
\* one is on the topic twice only if the answer to a copy was lost
\* (Detect's publication loop, SNSPublisher.Publish within Retry).
PublicationsAccounted ==
    /\ \A p \in Pairs : det[p] = "done" =>
          \A k \in 1..found[p] : topic[p][k] > 0 \/ k \in logged[p]
    /\ \A p \in Pairs, k \in Opps : topic[p][k] <= unanswered[p][k] + 1

\* No pair waits for ever for an answer.  Nothing in the code ensures it: the node
\* and the topic are asked without a deadline, and one pair holds up the others.
Answered ==
    \A p \in Pairs : []<>(det[p] \notin {"fetching", "process", "publish"})

\* As long as its requests are answered, one way or the other, a block that is
\* delivered is analysed by every pair, unless the program is told to stop.
BlocksAnalysed ==
    Answered => ((\E p \in Pairs : analysed[p] # announced) ~>
                     ctxDone \/ \A p \in Pairs : analysed[p] = announced)

\* After cancellation the loop stops, wherever it and the detectors are, and even
\* if a request would never have been answered.
LoopStops == ctxDone ~> loop = "stopped"
===============================================================================
