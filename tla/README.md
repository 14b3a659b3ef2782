# A TLA+ model of the CEX-DEX arbitrage bot

The bot listens for Ethereum blocks, and for every block and trading pair asks
Binance and Uniswap for prices of several trade sizes, computes whether buying on
one and selling on the other would pay, and publishes the opportunities that do.
The modules beside this file model its control, concurrent and sequential, from the Go
code in `cmd/` and `internal/` (file names below are relative to the repository), check
it with TLC on small instances, and prove most of the safety with TLAPS for all of them.

## 1. The system

    Ethereum nodes --ws--> Subscriber --blockCh--> runDetector --per pair--> Detector
         |                    ^                                               |
         +--http--> ClientPool+                                            Pipeline
                       |                                    4 quotes per size |
                       +-- one client per pair --> Uniswap <-- limiter --------+
                                                   Binance <-------------------+
    providers: cache -> circuit breaker -> retry -> rate limiter -> network
    Detector --> Publisher --> SNS (circuit breaker -> retry)

### Components

| component | state | operations | interacts by | hard behaviour | correct when |
|---|---|---|---|---|---|
| **Subscriber** `internal/blockchain/subscriber.go` | client, connected flag, URL index, last block, failure count; mode of the loop | Subscribe, the loop (stream, poll, backfill, redial), heartbeat, Close | blockCh and errCh to `runDetector`; calls the pool; mutex shared with heartbeat and Close | gaps, fallback, reconnection, cancellation at every wait, Close under the loop | blocks in order, none lost without a trace, no wait outlives cancellation, it catches up |
| **ClientPool** `internal/blockchain/client_pool.go` | per endpoint client and mark; round-robin position | GetClient, MarkUnhealthy, rounds of checks (a goroutine per endpoint), Close | called by subscriber, detectors, `/health` | checks close and redial under GetClient; client and mark are read apart; rounds overlap; Close races checks | a usable endpoint is found; the client handed out is open; clients are closed |
| **Pipeline** `internal/arbitrage/pipeline.go` | three bounded channels, worker and analysis goroutines | Process | calls both providers; semaphore shared by all pairs | full buffers on every side, cancellation, failing quotes, closing channels | every quoted size gives its opportunities once; returns; never sends on a closed channel; permits come back |
| **CircuitBreaker** `internal/platform/resilience/circuit_breaker.go` | state, two counters, time of last failure | beforeRequest, afterRequest, Reset, ForceOpen | wraps Binance, Uniswap, SNS calls | results that arrive in another state than they were let through in | opens on a streak, closes on probes, never stuck |
| **Cache** `internal/platform/cache/` | L1 map and LRU list, L2 Redis | Get with backfill, Set, Delete, InvalidateL1, cleanup | called by the providers; Redis outlives the process | backfill racing Set and Delete, expiry of copies, one layer failing, elements used after their lock is released | an older or deleted value comes back only in named cases; copies expire; map and list agree |
| **Detector** `internal/arbitrage/detector.go` | ETH price, gas price and its expiry | Detect with both prices, the pipeline, the publications | called per block; pipeline, node, exchange, publisher | expiry and volatility of the gas price, a node that fails or hangs, one publication failing among several | no gas price used after its time; every opportunity published or logged |
| **Block loop** `cmd/detector/main.go` | channels set to nil | runDetector, shutdown; the start is sequential | receives from the subscriber, forks a Detect per pair and joins them | a pair that hangs, which channel closes first, order of shutdown | pairs in lock step, nothing left on a channel, shutdown ends |
| **Provider calls** `internal/platform/resilience/retry.go`, `rate_limiter.go`, around them `binance.go`, `uniswap.go`, `sns.go` | breaker, attempts | a call through breaker, retries and limiter | goroutines of all pairs share them | the breaker opens or the context ends between attempts | what is still sent is bounded; a cancelled call returns |
| **Quotes** `internal/pricing/binance.go`, `uniswap.go`, `internal/platform/cache/warming.go` | cached order books and quotes | GetPrice, GetETHPrice, fee tiers, warm-up | callers of one detection share them; the cache | misses together, tiers failing, entries of earlier blocks | quotes belong to the block; the best tier is chosen |
| **Execution and profit** `internal/pricing/orderbook.go`, `internal/arbitrage/calculator.go`, `opportunity.go` | - | CalculateExecution, CalculateProfit, what is published | the analysis of a size | ends of levels, signs and flows per direction, crossed snapshots | the fill is the best possible; what is published is a real gap |
| SNS, publisher `internal/platform/aws`, `internal/notification` | breaker | Publish | detector | duplicates after lost answers | part of Detector and provider calls |
| Worker pool `internal/platform/worker` | queue, results | Submit, SubmitAndWait, Close | used by no part of the program | - | - |
| Uniswap V3 arithmetic, decimals, money | - | pure functions | the V3 package is used by nothing | boundaries, width | - |
| Configuration, registry, observability, formatter | - | start-up data, logging | - | - | - |

`PROJECT.json` lists every component with its status, and every hazard at its line
with the properties that cover it.

## 2. The modules

| module | what it is |
|---|---|
| `BlockStream` | what the block channel promises: delivery in turn, numbers passed over were given up before, silence after closing |
| `Subscriber` | the subscriber in full, with the nodes and the receiver around it; implements `BlockStream` |
| `SubscriberProofs` | its proofs |
| `Pipeline`, `MCPipeline`, `PipelineProofs` | one call of `Process`; the MC module adds the symmetry of workers; its proofs |
| `ClientPool`, `MCClientPool`, `ClientPoolProofs` | the pool; the MC module adds the symmetry of check rounds; its proofs |
| `LayeredCache`, `MCLayeredCache`, `LayeredCacheProofs` | the two-layer cache and concurrent callers; the MC module adds symmetry and a view; its proofs |
| `CircuitBreaker` | the breaker and concurrent callers, the abstract specification of `ProviderCalls` |
| `ProviderCalls`, `ProviderCallsProofs` | calls through breaker, retries and limiter; implements `CircuitBreaker`; the proofs of both |
| `Detectors`, `DetectorsProofs` | block loop, detectors and publications over the promise of `BlockStream`; its proofs |
| `BlockQuotes`, `BlockQuotesProofs` | what the quotes of one pair are made of, over the promise of `LayeredCache`; its proofs |
| `Execution`, `ExecutionProofs` | from four quotes of a size to what is published, as integer arithmetic; its proofs |

How they fit together. `Subscriber` implements `BlockStream`, and `Detectors` takes its
blocks from an instance of `BlockStream`. A detection runs a `Pipeline`, represented in
`Detectors` by the number of opportunities it returns; whether it returns is the matter
of `Pipeline`, which opportunities it returns that of `Execution`. Its quotes come from
`BlockQuotes`, where a request succeeds or fails and the cache keeps what `LayeredCache`
promises; how a request goes through breaker, retries and limiter is `ProviderCalls`,
which extends `CircuitBreaker` and is shown to implement it.

A definition marked `Mutant:` is a plausible bug of the definition after it. No
specification uses one; the mutant entries of `PROJECT.json` replace the real
definition by it to show that the property of that entry notices.

### Subscriber

`pc` is where the goroutine of `subscriptionLoop` stands, including the functions it
calls: `top` of the loop, `streaming` (the select of `subscribeToBlocks`), `fetch` and
`sendGap` (`backfillBlocks`), `sendHead` (`processBlock`), `failed` (an error of the
stream), `delay`, `dialing` (`connect`, which holds the mutex while it dials),
`polling`, `pollFailed`, `pollWait`, `done`. One action is one stretch between two
points where another goroutine, the network or the context can interfere. `job`
holds the header in hand and the next missing block. `wsMode`, `wsFailureCount`,
`lastBlockNumber`, `client`, `isConnected`, `currentURLIdx` are the code's fields.
`hasPool` is chosen in `Init` and never changes. The heartbeat has three steps: read
the client, hear the answer, perhaps clear the flag.

Abstractions: a block is its number (a reorganisation announces a number again);
time is absent, so a timer may fire whenever it is set, and `messageTimeout` is a
fault; `reconnectAttempts` only lengthens the delay and is left out; `Block.IsValid`
holds for every header with a positive number. `wsHead` and `poolHead` are how far
the WebSocket node and the slowest pool endpoint have followed the chain: a poll may
see any height between `poolHead` and `head`. `seen`, `skipped`, `leaked`, `fellBack` are history.

### Pipeline

One action per channel operation of each goroutine. A size is its index; a size in
hand is in `worker`, the state of its two limited DEX quotes in `dex`, the outcome of
all four in `quotes`. The two CEX quotes touch nothing shared and are decided when
`wg.Wait` returns. `others` are permits held by the pipelines of other pairs. An
opportunity is a size and a direction. `analyze` gives none only if
`CalculateProfit` fails, which the providers' prices do not make it do.

### CircuitBreaker

A caller is `idle` or `admitted`; `Admit` is `beforeRequest`, and `Fail`, `Ignore`,
`Succeed` are the three outcomes of `afterRequest`, each in whatever state the
breaker has by then. Time is the bit `cooling`. `streak` and `probes` are history:
consecutive failures, and successes of the current half-open state.

### ProviderCalls

Extends `CircuitBreaker`: `Begin` is `Admit`, `End` is one of its three outcomes, and
between them a call stands at `limiter`, `request`, `backoff` or `over`, so that the
critical sections of `Execute` are steps of their own. `Wait` of the limiter looks for a
token before it looks at the context, and its time is left open, as are those of an
answer and of a delay: anything may happen meanwhile. The last error is that of the
call: a timeout of the HTTP client is ignored by the breaker like the end of a context,
other errors count, and an error that is not worth retrying ends the call at once.
`overrun` and `late` are history: requests a caller has started since the breaker opened, and
since its context was over. The three providers differ in `MaxAttempts` only.

### Detectors

`loop` is where `runDetector` stands, `nilled` the channels it has set to nil; `det[p]`
is where `Detect` of pair p stands: `forked` (goroutine started), `eth`, `gas` and
`fetching` (the gas price), `process` (the pipeline), `publish` and `backoff` (attempts of
one publication), `done`, `idle` (result sent). The price of ETH always exists, fetched
or the last one known. The gas price has its value, what is left of its TTL, its age
and whether it had jumped; ticks come at any moment. The pipeline returns any number of
opportunities up to `MaxOpps`. A publication counts its copies on the topic, those whose
answer was lost, and failures logged. A pair outside `Priced` has no Ethereum client;
`createDetectorForPair` keeps one client for good (main.go:41), and a client that has been
closed is a node that fails for ever, which the model allows.

### BlockQuotes

One pair, one trade size and one direction, block after block. Callers are the
goroutines of the pipeline that ask for the CEX price; the DEX call goes through the
tiers one after the other. An entry of the cache is the block it was fetched for and its
age. The cache is replaced by its promise: a Get misses, or returns what was last put
under the key while it is younger than its TTL and that of L1 together. `isBuy` and the
offers of the tiers are chosen in `Init`; `answers` is history.

### Execution

One action per phase (fetches, analysis, publication) of one size; how the fetches
interleave is left to `Pipeline`. Prices, volumes and fees are small integers, quotients
are multiplied out. Every order book of up to two levels a side is an initial state,
also a crossed one: the two sides may come from different snapshots. That the levels of a
side are sorted and positive is assumed of Binance. Pools ask and pay any amount, or fail.
The detector passes its gas price to both quotes, or has none, and then each quote asks
the node on its own, which may fail or give another price than to the other quote.

### ClientPool

`GetClient` holds the pool's mutex `cp.mu` but reads each endpoint on its own, and in two
steps: the client under the endpoint's mutex (`ScanRead`), then the mark without a lock
(`HandOut`, `PassOver`). Checks move between any two of these. What holds them off is
`cp.mu`, which the start of a round reads `cp.endpoints` under (`TickLock`): the checks
at work during a call are those of rounds begun before it. Without that lock a check
could close the client read and the next round's dial another and mark the endpoint
healthy, and the call would hand out the closed one (`HandsOutOpenClient`; its mutant). A check is
`start`, `dial`, `call`, `closing`. A client is a number that is reused when it is
closed and neither a check nor `GetClient` holds it. Dialling an HTTP URL contacts no one and succeeds;
dialling a WebSocket URL may fail. `raced` collects the endpoints that had two
checks at work at once, or a check at work while the pool closes: for those the code
makes no promise (a second dial overwrites the first client; a check of a closing
pool installs a new one), and `ClientsClosed` and `HandsOutOpenClient` are stated for the
others. `usable` is history: the endpoints that have had client and mark all through the call. A user that still holds a
client when a later check closes it gets an error from it; the code promises no more, so
nothing is stated of clients once they are handed out.

### LayeredCache

L1 is `items` (the Go map), `lru` (the list) and `elem`: an element is an object of its
own, because `MemoryCache.Get` keeps the element it has looked up after releasing the
lock. An element that neither the map, the list nor a call refers to is garbage
(`Collect`) and may be used again. L2 is `l2`. A call stands in `op` at `l1` (element in
hand), `expire` (about to remove an expired item by its key), `l2`, `backfill` (a value
of L2 in hand), `hit` (returning), `setL2` or `deleteL2` (L1 written, L2 not yet); one
action is one critical section of L1 or one request to L2.

Time is what is left of each TTL: an L1 item is expired below zero, since the code asks
`time.Now().After(expiration)`, and Redis drops a key at zero. Reading an item races
with `Set`, which updates it in place. The fields compared and returned are single
words of the same type for one key, so the reader gets the old or the new one, which
is what a read before or after the update gives. The types the program caches are
registered (`pricing/adapters.go`), so what is decoded from L2 is what was stored. Both
layers are always there, as in `main`; L1 itself never fails.

The cache promises less than a register. `last` and `due` record what each key was
last given and for how long. A key is `excused` from the moment its calls overlap, a
call is late by a tick with a copy it has taken, or a write to L2 fails, until a
`Set` or `Delete` that nothing disturbs. Everything else is promised, across eviction,
expiry, cleanup, invalidation, overlapping backfills and restarts. Another instance
that writes the same Redis is modelled only as what Redis holds at the start. The order
of `lru` decides which key is evicted, and no property is about that choice; that the list
holds the elements of the map, each once, is `MapAndListAgree`.

## 3. The runs

| run | constants and bounds | what it shows |
|---|---|---|
| `subscriber` | 2 URLs, limit 2, channels of 1, chain to 3, 1 fault | types, `NoUnaccountedGap`, `FallbackNotOverdue`, `ClientLeakOnlyAfterFallback`, refinement of `BlockStream` |
| `subscriber_live` | 1 URL, limit 1, chain to 3, 1 fault | `CancelStopsLoop`, `CatchesUp` |
| `pipeline` | 3 sizes, 2 workers, buffers of 1, 1 permit, 1 failed quote | types, `CompleteResult`, `NoSendAfterClose`, `PermitsConserved`, `SentOnce` |
| `pipeline_ends` | 5 sizes (the capacity), 1 worker, buffers of 1 | `NeverStuck`, `ProcessEnds` |
| `client_pool` | 2 endpoints, 2 overlapping rounds, 2 clients each, 1 fault | types, `FailsOnlyWithoutUsable`, `HandsOutOpenClient`, `ClientsClosed` |
| `layered_cache` | 2 keys, 2 values, 2 callers, L1 of 1 element, `L1MaxTTL` 2, TTLs to 3 | types, `MapAndListAgree`, `HitIsLast`, `HitWithinTTLs` |
| `detectors` | 2 pairs, one with gas prices and one that finds opportunities (2), block channel of 1, blocks 1 and 2, 3 messages, 2 attempts, TTLs 2 and 1 | types, `LockStep`, `LoopNotStarved`, `StopsAtTheEnd`, `PublicationsAccounted`, `GasInTime`, `BlocksAnalysed`, `LoopStops` |
| `provider_calls` | 2 callers, thresholds 3 and 2, 2 attempts, 4 faults, 1 cancellation | `ClosedBelowThreshold`, `OverrunBounded`, `LateBounded`, `OpensAfterStreak`, `Recovers`, `CancelledEnds` |
| `block_quotes` | 2 callers, 2 tiers, TTLs of 1, 2 block numbers, a warm-up and 2 detections | `QuotesOfBlock`, `BestOfAnswered` |
| `execution` | books of up to 2 levels a side, 4 prices, 2 volumes, sizes to 3, a fee of a tenth | `BestExecution`, `PublishedGapIsReal` |

Two more runs check what the repository says of itself and find it violated; the
findings of `PROJECT.json` quote the sentences.

| run | property, constants | sentence | what happens |
|---|---|---|---|
| `pipeline_stuck` | `BackpressureHandled`, 6 sizes, 1 worker, buffers of 1, no limiter, no failures | backpressure is handled | `Process` never returns beyond 3 * BufferSize + Concurrency + 1 sizes |
| `pool_checks` | `EndpointFoundHealthy`, 2 endpoints, 1 round at a time | health checks have time for slow calls | their context is cancelled at once |

Why the bounds are enough. A chain of three blocks has a first block, a gap of one and
of two, and a head after it. Channels of one are full and empty. Two URLs make the
index wrap; one fault is enough for each path that leaves the streaming loop, and
faults that need no budget (cancellation, Close, lag, endpoints down from the start)
combine with it. In the pipeline, three sizes over buffers of one with two workers
fill every channel and let sizes overtake each other; one permit makes quotes wait.
Two callers of a provider are one
whose result is late and one that changes the state of the breaker meanwhile; four
faults open a breaker of threshold three and leave one for what follows; counters
saturate where no comparison can tell. Of two pairs the one waits for the node while the
other publishes; two opportunities are one that fails and one that must not be taken
with it, and two attempts are a first and a last one. TTLs of one and two ticks separate
the two times of a gas price. Two tiers are one that answers and one that fails, in
both orders and with equal offers; two detections after a warm-up use what the warm-up,
the other block and a block of the same number have left. A size of three over levels of one or
two ends inside, at the end of, and beyond the levels; gas
prices of zero and one beside a default of two make the gas of the two quotes differ, and
leave a gap that only the fee can close. Two rounds of checks are the
fewest that overlap, and two endpoints the fewest to go round. Two keys over an L1 of one
element evict each other at every turn, TTLs lie below, at and above that of L1, and
three elements are one in the list and one in the hands of each caller. `View` leaves
out what excused keys were last given, which nothing reads.
`MaxFaults`, `MaxFailures`, `MaxBlock`, `MaxCount`, `MaxClients`, `Slots`, `MaxTTL`, `MaxCancels`,
`MaxSent`, `MaxOpps`, `Finding`, `MaxRounds` and the value sets of `Execution` are bounds of the
model; the other constants are parameters of the code.

Deadlock is checked in every run: what has ended (a stopped subscriber or block loop, an
ended pipeline, the last detection) stutters explicitly (`Stopped`), so a goroutine that
waits for ever on the others is an error.

## 4. Fairness

Deadlines in the code: the HTTP client of Binance has one of 10 s, and so have the
heartbeat, the checks of the pool, the warm-up (30 s) and Redis. Requests to the Ethereum
node (headers, quotes, gas price) and to SNS have none but the context: that they are
answered is an assumption, made where a property needs it and named there.

- Subscriber: weak fairness of the loop for steps that are not faults (its goroutine
  is scheduled, timers fire, nodes answer), strong fairness of `StreamEnds` (Go's select
  chooses at random among ready cases, so a stream whose end is ready again and again
  ends), weak fairness of the receiver while it is not cancelled (`runDetector` returns
  to its select), and of nodes that announce and catch up and endpoints that come back.
  Nothing is assumed of cancellation, Close or faults. `FairSpec` leaves the heartbeat
  out: it writes `isConnected` only, which no step of the loop reads.
- Pipeline: weak fairness of every goroutine, of quotes (Binance's by its timeout, the
  node's by assumption) and of other pairs' releases; strong fairness of acquiring a
  permit, because the semaphore serves its waiters in order of arrival.
- Detectors: weak fairness of the loop and of what a Detect does by itself; of what it
  asks the node, the pipeline or the topic only once the context is done, which ends
  those requests. `BlocksAnalysed` has the answers as its premise (`Answered`): one pair
  whose request is never answered holds up all pairs, and nothing in the code prevents
  it. The end of the subscription after cancellation is `CancelStopsLoop` of `Subscriber`.
- ProviderCalls: the goroutine of a call is scheduled, delays and waits for a token end,
  a request of a cancelled call ends; callers call again. Strong fairness of `Answered`
  while not cancelled: a provider that is asked again and again answers some time
  (otherwise nothing could recover). Not of failures, cancellation or `Reset`.
- ClientPool (for `EndpointFoundHealthy` only): the ticker, the checks, a `GetClient` under
  way and the return of endpoints; strong fairness of a tick that waits for `cp.mu`, as an
  RWMutex lets no reader starve. The violation is not for want of fairness: the
  property holds once `checkAllEndpoints` waits for its checks.

## 5. Proofs

`SubscriberProofs` proves, for all constants that satisfy `SubscriberAssumption`,
types, the three safety invariants and the refinement of `BlockStream`. The invariant
`NoUnaccountedGap` is not inductive alone: it says nothing of the job in hand. `IInv` adds
- `ModeShape`: the place in the loop fixes the mode, and backfilling needs a pool;
- `ClientShape`: while redialling from WebSocket mode no client is left, and a client
  that survives into polling came through a fallback (so the loop that ends elsewhere
  leaves none, also when it had just dialled: `ClientLeakOnlyAfterFallback`);
- `JobShape`: while backfilling, everything between `lastBlockNumber` and the next
  missing block is already sent or given up; a header in hand is `lastBlockNumber`;
  before the first block nothing has been sent.

`LoopIInv` has one step per action of the loop, `OutsideIInv` one per action of the
heartbeat, the callers and the network, most of them through `OutsideFrame` (a step
that leaves the loop's own variables alone). `RefinesBlockStream` needs the invariant:
`SentInTurn` shows that the predecessor of a block about to be sent is accounted for,
and `StreamStep` maps each action to `Deliver`, `GiveUp`, `CloseStream` or a stutter.

`ProviderCallsProofs` first proves of the breaker alone types, `ClosedBelowThreshold` and
`OpensAfterStreak` for all callers and thresholds. The strengthening is `CountsStreak`: while closed, the
failures counted are at most the failures in a row. It holds because every way into
`closed` clears `failures`, and late failures in other states count in both.

It then proves that `CallsSpec` implements the specification of
`CircuitBreaker` (every step of a call is one of the breaker, or leaves its variables
alone), so that `ClosedBelowThreshold` and `OpensAfterStreak` carry over by implication;
and types, `OverrunBounded` and `LateBounded` from `CallsInv`: a caller that is still to
start a request has attempts left (`AttemptLeft`), what was sent since the breaker
opened are attempts of the call in hand (`OverrunOfCall`), and only a cancelled call is
late.

`LayeredCacheProofs` proves `HitIsLast` and `HitWithinTTLs` for all keys, callers, sizes and
TTLs. The invariant follows a copy on its way: a value of a key that is not excused
is the last one, and not too old, in L2 (`L2Good`), in the element the map gives the
key (`L1Good`), in the hands of a call that has read it (`ReadGood`), and a
write in progress holds it back until both layers have it (`WriteGood`, `WriteShape`).
`DataOK`, `MapShape` and `CallShape` say that an element found under a key, or held by a
call, is of that key. An element that has left the map is covered by the call that
holds it. Which key is evicted does not matter to what a hit returns, so the list is
a theorem of its own: `ListShape` (a list of at most `MaxSize` elements, each once, which
are those of the map) needs only that an element found under a key is of that key. One
lemma per operation of the list says what it does to the elements: `RemoveFacts` and
`ConsFacts` for `MoveToFront`, `FrontFacts` for the eviction, `CleanedFacts` for the cleanup.

`PipelineProofs` proves types, `NoSendAfterClose`, `PermitsConserved`, `CompleteResult` and
`SentOnce` for every number of sizes, workers, permits and buffer slots. The invariant says
where a size can be: still to be pushed or on `inputCh`, which holds the last ones pushed in
order; in the hands of one worker; on `priceCh`; or analysed, with each opportunity
still to be sent, on `outputCh` or collected. `OnePlace` says never in two of these,
`NothingLost` never in none unless cancelled, `Closing` and `Ending` which goroutines have
ended when a channel is closed and what they have left behind. `NeverStuck` is deadlock
freedom spelt out, since the prover has no ENABLED: each goroutine's own guards. A fetch
goes on because a permit it waits for is with somebody who gives it back
(`PermitsConserved`); every other wait is cleared up by `Closing` and `Ending`, except the one in which
all wait for room. Then the sizes in hands, on `priceCh` and analysed are disjoint sets, and
the analysed ones are more than `BufferSize`, because the output and the hand of the
analysis hold 2 * `BufferSize` + 1 opportunities, two of a size at most; with those on `inputCh`
that makes `Capacity` sizes already pushed (`FullIsCapacity`).

`ClientPoolProofs` proves types, `HandsOutOpenClient`, `ClientsClosed` and `FailsOnlyWithoutUsable`
for every number of endpoints and rounds. `ChecksAlone`: an endpoint that is not in
`raced` has one check beyond its start at most, and what that check has seen of the
endpoint still holds. `ScanShape`: what is left of `usable` has not been tried by the scan, but
for the endpoint it is looking at, and after `NumEndpoints` attempts everything has.
`ScanClient`: the client an attempt has read is still the endpoint's, or the check that
closed it has unmarked the endpoint and no check is left that could dial.

`DetectorsProofs` proves types, `LockStep`, `LoopNotStarved`, `StopsAtTheEnd`, `GasInTime` and
`PublicationsAccounted` for every set of pairs. `Joining` counts: results collected,
results on the channel and pairs at work are all the pairs, so the last result finds
nobody at work, and a loop that still collects has somebody to wait for (`LoopNotStarved`: a
block ends as soon as its requests do). `Analysing` ties the blocks a pair was called for to where it stands, `Ends`
what is nil to what is closed and empty, `GasShape` what is left of a price and its age to
its time. `PublicationShape` splits the opportunities at the one in hand: those before it
are accounted for, those after it untouched, and it has at most as many copies as lost
answers and attempts.

`BlockQuotesProofs` proves types, `QuotesOfBlock` and `BestOfAnswered` for every number of
callers and tiers. `CacheShape` says which block an entry of the cache belongs to,
`CallShape` that nothing is kept in hand from one detection to the next, `BestSoFar` that the
best tier is the best of those that have answered, which all come before the tier in hand.

`ExecutionProofs` proves `BestExecution` and `PublishedGapIsReal` for every order book, however
deep, and every size, price, fee and gas price. `IInv` only says which formula each variable is
the value of; the argument is about the loop of `CalculateExecution`. It needs recursion and
induction over the levels, which are first proved for sets of numbers: the least number of a set
(from the library's `WFMin`) gives `Induction`, that `Recursion`, and that the fold `Walk` and the
sums `Total` exist (`WalkIsLoop`, `PartialSums`). Then another filling of the size is followed
level by level: the loop has never taken less than it (`NeverBehind`), so what it took early it
took at prices no worse (`Ahead`, a summation by parts), and at the end it has paid no more
(`WalkBest`). `WalkFills` says that the loop's own is a filling, `WalkSlips` that it is no better
than the first level. Buying and selling are one proof with a sign. `PublishedGaps` puts the loop,
the fee and the gas under the profit of an opportunity.

The assumptions are the named ASSUMEs of the modules (positive thresholds and
capacities, as the constructors ensure, and bounds); TLC evaluates them in the runs. Each
inductive invariant was found with TLC on the instance of its run before it was proved.

Only model-checked: the liveness properties (`CancelStopsLoop`, `CatchesUp`, `ProcessEnds`,
`BlocksAnalysed`, `LoopStops`, `Recovers`, `CancelledEnds`), because the proof system does not
handle ENABLED and fairness here. Every other property of a passing run is a theorem.

## 6. Not modelled

`PROJECT.json` lists every part with its reason. In short:

- *Used by no part of the program*: the worker pool, the adaptive limiter, the Uniswap V3
  package, `RetryWithResult`, `PublishBatch`, `WarmupSymbols`, `GetDepth`, `CalculateSpread`,
  `DetermineDirection`, `CalculateBreakEven` and `CalculateMaxProfitableSize`.
- *Read-only or reported only*: `/health` and the health records of the providers, statistics,
  metrics, logs, traces and console output. No decision depends on them.
- *Once at the start, sequential*: configuration, registry, wiring in `main`.
- *External*: WebSocket and HTTP, JSON, Redis, go-ethereum, AWS, the quoter contract, ABI.
- *Numbers*: the token counts of the limiter (a wait takes any time), the length of delays,
  floating point and 256-bit fixed point; amounts in `Execution` are small integers.
- *Process exit*: `main` waits for nobody after cancellation; exit cuts a behaviour off
  anywhere. Nothing is persisted but the Redis layer of the cache, whose content the
  restart of `LayeredCache` starts from.

## 7. Divergences

What the code does where a comment or document, or a reader's expectation, says
otherwise. The first two are findings with a run of their own.

- `Process` blocks for ever when it has more sizes than its buffers take (`pipeline_stuck`).
- The context of a health check is cancelled as soon as it has started (`pool_checks`).
- "Close closes all client connections" (client_pool.go:332): it waits for no check, and one
  that had found no client dials without the context (236) and leaves its client in an
  endpoint that Close has passed. `ClientsClosed` leaves such endpoints out (`raced`).
- Polling reports gaps and passes over them: "Detects gaps, triggers backfill"
  (docs/ARCHITECTURE.md:116) is true of streaming only (subscriber.go:759-772).
  `NoUnaccountedGap` counts such blocks as given up.
- "Periodically try to switch back to WebSocket" (subscriber.go:405): polling that works
  returns only after a poll has failed (406-424, 711-797). `CatchesUp` holds all the same: polling catches up too.
- "Number of successes in half-open before closing" (circuit_breaker.go:59): successes
  counted before, in other states, are not cleared on entering half-open (133-136, 176),
  so fewer probes may close it.
- Timeouts of the HTTP client are not counted by the breaker (they are
  `DeadlineExceeded`): a provider that only hangs never opens it, while a Uniswap pool that
  does not exist for a fee tier counts as a failure of the provider.
- "one orderbook snapshot per block" (binance.go:153): callers that miss together fetch a
  snapshot each, so the two sides compared may be of different, even
  crossed, snapshots, and `Execution` allows it.
- `Warmup` of Binance "pre-populates the cache" (binance.go:442) with nothing: what it fetches is
  dropped. `GetETHPrice` caches a book of five levels under a key without a block.
- The key of a DEX quote has neither gas price nor block hash: a quote of the warm-up (50
  gwei) or of a replaced block of the same number may be used while it lives
  (`QuotesOfBlock` says: same number, younger than both TTLs together).
- An L2 hit enters L1 with the whole `l1MaxTTL` (a minute by default), so the "10s" and "15s" of
  docs/ARCHITECTURE.md:340 are at most that much longer (`HitWithinTTLs`).
- Fee tiers are asked one after the other, not "in parallel" (docs/ARCHITECTURE.md:226).
- The wait for a token is truncated to whole seconds, mostly zero, so waiters poll every
  10 ms (rate_limiter.go:114); `SetRate` does not refill first; a negative rate gives a
  burst of zero and no token ever.
- Shutdown closes the subscriber before it cancels the context (main.go:349): the loop may
  dial once more, and the fresh client is closed when the loop stops.
- A detector keeps the client it was given at the start (main.go:41) even after the pool
  has closed and replaced it.

## 8. Plan

Done: `Subscriber` with `BlockStream`, `Pipeline`, `CircuitBreaker`, `ClientPool`,
`LayeredCache`, then `Detectors`, `ProviderCalls`, `BlockQuotes` and `Execution`, with proofs of
every safety property.

Left, in this order: an abstract cache that `LayeredCache` implements and
`BlockQuotes` uses; the start of the program, if it becomes concurrent; the worker pool,
the adaptive limiter and the tick bitmap, once the program uses them.
