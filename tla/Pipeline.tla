------------------------------- MODULE Pipeline -------------------------------
(***************************************************************************)
(* One call of Pipeline.Process (internal/arbitrage/pipeline.go): the      *)
(* caller pushes the trade sizes, Workers fetch four quotes for each, one  *)
(* analysis goroutine turns quotes into opportunities, and the caller      *)
(* collects them.  Three bounded channels connect them, and a semaphore    *)
(* shared with the pipelines of other pairs limits the DEX quotes.         *)
(***************************************************************************)
EXTENDS Integers, Sequences, FiniteSets, SequencesExt

CONSTANTS NumSizes,     \* len(tradeSizes), at least 1
          Workers,      \* the price-fetch goroutines (p.concurrency of them)
          BufferSize,   \* p.bufferSize
          Permits,      \* the limiter's size; 0 stands for no limiter
          MaxFailures   \* bound: quotes that fail in one call of Process

ASSUME PipelineAssumption ==
    /\ NumSizes \in Nat \ {0}
    /\ IsFiniteSet(Workers) /\ Workers # {}
    /\ BufferSize \in Nat \ {0}
    /\ Permits \in Nat
    /\ MaxFailures \in Nat

VARIABLES
    caller,         \* "pushing", "draining", "returned"
    pushed,         \* sizes pushed so far; size i is the i-th
    inputCh, inputClosed,
    worker,         \* per worker: pc and the size in hand (0: none)
    dex,            \* per worker: the state of its two DEX quotes
    priceCh, priceClosed,
    analysis,       \* pc, and the opportunities it has yet to send
    outputCh, outputClosed,
    opportunities,  \* what the caller has collected
    others,         \* permits held by the pipelines of other pairs
    permits,        \* permits left
    quotes,         \* per size: the quotes that succeeded
    failures,
    ctxDone

callerVars   == <<caller, pushed, opportunities>>
inputVars    == <<inputCh, inputClosed>>
fetchVars    == <<worker, dex>>
priceVars    == <<priceCh, priceClosed>>
outputVars   == <<outputCh, outputClosed>>
limiterVars  == <<others, permits>>
quoteVars    == <<quotes, failures>>
vars == <<callerVars, inputVars, fetchVars, priceVars, analysis, outputVars,
          limiterVars, quoteVars, ctxDone>>

Sizes      == 1..NumSizes
Sides      == {"dexBuy", "dexSell"}
CEXQuotes  == {"cexBuy", "cexSell"}
Directions == {"CEXToDEX", "DEXToCEX"}
Idle       == [pc |-> "idle", size |-> 0]
NoQuotes   == [s \in Sides |-> "none"]

Init ==
    /\ caller = "pushing" /\ pushed = 0 /\ opportunities = {}
    /\ inputCh = <<>> /\ inputClosed = FALSE
    /\ worker = [w \in Workers |-> Idle]
    /\ dex = [w \in Workers |-> NoQuotes]
    /\ priceCh = <<>> /\ priceClosed = FALSE
    /\ analysis = [pc |-> "idle", todo |-> <<>>]
    /\ outputCh = <<>> /\ outputClosed = FALSE
    /\ others = 0 /\ permits = Permits
    /\ quotes = [i \in Sizes |-> {}] /\ failures = 0
    /\ ctxDone = FALSE

\* The channels, as they are made: a send waits for room.
InputRoom  == Len(inputCh) < BufferSize
PriceRoom  == Len(priceCh) < BufferSize

\* Mutant: the output has the room of the others, for twice as many values.
OutputRoomHalf == Len(outputCh) < BufferSize

\* Two opportunities may come of a size.
OutputRoom == Len(outputCh) < 2 * BufferSize

-------------------------------------------------------------------------------
(* Process: push every size, close the input, collect the output. *)

Push ==
    /\ caller = "pushing" /\ pushed < NumSizes /\ InputRoom
    /\ inputCh' = Append(inputCh, pushed + 1)
    /\ pushed' = pushed + 1
    /\ UNCHANGED <<caller, opportunities, inputClosed, fetchVars, priceVars,
                   analysis, outputVars, limiterVars, quoteVars, ctxDone>>

\* The context is cancelled while pushing: return nil at once.
PushCancelled ==
    /\ caller = "pushing" /\ pushed < NumSizes /\ ctxDone
    /\ inputClosed' = TRUE
    /\ caller' = "returned"
    /\ UNCHANGED <<pushed, opportunities, inputCh, fetchVars, priceVars,
                   analysis, outputVars, limiterVars, quoteVars, ctxDone>>

CloseInput ==
    /\ caller = "pushing" /\ pushed = NumSizes
    /\ inputClosed' = TRUE
    /\ caller' = "draining"
    /\ UNCHANGED <<pushed, opportunities, inputCh, fetchVars, priceVars,
                   analysis, outputVars, limiterVars, quoteVars, ctxDone>>

Collect ==
    /\ caller = "draining" /\ outputCh # <<>>
    /\ opportunities' = opportunities \union {Head(outputCh)}
    /\ outputCh' = Tail(outputCh)
    /\ UNCHANGED <<caller, pushed, inputVars, fetchVars, priceVars, analysis,
                   outputClosed, limiterVars, quoteVars, ctxDone>>

Return ==
    /\ caller = "draining" /\ outputCh = <<>> /\ outputClosed
    /\ caller' = "returned"
    /\ UNCHANGED <<pushed, opportunities, inputVars, fetchVars, priceVars,
                   analysis, outputVars, limiterVars, quoteVars, ctxDone>>

-------------------------------------------------------------------------------
(* priceFetchStage, one goroutine per worker. *)

\* Take a size: drop it and stop if cancelled, else start the four fetches.
TakeSize(w) ==
    /\ worker[w].pc = "idle" /\ inputCh # <<>>
    /\ inputCh' = Tail(inputCh)
    /\ IF ctxDone
       THEN /\ worker' = [worker EXCEPT ![w].pc = "done"]
            /\ UNCHANGED dex
       ELSE /\ worker' = [worker EXCEPT ![w] = [pc   |-> "fetching",
                                                size |-> Head(inputCh)]]
            /\ dex' = [dex EXCEPT ![w] = [s \in Sides |-> "waiting"]]
    /\ UNCHANGED <<callerVars, inputClosed, priceVars, analysis, outputVars,
                   limiterVars, quoteVars, ctxDone>>

InputEnds(w) ==
    /\ worker[w].pc = "idle" /\ inputCh = <<>> /\ inputClosed
    /\ worker' = [worker EXCEPT ![w].pc = "done"]
    /\ UNCHANGED <<callerVars, inputVars, dex, priceVars, analysis, outputVars,
                   limiterVars, quoteVars, ctxDone>>

Acquire(w, s) ==
    /\ dex[w][s] = "waiting"
    /\ IF Permits = 0 THEN UNCHANGED permits
                      ELSE permits > 0 /\ permits' = permits - 1
    /\ dex' = [dex EXCEPT ![w][s] = "quoting"]
    /\ UNCHANGED <<callerVars, inputVars, worker, priceVars, analysis,
                   outputVars, others, quoteVars, ctxDone>>

\* Mutant: the release is deferred before the acquire can fail.
AcquireCancelledReleases(w, s) ==
    /\ dex[w][s] = "waiting" /\ ctxDone /\ Permits > 0
    /\ dex' = [dex EXCEPT ![w][s] = "failed"]
    /\ permits' = permits + 1
    /\ UNCHANGED <<callerVars, inputVars, worker, priceVars, analysis,
                   outputVars, others, quoteVars, ctxDone>>

\* A wait for the limiter ends with the context; no permit is held.
AcquireCancelled(w, s) ==
    /\ dex[w][s] = "waiting" /\ ctxDone /\ Permits > 0
    /\ dex' = [dex EXCEPT ![w][s] = "failed"]
    /\ UNCHANGED <<callerVars, inputVars, worker, priceVars, analysis,
                   outputVars, limiterVars, quoteVars, ctxDone>>

\* Mutant: the permit is released only when the quote succeeds.
ReleaseOnSuccess(w, s) ==
    permits' = IF Permits > 0 /\ dex'[w][s] = "ok" THEN permits + 1 ELSE permits

\* The deferred Release(1).
Release(w, s) == permits' = IF Permits > 0 THEN permits + 1 ELSE permits

\* The DEX answers; it may fail, and once cancelled it may fail for nothing.
Quote(w, s) ==
    /\ dex[w][s] = "quoting"
    /\ \/ /\ dex' = [dex EXCEPT ![w][s] = "ok"]
          /\ UNCHANGED failures
       \/ /\ dex' = [dex EXCEPT ![w][s] = "failed"]
          /\ IF ctxDone THEN UNCHANGED failures
                        ELSE failures < MaxFailures /\ failures' = failures + 1
    /\ Release(w, s)
    /\ UNCHANGED <<callerVars, inputVars, worker, priceVars, analysis,
                   outputVars, others, quotes, ctxDone>>

\* wg.Wait() returns: both DEX quotes are over, and so are the two CEX quotes.
FetchDone(w) ==
    /\ worker[w].pc = "fetching"
    /\ \A s \in Sides : dex[w][s] \in {"ok", "failed"}
    /\ \E cex \in SUBSET CEXQuotes :
          /\ LET failed == Cardinality(CEXQuotes \ cex)
             IN  IF ctxDone
                 THEN UNCHANGED failures
                 ELSE /\ failures + failed <= MaxFailures
                      /\ failures' = failures + failed
          /\ quotes' = [quotes EXCEPT ![worker[w].size] =
                            cex \union {s \in Sides : dex[w][s] = "ok"}]
    /\ worker' = [worker EXCEPT ![w].pc = "sending"]
    /\ dex' = [dex EXCEPT ![w] = NoQuotes]
    /\ UNCHANGED <<callerVars, inputVars, priceVars, analysis, outputVars,
                   limiterVars, ctxDone>>

SendPrices(w) ==
    /\ worker[w].pc = "sending" /\ PriceRoom
    /\ priceCh' = Append(priceCh, worker[w].size)
    /\ worker' = [worker EXCEPT ![w] = Idle]
    /\ UNCHANGED <<callerVars, inputVars, dex, priceClosed, analysis,
                   outputVars, limiterVars, quoteVars, ctxDone>>

SendPricesCancelled(w) ==
    /\ worker[w].pc = "sending" /\ ctxDone
    /\ worker' = [worker EXCEPT ![w].pc = "done"]
    /\ UNCHANGED <<callerVars, inputVars, dex, priceVars, analysis, outputVars,
                   limiterVars, quoteVars, ctxDone>>

\* Mutant: the price channel is closed when the first worker ends.
WorkersDoneAny == \E w \in Workers : worker[w].pc = "done"

\* priceWg.Wait()
WorkersDone == \A w \in Workers : worker[w].pc = "done"

ClosePrices ==
    /\ ~priceClosed /\ WorkersDone
    /\ priceClosed' = TRUE
    /\ UNCHANGED <<callerVars, inputVars, fetchVars, priceCh, analysis,
                   outputVars, limiterVars, quoteVars, ctxDone>>

-------------------------------------------------------------------------------
(* analysisStage, one goroutine. *)

\* Mutant: the CEX price of the other side is tested for the second direction.
FoundOneSide(i) ==
    IF Sides \subseteq quotes[i] /\ "cexBuy" \in quotes[i]
    THEN << <<i, "CEXToDEX">>, <<i, "DEXToCEX">> >> ELSE <<>>

\* Mutant: the second opportunity is built with the direction of the first.
FoundTwice(i) ==
    IF Sides \subseteq quotes[i]
    THEN (IF "cexBuy" \in quotes[i] THEN << <<i, "CEXToDEX">> >> ELSE <<>>)
         \o (IF "cexSell" \in quotes[i] THEN << <<i, "CEXToDEX">> >> ELSE <<>>)
    ELSE <<>>

\* The opportunities of size i, in the order sent.  A direction needs its CEX
\* price, and both need both DEX prices.
Found(i) ==
    IF Sides \subseteq quotes[i]
    THEN (IF "cexBuy" \in quotes[i] THEN << <<i, "CEXToDEX">> >> ELSE <<>>)
         \o (IF "cexSell" \in quotes[i] THEN << <<i, "DEXToCEX">> >> ELSE <<>>)
    ELSE <<>>

Analyze ==
    /\ analysis.pc = "idle" /\ analysis.todo = <<>> /\ priceCh # <<>>
    /\ priceCh' = Tail(priceCh)
    /\ analysis' = IF ctxDone
                   THEN [analysis EXCEPT !.pc = "done"]
                   ELSE [analysis EXCEPT !.todo = Found(Head(priceCh))]
    /\ UNCHANGED <<callerVars, inputVars, fetchVars, priceClosed, outputVars,
                   limiterVars, quoteVars, ctxDone>>

SendOpportunity ==
    /\ analysis.pc = "idle" /\ analysis.todo # <<>> /\ OutputRoom
    /\ outputCh' = Append(outputCh, Head(analysis.todo))
    /\ analysis' = [analysis EXCEPT !.todo = Tail(@)]
    /\ UNCHANGED <<callerVars, inputVars, fetchVars, priceVars, outputClosed,
                   limiterVars, quoteVars, ctxDone>>

\* Mutant: the send of an opportunity does not select on the context.
SendOpportunityBlocks == FALSE

SendOpportunityCancelled ==
    /\ analysis.pc = "idle" /\ analysis.todo # <<>> /\ ctxDone
    /\ analysis' = [pc |-> "done", todo |-> <<>>]
    /\ UNCHANGED <<callerVars, inputVars, fetchVars, priceVars, outputVars,
                   limiterVars, quoteVars, ctxDone>>

PricesEnd ==
    /\ analysis.pc = "idle" /\ analysis.todo = <<>>
    /\ priceCh = <<>> /\ priceClosed
    /\ analysis' = [analysis EXCEPT !.pc = "done"]
    /\ UNCHANGED <<callerVars, inputVars, fetchVars, priceVars, outputVars,
                   limiterVars, quoteVars, ctxDone>>

CloseOutput ==
    /\ ~outputClosed /\ analysis.pc = "done"
    /\ outputClosed' = TRUE
    /\ UNCHANGED <<callerVars, inputVars, fetchVars, priceVars, analysis,
                   outputCh, limiterVars, quoteVars, ctxDone>>

-------------------------------------------------------------------------------
(* The surroundings. *)

Cancel ==
    /\ ~ctxDone /\ ctxDone' = TRUE
    /\ UNCHANGED <<callerVars, inputVars, fetchVars, priceVars, analysis,
                   outputVars, limiterVars, quoteVars>>

\* Pipelines of other pairs share the limiter.
OthersAcquire ==
    /\ permits > 0 /\ permits' = permits - 1 /\ others' = others + 1
    /\ UNCHANGED <<callerVars, inputVars, fetchVars, priceVars, analysis,
                   outputVars, quoteVars, ctxDone>>

OthersRelease ==
    /\ others > 0 /\ others' = others - 1 /\ permits' = permits + 1
    /\ UNCHANGED <<callerVars, inputVars, fetchVars, priceVars, analysis,
                   outputVars, quoteVars, ctxDone>>

\* The call has returned and every goroutine it started has ended.
Ended == caller = "returned" /\ WorkersDone /\ priceClosed /\ outputClosed

Stopped == Ended /\ UNCHANGED vars

Process ==
    Push \/ PushCancelled \/ CloseInput \/ Collect \/ Return
Fetch(w) ==
    \/ TakeSize(w) \/ InputEnds(w) \/ FetchDone(w)
    \/ SendPrices(w) \/ SendPricesCancelled(w)
Limited(w, s) == Acquire(w, s) \/ AcquireCancelled(w, s)
Analysis == Analyze \/ SendOpportunity \/ SendOpportunityCancelled \/ PricesEnd

Next ==
    \/ Process \/ ClosePrices \/ Analysis \/ CloseOutput
    \/ \E w \in Workers : Fetch(w)
    \/ \E w \in Workers, s \in Sides : Limited(w, s) \/ Quote(w, s)
    \/ Cancel \/ OthersAcquire \/ OthersRelease \/ Stopped

Spec == Init /\ [][Next]_vars

(***************************************************************************)
(* Fairness.  Every goroutine is scheduled.  Quotes return: those of the   *)
(* exchange by the timeout of their HTTP client, those of the node because *)
(* it is assumed to answer (they have no deadline; Detectors says what     *)
(* hangs on it).  The semaphore serves its waiters in order, so a wait is  *)
(* not overtaken for ever (SF).  Cancellation is not owed.                 *)
(***************************************************************************)
Fairness ==
    /\ WF_vars(Process) /\ WF_vars(ClosePrices)
    /\ WF_vars(Analysis) /\ WF_vars(CloseOutput)
    /\ \A w \in Workers : WF_vars(Fetch(w))
    /\ \A w \in Workers, s \in Sides :
          SF_vars(Limited(w, s)) /\ WF_vars(Quote(w, s))
    /\ WF_vars(OthersRelease)

FairSpec == Spec /\ Fairness

-------------------------------------------------------------------------------
(* Properties. *)

TypeOK ==
    /\ caller \in {"pushing", "draining", "returned"}
    /\ pushed \in 0..NumSizes
    /\ inputCh \in Seq(Sizes) /\ Len(inputCh) <= BufferSize
    /\ inputClosed \in BOOLEAN
    /\ worker \in [Workers -> [pc : {"idle", "fetching", "sending", "done"},
                               size : 0..NumSizes]]
    /\ dex \in [Workers -> [Sides -> {"none", "waiting", "quoting", "ok",
                                      "failed"}]]
    /\ priceCh \in Seq(Sizes) /\ Len(priceCh) <= BufferSize
    /\ priceClosed \in BOOLEAN
    /\ analysis \in [pc : {"idle", "done"}, todo : Seq(Sizes \X Directions)]
    /\ outputCh \in Seq(Sizes \X Directions) /\ Len(outputCh) <= 2 * BufferSize
    /\ outputClosed \in BOOLEAN
    /\ opportunities \subseteq Sizes \X Directions
    /\ others \in 0..Permits /\ permits \in 0..Permits
    /\ quotes \in [Sizes -> SUBSET (CEXQuotes \union Sides)]
    /\ failures \in 0..MaxFailures
    /\ ctxDone \in BOOLEAN

\* An uncancelled call returns an opportunity for exactly the sizes and
\* directions that were fully quoted: no worker, channel or early end loses one.
Quoted(i) ==
    {d \in Directions :
        /\ Sides \subseteq quotes[i]
        /\ d = "CEXToDEX" => "cexBuy" \in quotes[i]
        /\ d = "DEXToCEX" => "cexSell" \in quotes[i]}

CompleteResult ==
    caller = "returned" /\ ~ctxDone =>
        opportunities = {o \in Sizes \X Directions : o[2] \in Quoted(o[1])}

\* No goroutine can still send on a channel that is closed.
NoSendAfterClose ==
    /\ inputClosed => caller # "pushing"
    /\ priceClosed => \A w \in Workers : worker[w].pc # "sending"
                                         /\ worker[w].pc # "fetching"
    /\ outputClosed => analysis.todo = <<>>

\* The limiter is never overdrawn and gets every permit back, whichever way a
\* quote ends: permits left, lent to this call and lent to others add up.
Quoting == {ws \in Workers \X Sides : dex[ws[1]][ws[2]] = "quoting"}
PermitsConserved ==
    Permits > 0 => permits + others + Cardinality(Quoting) = Permits

\* No opportunity is sent twice, whatever workers and channels do with its size.
SentOnce ==
    [][Len(outputCh') > Len(outputCh) =>
         Last(outputCh') \notin opportunities \union ToSet(outputCh)]_vars

\* Who can take a step of its own, without a cancellation to come.
CallerGoesOn ==
    \/ caller = "pushing" /\ (pushed = NumSizes \/ InputRoom \/ ctxDone)
    \/ caller = "draining" /\ (outputCh # <<>> \/ outputClosed)
WorkerGoesOn(w) ==
    \/ worker[w].pc = "idle" /\ (inputCh # <<>> \/ inputClosed)
    \/ /\ worker[w].pc = "fetching"
       /\ \/ \A s \in Sides : dex[w][s] \in {"ok", "failed"}
          \/ \E s \in Sides :
                \/ dex[w][s] = "quoting"
                \/ dex[w][s] = "waiting" /\ (Permits = 0 \/ permits > 0 \/ ctxDone)
    \/ worker[w].pc = "sending" /\ (PriceRoom \/ ctxDone)
AnalysisGoesOn ==
    /\ analysis.pc = "idle"
    /\ \/ analysis.todo = <<>> /\ (priceCh # <<>> \/ priceClosed)
       \/ analysis.todo # <<>> /\ (OutputRoom \/ ctxDone)
CloserGoesOn ==
    \/ ~priceClosed /\ WorkersDone
    \/ ~outputClosed /\ analysis.pc = "done"

\* Caller, workers, analysis, closers and the pipelines that share the limiter never
\* all wait on each other, as long as the three buffers and the hands of the goroutines
\* can take all the sizes before the caller collects anything (Process pushes first and
\* collects last).  The output takes two opportunities for a size, so it counts once.
Capacity == 3 * BufferSize + Cardinality(Workers) + 1
NeverStuck ==
    NumSizes <= Capacity =>
        \/ Ended \/ CallerGoesOn \/ \E w \in Workers : WorkerGoesOn(w)
        \/ AnalysisGoesOn \/ CloserGoesOn \/ others > 0

\* Process returns and all its goroutines end, cancelled or not, within Capacity.
ProcessEnds == <>Ended

\* "verifies that pipeline handles backpressure correctly"
\* (internal/arbitrage/pipeline_test.go:159): however many sizes are pushed,
\* Process returns.
BackpressureHandled == <>(caller = "returned")
===============================================================================
