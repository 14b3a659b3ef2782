------------------------------ MODULE Subscriber ------------------------------
(***************************************************************************)
(* The block subscriber (internal/blockchain/subscriber.go): the           *)
(* subscription loop that streams block headers from a WebSocket, falls    *)
(* back to polling over HTTP, backfills gaps, and reconnects; the          *)
(* heartbeat goroutine; and the calls the program makes from outside       *)
(* (cancel the context, Close, receive from the two channels).             *)
(*                                                                         *)
(* A block is its number.  A fork that replaces the head re-announces the  *)
(* same number.  Numbers start at 1, so Block.IsValid never fails here.    *)
(***************************************************************************)
EXTENDS Integers, Sequences

CONSTANTS NumURLs,        \* len(wsURLs)
          MaxWSFailures,  \* s.maxWSFailures
          BlockCap,       \* capacity of blockCh (10 in the code)
          ErrCap,         \* capacity of errCh (10 in the code)
          WireCap,        \* headers a subscription may hold unread
          MaxBlock,       \* bound: the chain grows to this height
          MaxFaults       \* bound: faults of nodes and network in a behaviour

ASSUME SubscriberAssumption ==
    /\ NumURLs \in Nat \ {0}
    /\ MaxWSFailures \in Nat \ {0}
    /\ BlockCap \in Nat \ {0}
    /\ ErrCap \in Nat
    /\ WireCap \in Nat \ {0}
    /\ MaxBlock \in Nat \ {0}
    /\ MaxFaults \in Nat

VARIABLES
    hasPool,          \* clientPool # nil, fixed by NewSubscriber
    \* the subscription loop
    pc,               \* where the loop's goroutine is
    wsMode,           \* TRUE while the loop uses the WebSocket
    wsFailureCount,   \* s.wsFailureCount
    lastBlockNumber,  \* s.lastBlockNumber
    job,              \* the header in hand (hi) and the next missing block (lo)
    \* the connection
    client,           \* s.client: "none", "live", or "dead" (connection lost)
    isConnected,      \* s.isConnected
    currentURLIdx,    \* s.currentURLIdx
    sub,              \* the head subscription: "none", "active", "broken"
    wire,             \* headers of the subscription not yet read
    \* the heartbeat
    hb,               \* "idle", "checking", "marking"
    \* channels and context
    blockCh, errCh, ctxDone, closeCalled,
    \* the outside: the chain, what the nodes have seen of it, reachability
    head, wsHead, poolHead, up, faults,
    \* history: blocks sent to blockCh, blocks given up, clients never closed
    seen, skipped, leaked, fellBack

loopVars    == <<wsMode, wsFailureCount, lastBlockNumber, job>>
connVars    == <<client, isConnected, currentURLIdx>>
streamVars  == <<sub, wire>>
callerVars  == <<ctxDone, closeCalled>>
chainVars   == <<head, wsHead, poolHead, up>>
historyVars == <<seen, skipped, leaked, fellBack>>
vars == <<hasPool, pc, loopVars, connVars, streamVars, hb, blockCh, errCh,
          callerVars, chainVars, faults, historyVars>>

Blocks == 1..MaxBlock
URLs   == 0..(NumURLs - 1)
NoJob  == [lo |-> 0, hi |-> 0]

\* One more fault of a node or of the network.
Fault == faults < MaxFaults /\ faults' = faults + 1

-------------------------------------------------------------------------------
\* Mutant: disconnect() clears the flag and keeps the client.
DisconnectFlagOnly ==
    /\ isConnected' = FALSE
    /\ UNCHANGED <<client, currentURLIdx>>

\* disconnect(): closes the client, if there is one, and forgets it.
Disconnect ==
    /\ client' = "none"
    /\ isConnected' = FALSE
    /\ UNCHANGED currentURLIdx

\* connect() holds s.mu while it dials and verifies.
MutexFree == pc # "dialing"

\* Subscribe(): the first connection, and the mode the loop starts in.  With no
\* pool a failed first connection is returned as an error and nothing starts.
Init ==
    /\ hasPool \in BOOLEAN
    /\ up \in SUBSET URLs
    /\ 0 \in up \/ hasPool
    /\ wsMode \in BOOLEAN /\ (wsMode <=> 0 \in up)
    /\ client = IF wsMode THEN "live" ELSE "none"
    /\ isConnected = wsMode
    /\ currentURLIdx = IF wsMode THEN 0 ELSE 1 % NumURLs
    /\ pc = "top"
    /\ wsFailureCount = 0
    /\ lastBlockNumber = 0
    /\ job = NoJob
    /\ sub = "none" /\ wire = <<>>
    /\ hb = "idle"
    /\ blockCh = <<>> /\ errCh = 0
    /\ ctxDone = FALSE /\ closeCalled = FALSE
    /\ head = 1 /\ wsHead \in {0, 1} /\ poolHead = 1
    /\ faults = 0
    /\ seen = {} /\ skipped = {} /\ leaked = FALSE /\ fellBack = FALSE

-------------------------------------------------------------------------------
(* The subscription loop. *)

\* Top of the loop with the context cancelled: disconnect, close both channels.
LoopStop ==
    /\ pc = "top" /\ ctxDone
    /\ Disconnect
    /\ pc' = "done"
    /\ UNCHANGED <<hasPool, loopVars, streamVars, hb, blockCh, errCh,
                   callerVars, chainVars, faults, historyVars>>

\* subscribeToBlocks up to its select: fails on a missing or lost client.
SubscribeNewHead ==
    /\ pc = "top" /\ ~ctxDone /\ wsMode
    /\ IF client = "live"
       THEN pc' = "streaming" /\ sub' = "active" /\ wire' = <<>>
       ELSE pc' = "failed" /\ UNCHANGED streamVars
    /\ UNCHANGED <<hasPool, loopVars, connVars, hb, blockCh, errCh,
                   callerVars, chainVars, faults, historyVars>>

StartPolling ==
    /\ pc = "top" /\ ~ctxDone /\ ~wsMode
    /\ pc' = "polling"
    /\ UNCHANGED <<hasPool, loopVars, connVars, streamVars, hb, blockCh,
                   errCh, callerVars, chainVars, faults, historyVars>>

\* subscribeToBlocks returns an error; its deferred Unsubscribe ends the stream.
ReturnSubscribeError ==
    /\ pc' = "failed"
    /\ sub' = "none" /\ wire' = <<>>

\* The select of subscribeToBlocks: the context, or the subscription's error.
StreamEnds ==
    /\ pc = "streaming" /\ (ctxDone \/ sub = "broken")
    /\ ReturnSubscribeError
    /\ UNCHANGED <<hasPool, loopVars, connVars, hb, blockCh, errCh,
                   callerVars, chainVars, faults, historyVars>>

\* No header for messageTimeout: the node has gone silent.
MessageTimeout ==
    /\ pc = "streaming"
    /\ Fault
    /\ ReturnSubscribeError
    /\ UNCHANGED <<hasPool, loopVars, connVars, hb, blockCh, errCh,
                   callerVars, chainVars, historyVars>>

\* Mutant: a single missing block is not seen as a gap.
GapMissesOne(n) ==
    IF lastBlockNumber > 0 THEN (lastBlockNumber + 2)..(n - 1) ELSE {}

\* The blocks between the last one and n that a gap check finds missing.
Gap(n) == IF lastBlockNumber > 0 THEN (lastBlockNumber + 1)..(n - 1) ELSE {}

GiveUp(S) == skipped' = skipped \union (S \ seen)

\* lastBlockNumber is set before the block is sent.
AdvanceTo(n) ==
    /\ lastBlockNumber' = n
    /\ job' = [lo |-> n, hi |-> n]
    /\ pc' = "sendHead"

\* Mutant: the backfill starts one block late.
BackfillStartLate == lastBlockNumber + 2

\* The first argument of backfillBlocks.
BackfillStart == lastBlockNumber + 1

\* A header arrives.  A gap is backfilled first when there is a pool.
ReceiveHeader ==
    /\ pc = "streaming" /\ wire # <<>>
    /\ wire' = Tail(wire)
    /\ LET n == Head(wire)
       IN  IF hasPool /\ Gap(n) # {}
           THEN /\ job' = [lo |-> BackfillStart, hi |-> n]
                /\ pc' = "fetch"
                /\ UNCHANGED <<lastBlockNumber, skipped>>
           ELSE AdvanceTo(n) /\ GiveUp(Gap(n))
    /\ UNCHANGED <<hasPool, wsMode, wsFailureCount, connVars, sub, hb, blockCh,
                   errCh, callerVars, chainVars, faults, seen, leaked, fellBack>>

-------------------------------------------------------------------------------
(* Backfill: the blocks job.lo .. job.hi - 1, then the header job.hi. *)

\* The backfill returns an error: logged, "continue anyway with current block".
AbandonBackfill ==
    /\ GiveUp(job.lo..(job.hi - 1))
    /\ AdvanceTo(job.hi)

BackfillFetch ==
    /\ pc = "fetch" /\ ~ctxDone
    /\ job.lo <= head
    /\ pc' = "sendGap"
    /\ UNCHANGED <<hasPool, loopVars, connVars, streamVars, hb, blockCh,
                   errCh, callerVars, chainVars, faults, historyVars>>

\* The context is cancelled, no endpoint answers, or the endpoint lags.
BackfillFails ==
    /\ pc = "fetch"
    /\ \/ (ctxDone \/ poolHead < job.lo) /\ UNCHANGED faults
       \/ Fault
    /\ AbandonBackfill
    /\ UNCHANGED <<hasPool, wsMode, wsFailureCount, connVars, streamVars, hb,
                   blockCh, errCh, callerVars, chainVars, seen, leaked, fellBack>>

Send(n) ==
    /\ Len(blockCh) < BlockCap
    /\ blockCh' = Append(blockCh, n)
    /\ seen' = seen \union {n}

SendBackfilled ==
    /\ pc = "sendGap"
    /\ Send(job.lo)
    /\ IF job.lo + 1 = job.hi
       THEN AdvanceTo(job.hi)
       ELSE /\ job' = [job EXCEPT !.lo = @ + 1]
            /\ pc' = "fetch"
            /\ UNCHANGED lastBlockNumber
    /\ UNCHANGED <<hasPool, wsMode, wsFailureCount, connVars, streamVars, hb,
                   errCh, callerVars, chainVars, faults, skipped, leaked, fellBack>>

SendBackfilledCancelled ==
    /\ pc = "sendGap" /\ ctxDone
    /\ AbandonBackfill
    /\ UNCHANGED <<hasPool, wsMode, wsFailureCount, connVars, streamVars, hb,
                   blockCh, errCh, callerVars, chainVars, faults, seen, leaked,
                   fellBack>>

\* processBlock for the header in hand, in either mode.
SendHead ==
    /\ pc = "sendHead"
    /\ Send(job.hi)
    /\ job' = NoJob
    /\ pc' = IF wsMode THEN "streaming" ELSE "polling"
    /\ UNCHANGED <<hasPool, wsMode, wsFailureCount, lastBlockNumber, connVars,
                   streamVars, hb, errCh, callerVars, chainVars, faults,
                   skipped, leaked, fellBack>>

\* Mutant: processBlock sends without selecting on the context.
SendHeadBlocks == FALSE

SendHeadCancelled ==
    /\ pc = "sendHead" /\ ctxDone
    /\ GiveUp({job.hi})
    /\ job' = NoJob
    /\ IF wsMode
       THEN ReturnSubscribeError
       ELSE pc' = "pollFailed" /\ UNCHANGED streamVars
    /\ UNCHANGED <<hasPool, wsMode, wsFailureCount, lastBlockNumber, connVars,
                   hb, blockCh, errCh, callerVars, chainVars, faults, seen,
                   leaked, fellBack>>

-------------------------------------------------------------------------------
(* After a WebSocket failure: fall back, or disconnect, wait and redial. *)

\* Non-blocking send: a full error channel drops the error.
SendErr == errCh' = IF errCh < ErrCap THEN errCh + 1 ELSE errCh

\* Mutant: the switch comes one failure late.
MustFallBackLate == hasPool /\ wsFailureCount >= MaxWSFailures

\* shouldSwitchToHTTP, once this failure is counted.
MustFallBack == hasPool /\ wsFailureCount + 1 >= MaxWSFailures

\* The switch to HTTP leaves the old client in place.
FallBackToHTTP ==
    /\ pc = "failed" /\ MustFallBack
    /\ SendErr
    /\ wsFailureCount' = wsFailureCount + 1
    /\ wsMode' = FALSE
    /\ fellBack' = TRUE
    /\ pc' = "top"
    /\ UNCHANGED <<hasPool, lastBlockNumber, job, connVars, streamVars, hb,
                   blockCh, callerVars, chainVars, faults, seen, skipped, leaked>>

\* Without a pool nothing reads the count, and it is not kept.
PrepareReconnect ==
    /\ pc = "failed" /\ ~MustFallBack
    /\ SendErr
    /\ wsFailureCount' = IF hasPool THEN wsFailureCount + 1 ELSE 0
    /\ Disconnect
    /\ pc' = "delay"
    /\ UNCHANGED <<hasPool, wsMode, lastBlockNumber, job, streamVars, hb,
                   blockCh, callerVars, chainVars, faults, historyVars>>

\* The wait returns from the loop on cancellation, or goes on to connect().
DelayOver ==
    /\ pc = "delay"
    /\ pc' = "dialing"
    /\ UNCHANGED <<hasPool, loopVars, connVars, streamVars, hb, blockCh,
                   errCh, callerVars, chainVars, faults, historyVars>>

WaitCancelled ==
    /\ pc \in {"delay", "pollWait"} /\ ctxDone
    /\ pc' = "done"
    /\ UNCHANGED <<hasPool, loopVars, connVars, streamVars, hb, blockCh,
                   errCh, callerVars, chainVars, faults, historyVars>>

\* connect() succeeds: a client still in place is overwritten, never closed.
\* The node behind the URL has seen the chain up to one block behind the head.
DialSucceeds ==
    /\ pc = "dialing" /\ ~ctxDone /\ currentURLIdx \in up
    /\ client' = "live" /\ isConnected' = TRUE
    /\ leaked' = (leaked \/ client # "none")
    /\ wsHead' \in {head - 1, head}
    /\ wsFailureCount' = 0
    /\ wsMode' = TRUE
    /\ pc' = "top"
    /\ UNCHANGED <<hasPool, lastBlockNumber, job, currentURLIdx, streamVars,
                   hb, blockCh, errCh, callerVars, head, poolHead, up,
                   faults, seen, skipped, fellBack>>

\* Mutant: the index runs off the end of wsURLs.
NextURLNoWrap == currentURLIdx + 1

NextURL == (currentURLIdx + 1) % NumURLs

\* connect() fails and moves to the next URL.  Polling counts it as one failure.
DialFails ==
    /\ pc = "dialing" /\ (ctxDone \/ currentURLIdx \notin up)
    /\ currentURLIdx' = NextURL
    /\ wsFailureCount' = IF wsMode THEN wsFailureCount ELSE 1
    /\ pc' = "top"
    /\ UNCHANGED <<hasPool, wsMode, lastBlockNumber, job, client, isConnected,
                   streamVars, hb, blockCh, errCh, callerVars, chainVars,
                   faults, historyVars>>

-------------------------------------------------------------------------------
(* HTTP polling.  A tick that finds nothing new changes nothing. *)

\* Mutant: the block after the last one does not count as new.
IsNewLate(n) == n > lastBlockNumber + 1

IsNew(n) == n > lastBlockNumber

\* A tick that finds a newer block.  A gap is logged and not backfilled.
PollNewBlock ==
    /\ pc = "polling" /\ ~ctxDone
    /\ \E n \in poolHead..head :
          /\ IsNew(n)
          /\ AdvanceTo(n)
          /\ GiveUp(Gap(n))
    /\ UNCHANGED <<hasPool, wsMode, wsFailureCount, connVars, streamVars, hb,
                   blockCh, errCh, callerVars, chainVars, faults, seen, leaked,
                   fellBack>>

\* The context is cancelled, an endpoint fails, or the second endpoint asked
\* does not have the block the first one reported yet.
PollFails ==
    /\ pc = "polling"
    /\ \/ /\ ctxDone \/ (poolHead < head /\ lastBlockNumber < head)
          /\ UNCHANGED faults
       \/ Fault
    /\ pc' = "pollFailed"
    /\ UNCHANGED <<hasPool, loopVars, connVars, streamVars, hb, blockCh,
                   errCh, callerVars, chainVars, historyVars>>

ReportPollError ==
    /\ pc = "pollFailed"
    /\ SendErr
    /\ pc' = "pollWait"
    /\ UNCHANGED <<hasPool, loopVars, connVars, streamVars, hb, blockCh,
                   callerVars, chainVars, faults, historyVars>>

\* The failure count decays; at zero the WebSocket is tried again.
PollWaitOver ==
    /\ pc = "pollWait"
    /\ wsFailureCount' = IF wsFailureCount > 0 THEN wsFailureCount - 1 ELSE 0
    /\ pc' = IF wsFailureCount <= 1 THEN "dialing" ELSE "top"
    /\ UNCHANGED <<hasPool, wsMode, lastBlockNumber, job, connVars, streamVars,
                   hb, blockCh, errCh, callerVars, chainVars, faults,
                   historyVars>>

-------------------------------------------------------------------------------
(* The heartbeat goroutine: read the client, ask it, perhaps mark it. *)

HeartbeatStart ==
    /\ hb = "idle" /\ MutexFree
    /\ isConnected /\ client # "none"
    /\ hb' = "checking"
    /\ UNCHANGED <<hasPool, pc, loopVars, connVars, streamVars, blockCh,
                   errCh, callerVars, chainVars, faults, historyVars>>

\* The check is over.  It has failed and the last message is older than
\* messageTimeout (time is not modelled: it may have passed), or it is ignored.
HeartbeatVerdict ==
    /\ hb = "checking"
    /\ hb' \in {"idle", "marking"}
    /\ UNCHANGED <<hasPool, pc, loopVars, connVars, streamVars, blockCh,
                   errCh, callerVars, chainVars, faults, historyVars>>

\* The lock is taken again, whatever has happened to the client meanwhile.
HeartbeatMark ==
    /\ hb = "marking" /\ MutexFree
    /\ hb' = "idle"
    /\ isConnected' = FALSE
    /\ UNCHANGED <<hasPool, pc, loopVars, client, currentURLIdx, streamVars,
                   blockCh, errCh, callerVars, chainVars, faults,
                   historyVars>>

-------------------------------------------------------------------------------
(* The program around the subscriber. *)

Cancel ==
    /\ ~ctxDone /\ ctxDone' = TRUE
    /\ UNCHANGED <<hasPool, pc, loopVars, connVars, streamVars, hb, blockCh,
                   errCh, closeCalled, chainVars, faults, historyVars>>

\* Close() disconnects under the loop, which sees its subscription end.
Close ==
    /\ ~closeCalled /\ closeCalled' = TRUE
    /\ MutexFree
    /\ Disconnect
    /\ sub' = IF sub = "active" THEN "broken" ELSE sub
    /\ UNCHANGED <<hasPool, pc, loopVars, wire, hb, blockCh, errCh, ctxDone,
                   chainVars, faults, historyVars>>

TakeBlock ==
    /\ blockCh # <<>> /\ blockCh' = Tail(blockCh)
    /\ UNCHANGED <<hasPool, pc, loopVars, connVars, streamVars, hb, errCh,
                   callerVars, chainVars, faults, historyVars>>

TakeError ==
    /\ errCh > 0 /\ errCh' = errCh - 1
    /\ UNCHANGED <<hasPool, pc, loopVars, connVars, streamVars, hb, blockCh,
                   callerVars, chainVars, faults, historyVars>>

-------------------------------------------------------------------------------
(* The chain and the nodes. *)

ChainGrows ==
    /\ head < MaxBlock /\ head' = head + 1
    /\ UNCHANGED <<hasPool, pc, loopVars, connVars, streamVars, hb, blockCh,
                   errCh, callerVars, wsHead, poolHead, up, faults, historyVars>>

\* The WebSocket node sees the next block, and announces it to a subscriber.
NodeSeesBlock ==
    /\ wsHead < head /\ wsHead' = wsHead + 1
    /\ sub = "active" => Len(wire) < WireCap
    /\ wire' = IF sub = "active" THEN Append(wire, wsHead + 1) ELSE wire
    /\ UNCHANGED <<hasPool, pc, loopVars, connVars, sub, hb, blockCh, errCh,
                   callerVars, head, poolHead, up, faults, historyVars>>

\* A subscription that is left unread too long, or is dropped by the node, ends.
SubscriptionDropped ==
    /\ sub = "active" /\ sub' = "broken"
    /\ Fault
    /\ UNCHANGED <<hasPool, pc, loopVars, connVars, wire, hb, blockCh, errCh,
                   callerVars, chainVars, historyVars>>

\* A fork replaces the node's head: the same number is announced again.
NodeReorgs ==
    /\ sub = "active" /\ wire = <<>> /\ wsHead = head
    /\ wire' = <<wsHead>>
    /\ UNCHANGED <<hasPool, pc, loopVars, connVars, sub, hb, blockCh, errCh,
                   callerVars, chainVars, faults, historyVars>>

\* The slowest endpoint of the pool sees the next block.
PoolSeesBlock ==
    /\ poolHead < head /\ poolHead' = poolHead + 1
    /\ UNCHANGED <<hasPool, pc, loopVars, connVars, streamVars, hb, blockCh,
                   errCh, callerVars, head, wsHead, up, faults, historyVars>>

\* A WebSocket endpoint goes down; a connection to it is lost.
Outage(u) ==
    /\ u \in up /\ up' = up \ {u}
    /\ Fault
    /\ IF u = currentURLIdx /\ client = "live"
       THEN /\ client' = "dead"
            /\ sub' = IF sub = "active" THEN "broken" ELSE sub
       ELSE UNCHANGED <<client, sub>>
    /\ UNCHANGED <<hasPool, pc, loopVars, isConnected, currentURLIdx, wire,
                   hb, blockCh, errCh, callerVars, head, wsHead, poolHead,
                   historyVars>>

Recovery(u) ==
    /\ u \in URLs \ up /\ up' = up \union {u}
    /\ UNCHANGED <<hasPool, pc, loopVars, connVars, streamVars, hb, blockCh,
                   errCh, callerVars, head, wsHead, poolHead, faults, historyVars>>

-------------------------------------------------------------------------------
\* A stopped loop: both channels are closed and nothing more is sent.
Stopped == pc = "done" /\ UNCHANGED vars

Loop ==
    \/ LoopStop \/ SubscribeNewHead \/ StartPolling
    \/ StreamEnds \/ MessageTimeout \/ ReceiveHeader
    \/ BackfillFetch \/ BackfillFails \/ SendBackfilled \/ SendBackfilledCancelled
    \/ SendHead \/ SendHeadCancelled
    \/ FallBackToHTTP \/ PrepareReconnect \/ DelayOver \/ WaitCancelled
    \/ DialSucceeds \/ DialFails
    \/ PollNewBlock \/ PollFails \/ ReportPollError \/ PollWaitOver
Heartbeat == HeartbeatStart \/ HeartbeatVerdict \/ HeartbeatMark
Program   == Cancel \/ Close \/ TakeBlock \/ TakeError
Network   == \/ ChainGrows \/ NodeSeesBlock \/ SubscriptionDropped
             \/ NodeReorgs \/ PoolSeesBlock
             \/ \E u \in URLs : Outage(u) \/ Recovery(u)

Next == Loop \/ Heartbeat \/ Program \/ Network \/ Stopped

Spec == Init /\ [][Next]_vars

(***************************************************************************)
(* Fairness.  The loop's goroutine is scheduled; faults are not owed.      *)
(* Go's select picks at random among its ready cases, so a stream that can *)
(* end again and again ends (SF).  runDetector receives until the context  *)
(* is cancelled.  Nodes keep announcing and answer what they are asked     *)
(* (no request of the loop has a deadline), endpoints catch up and return. *)
(***************************************************************************)
Fairness ==
    /\ WF_vars(Loop /\ UNCHANGED faults)
    /\ SF_vars(StreamEnds)
    /\ WF_vars(~ctxDone /\ TakeBlock)
    /\ WF_vars(NodeSeesBlock) /\ WF_vars(NodeReorgs) /\ WF_vars(PoolSeesBlock)
    /\ \A u \in URLs : WF_vars(Recovery(u))

\* Progress is checked without the heartbeat: it writes isConnected alone, and no
\* step of the loop reads that.
FairSpec ==
    /\ Init
    /\ [][Loop \/ Program \/ Network \/ Stopped]_vars
    /\ Fairness

-------------------------------------------------------------------------------
(* Properties. *)

FlagsOK ==
    /\ hasPool \in BOOLEAN /\ wsMode \in BOOLEAN /\ isConnected \in BOOLEAN
    /\ ctxDone \in BOOLEAN /\ closeCalled \in BOOLEAN
    /\ leaked \in BOOLEAN /\ fellBack \in BOOLEAN

TypeOK ==
    /\ FlagsOK
    /\ pc \in {"top", "streaming", "fetch", "sendGap", "sendHead", "failed",
               "delay", "dialing", "polling", "pollFailed", "pollWait", "done"}
    /\ wsFailureCount \in 0..MaxWSFailures
    /\ lastBlockNumber \in 0..MaxBlock
    /\ job \in [lo : 0..MaxBlock, hi : 0..MaxBlock]
    /\ client \in {"none", "live", "dead"}
    /\ currentURLIdx \in URLs
    /\ sub \in {"none", "active", "broken"}
    /\ wire \in Seq(Blocks) /\ Len(wire) <= WireCap
    /\ hb \in {"idle", "checking", "marking"}
    /\ blockCh \in Seq(Blocks) /\ Len(blockCh) <= BlockCap
    /\ errCh \in 0..ErrCap
    /\ head \in Blocks /\ wsHead \in 0..head /\ poolHead \in 1..head
    /\ up \in SUBSET URLs
    /\ faults \in 0..MaxFaults
    /\ seen \in SUBSET Blocks /\ skipped \in SUBSET Blocks

\* The blocks in hand: accepted by the loop and not yet sent or given up.
InHand == IF pc \in {"fetch", "sendGap", "sendHead"} THEN job.lo..job.hi ELSE {}

\* No block is lost without a trace: every number from the first block ever sent
\* up to lastBlockNumber was sent, was given up (a logged failure, or
\* cancellation), or is in hand.  Gap ranges, the backfill's start and end, and
\* lastBlockNumber (which a lagging node can move back) must all agree.
NoUnaccountedGap ==
    \A m \in seen, n \in Blocks :
        m < n /\ n <= lastBlockNumber => n \in seen \union skipped \union InHand

\* With a pool, the WebSocket is never used with its failures used up: the count
\* stays below MaxWSFailures in WebSocket mode, whatever the order of decay,
\* reset and switch.
FallbackNotOverdue ==
    hasPool /\ wsMode => wsFailureCount < MaxWSFailures

\* Reconnecting after a WebSocket failure never leaves the old client open, and the
\* loop that ends in any of its waits leaves none: one dialled just before the
\* cancellation is closed at the top of the loop.  A client is lost without Close
\* only after a fallback to HTTP, which keeps it.
ClientLeakOnlyAfterFallback ==
    leaked \/ (pc = "done" /\ client # "none") => fellBack

\* The channel keeps the promise of BlockStream: in order, every number passed
\* over given up before, so the header that reveals a gap never overtakes the
\* blocks that fill it, and nothing after the loop has stopped.
Stream == INSTANCE BlockStream
          WITH sent <- seen, lost <- skipped, open <- (pc # "done")

ImplementsBlockStream == Stream!Spec

\* Cancelling the context ends the loop, wherever it waits: for a header, a
\* receiver that has gone, an endpoint, a delay.
CancelStopsLoop == ctxDone ~> pc = "done"

\* While not cancelled, the loop catches up with any height the chain reaches:
\* no order of outages, fallbacks and reconnections leaves it stuck.
CatchesUp ==
    \A n \in Blocks : head >= n ~> (lastBlockNumber >= n \/ ctxDone)
===============================================================================
