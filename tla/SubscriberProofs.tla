--------------------------- MODULE SubscriberProofs ---------------------------
(***************************************************************************)
(* Safety of the subscriber for every number of URLs, every capacity and   *)
(* every bound: types, the accounting of gaps, the fallback count, the     *)
(* clients left open, and that the loop implements BlockStream.            *)
(***************************************************************************)
EXTENDS Subscriber, TLAPS

\* Where the loop is fixes its mode and the state of the client.
ModeShape ==
    /\ pc \in {"streaming", "fetch", "sendGap", "failed", "delay"} => wsMode
    /\ pc \in {"polling", "pollFailed", "pollWait"} => ~wsMode
    /\ ~hasPool => wsMode
    /\ pc \in {"fetch", "sendGap"} => hasPool

\* A client survives only in a stream, or after a fallback.
ClientShape ==
    /\ pc \in {"delay", "dialing"} /\ wsMode => client = "none"
    /\ ~wsMode /\ client # "none" => fellBack

\* The job in hand fits lastBlockNumber.
JobShape ==
    /\ pc = "sendHead" => /\ job.lo = job.hi /\ job.hi = lastBlockNumber
                          /\ job.hi \in Blocks
    /\ pc \in {"fetch", "sendGap"} =>
          /\ 0 < lastBlockNumber /\ lastBlockNumber < job.lo /\ job.lo < job.hi
          /\ job.hi \in Blocks
          /\ \A n \in Blocks : lastBlockNumber < n /\ n < job.lo
                                  => n \in seen \union skipped
    /\ lastBlockNumber = 0 => seen = {}

IInv == /\ TypeOK /\ ModeShape /\ ClientShape /\ JobShape
        /\ NoUnaccountedGap /\ FallbackNotOverdue /\ ClientLeakOnlyAfterFallback

-------------------------------------------------------------------------------
\* A modulus is a valid index.
LEMMA ModInRange ==
    ASSUME NEW i \in Int, NEW n \in Nat \ {0} PROVE i % n \in 0..(n - 1)
  OBVIOUS

\* Subscribe leaves the subscriber in a state that satisfies the invariant.
LEMMA InitIInv == Init => IInv
<1> SUFFICES ASSUME Init PROVE IInv
  OBVIOUS
<1> USE SubscriberAssumption
<1>1. FlagsOK
  BY Zenon DEF Init, FlagsOK
<1>2. currentURLIdx \in URLs
  BY ModInRange DEF Init, URLs
<1>3. TypeOK
  BY <1>1, <1>2 DEF Init, TypeOK, Blocks, NoJob
<1>4. ModeShape /\ ClientShape /\ JobShape
  BY DEF Init, ModeShape, ClientShape, JobShape
<1>5. NoUnaccountedGap /\ FallbackNotOverdue /\ ClientLeakOnlyAfterFallback
  BY DEF Init, NoUnaccountedGap, FallbackNotOverdue, ClientLeakOnlyAfterFallback
<1> QED
  BY <1>3, <1>4, <1>5 DEF IInv

-------------------------------------------------------------------------------
\* Every step of the subscription loop keeps the invariant.
LEMMA LoopIInv == ASSUME IInv, Loop PROVE IInv'
<1> USE SubscriberAssumption
        DEF loopVars, connVars, streamVars, callerVars, chainVars, historyVars
<1>a. /\ TypeOK /\ ModeShape /\ ClientShape /\ JobShape
      /\ NoUnaccountedGap /\ FallbackNotOverdue /\ ClientLeakOnlyAfterFallback
  BY DEF IInv
<1>b. FlagsOK
  BY <1>a DEF TypeOK
<1>1. CASE LoopStop
  <2>1. FlagsOK'
    BY <1>1, <1>b, Zenon DEF FlagsOK, LoopStop, Disconnect
  <2>2. TypeOK'
    BY <1>1, <1>a, <2>1 DEF TypeOK, URLs, Blocks, LoopStop, Disconnect
  <2>3. ModeShape' /\ ClientShape' /\ JobShape'
    BY <1>1, <1>a, <2>2
       DEF TypeOK, Blocks, ModeShape, ClientShape, JobShape, InHand,
           NoUnaccountedGap, FallbackNotOverdue, ClientLeakOnlyAfterFallback,
           LoopStop, Disconnect
  <2>4. NoUnaccountedGap' /\ FallbackNotOverdue' /\ ClientLeakOnlyAfterFallback'
    BY <1>1, <1>a, <2>2
       DEF TypeOK, Blocks, ModeShape, ClientShape, JobShape, InHand,
           NoUnaccountedGap, FallbackNotOverdue, ClientLeakOnlyAfterFallback,
           LoopStop, Disconnect
  <2> QED
    BY <2>2, <2>3, <2>4 DEF IInv
<1>2. CASE SubscribeNewHead
  <2>1. FlagsOK'
    BY <1>2, <1>b, Zenon DEF FlagsOK, SubscribeNewHead
  <2>2. TypeOK'
    <3>1. CASE client = "live"
      BY <1>2, <1>a, <2>1, <3>1 DEF TypeOK, URLs, Blocks, SubscribeNewHead
    <3>2. CASE client # "live"
      BY <1>2, <1>a, <2>1, <3>2 DEF TypeOK, URLs, Blocks, SubscribeNewHead
    <3> QED
      BY <3>1, <3>2
  <2>3. ModeShape' /\ ClientShape' /\ JobShape'
    BY <1>2, <1>a, <2>2
       DEF TypeOK, Blocks, ModeShape, ClientShape, JobShape, InHand,
           NoUnaccountedGap, FallbackNotOverdue, ClientLeakOnlyAfterFallback,
           SubscribeNewHead
  <2>4. NoUnaccountedGap' /\ FallbackNotOverdue' /\ ClientLeakOnlyAfterFallback'
    BY <1>2, <1>a, <2>2
       DEF TypeOK, Blocks, ModeShape, ClientShape, JobShape, InHand,
           NoUnaccountedGap, FallbackNotOverdue, ClientLeakOnlyAfterFallback,
           SubscribeNewHead
  <2> QED
    BY <2>2, <2>3, <2>4 DEF IInv
<1>3. CASE StartPolling
  <2>1. FlagsOK'
    BY <1>3, <1>b, Zenon DEF FlagsOK, StartPolling
  <2>2. TypeOK'
    BY <1>3, <1>a, <2>1 DEF TypeOK, URLs, Blocks, StartPolling
  <2>3. ModeShape' /\ ClientShape' /\ JobShape'
    BY <1>3, <1>a, <2>2
       DEF TypeOK, Blocks, ModeShape, ClientShape, JobShape, InHand,
           NoUnaccountedGap, FallbackNotOverdue, ClientLeakOnlyAfterFallback,
           StartPolling
  <2>4. NoUnaccountedGap' /\ FallbackNotOverdue' /\ ClientLeakOnlyAfterFallback'
    BY <1>3, <1>a, <2>2
       DEF TypeOK, Blocks, ModeShape, ClientShape, JobShape, InHand,
           NoUnaccountedGap, FallbackNotOverdue, ClientLeakOnlyAfterFallback,
           StartPolling
  <2> QED
    BY <2>2, <2>3, <2>4 DEF IInv
<1>4. CASE StreamEnds
  <2>1. FlagsOK'
    BY <1>4, <1>b, Zenon DEF FlagsOK, StreamEnds, ReturnSubscribeError
  <2>2. TypeOK'
    BY <1>4, <1>a, <2>1
       DEF TypeOK, URLs, Blocks, StreamEnds, ReturnSubscribeError
  <2>3. ModeShape' /\ ClientShape' /\ JobShape'
    BY <1>4, <1>a, <2>2
       DEF TypeOK, Blocks, ModeShape, ClientShape, JobShape, InHand,
           NoUnaccountedGap, FallbackNotOverdue, ClientLeakOnlyAfterFallback,
           StreamEnds, ReturnSubscribeError
  <2>4. NoUnaccountedGap' /\ FallbackNotOverdue' /\ ClientLeakOnlyAfterFallback'
    BY <1>4, <1>a, <2>2
       DEF TypeOK, Blocks, ModeShape, ClientShape, JobShape, InHand,
           NoUnaccountedGap, FallbackNotOverdue, ClientLeakOnlyAfterFallback,
           StreamEnds, ReturnSubscribeError
  <2> QED
    BY <2>2, <2>3, <2>4 DEF IInv
<1>5. CASE MessageTimeout
  <2>1. FlagsOK'
    BY <1>5, <1>b, Zenon
       DEF FlagsOK, MessageTimeout, Fault, ReturnSubscribeError
  <2>2. TypeOK'
    BY <1>5, <1>a, <2>1
       DEF TypeOK, URLs, Blocks, MessageTimeout, Fault, ReturnSubscribeError
  <2>3. ModeShape' /\ ClientShape' /\ JobShape'
    BY <1>5, <1>a, <2>2
       DEF TypeOK, Blocks, ModeShape, ClientShape, JobShape, InHand,
           NoUnaccountedGap, FallbackNotOverdue, ClientLeakOnlyAfterFallback,
           MessageTimeout, Fault, ReturnSubscribeError
  <2>4. NoUnaccountedGap' /\ FallbackNotOverdue' /\ ClientLeakOnlyAfterFallback'
    BY <1>5, <1>a, <2>2
       DEF TypeOK, Blocks, ModeShape, ClientShape, JobShape, InHand,
           NoUnaccountedGap, FallbackNotOverdue, ClientLeakOnlyAfterFallback,
           MessageTimeout, Fault, ReturnSubscribeError
  <2> QED
    BY <2>2, <2>3, <2>4 DEF IInv
<1>6. CASE ReceiveHeader
  <2>1. FlagsOK'
    BY <1>6, <1>b, Zenon
       DEF FlagsOK, ReceiveHeader, Gap, GiveUp, AdvanceTo, BackfillStart
  <2>2. TypeOK'
    <3>1. Head(wire) \in Blocks /\ wire' \in Seq(Blocks) /\ Len(wire') <= WireCap
      BY <1>6, <1>a DEF TypeOK, ReceiveHeader
    <3>2. /\ job' \in [lo : 0..MaxBlock, hi : 0..MaxBlock] /\ pc' \in {"fetch", "sendHead"}
          /\ lastBlockNumber' \in 0..MaxBlock /\ skipped' \in SUBSET Blocks
      <4>1. CASE hasPool /\ Gap(Head(wire)) # {}
        <5>1. lastBlockNumber + 1 \in 0..MaxBlock
          BY <1>a, <3>1, <4>1 DEF TypeOK, Blocks, Gap
        <5>2. /\ job' = [lo |-> lastBlockNumber + 1, hi |-> Head(wire)]
              /\ pc' = "fetch" /\ UNCHANGED <<lastBlockNumber, skipped>>
          BY <1>6, <4>1 DEF ReceiveHeader, BackfillStart
        <5> QED
          BY <1>a, <3>1, <5>1, <5>2 DEF TypeOK, Blocks
      <4>2. CASE ~(hasPool /\ Gap(Head(wire)) # {})
        <5>1. AdvanceTo(Head(wire)) /\ GiveUp(Gap(Head(wire)))
          BY <1>6, <4>2 DEF ReceiveHeader
        <5>2. Gap(Head(wire)) \subseteq Blocks
          BY <1>a, <3>1 DEF TypeOK, Blocks, Gap
        <5>3. /\ job' = [lo |-> Head(wire), hi |-> Head(wire)]
              /\ pc' = "sendHead" /\ lastBlockNumber' = Head(wire)
          BY <5>1 DEF AdvanceTo
        <5>4. skipped' \in SUBSET Blocks
          BY <1>a, <5>1, <5>2 DEF TypeOK, GiveUp
        <5> QED
          BY <3>1, <5>3, <5>4 DEF Blocks
      <4> QED
        BY <4>1, <4>2
    <3>3. UNCHANGED <<hasPool, wsFailureCount, connVars, sub, hb, blockCh, errCh,
                      chainVars, faults, seen>>
      BY <1>6 DEF ReceiveHeader
    <3> QED
      BY <1>a, <2>1, <3>1, <3>2, <3>3 DEF TypeOK
  <2>3. ModeShape' /\ ClientShape' /\ JobShape'
    <3>1. Head(wire) \in Blocks /\ pc = "streaming"
          /\ UNCHANGED <<hasPool, wsMode, client, seen, fellBack>>
      BY <1>6, <1>a DEF TypeOK, ReceiveHeader
    <3>2. CASE hasPool /\ Gap(Head(wire)) # {}
      <4>1. /\ job' = [lo |-> lastBlockNumber + 1, hi |-> Head(wire)] /\ pc' = "fetch"
            /\ UNCHANGED <<lastBlockNumber, skipped>>
        BY <1>6, <3>2 DEF ReceiveHeader, BackfillStart
      <4>2. 0 < lastBlockNumber /\ lastBlockNumber + 1 < Head(wire)
        BY <1>a, <3>1, <3>2 DEF TypeOK, Blocks, Gap
      <4> QED
        BY <1>a, <3>1, <3>2, <4>1, <4>2
           DEF TypeOK, Blocks, ModeShape, ClientShape, JobShape
    <3>3. CASE ~(hasPool /\ Gap(Head(wire)) # {})
      <4>1. AdvanceTo(Head(wire))
        BY <1>6, <3>3 DEF ReceiveHeader
      <4> QED
        BY <1>a, <3>1, <4>1
           DEF TypeOK, Blocks, ModeShape, ClientShape, JobShape, AdvanceTo
    <3> QED
      BY <3>2, <3>3
  <2>4. NoUnaccountedGap' /\ FallbackNotOverdue' /\ ClientLeakOnlyAfterFallback'
    <3>1. Head(wire) \in Blocks
      BY <1>6, <1>a DEF TypeOK, ReceiveHeader
    <3>2. CASE hasPool /\ Gap(Head(wire)) # {}
      BY <1>6, <1>a, <2>2, <3>1, <3>2
         DEF TypeOK, Blocks, ModeShape, ClientShape, JobShape, InHand,
             NoUnaccountedGap, FallbackNotOverdue, ClientLeakOnlyAfterFallback,
             ReceiveHeader, Gap, BackfillStart
    <3>3. CASE ~(hasPool /\ Gap(Head(wire)) # {})
      <4>1. AdvanceTo(Head(wire)) /\ GiveUp(Gap(Head(wire)))
        BY <1>6, <3>3 DEF ReceiveHeader
      <4> QED
        BY <1>6, <1>a, <2>2, <3>1, <4>1
           DEF TypeOK, Blocks, ModeShape, ClientShape, JobShape, InHand,
               NoUnaccountedGap, FallbackNotOverdue,
               ClientLeakOnlyAfterFallback, ReceiveHeader, AdvanceTo, GiveUp,
               Gap
    <3> QED
      BY <3>2, <3>3
  <2> QED
    BY <2>2, <2>3, <2>4 DEF IInv
<1>7. CASE BackfillFetch
  <2>1. FlagsOK'
    BY <1>7, <1>b, Zenon DEF FlagsOK, BackfillFetch
  <2>2. TypeOK'
    BY <1>7, <1>a, <2>1 DEF TypeOK, URLs, Blocks, BackfillFetch
  <2>3. ModeShape' /\ ClientShape' /\ JobShape'
    BY <1>7, <1>a, <2>2
       DEF TypeOK, Blocks, ModeShape, ClientShape, JobShape, InHand,
           NoUnaccountedGap, FallbackNotOverdue, ClientLeakOnlyAfterFallback,
           BackfillFetch
  <2>4. NoUnaccountedGap' /\ FallbackNotOverdue' /\ ClientLeakOnlyAfterFallback'
    BY <1>7, <1>a, <2>2
       DEF TypeOK, Blocks, ModeShape, ClientShape, JobShape, InHand,
           NoUnaccountedGap, FallbackNotOverdue, ClientLeakOnlyAfterFallback,
           BackfillFetch
  <2> QED
    BY <2>2, <2>3, <2>4 DEF IInv
<1>8. CASE BackfillFails
  <2>1. FlagsOK'
    BY <1>8, <1>b, Zenon
       DEF FlagsOK, BackfillFails, Fault, AbandonBackfill, GiveUp, AdvanceTo
  <2>2. TypeOK'
    <3>1. job.lo \in Nat \ {0} /\ job.hi \in Blocks
      BY <1>8, <1>a DEF TypeOK, JobShape, BackfillFails
    <3>a. job.lo..(job.hi - 1) \subseteq Blocks
      BY <3>1 DEF Blocks
    <3>2. skipped' \in SUBSET Blocks
      BY <1>8, <1>a, <3>a DEF TypeOK, BackfillFails, AbandonBackfill, GiveUp
    <3> QED
      BY <1>8, <1>a, <2>1, <3>1, <3>2
         DEF TypeOK, URLs, Blocks, BackfillFails, Fault, AbandonBackfill,
             AdvanceTo
  <2>3. ModeShape' /\ ClientShape' /\ JobShape'
    BY <1>8, <1>a, <2>2
       DEF TypeOK, Blocks, ModeShape, ClientShape, JobShape, InHand,
           NoUnaccountedGap, FallbackNotOverdue, ClientLeakOnlyAfterFallback,
           BackfillFails, Fault, AbandonBackfill, GiveUp, AdvanceTo
  <2>4. NoUnaccountedGap' /\ FallbackNotOverdue' /\ ClientLeakOnlyAfterFallback'
    BY <1>8, <1>a, <2>2
       DEF TypeOK, Blocks, ModeShape, ClientShape, JobShape, InHand,
           NoUnaccountedGap, FallbackNotOverdue, ClientLeakOnlyAfterFallback,
           BackfillFails, Fault, AbandonBackfill, GiveUp, AdvanceTo
  <2> QED
    BY <2>2, <2>3, <2>4 DEF IInv
<1>9. CASE SendBackfilled
  <2>1. FlagsOK'
    BY <1>9, <1>b, Zenon DEF FlagsOK, SendBackfilled, Send, AdvanceTo
  <2>2. TypeOK'
    <3>1. job.lo \in Blocks /\ job.hi \in Blocks /\ job.lo + 1 \in Blocks
      BY <1>9, <1>a DEF TypeOK, JobShape, Blocks, SendBackfilled
    <3>2. /\ blockCh' \in Seq(Blocks) /\ Len(blockCh') <= BlockCap
          /\ seen' \in SUBSET Blocks
      BY <1>9, <1>a, <3>1 DEF TypeOK, SendBackfilled, Send
    <3>3. lastBlockNumber' \in 0..MaxBlock
          /\ job' \in [lo : 0..MaxBlock, hi : 0..MaxBlock] /\ pc' \in {"sendHead", "fetch"}
      <4>1. CASE job.lo + 1 = job.hi
        <5>1. /\ lastBlockNumber' = job.hi /\ pc' = "sendHead"
              /\ job' = [lo |-> job.hi, hi |-> job.hi]
          BY <1>9, <4>1 DEF SendBackfilled, AdvanceTo
        <5> QED
          BY <3>1, <5>1 DEF Blocks
      <4>2. CASE job.lo + 1 # job.hi
        <5>1. /\ lastBlockNumber' = lastBlockNumber /\ pc' = "fetch"
              /\ job' = [lo |-> job.lo + 1, hi |-> job.hi]
          BY <1>9, <1>a, <4>2 DEF TypeOK, SendBackfilled
        <5> QED
          BY <1>a, <3>1, <5>1 DEF TypeOK, Blocks
      <4> QED
        BY <4>1, <4>2
    <3> QED
      BY <1>9, <1>a, <2>1, <3>2, <3>3 DEF TypeOK, URLs, Blocks, SendBackfilled
  <2>3. ModeShape' /\ ClientShape' /\ JobShape'
    <3>a. /\ pc = "sendGap" /\ job.lo \in Blocks /\ job.hi \in Blocks
          /\ seen' = seen \union {job.lo}
          /\ UNCHANGED <<hasPool, wsMode, client, skipped, fellBack>>
      BY <1>9, <1>a DEF TypeOK, JobShape, Blocks, SendBackfilled, Send
    <3>b. \A n \in Blocks : lastBlockNumber < n /\ n < job.lo + 1
                              => n \in seen' \union skipped'
      BY <1>a, <3>a DEF TypeOK, JobShape, Blocks
    <3>1. CASE job.lo + 1 = job.hi
      BY <1>9, <1>a, <2>2, <3>a, <3>1
         DEF TypeOK, ModeShape, ClientShape, JobShape, Blocks, SendBackfilled,
             AdvanceTo
    <3>2. CASE job.lo + 1 # job.hi
      <4>1. /\ job' = [lo |-> job.lo + 1, hi |-> job.hi] /\ pc' = "fetch"
            /\ lastBlockNumber' = lastBlockNumber
        BY <1>9, <1>a, <3>2 DEF TypeOK, SendBackfilled
      <4>2. JobShape'
        BY <1>a, <3>a, <3>b, <3>2, <4>1 DEF TypeOK, JobShape, Blocks
      <4> QED
        BY <1>a, <3>a, <4>1, <4>2 DEF ModeShape, ClientShape
    <3> QED
      BY <3>1, <3>2
  <2>4. NoUnaccountedGap' /\ FallbackNotOverdue' /\ ClientLeakOnlyAfterFallback'
    <3>a. /\ pc = "sendGap" /\ job.lo \in Blocks /\ job.hi \in Blocks
          /\ 0 < lastBlockNumber /\ lastBlockNumber < job.lo /\ job.lo < job.hi
          /\ seen' = seen \union {job.lo}
          /\ UNCHANGED <<hasPool, wsMode, wsFailureCount, leaked, skipped, fellBack>>
      BY <1>9, <1>a DEF TypeOK, JobShape, Blocks, SendBackfilled, Send
    <3>b. \A m \in seen', n \in Blocks :
             m < n /\ n <= job.lo => n \in seen' \union skipped'
      <4> SUFFICES ASSUME NEW m \in seen', NEW n \in Blocks, m < n, n <= job.lo
                   PROVE  n \in seen' \union skipped'
        OBVIOUS
      <4>1. CASE n = job.lo
        BY <3>a, <4>1
      <4>2. CASE n <= lastBlockNumber
        BY <1>a, <3>a, <4>2 DEF TypeOK, Blocks, NoUnaccountedGap, InHand
      <4>3. CASE lastBlockNumber < n /\ n < job.lo
        BY <1>a, <3>a, <4>3 DEF JobShape
      <4> QED
        BY <1>a, <3>a, <4>1, <4>2, <4>3 DEF TypeOK, Blocks
    <3>c. \/ /\ lastBlockNumber' = job.hi /\ job.hi = job.lo + 1
             /\ InHand' = {job.hi}
          \/ lastBlockNumber' = lastBlockNumber
      BY <1>9, <1>a, <3>a DEF SendBackfilled, AdvanceTo, InHand, Blocks
    <3>1. NoUnaccountedGap'
      BY <1>a, <3>a, <3>b, <3>c DEF TypeOK, Blocks, NoUnaccountedGap
    <3>d. pc' # "done"
      BY <1>9 DEF SendBackfilled, AdvanceTo
    <3>2. FallbackNotOverdue' /\ ClientLeakOnlyAfterFallback'
      BY <1>a, <3>a, <3>d DEF FallbackNotOverdue, ClientLeakOnlyAfterFallback
    <3> QED
      BY <3>1, <3>2
  <2> QED
    BY <2>2, <2>3, <2>4 DEF IInv
<1>10. CASE SendBackfilledCancelled
  <2>1. FlagsOK'
    BY <1>10, <1>b, Zenon
       DEF FlagsOK, SendBackfilledCancelled, AbandonBackfill, GiveUp, AdvanceTo
  <2>2. TypeOK'
    <3>1. job.lo \in Nat \ {0} /\ job.hi \in Blocks
      BY <1>10, <1>a DEF TypeOK, JobShape, SendBackfilledCancelled
    <3>a. job.lo..(job.hi - 1) \subseteq Blocks
      BY <3>1 DEF Blocks
    <3>2. skipped' \in SUBSET Blocks
      BY <1>10, <1>a, <3>a
         DEF TypeOK, SendBackfilledCancelled, AbandonBackfill, GiveUp
    <3> QED
      BY <1>10, <1>a, <2>1, <3>1, <3>2
         DEF TypeOK, URLs, Blocks, SendBackfilledCancelled, AbandonBackfill,
             AdvanceTo
  <2>3. ModeShape' /\ ClientShape' /\ JobShape'
    BY <1>10, <1>a, <2>2
       DEF TypeOK, Blocks, ModeShape, ClientShape, JobShape, InHand,
           NoUnaccountedGap, FallbackNotOverdue, ClientLeakOnlyAfterFallback,
           SendBackfilledCancelled, AbandonBackfill, GiveUp, AdvanceTo
  <2>4. NoUnaccountedGap' /\ FallbackNotOverdue' /\ ClientLeakOnlyAfterFallback'
    BY <1>10, <1>a, <2>2
       DEF TypeOK, Blocks, ModeShape, ClientShape, JobShape, InHand,
           NoUnaccountedGap, FallbackNotOverdue, ClientLeakOnlyAfterFallback,
           SendBackfilledCancelled, AbandonBackfill, GiveUp, AdvanceTo
  <2> QED
    BY <2>2, <2>3, <2>4 DEF IInv
<1>11. CASE SendHead
  <2>1. FlagsOK'
    BY <1>11, <1>b, Zenon DEF FlagsOK, SendHead, Send, NoJob
  <2>2. TypeOK'
    <3>1. job.hi \in Blocks
      BY <1>11, <1>a DEF JobShape, SendHead
    <3>2. /\ blockCh' \in Seq(Blocks) /\ Len(blockCh') <= BlockCap
          /\ seen' \in SUBSET Blocks
      BY <1>11, <1>a, <3>1 DEF TypeOK, SendHead, Send
    <3> QED
      BY <1>11, <1>a, <2>1, <3>2 DEF TypeOK, URLs, Blocks, SendHead, NoJob
  <2>3. ModeShape' /\ ClientShape' /\ JobShape'
    BY <1>11, <1>a, <2>2
       DEF TypeOK, Blocks, ModeShape, ClientShape, JobShape, InHand,
           NoUnaccountedGap, FallbackNotOverdue, ClientLeakOnlyAfterFallback,
           SendHead, Send, NoJob
  <2>4. NoUnaccountedGap' /\ FallbackNotOverdue' /\ ClientLeakOnlyAfterFallback'
    BY <1>11, <1>a, <2>2
       DEF TypeOK, Blocks, ModeShape, ClientShape, JobShape, InHand,
           NoUnaccountedGap, FallbackNotOverdue, ClientLeakOnlyAfterFallback,
           SendHead, Send, NoJob
  <2> QED
    BY <2>2, <2>3, <2>4 DEF IInv
<1>12. CASE SendHeadCancelled
  <2>1. FlagsOK'
    BY <1>12, <1>b, Zenon
       DEF FlagsOK, SendHeadCancelled, GiveUp, NoJob, ReturnSubscribeError
  <2>2. TypeOK'
    <3>1. job.hi \in Blocks
      BY <1>12, <1>a DEF JobShape, SendHeadCancelled
    <3>2. skipped' \in SUBSET Blocks
      BY <1>12, <1>a, <3>1 DEF TypeOK, SendHeadCancelled, GiveUp
    <3>3. /\ wire' \in Seq(Blocks) /\ Len(wire') <= WireCap
          /\ pc' \in {"failed", "pollFailed"} /\ sub' \in {"none", "active", "broken"}
      <4>1. CASE wsMode
        BY <1>12, <1>a, <4>1 DEF TypeOK, SendHeadCancelled, ReturnSubscribeError
      <4>2. CASE ~wsMode
        BY <1>12, <1>a, <4>2 DEF TypeOK, SendHeadCancelled
      <4> QED
        BY <4>1, <4>2
    <3> QED
      BY <1>12, <1>a, <2>1, <3>2, <3>3
         DEF TypeOK, URLs, Blocks, SendHeadCancelled, NoJob
  <2>3. ModeShape' /\ ClientShape' /\ JobShape'
    BY <1>12, <1>a, <2>2
       DEF TypeOK, Blocks, ModeShape, ClientShape, JobShape, InHand,
           NoUnaccountedGap, FallbackNotOverdue, ClientLeakOnlyAfterFallback,
           SendHeadCancelled, GiveUp, NoJob, ReturnSubscribeError
  <2>4. NoUnaccountedGap' /\ FallbackNotOverdue' /\ ClientLeakOnlyAfterFallback'
    BY <1>12, <1>a, <2>2
       DEF TypeOK, Blocks, ModeShape, ClientShape, JobShape, InHand,
           NoUnaccountedGap, FallbackNotOverdue, ClientLeakOnlyAfterFallback,
           SendHeadCancelled, GiveUp, NoJob, ReturnSubscribeError
  <2> QED
    BY <2>2, <2>3, <2>4 DEF IInv
<1>13. CASE FallBackToHTTP
  <2>1. FlagsOK'
    BY <1>13, <1>b, Zenon DEF FlagsOK, FallBackToHTTP, MustFallBack, SendErr
  <2>2. TypeOK'
    <3>1. wsFailureCount < MaxWSFailures
      BY <1>13, <1>a
         DEF ModeShape, FallbackNotOverdue, FallBackToHTTP, MustFallBack
    <3> QED
      BY <1>13, <1>a, <2>1, <3>1
         DEF TypeOK, URLs, Blocks, FallBackToHTTP, SendErr
  <2>3. ModeShape' /\ ClientShape' /\ JobShape'
    BY <1>13, <1>a, <2>2
       DEF TypeOK, Blocks, ModeShape, ClientShape, JobShape, InHand,
           NoUnaccountedGap, FallbackNotOverdue, ClientLeakOnlyAfterFallback,
           FallBackToHTTP, MustFallBack, SendErr
  <2>4. NoUnaccountedGap' /\ FallbackNotOverdue' /\ ClientLeakOnlyAfterFallback'
    BY <1>13, <1>a, <2>2
       DEF TypeOK, Blocks, ModeShape, ClientShape, JobShape, InHand,
           NoUnaccountedGap, FallbackNotOverdue, ClientLeakOnlyAfterFallback,
           FallBackToHTTP, MustFallBack, SendErr
  <2> QED
    BY <2>2, <2>3, <2>4 DEF IInv
<1>14. CASE PrepareReconnect
  <2>1. FlagsOK'
    BY <1>14, <1>b, Zenon
       DEF FlagsOK, PrepareReconnect, MustFallBack, SendErr, Disconnect
  <2>2. TypeOK'
    BY <1>14, <1>a, <2>1
       DEF TypeOK, URLs, Blocks, PrepareReconnect, MustFallBack, SendErr,
           Disconnect
  <2>3. ModeShape' /\ ClientShape' /\ JobShape'
    BY <1>14, <1>a, <2>2
       DEF TypeOK, Blocks, ModeShape, ClientShape, JobShape, InHand,
           NoUnaccountedGap, FallbackNotOverdue, ClientLeakOnlyAfterFallback,
           PrepareReconnect, MustFallBack, SendErr, Disconnect
  <2>4. NoUnaccountedGap' /\ FallbackNotOverdue' /\ ClientLeakOnlyAfterFallback'
    BY <1>14, <1>a, <2>2
       DEF TypeOK, Blocks, ModeShape, ClientShape, JobShape, InHand,
           NoUnaccountedGap, FallbackNotOverdue, ClientLeakOnlyAfterFallback,
           PrepareReconnect, MustFallBack, SendErr, Disconnect
  <2> QED
    BY <2>2, <2>3, <2>4 DEF IInv
<1>15. CASE DelayOver
  <2>1. FlagsOK'
    BY <1>15, <1>b, Zenon DEF FlagsOK, DelayOver
  <2>2. TypeOK'
    BY <1>15, <1>a, <2>1 DEF TypeOK, URLs, Blocks, DelayOver
  <2>3. ModeShape' /\ ClientShape' /\ JobShape'
    BY <1>15, <1>a, <2>2
       DEF TypeOK, Blocks, ModeShape, ClientShape, JobShape, InHand,
           NoUnaccountedGap, FallbackNotOverdue, ClientLeakOnlyAfterFallback,
           DelayOver
  <2>4. NoUnaccountedGap' /\ FallbackNotOverdue' /\ ClientLeakOnlyAfterFallback'
    BY <1>15, <1>a, <2>2
       DEF TypeOK, Blocks, ModeShape, ClientShape, JobShape, InHand,
           NoUnaccountedGap, FallbackNotOverdue, ClientLeakOnlyAfterFallback,
           DelayOver
  <2> QED
    BY <2>2, <2>3, <2>4 DEF IInv
<1>16. CASE WaitCancelled
  <2>1. FlagsOK'
    BY <1>16, <1>b, Zenon DEF FlagsOK, WaitCancelled
  <2>2. TypeOK'
    BY <1>16, <1>a, <2>1 DEF TypeOK, URLs, Blocks, WaitCancelled
  <2>3. ModeShape' /\ ClientShape' /\ JobShape'
    BY <1>16, <1>a, <2>2
       DEF TypeOK, Blocks, ModeShape, ClientShape, JobShape, InHand,
           NoUnaccountedGap, FallbackNotOverdue, ClientLeakOnlyAfterFallback,
           WaitCancelled
  <2>4. NoUnaccountedGap' /\ FallbackNotOverdue' /\ ClientLeakOnlyAfterFallback'
    BY <1>16, <1>a, <2>2
       DEF TypeOK, Blocks, ModeShape, ClientShape, JobShape, InHand,
           NoUnaccountedGap, FallbackNotOverdue, ClientLeakOnlyAfterFallback,
           WaitCancelled
  <2> QED
    BY <2>2, <2>3, <2>4 DEF IInv
<1>17. CASE DialSucceeds
  <2>1. FlagsOK'
    BY <1>17, <1>b, Zenon DEF FlagsOK, DialSucceeds
  <2>2. TypeOK'
    BY <1>17, <1>a, <2>1 DEF TypeOK, URLs, Blocks, DialSucceeds
  <2>3. ModeShape' /\ ClientShape' /\ JobShape'
    BY <1>17, <1>a, <2>2
       DEF TypeOK, Blocks, ModeShape, ClientShape, JobShape, InHand,
           NoUnaccountedGap, FallbackNotOverdue, ClientLeakOnlyAfterFallback,
           DialSucceeds
  <2>4. NoUnaccountedGap' /\ FallbackNotOverdue' /\ ClientLeakOnlyAfterFallback'
    <3>1. leaked' => leaked \/ client # "none"
      BY <1>17, Zenon DEF DialSucceeds
    <3>2. ClientLeakOnlyAfterFallback'
      BY <1>17, <1>a, <3>1
         DEF ClientShape, ClientLeakOnlyAfterFallback, DialSucceeds
    <3>3. NoUnaccountedGap' /\ FallbackNotOverdue'
      BY <1>17, <1>a, <2>2
         DEF TypeOK, Blocks, InHand, NoUnaccountedGap, FallbackNotOverdue,
             DialSucceeds
    <3> QED
      BY <3>2, <3>3
  <2> QED
    BY <2>2, <2>3, <2>4 DEF IInv
<1>18. CASE DialFails
  <2>1. FlagsOK'
    BY <1>18, <1>b, Zenon DEF FlagsOK, DialFails, NextURL
  <2>2. TypeOK'
    BY <1>18, <1>a, <2>1 DEF TypeOK, URLs, Blocks, DialFails, NextURL
  <2>3. ModeShape' /\ ClientShape' /\ JobShape'
    BY <1>18, <1>a, <2>2
       DEF TypeOK, Blocks, ModeShape, ClientShape, JobShape, InHand,
           NoUnaccountedGap, FallbackNotOverdue, ClientLeakOnlyAfterFallback,
           DialFails, NextURL
  <2>4. NoUnaccountedGap' /\ FallbackNotOverdue' /\ ClientLeakOnlyAfterFallback'
    BY <1>18, <1>a, <2>2
       DEF TypeOK, Blocks, ModeShape, ClientShape, JobShape, InHand,
           NoUnaccountedGap, FallbackNotOverdue, ClientLeakOnlyAfterFallback,
           DialFails, NextURL
  <2> QED
    BY <2>2, <2>3, <2>4 DEF IInv
<1>19. CASE PollNewBlock
  <2>1. FlagsOK'
    BY <1>19, <1>b, Zenon
       DEF FlagsOK, PollNewBlock, IsNew, AdvanceTo, GiveUp, Gap
  <2>2. TypeOK'
    BY <1>19, <1>a, <2>1
       DEF TypeOK, URLs, Blocks, PollNewBlock, IsNew, AdvanceTo, GiveUp, Gap
  <2>3. ModeShape' /\ ClientShape' /\ JobShape'
    BY <1>19, <1>a, <2>2
       DEF TypeOK, Blocks, ModeShape, ClientShape, JobShape, InHand,
           NoUnaccountedGap, FallbackNotOverdue, ClientLeakOnlyAfterFallback,
           PollNewBlock, IsNew, AdvanceTo, GiveUp, Gap
  <2>4. NoUnaccountedGap' /\ FallbackNotOverdue' /\ ClientLeakOnlyAfterFallback'
    BY <1>19, <1>a, <2>2
       DEF TypeOK, Blocks, ModeShape, ClientShape, JobShape, InHand,
           NoUnaccountedGap, FallbackNotOverdue, ClientLeakOnlyAfterFallback,
           PollNewBlock, IsNew, AdvanceTo, GiveUp, Gap
  <2> QED
    BY <2>2, <2>3, <2>4 DEF IInv
<1>20. CASE PollFails
  <2>1. FlagsOK'
    BY <1>20, <1>b, Zenon DEF FlagsOK, PollFails, Fault
  <2>2. TypeOK'
    BY <1>20, <1>a, <2>1 DEF TypeOK, URLs, Blocks, PollFails, Fault
  <2>3. ModeShape' /\ ClientShape' /\ JobShape'
    BY <1>20, <1>a, <2>2
       DEF TypeOK, Blocks, ModeShape, ClientShape, JobShape, InHand,
           NoUnaccountedGap, FallbackNotOverdue, ClientLeakOnlyAfterFallback,
           PollFails, Fault
  <2>4. NoUnaccountedGap' /\ FallbackNotOverdue' /\ ClientLeakOnlyAfterFallback'
    BY <1>20, <1>a, <2>2
       DEF TypeOK, Blocks, ModeShape, ClientShape, JobShape, InHand,
           NoUnaccountedGap, FallbackNotOverdue, ClientLeakOnlyAfterFallback,
           PollFails, Fault
  <2> QED
    BY <2>2, <2>3, <2>4 DEF IInv
<1>21. CASE ReportPollError
  <2>1. FlagsOK'
    BY <1>21, <1>b, Zenon DEF FlagsOK, ReportPollError, SendErr
  <2>2. TypeOK'
    BY <1>21, <1>a, <2>1 DEF TypeOK, URLs, Blocks, ReportPollError, SendErr
  <2>3. ModeShape' /\ ClientShape' /\ JobShape'
    BY <1>21, <1>a, <2>2
       DEF TypeOK, Blocks, ModeShape, ClientShape, JobShape, InHand,
           NoUnaccountedGap, FallbackNotOverdue, ClientLeakOnlyAfterFallback,
           ReportPollError, SendErr
  <2>4. NoUnaccountedGap' /\ FallbackNotOverdue' /\ ClientLeakOnlyAfterFallback'
    BY <1>21, <1>a, <2>2
       DEF TypeOK, Blocks, ModeShape, ClientShape, JobShape, InHand,
           NoUnaccountedGap, FallbackNotOverdue, ClientLeakOnlyAfterFallback,
           ReportPollError, SendErr
  <2> QED
    BY <2>2, <2>3, <2>4 DEF IInv
<1>22. CASE PollWaitOver
  <2>1. FlagsOK'
    BY <1>22, <1>b, Zenon DEF FlagsOK, PollWaitOver
  <2>2. TypeOK'
    BY <1>22, <1>a, <2>1 DEF TypeOK, URLs, Blocks, PollWaitOver
  <2>3. ModeShape' /\ ClientShape' /\ JobShape'
    BY <1>22, <1>a, <2>2
       DEF TypeOK, Blocks, ModeShape, ClientShape, JobShape, InHand,
           NoUnaccountedGap, FallbackNotOverdue, ClientLeakOnlyAfterFallback,
           PollWaitOver
  <2>4. NoUnaccountedGap' /\ FallbackNotOverdue' /\ ClientLeakOnlyAfterFallback'
    BY <1>22, <1>a, <2>2
       DEF TypeOK, Blocks, ModeShape, ClientShape, JobShape, InHand,
           NoUnaccountedGap, FallbackNotOverdue, ClientLeakOnlyAfterFallback,
           PollWaitOver
  <2> QED
    BY <2>2, <2>3, <2>4 DEF IInv
<1> QED
  BY <1>1, <1>2, <1>3, <1>4, <1>5, <1>6, <1>7, <1>8, <1>9, <1>10, <1>11, <1>12,
     <1>13, <1>14, <1>15, <1>16, <1>17, <1>18, <1>19, <1>20, <1>21, <1>22 DEF
     Loop
-------------------------------------------------------------------------------
\* A step outside the loop that opens no client keeps the invariant.
LEMMA OutsideFrame ==
    ASSUME IInv, TypeOK', client' # "none" => client # "none",
           UNCHANGED <<hasPool, pc, loopVars, historyVars>>
    PROVE  IInv'
<1>a. /\ ModeShape /\ ClientShape /\ JobShape
      /\ NoUnaccountedGap /\ FallbackNotOverdue /\ ClientLeakOnlyAfterFallback
  BY DEF IInv
<1>1. ModeShape' /\ ClientShape' /\ JobShape'
  BY <1>a DEF ModeShape, ClientShape, JobShape, loopVars, historyVars
<1>2. NoUnaccountedGap' /\ FallbackNotOverdue' /\ ClientLeakOnlyAfterFallback'
  BY <1>a
     DEF NoUnaccountedGap, InHand, FallbackNotOverdue,
         ClientLeakOnlyAfterFallback, loopVars, historyVars
<1> QED
  BY <1>1, <1>2 DEF IInv

\* The heartbeat, the program's calls and the network keep the invariant.
LEMMA OutsideIInv ==
    ASSUME IInv, Heartbeat \/ Program \/ Network \/ UNCHANGED vars
    PROVE  IInv'
<1> USE SubscriberAssumption
        DEF loopVars, connVars, streamVars, callerVars, chainVars, historyVars
<1>a. TypeOK
  BY DEF IInv
<1>b. FlagsOK
  BY <1>a DEF TypeOK
<1>1. CASE HeartbeatStart
  <2>1. FlagsOK'
    BY <1>1, <1>b, Zenon DEF FlagsOK, HeartbeatStart, MutexFree
  <2>2. TypeOK'
    BY <1>1, <1>a, <2>1 DEF TypeOK, URLs, Blocks, HeartbeatStart, MutexFree
  <2> QED
    BY <1>1, <2>2, OutsideFrame DEF HeartbeatStart, MutexFree
<1>2. CASE HeartbeatVerdict
  <2>1. FlagsOK'
    BY <1>2, <1>b, Zenon DEF FlagsOK, HeartbeatVerdict
  <2>2. TypeOK'
    BY <1>2, <1>a, <2>1 DEF TypeOK, URLs, Blocks, HeartbeatVerdict
  <2> QED
    BY <1>2, <2>2, OutsideFrame DEF HeartbeatVerdict
<1>3. CASE HeartbeatMark
  <2>1. FlagsOK'
    BY <1>3, <1>b, Zenon DEF FlagsOK, HeartbeatMark, MutexFree
  <2>2. TypeOK'
    BY <1>3, <1>a, <2>1 DEF TypeOK, URLs, Blocks, HeartbeatMark, MutexFree
  <2> QED
    BY <1>3, <2>2, OutsideFrame DEF HeartbeatMark, MutexFree
<1>4. CASE Cancel
  <2>1. FlagsOK'
    BY <1>4, <1>b, Zenon DEF FlagsOK, Cancel
  <2>2. TypeOK'
    BY <1>4, <1>a, <2>1 DEF TypeOK, URLs, Blocks, Cancel
  <2> QED
    BY <1>4, <2>2, OutsideFrame DEF Cancel
<1>5. CASE Close
  <2>1. FlagsOK'
    BY <1>5, <1>b, Zenon DEF FlagsOK, Close, MutexFree, Disconnect
  <2>2. TypeOK'
    BY <1>5, <1>a, <2>1 DEF TypeOK, URLs, Blocks, Close, MutexFree, Disconnect
  <2> QED
    BY <1>5, <2>2, OutsideFrame DEF Close, MutexFree, Disconnect
<1>6. CASE TakeBlock
  <2>1. FlagsOK'
    BY <1>6, <1>b, Zenon DEF FlagsOK, TakeBlock
  <2>2. TypeOK'
    BY <1>6, <1>a, <2>1 DEF TypeOK, URLs, Blocks, TakeBlock
  <2> QED
    BY <1>6, <2>2, OutsideFrame DEF TakeBlock
<1>7. CASE TakeError
  <2>1. FlagsOK'
    BY <1>7, <1>b, Zenon DEF FlagsOK, TakeError
  <2>2. TypeOK'
    BY <1>7, <1>a, <2>1 DEF TypeOK, URLs, Blocks, TakeError
  <2> QED
    BY <1>7, <2>2, OutsideFrame DEF TakeError
<1>8. CASE ChainGrows
  <2>1. FlagsOK'
    BY <1>8, <1>b, Zenon DEF FlagsOK, ChainGrows
  <2>2. TypeOK'
    BY <1>8, <1>a, <2>1 DEF TypeOK, URLs, Blocks, ChainGrows
  <2> QED
    BY <1>8, <2>2, OutsideFrame DEF ChainGrows
<1>9. CASE NodeSeesBlock
  <2>1. FlagsOK'
    BY <1>9, <1>b, Zenon DEF FlagsOK, NodeSeesBlock
  <2>2. TypeOK'
    <3>1. wire' \in Seq(Blocks) /\ Len(wire') <= WireCap
      <4>1. CASE sub = "active"
        BY <1>9, <1>a, <4>1 DEF TypeOK, Blocks, NodeSeesBlock
      <4>2. CASE sub # "active"
        BY <1>9, <1>a, <4>2 DEF TypeOK, NodeSeesBlock
      <4> QED
        BY <4>1, <4>2
    <3> QED
      BY <1>9, <1>a, <2>1, <3>1 DEF TypeOK, URLs, Blocks, NodeSeesBlock
  <2> QED
    BY <1>9, <2>2, OutsideFrame DEF NodeSeesBlock
<1>10. CASE SubscriptionDropped
  <2>1. FlagsOK'
    BY <1>10, <1>b, Zenon DEF FlagsOK, SubscriptionDropped, Fault
  <2>2. TypeOK'
    BY <1>10, <1>a, <2>1 DEF TypeOK, URLs, Blocks, SubscriptionDropped, Fault
  <2> QED
    BY <1>10, <2>2, OutsideFrame DEF SubscriptionDropped, Fault
<1>11. CASE NodeReorgs
  <2>1. FlagsOK'
    BY <1>11, <1>b, Zenon DEF FlagsOK, NodeReorgs
  <2>2. TypeOK'
    BY <1>11, <1>a, <2>1 DEF TypeOK, URLs, Blocks, NodeReorgs
  <2> QED
    BY <1>11, <2>2, OutsideFrame DEF NodeReorgs
<1>12. CASE PoolSeesBlock
  <2>1. FlagsOK'
    BY <1>12, <1>b, Zenon DEF FlagsOK, PoolSeesBlock
  <2>2. TypeOK'
    BY <1>12, <1>a, <2>1 DEF TypeOK, URLs, Blocks, PoolSeesBlock
  <2> QED
    BY <1>12, <2>2, OutsideFrame DEF PoolSeesBlock
<1>13. ASSUME NEW u \in URLs, Outage(u) PROVE IInv'
  <2>1. FlagsOK'
    BY <1>13, <1>b, Zenon DEF FlagsOK, Outage, Fault
  <2>2. TypeOK'
    BY <1>13, <1>a, <2>1 DEF TypeOK, URLs, Blocks, Outage, Fault
  <2> QED
    BY <1>13, <2>2, OutsideFrame DEF Outage, Fault
<1>14. ASSUME NEW u \in URLs, Recovery(u) PROVE IInv'
  <2>1. FlagsOK'
    BY <1>14, <1>b, Zenon DEF FlagsOK, Recovery
  <2>2. TypeOK'
    BY <1>14, <1>a, <2>1 DEF TypeOK, URLs, Blocks, Recovery
  <2> QED
    BY <1>14, <2>2, OutsideFrame DEF Recovery
<1>15. CASE UNCHANGED vars
  <2>1. FlagsOK'
    BY <1>15, <1>b, Zenon DEF FlagsOK, vars
  <2>2. TypeOK'
    BY <1>15, <1>a, <2>1 DEF TypeOK, URLs, Blocks, vars
  <2> QED
    BY <1>15, <2>2, OutsideFrame DEF vars
<1> QED
  BY <1>1, <1>2, <1>3, <1>4, <1>5, <1>6, <1>7, <1>8, <1>9, <1>10, <1>11, <1>12,
     <1>13, <1>14, <1>15 DEF Heartbeat, Program, Network

\* The inductive invariant holds in every state of the subscriber, its heartbeat,
\* its callers and the network.
THEOREM Invariance == Spec => []IInv
<1>1. Init => IInv
  BY InitIInv
<1>2. IInv /\ [Next]_vars => IInv'
  BY LoopIInv, OutsideIInv DEF Next, Stopped
<1> QED
  BY <1>1, <1>2, PTL DEF Spec

\* Every variable keeps its type; in particular the URL index stays inside wsURLs
\* and the failure count within 0..MaxWSFailures.
THEOREM TypeCorrect == Spec => []TypeOK
  BY Invariance, PTL DEF IInv

\* No block number is lost without a trace, in any interleaving of streaming,
\* polling, backfill, reconnection and cancellation.
THEOREM GapsAccounted == Spec => []NoUnaccountedGap
  BY Invariance, PTL DEF IInv

\* With a pool the loop never streams with its failures used up.
THEOREM FallbackInTime == Spec => []FallbackNotOverdue
  BY Invariance, PTL DEF IInv

\* A client is overwritten without Close, or left by the loop that ends, only after
\* a fallback to HTTP.
THEOREM ReconnectClosesClient == Spec => []ClientLeakOnlyAfterFallback
  BY Invariance, PTL DEF IInv

-------------------------------------------------------------------------------
(* The loop implements BlockStream. *)

\* A block is sent in turn, or was sent before.
LEMMA SentInTurn ==
    ASSUME IInv,
           NEW n \in Blocks,
           \/ pc = "sendGap" /\ n = job.lo
           \/ pc = "sendHead" /\ n = job.hi
    PROVE  n \in seen \/ Stream!InTurn(n)
<1> USE SubscriberAssumption
<1> SUFFICES ASSUME n \notin seen, NEW m \in seen, m <= n
             PROVE  n - 1 \in seen \union skipped
  BY DEF Stream!InTurn, IInv, TypeOK, Blocks
<1>a. TypeOK /\ JobShape /\ NoUnaccountedGap
  BY DEF IInv
<1>1. m \in Blocks /\ m < n /\ n - 1 \in Blocks /\ m <= n - 1
  BY <1>a DEF TypeOK, Blocks
<1>2. CASE m = n - 1
  BY <1>2
<1>3. CASE m < n - 1 /\ n - 1 <= lastBlockNumber
  <2>1. n - 1 \in seen \union skipped \union InHand
    BY <1>a, <1>1, <1>3 DEF NoUnaccountedGap
  <2>2. n - 1 \notin InHand
    BY <1>a, <1>1 DEF InHand, JobShape, TypeOK, Blocks
  <2> QED
    BY <2>1, <2>2
<1>4. CASE lastBlockNumber < n - 1
  BY <1>a, <1>1, <1>4 DEF JobShape, TypeOK, Blocks
<1> QED
  BY <1>a, <1>1, <1>2, <1>3, <1>4 DEF TypeOK, Blocks

\* Every step delivers a block in turn, gives blocks up, closes the stream, or
\* leaves all three alone.
LEMMA StreamStep ==
    ASSUME IInv, [Next]_vars
    PROVE  Stream!Next \/ UNCHANGED Stream!streamVars
<1> USE SubscriberAssumption
        DEF loopVars, connVars, streamVars, callerVars, chainVars, historyVars
<1>a. TypeOK /\ ModeShape /\ JobShape
  BY DEF IInv
<1>1. ASSUME NEW n \in Blocks, Send(n), skipped' = skipped,
             pc # "done", pc' # "done",
             n \in seen \/ Stream!InTurn(n)
      PROVE  Stream!Next \/ UNCHANGED Stream!streamVars
  BY <1>1 DEF Send, Stream!Next, Stream!Deliver, Stream!streamVars
<1>2. ASSUME NEW S \in SUBSET Blocks, GiveUp(S), seen' = seen,
             pc # "done", pc' # "done"
      PROVE  Stream!Next \/ UNCHANGED Stream!streamVars
  <2>1. Stream!GiveUp(S \ seen)
    BY <1>2 DEF GiveUp, Stream!GiveUp
  <2>2. S \ seen \in SUBSET Blocks
    OBVIOUS
  <2> QED
    BY <2>1, <2>2 DEF Stream!Next
<1>3. CASE LoopStop \/ WaitCancelled
  BY <1>3 DEF LoopStop, WaitCancelled, Disconnect, Stream!Next,
              Stream!CloseStream
<1>4. CASE ReceiveHeader
  <2>1. Head(wire) \in Blocks /\ pc = "streaming" /\ seen' = seen
    BY <1>4, <1>a DEF TypeOK, ReceiveHeader
  <2>2. CASE hasPool /\ Gap(Head(wire)) # {}
    BY <1>4, <2>2 DEF ReceiveHeader, Stream!streamVars
  <2>3. CASE ~(hasPool /\ Gap(Head(wire)) # {})
    <3>1. pc' = "sendHead" /\ GiveUp(Gap(Head(wire)))
      BY <1>4, <2>3 DEF ReceiveHeader, AdvanceTo
    <3>2. Gap(Head(wire)) \in SUBSET Blocks
      BY <1>a, <2>1 DEF TypeOK, Blocks, Gap
    <3> QED
      BY <1>2, <2>1, <3>1, <3>2
  <2> QED
    BY <2>2, <2>3
<1>5. CASE BackfillFails \/ SendBackfilledCancelled
  <2>1. pc \in {"fetch", "sendGap"} /\ seen' = seen /\ AbandonBackfill
    BY <1>5 DEF BackfillFails, SendBackfilledCancelled
  <2>2. job.lo..(job.hi - 1) \in SUBSET Blocks
    BY <1>a, <2>1 DEF JobShape, TypeOK, Blocks
  <2> QED
    BY <1>2, <2>1, <2>2 DEF AbandonBackfill, AdvanceTo
<1>6. CASE SendBackfilled
  <2>1. job.lo \in Blocks /\ pc = "sendGap"
    BY <1>6, <1>a DEF SendBackfilled, JobShape, TypeOK, Blocks
  <2>2. Send(job.lo) /\ skipped' = skipped /\ pc' # "done"
    BY <1>6 DEF SendBackfilled, AdvanceTo
  <2> QED
    BY <1>1, <2>1, <2>2, SentInTurn
<1>7. CASE SendHead
  <2>1. job.hi \in Blocks /\ pc = "sendHead"
    BY <1>7, <1>a DEF SendHead, JobShape
  <2>2. Send(job.hi) /\ skipped' = skipped /\ pc' # "done"
    BY <1>7 DEF SendHead
  <2> QED
    BY <1>1, <2>1, <2>2, SentInTurn
<1>8. CASE SendHeadCancelled
  <2>1. {job.hi} \in SUBSET Blocks /\ pc = "sendHead" /\ seen' = seen
    BY <1>8, <1>a DEF SendHeadCancelled, JobShape
  <2>2. GiveUp({job.hi}) /\ pc' # "done"
    BY <1>8 DEF SendHeadCancelled, ReturnSubscribeError
  <2> QED
    BY <1>2, <2>1, <2>2
<1>9. CASE PollNewBlock
  <2>1. PICK n \in poolHead..head : IsNew(n) /\ AdvanceTo(n) /\ GiveUp(Gap(n))
    BY <1>9 DEF PollNewBlock
  <2>2. Gap(n) \in SUBSET Blocks
    BY <1>a, <2>1 DEF TypeOK, Blocks, Gap
  <2>3. pc = "polling" /\ pc' = "sendHead" /\ seen' = seen
    BY <1>9, <2>1 DEF PollNewBlock, AdvanceTo
  <2> QED
    BY <1>2, <2>1, <2>2, <2>3
<1>10. CASE SubscribeNewHead
  BY <1>10 DEF SubscribeNewHead, Stream!streamVars
<1>11. CASE \/ StartPolling \/ StreamEnds \/ MessageTimeout \/ BackfillFetch
            \/ FallBackToHTTP \/ PrepareReconnect \/ DelayOver
            \/ DialSucceeds \/ DialFails
            \/ PollFails \/ ReportPollError \/ PollWaitOver
  BY <1>11 DEF StartPolling, StreamEnds, MessageTimeout, BackfillFetch,
               FallBackToHTTP, PrepareReconnect, DelayOver, DialSucceeds,
               DialFails, PollFails, ReportPollError, PollWaitOver,
               ReturnSubscribeError, Stream!streamVars
<1>12. CASE Heartbeat \/ Program
  BY <1>12 DEF Heartbeat, Program, HeartbeatStart, HeartbeatVerdict,
               HeartbeatMark, Cancel, Close, TakeBlock, TakeError,
               Stream!streamVars
<1>13. CASE Network
  BY <1>13 DEF Network, ChainGrows, NodeSeesBlock, SubscriptionDropped,
               NodeReorgs, PoolSeesBlock, Outage, Recovery, Stream!streamVars
<1>14. CASE Stopped \/ UNCHANGED vars
  BY <1>14 DEF Stopped, vars, Stream!streamVars
<1> QED
  BY <1>3, <1>4, <1>5, <1>6, <1>7, <1>8, <1>9, <1>10, <1>11, <1>12, <1>13, <1>14
     DEF Next, Loop

\* In every interleaving the block channel delivers in order, passes over only
\* numbers given up before, and delivers nothing once it is closed.
THEOREM RefinesBlockStream == Spec => ImplementsBlockStream
<1>1. Init => Stream!Init
  BY DEF Init, Stream!Init
<1>2. IInv /\ [Next]_vars => [Stream!Next]_(Stream!streamVars)
  BY StreamStep
<1> QED
  BY <1>1, <1>2, Invariance, PTL DEF Spec, ImplementsBlockStream, Stream!Spec
===============================================================================
