---------------------------- MODULE DetectorsProofs ---------------------------
(***************************************************************************)
(* The block loop and its detectors, for every set of pairs, capacity,     *)
(* number of attempts and of opportunities: types, the lock step of the    *)
(* pairs, the end of the loop, the time of the gas price, and the account  *)
(* of the publications.                                                    *)
(*                                                                         *)
(* The inductive invariant counts the results of a block: each pair is at  *)
(* work, has its result on resultsCh, or has been collected, once.  It     *)
(* ties the blocks a pair has been called for to where its Detect stands,  *)
(* a cached gas price to its time, and a publication to the opportunity    *)
(* in hand: those before it are accounted for, those after it untouched.   *)
(***************************************************************************)
EXTENDS Detectors, FiniteSetTheorems, SequenceTheorems, TLAPS

Busy == {p \in Pairs : det[p] # "idle"}

TimeOf(p) == IF gas[p].jumped THEN VolatileTTL ELSE TTL

-------------------------------------------------------------------------------
(* The invariant.                                                            *)

\* A pair has analysed what was taken, or the last block is still ahead of it.
Analysing ==
    \A p \in Pairs :
        IF det[p] = "forked" THEN taken # <<>> /\ analysed[p] = Front(taken)
        ELSE analysed[p] = taken

\* Between blocks nobody works; during one, each pair is in one place.
Joining ==
    /\ loop # "collect" => Busy = {}
    /\ loop = "collect" =>
        /\ results \intersect Busy = {}
        /\ collected + Cardinality(results) + Cardinality(Busy) = Cardinality(Pairs)
        /\ collected < Cardinality(Pairs)

\* Nothing comes on a channel after it is closed, and the loop knows which are.
Ends ==
    /\ announced = taken \o blockCh
    /\ "block" \in nilled => ~blockOpen /\ blockCh = <<>>
    /\ "err" \in nilled => ~errOpen /\ errCh = 0
    /\ loop = "stopped" => ctxDone \/ {"block", "err"} \subseteq nilled
    /\ loop # "stopped" => ~({"block", "err"} \subseteq nilled)

GasShape ==
    \A p \in Pairs : gas[p].left > 0 => gas[p].left + gas[p].age = TimeOf(p)

\* What is in hand has had its attempts; what follows has had none (f opportunities,
\* the n-th in hand after a attempts, copies t on the topic, u of them unanswered,
\* failures l logged).
InHand(f, n, a, t, u, l) ==
    /\ n \in 1..f /\ t[n] <= u[n] /\ u[n] <= a
    /\ \A k \in Opps : k < n => t[k] > 0 \/ k \in l
    /\ \A k \in Opps : k > n => t[k] = 0 /\ u[k] = 0

Account(pc, f, n, a, t, u, l) ==
    /\ pc \in {"publish", "backoff"} => InHand(f, n, a, t, u, l)
    /\ pc \notin {"publish", "backoff"} => a = 0
    /\ pc \notin {"publish", "backoff", "done"} => \A k \in Opps : t[k] = 0 /\ u[k] = 0
    /\ pc = "done" => \A k \in 1..f : t[k] > 0 \/ k \in l
    /\ \A k \in Opps : t[k] <= u[k] + 1

PublicationShape(p) ==
    Account(det[p], found[p], next[p], attempt[p], topic[p], unanswered[p], logged[p])

IInv ==
    /\ TypeOK /\ Analysing /\ Joining /\ Ends /\ GasShape
    /\ \A p \in Pairs : PublicationShape(p)

-------------------------------------------------------------------------------
(* Sequences.                                                                *)

LEMMA QueueFacts ==
    ASSUME NEW S, NEW t \in Seq(S), NEW b \in Seq(S), b # <<>>
    PROVE  /\ Head(b) \in S /\ Tail(b) \in Seq(S) /\ Len(Tail(b)) = Len(b) - 1
           /\ Append(t, Head(b)) \in Seq(S)
           /\ Append(t, Head(b)) \o Tail(b) = t \o b
  OBVIOUS

LEMMA FrontLast ==
    ASSUME NEW S, NEW t \in Seq(S), NEW n \in S
    PROVE  /\ Append(t, n) # <<>> /\ Front(Append(t, n)) = t /\ Last(Append(t, n)) = n
<1>1. /\ Append(t, n) \in Seq(S) /\ Len(Append(t, n)) = Len(t) + 1 /\ Len(t) \in Nat
      /\ \A k \in 1..Len(t) : Append(t, n)[k] = t[k]
      /\ Append(t, n)[Len(t) + 1] = n
  OBVIOUS
<1> DEFINE u == Append(t, n)
<1> HIDE DEF u
<1>2. Front(u) = [k \in 1..Len(t) |-> u[k]]
  BY <1>1 DEF u, Front
<1>3. Front(u) = t
  BY <1>1, <1>2 DEF u
<1>4. u # <<>> /\ Last(u) = n
  BY <1>1 DEF u, Last
<1> QED
  BY <1>3, <1>4 DEF u

\* What Detect is called for completes what the pair has analysed.
LEMMA LastCompletes ==
    ASSUME NEW S, NEW t \in Seq(S), t # <<>>
    PROVE  /\ Last(t) \in S /\ Front(t) \in Seq(S) /\ Append(Front(t), Last(t)) = t
<1>1. Len(t) \in Nat /\ Len(t) >= 1 /\ Last(t) \in S /\ Last(t) = t[Len(t)]
  BY DEF Last
<1> DEFINE f == [k \in 1..(Len(t) - 1) |-> t[k]]
<1>2. Front(t) = f
  BY DEF Front
<1>3. f \in Seq(S) /\ Len(f) = Len(t) - 1
  BY <1>1
<1>4. \A k \in 1..(Len(t) - 1) : f[k] = t[k]
  OBVIOUS
<1> HIDE DEF f
<1>5. /\ Append(f, Last(t)) \in Seq(S) /\ Len(Append(f, Last(t))) = Len(t)
      /\ \A k \in 1..(Len(t) - 1) : Append(f, Last(t))[k] = f[k]
      /\ Append(f, Last(t))[Len(t)] = Last(t)
  BY <1>1, <1>3
<1>6. \A k \in 1..Len(t) : Append(f, Last(t))[k] = t[k]
  BY <1>1, <1>4, <1>5
<1>7. Append(f, Last(t)) = t
  BY <1>5, <1>6, SeqEqual
<1> QED
  BY <1>1, <1>2, <1>3, <1>7

-------------------------------------------------------------------------------
(* Types, in the parts in which they are kept.                               *)

States == {"idle", "forked", "eth", "gas", "fetching", "process", "publish",
           "backoff", "done"}

ChannelTypes ==
    /\ sent \subseteq 1..MaxBlock
    /\ {blockOpen, errOpen, ctxDone} \subseteq BOOLEAN
    /\ announced \in Seq(1..MaxBlock) /\ blockCh \in Seq(1..MaxBlock)
    /\ Len(announced) <= MaxSent /\ Len(blockCh) <= BlockCap
    /\ errCh \in 0..1 /\ reported \in 0..MaxSent
    /\ loop \in {"select", "collect", "stopped"}
    /\ nilled \subseteq {"block", "err"}
    /\ taken \in Seq(1..MaxBlock)

WorkTypes ==
    /\ results \subseteq Pairs /\ collected \in 0..Cardinality(Pairs)
    /\ det \in [Pairs -> States]
    /\ analysed \in [Pairs -> Seq(1..MaxBlock)]

GasTypes ==
    gas \in [Pairs -> [price : 0..MaxGas, left : 0..TTL, age : 0..TTL, jumped : BOOLEAN]]

PublicationTypes ==
    /\ found \in [Pairs -> 0..MaxOpps] /\ next \in [Pairs -> 0..MaxOpps + 1]
    /\ attempt \in [Pairs -> 0..MaxAttempts - 1]
    /\ topic \in [Pairs -> [Opps -> 0..MaxAttempts]]
    /\ unanswered \in [Pairs -> [Opps -> 0..MaxAttempts]]
    /\ logged \in [Pairs -> SUBSET Opps]

LEMMA TypeParts ==
    /\ TypeOK <=> ChannelTypes /\ WorkTypes /\ GasTypes /\ PublicationTypes
    /\ TypeOK' <=> ChannelTypes' /\ WorkTypes' /\ GasTypes' /\ PublicationTypes'
  BY DEF TypeOK, ChannelTypes, WorkTypes, GasTypes, PublicationTypes, States

Working == States \ {"idle", "forked"}

\* A step of a Detect starts it, ends it, or leaves it at work.
LEMMA DetectorStep ==
    ASSUME NEW p \in Pairs, Remote(p) \/ Local(p)
    PROVE  /\ UNCHANGED <<chanVars, loop, nilled, taken, collected, ctxDone>>
           /\ \/ Detect(p)
              \/ Return(p)
              \/ /\ det[p] \in Working \/ det[p] \notin States
                 /\ \E pc \in Working : det' = [det EXCEPT ![p] = pc]
                 /\ UNCHANGED <<analysed, results>>
<1> USE DEF loopVars, Working, States
<1>1. ASSUME PublishNext(p)
      PROVE  \E pc \in Working : det' = [det EXCEPT ![p] = pc]
  BY <1>1 DEF PublishNext
<1>2. CASE FetchETHPrice(p) \/ GasAtHand(p) \/ GasRequest(p) \/ BackoffOver(p)
  BY <1>2 DEF FetchETHPrice, GasAtHand, GasRequest, BackoffOver
<1>3. CASE GasArrives(p) \/ GasFails(p)
  BY <1>3 DEF GasArrives, GasFails
<1>4. CASE Process(p)
  BY <1>4 DEF Process
<1>5. CASE PublishRefused(p) \/ BackoffCancelled(p)
  BY <1>1, <1>5 DEF PublishRefused, BackoffCancelled, PublishFailed
<1>6. CASE PublishAccepted(p)
  BY <1>1, <1>6 DEF PublishAccepted
<1>7. CASE PublishAttemptFails(p)
  BY <1>1, <1>7 DEF PublishAttemptFails, PublishFailed
<1>8. CASE Detect(p)
  BY <1>8 DEF Detect
<1>9. CASE Return(p)
  BY <1>9 DEF Return
<1> QED
  BY <1>2, <1>3, <1>4, <1>5, <1>6, <1>7, <1>8, <1>9 DEF Remote, Local

-------------------------------------------------------------------------------
(* The channels.                                                             *)

LEMMA ChannelsKept ==
    ASSUME ChannelTypes, Ends, [Next]_vars
    PROVE  ChannelTypes' /\ Ends'
<1> USE DEF ChannelTypes, Ends
<1>0. MaxBlock \in Nat /\ MaxSent \in Nat /\ BlockCap \in Nat
  BY DetectorsAssumption
<1>1. ASSUME NEW n \in 1..MaxBlock, Announce(n) PROVE ChannelTypes' /\ Ends'
  <2>1. /\ Append(blockCh, n) \in Seq(1..MaxBlock)
        /\ Append(announced, n) = taken \o Append(blockCh, n)
        /\ Len(Append(blockCh, n)) = Len(blockCh) + 1
    <3>1. taken \in Seq(1..MaxBlock) /\ blockCh \in Seq(1..MaxBlock) /\ n \in 1..MaxBlock
      OBVIOUS
    <3>2. /\ Append(blockCh, n) \in Seq(1..MaxBlock)
          /\ Len(Append(blockCh, n)) = Len(blockCh) + 1
      BY <3>1
    <3>3. Append(taken \o blockCh, n) = taken \o Append(blockCh, n)
      BY ONLY <3>1
    <3> QED
      BY <3>2, <3>3
  <2>2. Append(announced, n) \in Seq(1..MaxBlock) /\ Len(Append(announced, n)) = Len(announced) + 1
    OBVIOUS
  <2>3. /\ blockOpen /\ sent' = sent \union {n} /\ blockOpen' = blockOpen
        /\ Len(announced) + reported < MaxSent /\ Len(blockCh) < BlockCap
        /\ announced' = Append(announced, n) /\ blockCh' = Append(blockCh, n)
        /\ UNCHANGED <<errOpen, errCh, reported, loop, nilled, taken, ctxDone>>
    BY <1>1 DEF Announce, Stream!Deliver, loopVars
  <2>4. Len(announced) \in Nat /\ Len(blockCh) \in Nat
    OBVIOUS
  <2>5. Len(announced') <= MaxSent /\ Len(blockCh') <= BlockCap
    BY <1>0, <2>1, <2>2, <2>3, <2>4
  <2>6. ChannelTypes'
    BY <2>1, <2>2, <2>3, <2>5
  <2>7. Ends'
    BY <2>1, <2>3
  <2> QED
    BY <2>6, <2>7
<1>2. CASE AnnounceError
  BY <1>0, <1>2 DEF AnnounceError, loopVars
<1>3. CASE CloseErrors
  BY <1>0, <1>3 DEF CloseErrors, loopVars
<1>4. CASE CloseBlocks
  BY <1>0, <1>4 DEF CloseBlocks, Stream!CloseStream, loopVars
<1>5. CASE TakeBlock
  <2>1. blockCh # <<>>
    BY <1>5 DEF TakeBlock
  <2>2. /\ Append(taken, Head(blockCh)) \in Seq(1..MaxBlock)
        /\ Tail(blockCh) \in Seq(1..MaxBlock) /\ Len(Tail(blockCh)) = Len(blockCh) - 1
        /\ Append(taken, Head(blockCh)) \o Tail(blockCh) = taken \o blockCh
    BY <2>1, QueueFacts
  <2>3. /\ taken' = Append(taken, Head(blockCh)) /\ blockCh' = Tail(blockCh)
        /\ loop' = "collect"
        /\ UNCHANGED <<sent, blockOpen, errOpen, announced, errCh, reported, nilled, ctxDone>>
    BY <1>5 DEF TakeBlock
  <2>4. Ends'
    BY <2>1, <2>2, <2>3
  <2>5. Len(blockCh') <= BlockCap
    BY <1>0, <2>2, <2>3
  <2>6. ChannelTypes'
    BY <2>2, <2>3, <2>5
  <2> QED
    BY <2>4, <2>6
<1>6. CASE TakeError
  BY <1>0, <1>6 DEF TakeError, loopVars
<1>7. CASE ContextDone
  BY <1>7 DEF ContextDone, chanVars
<1>8. ASSUME NEW p \in Pairs, Collect(p) PROVE ChannelTypes' /\ Ends'
  BY <1>8 DEF Collect, chanVars
<1>9. ASSUME NEW ch \in {"block", "err"}, ChannelEnds(ch) PROVE ChannelTypes' /\ Ends'
  BY <1>9 DEF ChannelEnds, chanVars, BothEnded
<1>10. ASSUME NEW p \in Pairs, Remote(p) \/ Local(p) PROVE ChannelTypes' /\ Ends'
  <2>1. UNCHANGED <<chanVars, loop, nilled, taken, ctxDone>>
    BY <1>10, DetectorStep
  <2> QED
    BY <2>1 DEF chanVars
<1>11. CASE Cancel
  BY <1>11 DEF Cancel, chanVars, loopVars
<1>12. CASE Tick \/ UNCHANGED vars
  <2>1. UNCHANGED <<chanVars, loop, nilled, taken, ctxDone>>
    BY <1>12 DEF Tick, vars, loopVars
  <2> QED
    BY <2>1 DEF chanVars
<1> QED
  BY <1>1, <1>2, <1>3, <1>4, <1>5, <1>6, <1>7, <1>8, <1>9, <1>10, <1>11, <1>12
     DEF Next, Subscription, Loop, Stopped

-------------------------------------------------------------------------------
(* Fork and join.                                                            *)

LEMMA PairsFinite ==
    /\ Cardinality(Pairs) \in Nat
    /\ \A S \in SUBSET Pairs : IsFiniteSet(S) /\ Cardinality(S) \in Nat
                               /\ Cardinality(S) <= Cardinality(Pairs)
  BY DetectorsAssumption, FS_Subset, FS_CardinalityType

\* Removing a pair from a set of them, and adding one to it.
LEMMA PairSteps ==
    ASSUME NEW S \in SUBSET Pairs, NEW p \in Pairs
    PROVE  /\ p \in S => Cardinality(S \ {p}) = Cardinality(S) - 1
           /\ p \notin S => Cardinality(S \union {p}) = Cardinality(S) + 1
  BY PairsFinite, FS_RemoveElement, FS_AddElement

\* A step that no Detect takes part in.
LEMMA WorkFrame ==
    ASSUME WorkTypes, Analysing, Joining,
           UNCHANGED <<loop, taken, results, collected, det, analysed>>
    PROVE  WorkTypes' /\ Analysing' /\ Joining'
<1>1. Busy' = Busy
  BY DEF Busy
<1> QED
  BY <1>1 DEF WorkTypes, Analysing, Joining

LEMMA WorkKept ==
    ASSUME ChannelTypes, WorkTypes, Analysing, Joining, [Next]_vars
    PROVE  WorkTypes' /\ Analysing' /\ Joining'
<1> DEFINE Kept == WorkTypes' /\ Analysing' /\ Joining'
<1>1. /\ taken \in Seq(1..MaxBlock) /\ Busy \subseteq Pairs /\ results \subseteq Pairs
      /\ det \in [Pairs -> States] /\ analysed \in [Pairs -> Seq(1..MaxBlock)]
      /\ collected \in Nat
  BY PairsFinite DEF ChannelTypes, WorkTypes, Busy
<1>2. ASSUME TakeBlock PROVE Kept
  <2>1. /\ blockCh \in Seq(1..MaxBlock) /\ blockCh # <<>> /\ loop' = "collect"
        /\ taken' = Append(taken, Head(blockCh)) /\ collected' = 0 /\ results' = {}
        /\ det' = [p \in Pairs |-> "forked"] /\ analysed' = analysed /\ loop = "select"
    BY <1>2 DEF TakeBlock, ChannelTypes
  <2>2. taken' # <<>> /\ Front(taken') = taken
    BY <1>1, <2>1, QueueFacts, FrontLast
  <2>3. \A p \in Pairs : analysed[p] = taken
    BY <2>1 DEF Joining, Analysing, Busy
  <2>4. Analysing'
    BY <2>1, <2>2, <2>3 DEF Analysing
  <2>5. Busy' = Pairs
    BY <2>1 DEF Busy
  <2>6. Joining'
    <3>1. Cardinality(Pairs) # 0
      BY PairsFinite, FS_EmptySet, DetectorsAssumption
    <3> QED
      BY <2>1, <2>5, <3>1, PairsFinite, FS_EmptySet DEF Joining
  <2>7. WorkTypes'
    BY <1>1, <2>1, PairsFinite DEF WorkTypes, States
  <2> QED
    BY <2>4, <2>6, <2>7
<1>3. ASSUME NEW p \in Pairs, Collect(p) PROVE Kept
  <2>1. /\ loop = "collect" /\ p \in results /\ results' = results \ {p}
        /\ collected' = collected + 1
        /\ loop' = IF collected + 1 = Cardinality(Pairs) THEN "select" ELSE "collect"
        /\ UNCHANGED <<taken, det, analysed>>
    BY <1>3 DEF Collect, AllCollected
  <2>2. Busy' = Busy /\ Analysing'
    BY <2>1 DEF Busy, Analysing
  <2>3. /\ results \intersect Busy = {}
        /\ collected + Cardinality(results) + Cardinality(Busy) = Cardinality(Pairs)
    BY <2>1 DEF Joining
  <2>4. /\ Cardinality(results') = Cardinality(results) - 1
        /\ Cardinality(results) \in Nat /\ Cardinality(results') \in Nat
        /\ Cardinality(Busy) \in Nat /\ Cardinality(Pairs) \in Nat
    BY <1>1, <2>1, PairSteps, PairsFinite
  <2>5. collected + 1 = Cardinality(Pairs) => Busy = {}
    <3>1. collected + 1 = Cardinality(Pairs) => Cardinality(Busy) = 0
      BY <1>1, <2>3, <2>4
    <3> QED
      BY <1>1, <3>1, PairsFinite, FS_EmptySet
  <2>6. Joining'
    <3>1. loop' # "collect" => Busy' = {}
      BY <2>1, <2>2, <2>5
    <3>2. results' \intersect Busy' = {}
      BY <2>1, <2>2, <2>3
    <3>3. collected' + Cardinality(results') + Cardinality(Busy') = Cardinality(Pairs)
      BY <1>1, <2>1, <2>2, <2>3, <2>4
    <3>4. loop' = "collect" => collected' < Cardinality(Pairs)
      <4>1. collected < Cardinality(Pairs)
        BY <2>1 DEF Joining
      <4> QED
        BY <1>1, <2>1, <2>4, <4>1
    <3> QED
      BY <3>1, <3>2, <3>3, <3>4 DEF Joining
  <2>7. WorkTypes'
    <3>1. collected + 1 \in 0..Cardinality(Pairs)
      BY <1>1, <2>3, <2>4
    <3> QED
      BY <1>1, <2>1, <3>1 DEF WorkTypes
  <2> QED
    BY <2>2, <2>6, <2>7
<1>4. ASSUME NEW p \in Pairs, Detect(p) PROVE Kept
  <2>1. /\ det[p] = "forked" /\ det' = [det EXCEPT ![p] = "eth"]
        /\ analysed' = [analysed EXCEPT ![p] = Append(analysed[p], Last(taken))]
        /\ UNCHANGED <<loop, taken, results, collected>>
    BY <1>4 DEF Detect, loopVars
  <2>2. Last(taken) \in 1..MaxBlock /\ Append(analysed[p], Last(taken)) = taken
    BY <1>1, <2>1, LastCompletes DEF Analysing
  <2>3. Analysing'
    BY <1>1, <2>1, <2>2 DEF Analysing
  <2>4. Busy' = Busy
    BY <1>1, <2>1 DEF Busy
  <2>5. Joining'
    BY <2>1, <2>4 DEF Joining
  <2>6. WorkTypes'
    BY <1>1, <2>1, <2>2 DEF WorkTypes, States
  <2> QED
    BY <2>3, <2>5, <2>6
<1>5. ASSUME NEW p \in Pairs, Return(p) PROVE Kept
  <2>1. /\ det[p] = "done" /\ det' = [det EXCEPT ![p] = "idle"]
        /\ results' = results \union {p}
        /\ UNCHANGED <<loop, taken, collected, analysed>>
    BY <1>5 DEF Return
  <2>2. p \in Busy /\ Busy' = Busy \ {p}
    BY <1>1, <2>1 DEF Busy
  <2>3. Analysing'
    BY <1>1, <2>1 DEF Analysing
  <2>4. /\ loop = "collect" /\ results \intersect Busy = {}
        /\ collected + Cardinality(results) + Cardinality(Busy) = Cardinality(Pairs)
    BY <2>2 DEF Joining
  <2>5. /\ p \notin results
        /\ Cardinality(results') = Cardinality(results) + 1
        /\ Cardinality(Busy') = Cardinality(Busy) - 1
    BY <1>1, <2>1, <2>2, <2>4, PairSteps
  <2>6. Cardinality(results) \in Nat /\ Cardinality(Busy) \in Nat
    BY <1>1, PairsFinite
  <2>7. Joining'
    <3>1. results' \intersect Busy' = {}
      BY <2>1, <2>2, <2>4
    <3>2. collected + Cardinality(results') + Cardinality(Busy') = Cardinality(Pairs)
      BY <1>1, <2>4, <2>5, <2>6
    <3> QED
      BY <2>1, <2>4, <3>1, <3>2 DEF Joining
  <2>8. WorkTypes'
    BY <1>1, <2>1 DEF WorkTypes, States
  <2> QED
    BY <2>3, <2>7, <2>8
<1>6. ASSUME NEW p \in Pairs, NEW pc \in Working, det[p] \in Working,
             det' = [det EXCEPT ![p] = pc],
             UNCHANGED <<loop, taken, results, collected, analysed>>
      PROVE  Kept
  <2>1. Analysing'
    BY <1>1, <1>6 DEF Analysing, Working
  <2>2. Busy' = Busy
    BY <1>1, <1>6 DEF Busy, Working
  <2>3. Joining' /\ WorkTypes'
    BY <1>1, <1>6, <2>2 DEF Joining, WorkTypes, Working
  <2> QED
    BY <2>1, <2>3
<1>7. ASSUME NEW p \in Pairs, Remote(p) \/ Local(p) PROVE Kept
  <2> HIDE DEF Kept
  <2>1. UNCHANGED <<loop, taken, collected>>
    BY <1>7, DetectorStep
  <2>2. det[p] \in States
    BY <1>1
  <2> QED
    BY <1>4, <1>5, <1>6, <1>7, <2>1, <2>2, DetectorStep
<1>8. CASE Subscription
  <2>1. UNCHANGED <<loop, taken, results, collected, det, analysed>>
    BY <1>8 DEF Subscription, Announce, AnnounceError, CloseErrors, CloseBlocks, loopVars
  <2> QED
    BY <2>1, WorkFrame
<1>9. ASSUME NEW ch \in {"block", "err"}, ChannelEnds(ch) PROVE Kept
  <2>1. /\ loop = "select" /\ loop' # "collect"
        /\ UNCHANGED <<taken, results, collected, det, analysed>>
    BY <1>9 DEF ChannelEnds
  <2>2. Busy' = Busy
    BY <2>1 DEF Busy
  <2> QED
    BY <2>1, <2>2 DEF WorkTypes, Analysing, Joining
<1>10. ASSUME ContextDone PROVE Kept
  <2>1. /\ loop = "select" /\ loop' = "stopped"
        /\ UNCHANGED <<taken, results, collected, det, analysed>>
    BY <1>10 DEF ContextDone
  <2>2. Busy' = Busy
    BY <2>1 DEF Busy
  <2> QED
    BY <2>1, <2>2 DEF WorkTypes, Analysing, Joining
<1>11. CASE TakeError \/ Cancel \/ Tick \/ UNCHANGED vars
  <2>1. UNCHANGED <<loop, taken, results, collected, det, analysed>>
    BY <1>11 DEF TakeError, Cancel, Tick, vars, loopVars
  <2> QED
    BY <2>1, WorkFrame
<1> QED
  BY <1>2, <1>3, <1>7, <1>8, <1>9, <1>10, <1>11 DEF Next, Loop, Stopped

-------------------------------------------------------------------------------
(* The gas price.                                                            *)

\* Both ways to say that a price has jumped.
LEMMA JumpIsVolatile ==
    ASSUME NEW old \in Nat, NEW new \in Nat
    PROVE  IsVolatile(old, new) <=>
              old # 0 /\ (100 * new >= (100 + Threshold) * old \/
                          100 * new <= (100 - Threshold) * old)
<1> DEFINE k == Threshold * old
<1>1. Threshold \in Nat
  BY DetectorsAssumption
<1>2. k \in Nat /\ (100 + Threshold) * old = 100 * old + k
      /\ (100 - Threshold) * old = 100 * old - k
  BY <1>1
<1>3. IsVolatile(old, new) <=>
         old # 0 /\ 100 * (IF new > old THEN new - old ELSE old - new) >= k
  BY DEF IsVolatile
<1> HIDE DEF k
<1>4. 100 * (IF new > old THEN new - old ELSE old - new) >= k <=>
         100 * new >= 100 * old + k \/ 100 * new <= 100 * old - k
  <2>1. k \in Nat
    BY <1>2
  <2>2. CASE new > old
    BY <2>1, <2>2
  <2>3. CASE ~(new > old)
    BY <2>1, <2>3
  <2> QED
    BY <2>2, <2>3
<1> QED
  BY <1>2, <1>3, <1>4

LEMMA GasKept ==
    ASSUME GasTypes, GasShape, [Next]_vars
    PROVE  GasTypes' /\ GasShape'
<1> DEFINE Gas == [price : 0..MaxGas, left : 0..TTL, age : 0..TTL, jumped : BOOLEAN]
           Fits(g) == g.left > 0 => g.left + g.age = IF g.jumped THEN VolatileTTL ELSE TTL
<1>1. /\ TTL \in Nat \ {0} /\ VolatileTTL \in Nat \ {0} /\ VolatileTTL <= TTL
      /\ MaxGas \in Nat \ {0} /\ GasPrices \subseteq Nat
  BY DetectorsAssumption
<1>2. \A q \in Pairs : gas[q] \in Gas /\ Fits(gas[q])
  BY DEF GasTypes, GasShape, TimeOf
<1>3. ASSUME NEW p \in Pairs, GasArrives(p) PROVE GasTypes' /\ GasShape'
  <2>1. PICK price \in GasPrices :
           gas' = [gas EXCEPT ![p] =
              [price  |-> Capped(price),
               left   |-> IF IsVolatile(gas[p].price, Capped(price))
                          THEN VolatileTTL ELSE TTL,
               age    |-> 0,
               jumped |-> gas[p].price # 0 /\
                   (100 * Capped(price) >= (100 + Threshold) * gas[p].price \/
                    100 * Capped(price) <= (100 - Threshold) * gas[p].price)]]
    BY <1>3 DEF GasArrives
  <2> DEFINE jump == gas[p].price # 0 /\
                   (100 * Capped(price) >= (100 + Threshold) * gas[p].price \/
                    100 * Capped(price) <= (100 - Threshold) * gas[p].price)
             left == IF IsVolatile(gas[p].price, Capped(price)) THEN VolatileTTL ELSE TTL
             g == [price |-> Capped(price), left |-> left, age |-> 0, jumped |-> jump]
  <2>2. Capped(price) \in 0..MaxGas /\ gas[p].price \in 0..MaxGas
    BY <1>1, <1>2 DEF Capped
  <2>3. IsVolatile(gas[p].price, Capped(price)) <=> jump
    BY <1>1, <2>2, JumpIsVolatile
  <2>4. jump \in BOOLEAN
    OBVIOUS
  <2>5. gas' = [gas EXCEPT ![p] = g]
    BY <2>1, Zenon
  <2> HIDE DEF jump
  <2>6. g \in Gas /\ Fits(g)
    BY <1>1, <2>2, <2>3, <2>4
  <2> HIDE DEF g
  <2>7. \A q \in Pairs : gas'[q] = IF q = p THEN g ELSE gas[q]
    BY <2>5 DEF GasTypes
  <2>8. gas' \in [Pairs -> Gas]
    BY <1>2, <2>5, <2>6 DEF GasTypes
  <2>9. \A q \in Pairs : Fits(gas'[q])
    BY <1>2, <2>6, <2>7, Zenon
  <2> QED
    BY <2>8, <2>9 DEF GasTypes, GasShape, TimeOf
<1>4. ASSUME Tick PROVE GasTypes' /\ GasShape'
  <2>1. gas' = [p \in Pairs |-> Older(gas[p])]
    BY <1>4 DEF Tick
  <2>2. ASSUME NEW g \in Gas, Fits(g) PROVE Older(g) \in Gas /\ Fits(Older(g))
    BY <1>1, <2>2 DEF Older
  <2>3. \A q \in Pairs : Older(gas[q]) \in Gas /\ Fits(Older(gas[q]))
    BY <1>2, <2>2
  <2> QED
    BY <2>1, <2>3 DEF GasTypes, GasShape, TimeOf
<1>5. ASSUME UNCHANGED gas PROVE GasTypes' /\ GasShape'
  BY <1>5 DEF GasTypes, GasShape, TimeOf
<1>6. CASE Subscription \/ Loop \/ Cancel \/ UNCHANGED vars
  <2>1. UNCHANGED gas
    BY <1>6 DEF Subscription, Announce, AnnounceError, CloseErrors, CloseBlocks, Loop,
       TakeBlock, TakeError, ContextDone, Collect, ChannelEnds, Cancel, vars
  <2> QED
    BY <1>5, <2>1
<1>7. ASSUME NEW p \in Pairs, Remote(p) \/ Local(p) PROVE GasTypes' /\ GasShape'
  <2>1. GasArrives(p) \/ UNCHANGED gas
    BY <1>7 DEF Remote, Local, Detect, FetchETHPrice, GasAtHand, GasRequest, BackoffOver,
       BackoffCancelled, Return, GasFails, Process, PublishRefused, PublishAccepted,
       PublishAttemptFails
  <2> QED
    BY <1>3, <1>5, <2>1
<1> QED
  BY <1>4, <1>6, <1>7 DEF Next, Stopped

-------------------------------------------------------------------------------
(* The publications of a pair.                                               *)

\* Another pair's step.
LEMMA ShapeFrame ==
    ASSUME NEW q \in Pairs, PublicationShape(q),
           det'[q] = det[q], found'[q] = found[q], next'[q] = next[q],
           attempt'[q] = attempt[q], topic'[q] = topic[q],
           unanswered'[q] = unanswered[q], logged'[q] = logged[q]
    PROVE  PublicationShape(q)'
  BY DEF PublicationShape

\* The opportunity in hand is accounted for, and the next one taken up, if any.
LEMMA NextTakenUp ==
    ASSUME NEW f \in 0..MaxOpps, NEW n, NEW a \in Nat, NEW l, NEW l2,
           NEW t \in [Opps -> Nat], NEW u \in [Opps -> Nat],
           NEW t2 \in [Opps -> Nat], NEW u2 \in [Opps -> Nat],
           InHand(f, n, a, t, u, l), \A k \in Opps : t[k] <= u[k] + 1,
           \A k \in Opps : k # n => t2[k] = t[k] /\ u2[k] = u[k],
           l \subseteq l2, t2[n] <= u2[n] + 1, t2[n] > 0 \/ n \in l2
    PROVE  /\ n \in Opps
           /\ n < f => n + 1 \in Opps /\ Account("publish", f, n + 1, 0, t2, u2, l2)
           /\ ~(n < f) => Account("done", f, n, 0, t2, u2, l2)
<1>1. MaxOpps \in Nat
  BY DetectorsAssumption
<1>2. n \in 1..f /\ n \in Opps /\ Opps = 1..MaxOpps /\ f \in Nat
  BY <1>1 DEF InHand, Opps
<1>3. /\ \A k \in Opps : k < n => t[k] > 0 \/ k \in l
      /\ \A k \in Opps : k > n => t[k] = 0 /\ u[k] = 0
  BY DEF InHand
<1>4. \A k \in Opps : t2[k] <= u2[k] + 1
  OBVIOUS
<1>5. \A k \in Opps : k <= n => t2[k] > 0 \/ k \in l2
  BY <1>2, <1>3
<1>6. \A k \in Opps : k > n => t2[k] = 0 /\ u2[k] = 0
  BY <1>2, <1>3
<1>7. ASSUME n < f PROVE n + 1 \in Opps /\ Account("publish", f, n + 1, 0, t2, u2, l2)
  <2>1. n + 1 \in 1..f /\ n + 1 \in Opps
    BY <1>1, <1>2, <1>7
  <2>2. t2[n + 1] = 0 /\ u2[n + 1] = 0
    BY <1>2, <1>6, <2>1
  <2>3. \A k \in Opps : k < n + 1 => t2[k] > 0 \/ k \in l2
    BY <1>2, <1>5
  <2>4. \A k \in Opps : k > n + 1 => t2[k] = 0 /\ u2[k] = 0
    BY <1>2, <1>6
  <2>5. InHand(f, n + 1, 0, t2, u2, l2)
    BY <2>1, <2>2, <2>3, <2>4 DEF InHand
  <2> QED
    BY <1>4, <2>1, <2>5 DEF Account
<1>8. ASSUME ~(n < f) PROVE Account("done", f, n, 0, t2, u2, l2)
  <2>1. \A k \in 1..f : k \in Opps /\ k <= n
    BY <1>1, <1>2, <1>8
  <2> QED
    BY <1>4, <1>5, <2>1 DEF Account
<1> QED
  BY <1>2, <1>7, <1>8

\* A Detect that publishes nothing in this step.
LEMMA AccountMoves ==
    ASSUME NEW pc, NEW pc2, NEW f, NEW n, NEW a, NEW t, NEW u, NEW l,
           Account(pc, f, n, a, t, u, l),
           \/ pc \notin {"publish", "backoff", "done"} /\ pc2 \notin {"publish", "backoff", "done"}
           \/ pc \in {"publish", "backoff"} /\ pc2 \in {"publish", "backoff"}
    PROVE  Account(pc2, f, n, a, t, u, l)
  BY DEF Account

LEMMA PublicationsKept ==
    ASSUME WorkTypes, PublicationTypes, Joining,
           \A q \in Pairs : PublicationShape(q), [Next]_vars
    PROVE  PublicationTypes' /\ \A q \in Pairs : PublicationShape(q)'
<1> DEFINE Kept == PublicationTypes' /\ \A q \in Pairs : PublicationShape(q)'
           Move(p, pc) == /\ det' = [det EXCEPT ![p] = pc]
                          /\ UNCHANGED <<found, next, attempt, topic, unanswered, logged>>
<1>1. /\ MaxOpps \in Nat /\ MaxAttempts \in Nat \ {0} /\ Opps = 1..MaxOpps
      /\ det \in [Pairs -> States]
  BY DetectorsAssumption DEF Opps, WorkTypes
<1>2. ASSUME UNCHANGED <<det, pubVars>> PROVE Kept
  BY <1>2 DEF PublicationTypes, PublicationShape, pubVars
<1>3. ASSUME NEW p \in Pairs, NEW pc, Move(p, pc),
             \/ det[p] \notin {"publish", "backoff", "done"} /\ pc \notin {"publish", "backoff", "done"}
             \/ det[p] \in {"publish", "backoff"} /\ pc \in {"publish", "backoff"}
      PROVE  Kept
  <2>1. PublicationTypes'
    BY <1>3 DEF PublicationTypes
  <2>2. PublicationShape(p)'
    <3>1. det'[p] = pc
      BY <1>1, <1>3
    <3>2. Account(pc, found[p], next[p], attempt[p], topic[p], unanswered[p], logged[p])
      BY <1>3, AccountMoves DEF PublicationShape
    <3> QED
      BY <1>3, <3>1, <3>2 DEF PublicationShape
  <2>3. ASSUME NEW q \in Pairs, q # p PROVE PublicationShape(q)'
    BY <1>1, <1>3, <2>3, ShapeFrame
  <2> QED
    BY <2>1, <2>2, <2>3
\* The end of one opportunity.
<1>4. ASSUME NEW p \in Pairs, det[p] \in {"publish", "backoff"}, PublishNext(p),
             attempt' = [attempt EXCEPT ![p] = 0], UNCHANGED found,
             topic' \in [Pairs -> [Opps -> 0..MaxAttempts]],
             unanswered' \in [Pairs -> [Opps -> 0..MaxAttempts]],
             \/ UNCHANGED logged
             \/ logged' = [logged EXCEPT ![p] = logged[p] \union {next[p]}],
             \A q \in Pairs : q # p =>
                 topic'[q] = topic[q] /\ unanswered'[q] = unanswered[q],
             \A k \in Opps : k # next[p] =>
                 topic'[p][k] = topic[p][k] /\ unanswered'[p][k] = unanswered[p][k],
             topic'[p][next[p]] <= unanswered'[p][next[p]] + 1,
             topic'[p][next[p]] > 0 \/ next[p] \in logged'[p]
      PROVE  Kept
  <2>1. /\ Account(det[p], found[p], next[p], attempt[p], topic[p], unanswered[p], logged[p])
        /\ found[p] \in 0..MaxOpps /\ attempt[p] \in Nat
        /\ topic[p] \in [Opps -> Nat] /\ unanswered[p] \in [Opps -> Nat]
        /\ topic'[p] \in [Opps -> Nat] /\ unanswered'[p] \in [Opps -> Nat]
        /\ logged[p] \subseteq logged'[p]
    <3>1. Account(det[p], found[p], next[p], attempt[p], topic[p], unanswered[p], logged[p])
      BY DEF PublicationShape
    <3>2. found[p] \in 0..MaxOpps /\ attempt[p] \in Nat
      BY <1>1 DEF PublicationTypes
    <3>3. /\ topic[p] \in [Opps -> Nat] /\ unanswered[p] \in [Opps -> Nat]
          /\ topic'[p] \in [Opps -> Nat] /\ unanswered'[p] \in [Opps -> Nat]
      <4>1. 0..MaxAttempts \subseteq Nat
        BY <1>1
      <4> QED
        BY <1>4, <4>1 DEF PublicationTypes
    <3>4. logged[p] \subseteq logged'[p]
      BY <1>4 DEF PublicationTypes
    <3> QED
      BY <3>1, <3>2, <3>3, <3>4
  <2>2. /\ InHand(found[p], next[p], attempt[p], topic[p], unanswered[p], logged[p])
        /\ \A k \in Opps : topic[p][k] <= unanswered[p][k] + 1
    BY <1>4, <2>1 DEF Account
  <2>3. /\ next[p] \in Opps
        /\ next[p] < found[p] => /\ next[p] + 1 \in Opps
                                 /\ Account("publish", found[p], next[p] + 1, 0, topic'[p],
                                            unanswered'[p], logged'[p])
        /\ ~(next[p] < found[p]) => Account("done", found[p], next[p], 0, topic'[p],
                                            unanswered'[p], logged'[p])
    <3> DEFINE f == found[p]
               n == next[p]
               a == attempt[p]
               t == topic[p]
               u == unanswered[p]
               l == logged[p]
               t2 == topic'[p]
               u2 == unanswered'[p]
               l2 == logged'[p]
    <3>1. /\ f \in 0..MaxOpps /\ a \in Nat /\ t \in [Opps -> Nat] /\ u \in [Opps -> Nat]
          /\ t2 \in [Opps -> Nat] /\ u2 \in [Opps -> Nat] /\ l \subseteq l2
      BY <2>1
    <3>2. InHand(f, n, a, t, u, l) /\ \A k \in Opps : t[k] <= u[k] + 1
      BY <2>2
    <3>3. /\ \A k \in Opps : k # n => t2[k] = t[k] /\ u2[k] = u[k]
          /\ t2[n] <= u2[n] + 1 /\ (t2[n] > 0 \/ n \in l2)
      BY <1>4
    <3> HIDE DEF f, n, a, t, u, l, t2, u2, l2
    <3>4. /\ n \in Opps
          /\ n < f => n + 1 \in Opps /\ Account("publish", f, n + 1, 0, t2, u2, l2)
          /\ ~(n < f) => Account("done", f, n, 0, t2, u2, l2)
      BY ONLY <3>1, <3>2, <3>3, NextTakenUp
    <3> QED
      BY ONLY <3>4 DEF f, n, t2, u2, l2
  <2>4. attempt' \in [Pairs -> 0..MaxAttempts - 1] /\ attempt'[p] = 0
    BY <1>1, <1>4 DEF PublicationTypes
  <2>5. PublicationShape(p)' /\ next' \in [Pairs -> 0..MaxOpps + 1]
    <3>1. CASE next[p] < found[p]
      <4>1. next' = [next EXCEPT ![p] = next[p] + 1] /\ det' = [det EXCEPT ![p] = "publish"]
        BY <1>4, <3>1 DEF PublishNext
      <4>2. next'[p] = next[p] + 1 /\ det'[p] = "publish" /\ next' \in [Pairs -> 0..MaxOpps + 1]
        BY <1>1, <2>3, <3>1, <4>1 DEF PublicationTypes
      <4> QED
        BY <1>4, <2>3, <2>4, <3>1, <4>2 DEF PublicationShape
    <3>2. CASE ~(next[p] < found[p])
      <4>1. next' = next /\ det' = [det EXCEPT ![p] = "done"]
        BY <1>4, <3>2 DEF PublishNext
      <4>2. det'[p] = "done" /\ next' \in [Pairs -> 0..MaxOpps + 1]
        BY <1>1, <4>1 DEF PublicationTypes
      <4> QED
        BY <1>4, <2>3, <2>4, <3>2, <4>1, <4>2 DEF PublicationShape
    <3> QED
      BY <3>1, <3>2
  <2>6. logged' \in [Pairs -> SUBSET Opps]
    <3>1. logged \in [Pairs -> SUBSET Opps] /\ logged[p] \union {next[p]} \in SUBSET Opps
      BY <2>3 DEF PublicationTypes
    <3> QED
      BY <1>4, <3>1
  <2>7. PublicationTypes'
    BY <1>4, <2>4, <2>5, <2>6 DEF PublicationTypes
  <2>8. ASSUME NEW q \in Pairs, q # p PROVE PublicationShape(q)'
    <3>1. det'[q] = det[q] /\ next'[q] = next[q]
      BY <1>1, <1>4, <2>8 DEF PublishNext, PublicationTypes
    <3>2. attempt'[q] = attempt[q] /\ logged'[q] = logged[q]
      BY <1>4, <2>8 DEF PublicationTypes
    <3> QED
      BY <1>4, <2>8, <3>1, <3>2, ShapeFrame
  <2> QED
    BY <2>5, <2>7, <2>8
\* What holds of the opportunity in hand.
<1>5. ASSUME NEW p \in Pairs, det[p] \in {"publish", "backoff"}
      PROVE  /\ next[p] \in 1..found[p] /\ next[p] \in Opps
             /\ attempt[p] \in 0..MaxAttempts - 1
             /\ topic[p][next[p]] \in 0..unanswered[p][next[p]]
             /\ unanswered[p][next[p]] \in 0..attempt[p]
             /\ InHand(found[p], next[p], attempt[p], topic[p], unanswered[p], logged[p])
             /\ \A k \in Opps : topic[p][k] <= unanswered[p][k] + 1
  <2>1. /\ InHand(found[p], next[p], attempt[p], topic[p], unanswered[p], logged[p])
        /\ \A k \in Opps : topic[p][k] <= unanswered[p][k] + 1
    BY <1>5 DEF PublicationShape, Account
  <2>2. found[p] \in 0..MaxOpps /\ attempt[p] \in 0..MaxAttempts - 1
        /\ topic[p] \in [Opps -> 0..MaxAttempts] /\ unanswered[p] \in [Opps -> 0..MaxAttempts]
    BY DEF PublicationTypes
  <2>3. next[p] \in 1..found[p] /\ next[p] \in Opps
    BY <1>1, <2>1, <2>2 DEF InHand
  <2>4. topic[p][next[p]] \in 0..MaxAttempts /\ unanswered[p][next[p]] \in 0..MaxAttempts
    BY <2>2, <2>3
  <2> QED
    BY <1>1, <2>1, <2>2, <2>3, <2>4 DEF InHand
<1>6. ASSUME NEW p \in Pairs, det[p] \in {"publish", "backoff"}, PublishFailed(p),
             UNCHANGED <<found, topic, unanswered>>
      PROVE  Kept
  <2>1. /\ logged' = [logged EXCEPT ![p] = logged[p] \union {next[p]}]
        /\ attempt' = [attempt EXCEPT ![p] = 0] /\ PublishNext(p)
    BY <1>6 DEF PublishFailed
  <2>2. next[p] \in logged'[p]
    BY <2>1 DEF PublicationTypes
  <2>3. topic[p][next[p]] <= unanswered[p][next[p]] + 1
    BY <1>5, <1>6
  <2>4. /\ topic' \in [Pairs -> [Opps -> 0..MaxAttempts]]
        /\ unanswered' \in [Pairs -> [Opps -> 0..MaxAttempts]]
    BY <1>6 DEF PublicationTypes
  <2> QED
    BY <1>4, <1>6, <2>1, <2>2, <2>3, <2>4
<1>7. ASSUME NEW p \in Pairs, PublishRefused(p) \/ BackoffCancelled(p) PROVE Kept
  BY <1>6, <1>7 DEF PublishRefused, BackoffCancelled
\* One more copy on the topic.
<1>8. ASSUME NEW p \in Pairs, det[p] \in {"publish", "backoff"},
             topic' = [topic EXCEPT ![p][next[p]] = topic[p][next[p]] + 1]
      PROVE  /\ topic' \in [Pairs -> [Opps -> 0..MaxAttempts]]
             /\ topic'[p][next[p]] = topic[p][next[p]] + 1
             /\ \A k \in Opps : k # next[p] => topic'[p][k] = topic[p][k]
             /\ \A q \in Pairs : q # p => topic'[q] = topic[q]
  <2>1. next[p] \in Opps /\ topic[p][next[p]] + 1 \in 0..MaxAttempts
    BY <1>1, <1>5, <1>8
  <2> QED
    BY <1>8, <2>1 DEF PublicationTypes
<1>9. ASSUME NEW p \in Pairs, det[p] \in {"publish", "backoff"},
             unanswered' = [unanswered EXCEPT ![p][next[p]] = unanswered[p][next[p]] + 1]
      PROVE  /\ unanswered' \in [Pairs -> [Opps -> 0..MaxAttempts]]
             /\ unanswered'[p][next[p]] = unanswered[p][next[p]] + 1
             /\ \A k \in Opps : k # next[p] => unanswered'[p][k] = unanswered[p][k]
             /\ \A q \in Pairs : q # p => unanswered'[q] = unanswered[q]
  <2>1. next[p] \in Opps /\ unanswered[p][next[p]] + 1 \in 0..MaxAttempts
    BY <1>1, <1>5, <1>9
  <2> QED
    BY <1>9, <2>1 DEF PublicationTypes
<1>10. ASSUME NEW p \in Pairs, PublishAccepted(p) PROVE Kept
  <2>1. /\ det[p] \in {"publish", "backoff"}
        /\ topic' = [topic EXCEPT ![p][next[p]] = topic[p][next[p]] + 1]
        /\ attempt' = [attempt EXCEPT ![p] = 0] /\ PublishNext(p)
        /\ UNCHANGED <<found, unanswered, logged>>
    BY <1>10 DEF PublishAccepted
  <2>2. /\ topic' \in [Pairs -> [Opps -> 0..MaxAttempts]]
        /\ topic'[p][next[p]] = topic[p][next[p]] + 1
        /\ \A k \in Opps : k # next[p] => topic'[p][k] = topic[p][k]
        /\ \A q \in Pairs : q # p => topic'[q] = topic[q]
    BY <1>8, <2>1
  <2>3. topic'[p][next[p]] > 0 /\ topic'[p][next[p]] <= unanswered'[p][next[p]] + 1
    <3>1. /\ topic[p][next[p]] \in 0..unanswered[p][next[p]]
          /\ unanswered[p][next[p]] \in 0..attempt[p] /\ attempt[p] \in 0..MaxAttempts - 1
      BY <1>5, <2>1
    <3> QED
      BY <1>1, <2>1, <2>2, <3>1
  <2>4. unanswered' \in [Pairs -> [Opps -> 0..MaxAttempts]]
    BY <2>1 DEF PublicationTypes
  <2> QED
    BY <1>4, <2>1, <2>2, <2>3, <2>4
<1>11. ASSUME NEW p \in Pairs, PublishAttemptFails(p) PROVE Kept
  <2>1. det[p] = "publish" /\ found' = found
    BY <1>11 DEF PublishAttemptFails
  <2>2. /\ topic' \in [Pairs -> [Opps -> 0..MaxAttempts]]
        /\ unanswered' \in [Pairs -> [Opps -> 0..MaxAttempts]]
        /\ \A q \in Pairs : q # p => topic'[q] = topic[q] /\ unanswered'[q] = unanswered[q]
        /\ \A k \in Opps : k # next[p] =>
              topic'[p][k] = topic[p][k] /\ unanswered'[p][k] = unanswered[p][k]
        /\ topic'[p][next[p]] <= unanswered'[p][next[p]]
        /\ unanswered'[p][next[p]] <= attempt[p] + 1
    <3>1. /\ topic[p][next[p]] \in 0..unanswered[p][next[p]] /\ next[p] \in Opps
          /\ unanswered[p][next[p]] \in 0..attempt[p] /\ attempt[p] \in 0..MaxAttempts - 1
      BY <1>5, <2>1
    <3> DEFINE InStep(t, u, a) == t <= u /\ u <= a + 1
    <3>2. \A a \in Nat : \A u \in 0..a : \A t \in 0..u :
             InStep(t, u, a) /\ InStep(t + 1, u + 1, a)
      OBVIOUS
    <3>3. /\ InStep(topic[p][next[p]], unanswered[p][next[p]], attempt[p])
          /\ InStep(topic[p][next[p]] + 1, unanswered[p][next[p]] + 1, attempt[p])
      <4>1. attempt[p] \in Nat
        BY <1>1, <3>1
      <4> HIDE DEF InStep
      <4> QED
        BY <3>1, <3>2, <4>1
    <3>4. CASE UNCHANGED <<topic, unanswered>>
      BY <3>4, <3>3 DEF PublicationTypes
    <3>5. CASE /\ topic' = [topic EXCEPT ![p][next[p]] = topic[p][next[p]] + 1]
               /\ unanswered' = [unanswered EXCEPT ![p][next[p]] = unanswered[p][next[p]] + 1]
      <4>1. /\ topic' \in [Pairs -> [Opps -> 0..MaxAttempts]]
            /\ topic'[p][next[p]] = topic[p][next[p]] + 1
            /\ \A k \in Opps : k # next[p] => topic'[p][k] = topic[p][k]
            /\ \A q \in Pairs : q # p => topic'[q] = topic[q]
        BY <1>8, <2>1, <3>5
      <4>2. /\ unanswered' \in [Pairs -> [Opps -> 0..MaxAttempts]]
            /\ unanswered'[p][next[p]] = unanswered[p][next[p]] + 1
            /\ \A k \in Opps : k # next[p] => unanswered'[p][k] = unanswered[p][k]
            /\ \A q \in Pairs : q # p => unanswered'[q] = unanswered[q]
        BY <1>9, <2>1, <3>5
      <4>3. /\ topic'[p][next[p]] <= unanswered'[p][next[p]]
            /\ unanswered'[p][next[p]] <= attempt[p] + 1
        BY <3>3, <4>1, <4>2
      <4> QED
        BY <4>1, <4>2, <4>3
    <3> QED
      BY <1>11, <3>4, <3>5 DEF PublishAttemptFails
  <2>3. CASE PublishFailed(p)
    <3>1. /\ logged' = [logged EXCEPT ![p] = logged[p] \union {next[p]}]
          /\ attempt' = [attempt EXCEPT ![p] = 0] /\ PublishNext(p)
      BY <2>3 DEF PublishFailed
    <3>2. next[p] \in logged'[p]
      BY <3>1 DEF PublicationTypes
    <3>3. topic'[p][next[p]] <= unanswered'[p][next[p]] + 1
      <4>1. next[p] \in Opps
        BY <1>5, <2>1
      <4>2. topic'[p][next[p]] \in 0..MaxAttempts /\ unanswered'[p][next[p]] \in 0..MaxAttempts
        BY <2>2, <4>1
      <4> QED
        BY <1>1, <2>2, <4>2
    <3> QED
      BY <1>4, <2>1, <2>2, <3>1, <3>2, <3>3
  <2>4. CASE /\ ~LastAttempt(p)
             /\ attempt' = [attempt EXCEPT ![p] = attempt[p] + 1]
             /\ det' = [det EXCEPT ![p] = "backoff"]
             /\ UNCHANGED <<next, logged>>
    <3>1. /\ next[p] \in 1..found[p] /\ next[p] \in Opps /\ attempt[p] \in 0..MaxAttempts - 1
          /\ InHand(found[p], next[p], attempt[p], topic[p], unanswered[p], logged[p])
          /\ \A k \in Opps : topic[p][k] <= unanswered[p][k] + 1
      BY <1>5, <2>1
    <3>2. attempt[p] + 1 \in 0..MaxAttempts - 1
      BY <1>1, <2>4, <3>1 DEF LastAttempt
    <3>3. PublicationTypes'
      BY <2>1, <2>2, <2>4, <3>2 DEF PublicationTypes
    <3>4. /\ det'[p] = "backoff" /\ attempt'[p] = attempt[p] + 1
          /\ next'[p] = next[p] /\ found'[p] = found[p] /\ logged'[p] = logged[p]
      BY <1>1, <2>1, <2>4 DEF PublicationTypes
    <3>5. topic'[p][next[p]] \in 0..MaxAttempts /\ unanswered'[p][next[p]] \in 0..MaxAttempts
      BY <2>2, <3>1
    <3>6. InHand(found[p], next[p], attempt[p] + 1, topic'[p], unanswered'[p], logged[p])
      <4>1. \A k \in Opps : (k < next[p] => k # next[p]) /\ (k > next[p] => k # next[p])
        BY <1>1, <3>1
      <4>2. /\ \A k \in Opps : k < next[p] => topic[p][k] > 0 \/ k \in logged[p]
            /\ \A k \in Opps : k > next[p] => topic[p][k] = 0 /\ unanswered[p][k] = 0
        BY <3>1 DEF InHand
      <4>3. \A k \in Opps : k # next[p] =>
               topic'[p][k] = topic[p][k] /\ unanswered'[p][k] = unanswered[p][k]
        BY <2>2
      <4>4. \A k \in Opps : k < next[p] => topic'[p][k] > 0 \/ k \in logged[p]
        BY ONLY <4>1, <4>2, <4>3
      <4>5. \A k \in Opps : k > next[p] => topic'[p][k] = 0 /\ unanswered'[p][k] = 0
        BY ONLY <4>1, <4>2, <4>3
      <4> QED
        BY <2>2, <3>1, <4>4, <4>5 DEF InHand
    <3>7. \A k \in Opps : topic'[p][k] <= unanswered'[p][k] + 1
      <4>1. topic'[p][next[p]] <= unanswered'[p][next[p]] + 1
        BY <1>1, <2>2, <3>5
      <4>2. \A k \in Opps : k # next[p] =>
               topic'[p][k] = topic[p][k] /\ unanswered'[p][k] = unanswered[p][k]
        BY <2>2
      <4>3. \A k \in Opps : topic[p][k] <= unanswered[p][k] + 1
        BY <3>1
      <4> QED
        BY ONLY <4>1, <4>2, <4>3
    <3>8. PublicationShape(p)'
      BY <3>4, <3>6, <3>7 DEF PublicationShape, Account
    <3>9. ASSUME NEW q \in Pairs, q # p PROVE PublicationShape(q)'
      <4>1. /\ det'[q] = det[q] /\ attempt'[q] = attempt[q] /\ found'[q] = found[q]
            /\ next'[q] = next[q] /\ logged'[q] = logged[q]
        BY <1>1, <2>1, <2>4, <3>9 DEF PublicationTypes
      <4> QED
        BY <2>2, <3>9, <4>1, ShapeFrame
    <3> QED
      BY <3>3, <3>8, <3>9
  <2> QED
    BY <1>11, <2>3, <2>4 DEF PublishAttemptFails
<1>12. ASSUME NEW p \in Pairs, Process(p) PROVE Kept
  <2>1. PICK n \in FoundByPipeline(p) :
           /\ found' = [found EXCEPT ![p] = n]
           /\ det' = [det EXCEPT ![p] = IF n = 0 THEN "done" ELSE "publish"]
    BY <1>12 DEF Process
  <2>2. /\ det[p] = "process" /\ next' = [next EXCEPT ![p] = 1]
        /\ UNCHANGED <<attempt, topic, unanswered, logged>>
    BY <1>12 DEF Process
  <2>3. n \in 0..MaxOpps
    BY <1>1, <2>1 DEF FoundByPipeline
  <2>4. PublicationTypes'
    BY <1>1, <2>1, <2>2, <2>3 DEF PublicationTypes
  <2>5. /\ attempt[p] = 0 /\ \A k \in Opps : topic[p][k] = 0 /\ unanswered[p][k] = 0
    BY <2>2 DEF PublicationShape, Account
  <2>6. found'[p] = n /\ next'[p] = 1 /\ det'[p] = IF n = 0 THEN "done" ELSE "publish"
    BY <1>1, <2>1, <2>2 DEF PublicationTypes
  <2>7. ASSUME n = 0 PROVE PublicationShape(p)'
    <3>1. Account("done", 0, 1, 0, topic[p], unanswered[p], logged[p])
      BY <1>1, <2>5 DEF Account
    <3> QED
      BY <2>2, <2>5, <2>6, <2>7, <3>1 DEF PublicationShape
  <2>8. ASSUME n # 0 PROVE PublicationShape(p)'
    <3>1. 1 \in Opps /\ 1 \in 1..n
      BY <1>1, <2>3, <2>8
    <3>2. InHand(n, 1, 0, topic[p], unanswered[p], logged[p])
      BY <1>1, <2>5, <3>1 DEF InHand
    <3>3. Account("publish", n, 1, 0, topic[p], unanswered[p], logged[p])
      BY <2>5, <3>2 DEF Account
    <3> QED
      BY <2>2, <2>5, <2>6, <2>8, <3>3 DEF PublicationShape
  <2>9. ASSUME NEW q \in Pairs, q # p PROVE PublicationShape(q)'
    <3>1. det'[q] = det[q] /\ found'[q] = found[q] /\ next'[q] = next[q]
      BY <1>1, <2>1, <2>2, <2>9 DEF PublicationTypes
    <3> QED
      BY <2>2, <2>9, <3>1, ShapeFrame
  <2>10. PublicationShape(p)'
    BY <2>7, <2>8
  <2> QED
    BY <2>4, <2>9, <2>10
<1>13. ASSUME NEW p \in Pairs, Return(p) PROVE Kept
  <2>1. /\ det[p] = "done" /\ det' = [det EXCEPT ![p] = "idle"]
        /\ found' = [found EXCEPT ![p] = 0] /\ next' = [next EXCEPT ![p] = 0]
        /\ topic' = [topic EXCEPT ![p] = [k \in Opps |-> 0]]
        /\ unanswered' = [unanswered EXCEPT ![p] = [k \in Opps |-> 0]]
        /\ logged' = [logged EXCEPT ![p] = {}] /\ attempt' = attempt
    BY <1>13 DEF Return, ClearPublication
  <2>2. [k \in Opps |-> 0] \in [Opps -> 0..MaxAttempts]
    BY <1>1
  <2>3. PublicationTypes'
    BY <1>1, <2>1, <2>2 DEF PublicationTypes
  <2>4. attempt[p] = 0
    BY <2>1 DEF PublicationShape, Account
  <2>5. /\ det'[p] = "idle" /\ found'[p] = 0 /\ next'[p] = 0 /\ attempt'[p] = 0
        /\ topic'[p] = [k \in Opps |-> 0] /\ unanswered'[p] = [k \in Opps |-> 0]
        /\ logged'[p] = {}
    BY <1>1, <2>1, <2>4 DEF PublicationTypes
  <2>6. PublicationShape(p)'
    BY <2>5 DEF PublicationShape, Account
  <2>7. ASSUME NEW q \in Pairs, q # p PROVE PublicationShape(q)'
    <3>1. /\ det'[q] = det[q] /\ found'[q] = found[q] /\ next'[q] = next[q]
          /\ attempt'[q] = attempt[q] /\ topic'[q] = topic[q]
          /\ unanswered'[q] = unanswered[q] /\ logged'[q] = logged[q]
      BY <1>1, <2>1, <2>7 DEF PublicationTypes
    <3> QED
      BY <2>7, <3>1, ShapeFrame
  <2> QED
    BY <2>3, <2>6, <2>7
<1>14. ASSUME NEW p \in Pairs,
              \/ Detect(p) \/ FetchETHPrice(p) \/ GasAtHand(p) \/ GasRequest(p)
              \/ GasArrives(p) \/ GasFails(p) \/ BackoffOver(p)
       PROVE  Kept
  <2>1. \E pc \in {"eth", "gas", "fetching", "process", "publish"} :
           /\ Move(p, pc)
           /\ \/ det[p] \notin {"publish", "backoff", "done"} /\ pc # "publish"
              \/ det[p] = "backoff" /\ pc = "publish"
    BY <1>14 DEF Detect, FetchETHPrice, GasAtHand, GasRequest, GasArrives, GasFails,
       BackoffOver, pubVars
  <2> HIDE DEF Move, Kept
  <2> QED
    BY <1>3, <2>1
<1>15. ASSUME TakeBlock PROVE Kept
  <2>1. /\ loop # "collect" /\ det' = [p \in Pairs |-> "forked"] /\ UNCHANGED pubVars
    BY <1>15 DEF TakeBlock
  <2>2. \A p \in Pairs : det[p] = "idle" /\ det'[p] = "forked"
    BY <2>1 DEF Joining, Busy
  <2>3. PublicationTypes'
    BY <2>1 DEF PublicationTypes, pubVars
  <2>4. ASSUME NEW p \in Pairs PROVE PublicationShape(p)'
    <3>1. Account("idle", found[p], next[p], attempt[p], topic[p], unanswered[p], logged[p])
      BY <2>2 DEF PublicationShape
    <3>2. Account("forked", found[p], next[p], attempt[p], topic[p], unanswered[p], logged[p])
      BY <3>1 DEF Account
    <3> QED
      BY <2>1, <2>2, <3>2 DEF PublicationShape, pubVars
  <2> QED
    BY <2>3, <2>4
<1>16. ASSUME NEW p \in Pairs, Remote(p) \/ Local(p) PROVE Kept
  <2> HIDE DEF Kept
  <2> QED
    BY <1>7, <1>10, <1>11, <1>12, <1>13, <1>14, <1>16 DEF Remote, Local
<1>17. CASE Subscription \/ Loop \/ Cancel \/ Tick \/ UNCHANGED vars
  <2>1. TakeBlock \/ UNCHANGED <<det, pubVars>>
    BY <1>17 DEF Subscription, Announce, AnnounceError, CloseErrors, CloseBlocks, Loop,
       TakeError, ContextDone, Collect, ChannelEnds, Cancel, Tick, vars
  <2> QED
    BY <1>2, <1>15, <2>1
<1> QED
  BY <1>16, <1>17 DEF Next, Stopped

-------------------------------------------------------------------------------
(* The theorems.                                                             *)

LEMMA InitIInv == Init => IInv
<1> SUFFICES ASSUME Init PROVE IInv
  OBVIOUS
<1> USE DEF Init
<1>1. /\ MaxBlock \in Nat /\ MaxSent \in Nat /\ MaxOpps \in Nat /\ MaxAttempts \in Nat \ {0}
      /\ BlockCap \in Nat \ {0} /\ TTL \in Nat \ {0} /\ MaxGas \in Nat \ {0}
  BY DetectorsAssumption
<1>2. Len(<<>>) = 0 /\ <<>> \in Seq(1..MaxBlock) /\ <<>> \o <<>> = <<>>
  OBVIOUS
<1>3. ChannelTypes /\ Ends
  <2>1. Ends
    BY <1>2 DEF Ends
  <2>2. /\ announced \in Seq(1..MaxBlock) /\ blockCh \in Seq(1..MaxBlock)
        /\ taken \in Seq(1..MaxBlock) /\ Len(announced) <= MaxSent /\ Len(blockCh) <= BlockCap
    BY <1>1, <1>2
  <2>3. {blockOpen, errOpen, ctxDone} \subseteq BOOLEAN
    BY Zenon
  <2>4. /\ sent \subseteq 1..MaxBlock /\ nilled \subseteq {"block", "err"}
        /\ errCh \in 0..1 /\ reported \in 0..MaxSent
        /\ loop \in {"select", "collect", "stopped"}
    BY <1>1
  <2> HIDE DEF Init
  <2> QED
    BY <2>1, <2>2, <2>3, <2>4 DEF ChannelTypes
<1>4. Busy = {}
  BY DEF Busy
<1>5. WorkTypes /\ Analysing /\ Joining
  BY <1>2, <1>4, PairsFinite DEF WorkTypes, Analysing, Joining, States
<1>6. GasTypes /\ GasShape
  BY <1>1 DEF GasTypes, GasShape, NoGas
<1>7. PublicationTypes
  BY <1>1 DEF PublicationTypes, Opps
<1>8. ASSUME NEW p \in Pairs PROVE PublicationShape(p)
  BY DEF PublicationShape, Account
<1> QED
  BY <1>3, <1>5, <1>6, <1>7, <1>8, TypeParts DEF IInv

LEMMA NextIInv == IInv /\ [Next]_vars => IInv'
<1> SUFFICES ASSUME IInv, [Next]_vars PROVE IInv'
  OBVIOUS
<1>1. ChannelTypes /\ WorkTypes /\ GasTypes /\ PublicationTypes
  BY TypeParts DEF IInv
<1>2. ChannelTypes' /\ Ends'
  BY <1>1, ChannelsKept DEF IInv
<1>3. WorkTypes' /\ Analysing' /\ Joining'
  BY <1>1, WorkKept DEF IInv
<1>4. GasTypes' /\ GasShape'
  BY <1>1, GasKept DEF IInv
<1>5. PublicationTypes' /\ \A p \in Pairs : PublicationShape(p)'
  BY <1>1, PublicationsKept DEF IInv
<1> QED
  BY <1>2, <1>3, <1>4, <1>5, TypeParts DEF IInv

THEOREM DetectorsInvariance == Spec => []IInv
BY InitIInv, NextIInv, PTL DEF Spec

\* The variables keep their types: no channel holds more than its capacity, and no
\* opportunity is on the topic more often than attempts were made for it.
THEOREM TypeCorrect == Spec => []TypeOK
<1>1. IInv => TypeOK
  BY DEF IInv
<1> QED
  BY <1>1, DetectorsInvariance, PTL

\* All pairs analyse all blocks of the stream in order, in step with each other.
THEOREM PairsInLockStep == Spec => []LockStep
<1>1. IInv => LockStep
  <2> SUFFICES ASSUME IInv PROVE LockStep
    OBVIOUS
  <2>1. announced = taken \o blockCh
    BY DEF IInv, Ends
  <2>2. loop # "collect" => \A p \in Pairs : det[p] = "idle"
    BY DEF IInv, Joining, Busy
  <2>3. ASSUME NEW p \in Pairs
        PROVE  \/ analysed[p] = taken
               \/ loop = "collect" /\ det[p] = "forked" /\ analysed[p] = Front(taken)
    BY <2>2 DEF IInv, Analysing
  <2> QED
    BY <2>1, <2>2, <2>3 DEF LockStep
<1> QED
  BY <1>1, DetectorsInvariance, PTL

\* The join of a block ends, for every number of pairs, as far as the detectors end:
\* the results collected, on the channel and still to come are all the pairs.
THEOREM LoopIsNotStarved == Spec => []LoopNotStarved
<1>1. IInv => LoopNotStarved
  <2> SUFFICES ASSUME IInv PROVE LoopNotStarved
    OBVIOUS
  <2>1. ASSUME loop = "collect", results = {}, Busy = {} PROVE FALSE
    <3>1. /\ collected + Cardinality(results) + Cardinality(Busy) = Cardinality(Pairs)
          /\ collected < Cardinality(Pairs)
      BY <2>1 DEF IInv, Joining
    <3>2. Cardinality(results) = 0 /\ Cardinality(Busy) = 0
      BY <2>1, FS_EmptySet
    <3>3. collected \in Nat /\ Cardinality(Pairs) \in Nat
      BY PairsFinite DEF IInv, TypeOK
    <3> QED
      BY <3>1, <3>2, <3>3
  <2>2. loop = "select" => ~({"block", "err"} \subseteq nilled)
    BY DEF IInv, Ends
  <2> QED
    BY <2>1, <2>2 DEF LoopNotStarved, Busy
<1> QED
  BY <1>1, DetectorsInvariance, PTL

\* The loop leaves nothing behind on its channels, unless the program is stopped.
THEOREM LoopStopsAtTheEnd == Spec => []StopsAtTheEnd
<1>1. IInv => StopsAtTheEnd
  BY DEF IInv, Ends, StopsAtTheEnd
<1> QED
  BY <1>1, DetectorsInvariance, PTL

\* Each opportunity ends on the topic or in the log, twice on it only for an answer
\* that was lost.
THEOREM PublicationsAreAccounted == Spec => []PublicationsAccounted
<1>1. IInv => PublicationsAccounted
  <2> SUFFICES ASSUME IInv PROVE PublicationsAccounted
    OBVIOUS
  <2>1. \A p \in Pairs : det[p] = "done" =>
           \A k \in 1..found[p] : topic[p][k] > 0 \/ k \in logged[p]
    BY DEF IInv, PublicationShape, Account
  <2>2. \A p \in Pairs, k \in Opps : topic[p][k] <= unanswered[p][k] + 1
    BY DEF IInv, PublicationShape, Account
  <2> QED
    BY <2>1, <2>2 DEF PublicationsAccounted
<1> QED
  BY <1>1, DetectorsInvariance, PTL

\* No detection uses a gas price after its time.
THEOREM GasPricesInTime == Spec => GasInTime
<1> DEFINE InTime == \A p \in Priced : det[p] = "gas" /\ det'[p] = "process" =>
                        gas[p].age < (IF gas[p].jumped THEN VolatileTTL ELSE TTL)
<1>1. IInv /\ [Next]_vars => [InTime]_vars
  <2> SUFFICES ASSUME IInv, Next, NEW p \in Priced, det[p] = "gas", det'[p] = "process"
               PROVE  gas[p].age < TimeOf(p)
    BY DEF TimeOf
  <2>1. p \in Pairs /\ TTL \in Nat
    BY DetectorsAssumption
  <2>2. gas[p].left \in 0..TTL /\ gas[p].age \in 0..TTL
    BY <2>1, TypeParts DEF IInv, GasTypes
  <2>3. gas[p].left > 0 => gas[p].left + gas[p].age = TimeOf(p)
    BY <2>1 DEF IInv, GasShape
  <2>4. gas[p].left > 0
    <3>1. det \in [Pairs -> States]
      BY TypeParts DEF IInv, WorkTypes
    <3>2. ASSUME NEW q \in Pairs, Remote(q) \/ Local(q) PROVE gas[p].left > 0
      <4>1. q = p
        <5>1. \E pc : det' = [det EXCEPT ![q] = pc]
          BY <3>2, DetectorStep DEF Detect, Return
        <5> QED
          BY <2>1, <3>1, <5>1
      <4>2. GasAtHand(p)
        BY <2>1, <3>1, <3>2, <4>1 DEF Remote, Local, Detect, FetchETHPrice, GasRequest,
           GasArrives, GasFails, Process, PublishRefused, PublishAccepted,
           PublishAttemptFails, BackoffOver, BackoffCancelled, Return
      <4> QED
        BY <4>2 DEF GasAtHand, Cached
    <3>3. ASSUME TakeBlock \/ UNCHANGED det PROVE FALSE
      BY <2>1, <3>3 DEF TakeBlock
    <3>4. CASE Subscription \/ Loop \/ Cancel \/ Tick \/ Stopped
      <4>1. TakeBlock \/ UNCHANGED det
        BY <3>4 DEF Subscription, Announce, AnnounceError, CloseErrors, CloseBlocks, Loop,
           TakeError, ContextDone, Collect, ChannelEnds, Cancel, Tick, Stopped, vars
      <4> QED
        BY <3>3, <4>1
    <3> QED
      BY <3>2, <3>4 DEF Next
  <2> QED
    BY <2>1, <2>2, <2>3, <2>4
<1> QED
  BY <1>1, DetectorsInvariance, PTL DEF Spec, GasInTime
===============================================================================
