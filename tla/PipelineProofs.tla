---------------------------- MODULE PipelineProofs ----------------------------
(***************************************************************************)
(* One call of Process for every number of sizes, every set of workers,    *)
(* every buffer and limiter: types, no send on a closed channel, the       *)
(* permits, the complete result, that nothing is sent twice, and that the  *)
(* goroutines never all wait on each other.                                *)
(*                                                                         *)
(* The inductive invariant says where a size can be.  Sizes leave the      *)
(* input in order; one that has left is in the hands of one worker, on     *)
(* priceCh, or analysed, never in two of these places, and unless the      *)
(* context is done never in none.                                          *)
(***************************************************************************)
EXTENDS Pipeline, FiniteSetTheorems, SequenceTheorems, TLAPS

InHand(w) == worker[w].pc \in {"fetching", "sending"}
Taken     == pushed - Len(inputCh)

\* Opportunities on their way: sent, or still to be sent.
Sent == opportunities \union ToSet(outputCh)
Out  == Sent \union ToSet(analysis.todo)

Distinct(s) == \A i, j \in DOMAIN s : s[i] = s[j] => i = j

-------------------------------------------------------------------------------
(* The invariant.                                                            *)

\* A channel is closed after its senders have ended.
Closing ==
    /\ inputClosed <=> caller # "pushing"
    /\ priceClosed => WorkersDone
    /\ outputClosed => analysis.pc = "done"
    /\ analysis.pc = "done" => analysis.todo = <<>>

QuotesWhileFetching ==
    \A w \in Workers : worker[w].pc # "fetching" => dex[w] = NoQuotes

\* What is over has left nothing behind, unless it was cancelled.
Ending ==
    /\ caller = "draining" => pushed = NumSizes
    /\ ~ctxDone =>
        /\ caller = "returned" =>
              pushed = NumSizes /\ outputClosed /\ outputCh = <<>>
        /\ analysis.pc = "done" => priceCh = <<>> /\ priceClosed
        /\ \A w \in Workers : worker[w].pc = "done" => inputCh = <<>> /\ inputClosed

\* Where sizes are: the input holds the last ones pushed, in order; the others have
\* one place each.
OnePlace ==
    /\ Len(inputCh) <= pushed
    /\ \A k \in DOMAIN inputCh : inputCh[k] = Taken + k
    /\ \A w \in Workers : InHand(w) =>
          /\ worker[w].size \in 1..Taken
          /\ worker[w].size \notin ToSet(priceCh)
          /\ \A v \in Workers : InHand(v) /\ worker[v].size = worker[w].size => v = w
    /\ Distinct(priceCh)
    /\ \A i \in ToSet(priceCh) : i <= Taken
    /\ \A o \in Out :
          /\ o[1] <= Taken /\ o[2] \in Quoted(o[1])
          /\ o[1] \notin ToSet(priceCh)
          /\ \A w \in Workers : InHand(w) => worker[w].size # o[1]

\* What is still to be sent has not been, and is sent once.
ToSendOnce ==
    /\ Distinct(analysis.todo)
    /\ \A o \in ToSet(analysis.todo) : o \notin Sent

NothingLost ==
    ~ctxDone => \A i \in 1..Taken :
        \/ \E w \in Workers : InHand(w) /\ worker[w].size = i
        \/ i \in ToSet(priceCh)
        \/ \A d \in Quoted(i) : <<i, d>> \in Out

IInv ==
    /\ TypeOK /\ Closing /\ QuotesWhileFetching /\ PermitsConserved /\ Ending
    /\ OnePlace /\ ToSendOnce /\ NothingLost

-------------------------------------------------------------------------------
(* Sequences.                                                                *)

\* What an element appended to a channel changes.
LEMMA AppendFacts ==
    ASSUME NEW S, NEW s \in Seq(S), NEW e \in S
    PROVE  /\ Append(s, e) \in Seq(S) /\ Len(Append(s, e)) = Len(s) + 1
           /\ Last(Append(s, e)) = e
           /\ ToSet(Append(s, e)) = ToSet(s) \union {e}
           /\ \A k \in DOMAIN Append(s, e) :
                 Append(s, e)[k] = IF k = Len(s) + 1 THEN e ELSE s[k]
           /\ Distinct(s) /\ e \notin ToSet(s) => Distinct(Append(s, e))
  BY DEF ToSet, Distinct, Last

\* What an element taken from a channel changes.
LEMMA HeadTailFacts ==
    ASSUME NEW S, NEW s \in Seq(S), s # <<>>
    PROVE  /\ Head(s) \in S /\ Head(s) = s[1] /\ Head(s) \in ToSet(s)
           /\ Tail(s) \in Seq(S) /\ Len(Tail(s)) = Len(s) - 1 /\ Len(s) >= 1
           /\ ToSet(s) = {Head(s)} \union ToSet(Tail(s))
           /\ \A k \in DOMAIN Tail(s) : k + 1 \in DOMAIN s /\ Tail(s)[k] = s[k + 1]
           /\ Distinct(s) => Distinct(Tail(s)) /\ Head(s) \notin ToSet(Tail(s))
<1>1. /\ Head(s) \in S /\ Head(s) = s[1] /\ Tail(s) \in Seq(S)
      /\ Len(Tail(s)) = Len(s) - 1 /\ Len(s) >= 1 /\ Len(s) \in Nat
      /\ \A k \in DOMAIN Tail(s) : k + 1 \in DOMAIN s /\ Tail(s)[k] = s[k + 1]
  OBVIOUS
<1>2. DOMAIN s = 1..Len(s) /\ DOMAIN Tail(s) = 1..Len(Tail(s))
  BY <1>1
<1>3. Head(s) \in ToSet(s)
  BY <1>1, <1>2 DEF ToSet
<1>4. ASSUME NEW x \in ToSet(s), x # Head(s) PROVE x \in ToSet(Tail(s))
  <2>1. PICK k \in 1..Len(s) : s[k] = x /\ k # 1
    BY <1>1, <1>2, <1>4 DEF ToSet
  <2>2. k - 1 \in DOMAIN Tail(s) /\ Tail(s)[k - 1] = x
    BY <1>1, <1>2, <2>1
  <2> QED
    BY <2>2 DEF ToSet
<1>5. ASSUME NEW x \in ToSet(Tail(s)) PROVE x \in ToSet(s)
  BY <1>1, <1>5 DEF ToSet
<1>6. Distinct(s) => Distinct(Tail(s)) /\ Head(s) \notin ToSet(Tail(s))
  BY <1>1, <1>2 DEF Distinct, ToSet
<1> QED
  BY <1>1, <1>3, <1>4, <1>5, <1>6

LEMMA TailTypes ==
    ASSUME NEW S, NEW s \in Seq(S), s # <<>>
    PROVE  /\ Head(s) \in S /\ Tail(s) \in Seq(S)
           /\ Len(Tail(s)) = Len(s) - 1 /\ Len(s) \in Nat
  OBVIOUS

LEMMA EmptyFacts == ToSet(<<>>) = {} /\ Distinct(<<>>)
  BY DEF ToSet, Distinct

LEMMA TwoFacts ==
    ASSUME NEW S, NEW a \in S, NEW b \in S
    PROVE  <<a>> \o <<b>> = <<a, b>>
<1>1. <<a>> \in Seq(S) /\ <<b>> \in Seq(S) /\ <<a, b>> \in Seq(S)
  OBVIOUS
<1>2. <<a>> \o <<b>> \in Seq(S) /\ Len(<<a>> \o <<b>>) = 2
  BY <1>1, ConcatProperties
<1>3. \A k \in 1..2 : (<<a>> \o <<b>>)[k] = <<a, b>>[k]
  BY <1>1, ConcatProperties
<1> QED
  BY <1>1, <1>2, <1>3, SeqEqual

\* The analysis of a size sends one opportunity for each direction quoted.
LEMMA FoundFacts ==
    ASSUME NEW i \in Sizes
    PROVE  /\ Found(i) \in Seq(Sizes \X Directions)
           /\ \A o \in ToSet(Found(i)) : o[1] = i /\ o[2] \in Quoted(i)
           /\ \A d \in Quoted(i) : <<i, d>> \in ToSet(Found(i))
           /\ Distinct(Found(i))
<1>1. CASE Sides \subseteq quotes[i] /\ {"cexBuy", "cexSell"} \subseteq quotes[i]
  <2>1. Found(i) = << <<i, "CEXToDEX">>, <<i, "DEXToCEX">> >>
    BY <1>1, TwoFacts, <<i, "CEXToDEX">> \in Sizes \X Directions,
       <<i, "DEXToCEX">> \in Sizes \X Directions DEF Found, Directions
  <2> QED
    BY <1>1, <2>1 DEF ToSet, Distinct, Quoted, Directions
<1>2. CASE Sides \subseteq quotes[i] /\ "cexBuy" \in quotes[i] /\ "cexSell" \notin quotes[i]
  <2>1. Found(i) = << <<i, "CEXToDEX">> >>
    BY <1>2 DEF Found
  <2> QED
    BY <1>2, <2>1 DEF ToSet, Distinct, Quoted, Directions
<1>3. CASE Sides \subseteq quotes[i] /\ "cexBuy" \notin quotes[i] /\ "cexSell" \in quotes[i]
  <2>1. Found(i) = << <<i, "DEXToCEX">> >>
    BY <1>3 DEF Found
  <2> QED
    BY <1>3, <2>1 DEF ToSet, Distinct, Quoted, Directions
<1>4. CASE ~(Sides \subseteq quotes[i]) \/ quotes[i] \intersect {"cexBuy", "cexSell"} = {}
  <2>1. Found(i) = <<>> /\ Quoted(i) = {}
    BY <1>4 DEF Found, Quoted, Directions
  <2> QED
    BY <2>1, EmptyFacts
<1> QED
  BY <1>1, <1>2, <1>3, <1>4

-------------------------------------------------------------------------------
(* The limiter.                                                              *)

LEMMA QuotingFinite == IsFiniteSet(Quoting) /\ Cardinality(Quoting) \in Nat
<1>1. IsFiniteSet(Workers \X Sides)
  <2>1. IsFiniteSet(Sides)
    BY FS_EmptySet, FS_AddElement, Sides = ({} \union {"dexBuy"}) \union {"dexSell"} DEF Sides
  <2> QED
    BY <2>1, FS_Product, PipelineAssumption
<1>2. Quoting \subseteq Workers \X Sides
  BY DEF Quoting
<1> QED
  BY <1>1, <1>2, FS_Subset, FS_CardinalityType

\* A quote that starts or ends changes Quoting by itself alone.
LEMMA QuotingSteps ==
    ASSUME TypeOK, NEW w \in Workers, NEW s \in Sides, NEW pc,
           dex' = [dex EXCEPT ![w][s] = pc]
    PROVE  /\ dex[w][s] # "quoting" /\ pc = "quoting" =>
                 Cardinality(Quoting') = Cardinality(Quoting) + 1
           /\ dex[w][s] = "quoting" /\ pc # "quoting" =>
                 /\ Cardinality(Quoting) >= 1
                 /\ Cardinality(Quoting') = Cardinality(Quoting) - 1
           /\ dex[w][s] # "quoting" /\ pc # "quoting" => Quoting' = Quoting
<1>1. \A x \in Workers \X Sides : dex'[x[1]][x[2]] = IF x = <<w, s>> THEN pc ELSE dex[x[1]][x[2]]
  BY DEF TypeOK
<1>2. <<w, s>> \in Workers \X Sides
  OBVIOUS
<1>3. ASSUME dex[w][s] # "quoting", pc = "quoting"
      PROVE  Cardinality(Quoting') = Cardinality(Quoting) + 1
  <2>1. <<w, s>> \notin Quoting /\ Quoting' = Quoting \union {<<w, s>>}
    BY <1>1, <1>2, <1>3 DEF Quoting
  <2> QED
    BY <2>1, QuotingFinite, FS_AddElement
<1>4. ASSUME dex[w][s] = "quoting", pc # "quoting"
      PROVE  /\ Cardinality(Quoting) >= 1
             /\ Cardinality(Quoting') = Cardinality(Quoting) - 1
  <2>1. <<w, s>> \in Quoting /\ Quoting' = Quoting \ {<<w, s>>}
    BY <1>1, <1>2, <1>4 DEF Quoting
  <2>2. IsFiniteSet(Quoting') /\ Cardinality(Quoting') = Cardinality(Quoting) - 1
    BY <2>1, QuotingFinite, FS_RemoveElement
  <2> QED
    BY <2>2, QuotingFinite, FS_CardinalityType
<1>5. ASSUME dex[w][s] # "quoting", pc # "quoting" PROVE Quoting' = Quoting
  BY <1>1, <1>2, <1>5 DEF Quoting
<1> QED
  BY <1>3, <1>4, <1>5

\* Every step conserves the permits.
LEMMA LimiterKept ==
    ASSUME TypeOK, QuotesWhileFetching, PermitsConserved, [Next]_vars
    PROVE  /\ PermitsConserved'
           /\ others' \in 0..Permits /\ permits' \in 0..Permits
<1> DEFINE Bounds == others' \in 0..Permits /\ permits' \in 0..Permits
           Frame  == UNCHANGED <<others, permits>> /\ Quoting' = Quoting
<1>1. Permits \in Nat /\ Cardinality(Quoting) \in Nat
      /\ others \in 0..Permits /\ permits \in 0..Permits
      /\ (Permits > 0 => permits + others + Cardinality(Quoting) = Permits)
  BY PipelineAssumption, QuotingFinite DEF TypeOK, PermitsConserved
<1>2. Frame => PermitsConserved' /\ Bounds
  BY <1>1 DEF PermitsConserved
<1>3. ASSUME UNCHANGED <<dex, others, permits>> PROVE Frame
  BY <1>3 DEF Quoting
<1>4. ASSUME NEW w \in Workers, TakeSize(w) PROVE Frame
  <2>1. UNCHANGED <<others, permits>>
    BY <1>4 DEF TakeSize, limiterVars
  <2>2. CASE ctxDone
    BY <1>3, <1>4, <2>1, <2>2 DEF TakeSize
  <2>3. CASE ~ctxDone
    <3>1. dex[w] = NoQuotes
      BY <1>4 DEF TakeSize, QuotesWhileFetching
    <3>2. dex' = [dex EXCEPT ![w] = [s \in Sides |-> "waiting"]]
      BY <1>4, <2>3 DEF TakeSize
    <3>3. \A x \in Workers \X Sides :
             dex'[x[1]][x[2]] = "quoting" <=> dex[x[1]][x[2]] = "quoting"
      BY <3>1, <3>2 DEF NoQuotes, TypeOK
    <3> QED
      BY <2>1, <3>3 DEF Quoting
  <2> QED
    BY <2>2, <2>3
<1>5. ASSUME NEW w \in Workers, FetchDone(w) PROVE Frame
  <2>1. UNCHANGED <<others, permits>>
    BY <1>5 DEF FetchDone, limiterVars
  <2>2. dex' = [dex EXCEPT ![w] = NoQuotes] /\ \A s \in Sides : dex[w][s] # "quoting"
    BY <1>5 DEF FetchDone
  <2>3. \A x \in Workers \X Sides :
           dex'[x[1]][x[2]] = "quoting" <=> dex[x[1]][x[2]] = "quoting"
    BY <2>2 DEF NoQuotes, TypeOK
  <2> QED
    BY <2>1, <2>3 DEF Quoting
<1>6. ASSUME NEW w \in Workers, NEW s \in Sides, Acquire(w, s)
      PROVE  PermitsConserved' /\ Bounds
  <2>1. Cardinality(Quoting') = Cardinality(Quoting) + 1
    BY <1>6, QuotingSteps DEF Acquire
  <2>2. CASE Permits = 0
    BY <1>1, <1>6, <2>2 DEF Acquire, PermitsConserved
  <2>3. CASE Permits > 0
    BY <1>1, <1>6, <2>1, <2>3 DEF Acquire, PermitsConserved
  <2> QED
    BY <1>1, <2>2, <2>3
<1>7. ASSUME NEW w \in Workers, NEW s \in Sides, AcquireCancelled(w, s) PROVE Frame
  <2>1. dex[w][s] # "quoting" /\ dex' = [dex EXCEPT ![w][s] = "failed"]
    BY <1>7 DEF AcquireCancelled
  <2>2. Quoting' = Quoting
    BY <2>1, QuotingSteps, "failed" # "quoting"
  <2> QED
    BY <1>7, <2>2 DEF AcquireCancelled, limiterVars
<1>8. ASSUME NEW w \in Workers, NEW s \in Sides, Quote(w, s)
      PROVE  PermitsConserved' /\ Bounds
  <2>1. PICK pc \in {"ok", "failed"} :
           dex[w][s] = "quoting" /\ dex' = [dex EXCEPT ![w][s] = pc]
    BY <1>8 DEF Quote
  <2>2. Cardinality(Quoting) >= 1 /\ Cardinality(Quoting') = Cardinality(Quoting) - 1
    BY <2>1, QuotingSteps
  <2>3. others' = others /\ permits' = IF Permits > 0 THEN permits + 1 ELSE permits
    BY <1>8 DEF Quote, Release
  <2> QED
    BY <1>1, <2>2, <2>3 DEF PermitsConserved
<1>9. ASSUME OthersAcquire \/ OthersRelease PROVE PermitsConserved' /\ Bounds
  <2>1. Quoting' = Quoting
    BY <1>9 DEF OthersAcquire, OthersRelease, fetchVars, Quoting
  <2> QED
    BY <1>1, <1>9, <2>1 DEF OthersAcquire, OthersRelease, PermitsConserved
<1>10. ASSUME Process \/ ClosePrices \/ Analysis \/ CloseOutput \/ Cancel \/ UNCHANGED vars
       PROVE  UNCHANGED <<dex, others, permits>>
  BY <1>10 DEF Process, Push, PushCancelled, CloseInput, Collect, Return, ClosePrices,
     Analysis, Analyze, SendOpportunity, SendOpportunityCancelled, PricesEnd, CloseOutput,
     Cancel, vars, fetchVars, limiterVars
<1>11. ASSUME NEW w \in Workers, InputEnds(w) \/ SendPrices(w) \/ SendPricesCancelled(w)
       PROVE  UNCHANGED <<dex, others, permits>>
  BY <1>11 DEF InputEnds, SendPrices, SendPricesCancelled, limiterVars
<1> HIDE DEF Bounds, Frame
<1>12. PermitsConserved' /\ Bounds
  BY <1>2, <1>3, <1>4, <1>5, <1>6, <1>7, <1>8, <1>9, <1>10, <1>11
     DEF Next, Fetch, Limited, Stopped
<1> QED
  BY <1>12 DEF Bounds

-------------------------------------------------------------------------------
(* Types, and what is closed or over.                                        *)

\* The size a worker holds is one of those pushed.
LEMMA InHandIsSize ==
    ASSUME TypeOK, OnePlace, NEW w \in Workers, InHand(w)
    PROVE  worker[w].size \in Sizes
  BY PipelineAssumption DEF TypeOK, OnePlace, Taken, Sizes

\* Every step keeps the types.
LEMMA TypeKept ==
    ASSUME IInv, [Next]_vars
    PROVE  TypeOK'
<1> DEFINE WorkerType == [Workers -> [pc : {"idle", "fetching", "sending", "done"},
                                      size : 0..NumSizes]]
           DexType == [Workers -> [Sides -> {"none", "waiting", "quoting", "ok", "failed"}]]
<1> USE DEF Sizes
<1>1. TypeOK /\ others' \in 0..Permits /\ permits' \in 0..Permits
  BY LimiterKept DEF IInv
<1>2. NumSizes \in Nat /\ BufferSize \in Nat /\ MaxFailures \in Nat
  BY PipelineAssumption
<1>3. ASSUME Push PROVE TypeOK'
  <2>1. inputCh \in Seq(Sizes) /\ pushed + 1 \in Sizes /\ Len(inputCh) < BufferSize
    BY <1>1, <1>2, <1>3 DEF TypeOK, Push, InputRoom
  <2>2. inputCh' \in Seq(Sizes) /\ Len(inputCh') = Len(inputCh) + 1
    BY <1>3, <2>1, AppendFacts DEF Push
  <2>3. Len(inputCh') <= BufferSize /\ pushed' \in 0..NumSizes
    BY <1>2, <1>3, <2>1, <2>2 DEF Push
  <2> QED
    BY <1>1, <1>3, <2>2, <2>3 DEF TypeOK, Push, fetchVars, priceVars, outputVars, quoteVars
<1>4. ASSUME PushCancelled \/ CloseInput \/ Return \/ ClosePrices \/ CloseOutput \/ Cancel
             \/ OthersAcquire \/ OthersRelease \/ UNCHANGED vars
      PROVE  TypeOK'
  BY <1>1, <1>4 DEF TypeOK, PushCancelled, CloseInput, Return, ClosePrices, CloseOutput, Cancel,
     OthersAcquire, OthersRelease, vars, callerVars, inputVars, fetchVars, priceVars, outputVars,
     limiterVars, quoteVars
<1>5. ASSUME Collect PROVE TypeOK'
  BY <1>1, <1>2, <1>5, HeadTailFacts DEF TypeOK, Collect, inputVars, fetchVars, priceVars,
     outputVars, limiterVars, quoteVars
<1>6. ASSUME NEW w \in Workers, TakeSize(w) PROVE TypeOK'
  <2>0. inputCh \in Seq(Sizes) /\ inputCh # <<>> /\ inputCh' = Tail(inputCh)
        /\ Len(inputCh) <= BufferSize
    BY <1>1, <1>6 DEF TypeOK, TakeSize
  <2>1. inputCh' \in Seq(Sizes) /\ Len(inputCh') <= BufferSize /\ Head(inputCh) \in Sizes
    <3>1. Head(inputCh) \in Sizes /\ Tail(inputCh) \in Seq(Sizes)
          /\ Len(Tail(inputCh)) = Len(inputCh) - 1 /\ Len(inputCh) \in Nat
      BY <2>0, TailTypes
    <3> QED
      BY <1>2, <2>0, <3>1
  <2>2. worker' \in WorkerType
    <3>1. worker \in WorkerType /\ Head(inputCh) \in 0..NumSizes
      BY <1>1, <1>2, <2>1 DEF TypeOK
    <3>2. \/ worker' = [worker EXCEPT ![w].pc = "done"]
          \/ worker' = [worker EXCEPT ![w] = [pc |-> "fetching", size |-> Head(inputCh)]]
      BY <1>6 DEF TakeSize
    <3> QED
      BY <3>1, <3>2
  <2>3. dex' \in DexType
    <3>1. dex \in DexType
      BY <1>1 DEF TypeOK
    <3>2. dex' = dex \/ dex' = [dex EXCEPT ![w] = [s \in Sides |-> "waiting"]]
      BY <1>6 DEF TakeSize
    <3> QED
      BY <3>1, <3>2
  <2> QED
    BY <1>1, <1>6, <2>1, <2>2, <2>3 DEF TypeOK, TakeSize, callerVars, priceVars, outputVars,
       quoteVars
<1>7. ASSUME NEW w \in Workers, InputEnds(w) \/ SendPricesCancelled(w) PROVE TypeOK'
  BY <1>1, <1>7 DEF TypeOK, InputEnds, SendPricesCancelled, callerVars, inputVars, priceVars,
     outputVars, limiterVars, quoteVars
<1>8. ASSUME NEW w \in Workers, NEW s \in Sides, Limited(w, s) PROVE TypeOK'
  <2>1. dex' \in DexType
    <3>1. dex \in DexType
      BY <1>1 DEF TypeOK
    <3>2. PICK pc \in {"quoting", "failed"} : dex' = [dex EXCEPT ![w][s] = pc]
      BY <1>8 DEF Limited, Acquire, AcquireCancelled
    <3> QED
      BY <3>1, <3>2
  <2> QED
    BY <1>1, <1>8, <2>1 DEF TypeOK, Limited, Acquire, AcquireCancelled, callerVars, inputVars,
       priceVars, outputVars, quoteVars
<1>9. ASSUME NEW w \in Workers, NEW s \in Sides, Quote(w, s) PROVE TypeOK'
  <2>1. dex' \in DexType
    <3>1. dex \in DexType
      BY <1>1 DEF TypeOK
    <3>2. PICK pc \in {"ok", "failed"} : dex' = [dex EXCEPT ![w][s] = pc]
      BY <1>9 DEF Quote
    <3> QED
      BY <3>1, <3>2
  <2>2. failures' \in 0..MaxFailures
    BY <1>1, <1>2, <1>9 DEF TypeOK, Quote
  <2> QED
    BY <1>1, <1>9, <2>1, <2>2 DEF TypeOK, Quote, callerVars, inputVars, priceVars, outputVars
<1>10. ASSUME NEW w \in Workers, FetchDone(w) PROVE TypeOK'
  <2>1. PICK cex \in SUBSET CEXQuotes :
           /\ IF ctxDone THEN UNCHANGED failures
                         ELSE /\ failures + Cardinality(CEXQuotes \ cex) <= MaxFailures
                              /\ failures' = failures + Cardinality(CEXQuotes \ cex)
           /\ quotes' = [quotes EXCEPT ![worker[w].size] =
                                cex \union {s \in Sides : dex[w][s] = "ok"}]
    BY <1>10 DEF FetchDone
  <2>2. IsFiniteSet(CEXQuotes \ cex)
    <3>1. IsFiniteSet(CEXQuotes)
      <4>1. CEXQuotes = ({} \union {"cexBuy"}) \union {"cexSell"}
        BY DEF CEXQuotes
      <4> QED
        BY <4>1, FS_EmptySet, FS_AddElement
    <3> QED
      BY <3>1, FS_Subset
  <2>3. failures' \in 0..MaxFailures
    BY <1>1, <1>2, <2>1, <2>2, FS_CardinalityType DEF TypeOK
  <2>4. quotes' \in [Sizes -> SUBSET (CEXQuotes \union Sides)]
    BY <1>1, <2>1 DEF TypeOK
  <2> QED
    BY <1>1, <1>10, <2>3, <2>4 DEF TypeOK, FetchDone, NoQuotes, callerVars, inputVars, priceVars,
       outputVars
<1>11. ASSUME NEW w \in Workers, SendPrices(w) PROVE TypeOK'
  <2>1. worker[w].size \in Sizes
    BY <1>11, InHandIsSize DEF IInv, InHand, SendPrices
  <2>2. priceCh' \in Seq(Sizes) /\ Len(priceCh') <= BufferSize
    BY <1>1, <1>2, <1>11, <2>1, AppendFacts DEF TypeOK, SendPrices, PriceRoom
  <2> QED
    BY <1>1, <1>2, <1>11, <2>2 DEF TypeOK, SendPrices, Idle, callerVars, inputVars, outputVars,
       quoteVars
<1>12. ASSUME Analyze PROVE TypeOK'
  <2>0. priceCh \in Seq(Sizes) /\ priceCh # <<>> /\ priceCh' = Tail(priceCh)
        /\ Len(priceCh) <= BufferSize
    BY <1>1, <1>12 DEF TypeOK, Analyze
  <2>1. Head(priceCh) \in Sizes /\ priceCh' \in Seq(Sizes) /\ Len(priceCh') <= BufferSize
    <3>1. Head(priceCh) \in Sizes /\ Tail(priceCh) \in Seq(Sizes)
          /\ Len(Tail(priceCh)) = Len(priceCh) - 1 /\ Len(priceCh) \in Nat
      BY <2>0, TailTypes
    <3> QED
      BY <1>2, <2>0, <3>1
  <2>2. Found(Head(priceCh)) \in Seq(Sizes \X Directions)
    BY <2>1, FoundFacts
  <2> QED
    BY <1>1, <1>12, <2>1, <2>2 DEF TypeOK, Analyze, callerVars, inputVars, fetchVars, outputVars,
       quoteVars
<1>13. ASSUME SendOpportunity PROVE TypeOK'
  <2>1. /\ outputCh' \in Seq(Sizes \X Directions) /\ Len(outputCh') <= 2 * BufferSize
        /\ analysis'.todo \in Seq(Sizes \X Directions)
    BY <1>1, <1>2, <1>13, AppendFacts, HeadTailFacts DEF TypeOK, SendOpportunity, OutputRoom
  <2> QED
    BY <1>1, <1>13, <2>1 DEF TypeOK, SendOpportunity, callerVars, inputVars, fetchVars, priceVars,
       quoteVars
<1>14. ASSUME SendOpportunityCancelled \/ PricesEnd PROVE TypeOK'
  <2>1. analysis' \in [pc : {"idle", "done"}, todo : Seq(Sizes \X Directions)]
    <3>1. analysis \in [pc : {"idle", "done"}, todo : Seq(Sizes \X Directions)]
      BY <1>1 DEF TypeOK
    <3>2. \/ analysis' = [pc |-> "done", todo |-> <<>>]
          \/ analysis' = [analysis EXCEPT !.pc = "done"]
      BY <1>14 DEF SendOpportunityCancelled, PricesEnd
    <3>3. CASE analysis' = [pc |-> "done", todo |-> <<>>]
      <4>1. <<>> \in Seq(Sizes \X Directions)
        OBVIOUS
      <4> HIDE DEF Sizes
      <4> QED
        BY <3>3, <4>1
    <3>4. CASE analysis' = [analysis EXCEPT !.pc = "done"]
      BY <3>1, <3>4
    <3> QED
      BY <3>2, <3>3, <3>4
  <2> QED
    BY <1>1, <1>14, <2>1 DEF TypeOK, SendOpportunityCancelled, PricesEnd, callerVars, inputVars,
       fetchVars, priceVars, outputVars, quoteVars
<1> QED
  BY <1>3, <1>4, <1>5, <1>6, <1>7, <1>8, <1>9, <1>10, <1>11, <1>12, <1>13, <1>14
     DEF Next, Process, Fetch, Analysis, Stopped

\* Every step keeps what is closed after its senders, and what the end leaves behind.
LEMMA ClosingKept ==
    ASSUME IInv, [Next]_vars
    PROVE  Closing' /\ Ending' /\ QuotesWhileFetching'
<1>1. TypeOK /\ Closing /\ Ending /\ QuotesWhileFetching
  BY DEF IInv
<1>2. ASSUME Process \/ Cancel \/ OthersAcquire \/ OthersRelease \/ UNCHANGED vars
      PROVE  Closing' /\ Ending' /\ QuotesWhileFetching'
  <2>1. UNCHANGED <<worker, dex, priceCh, priceClosed, analysis, outputClosed>>
    BY <1>2 DEF Process, Push, PushCancelled, CloseInput, Collect, Return, Cancel,
       OthersAcquire, OthersRelease, vars, fetchVars, priceVars, outputVars
  <2>2. QuotesWhileFetching'
    BY <1>1, <2>1 DEF QuotesWhileFetching
  <2>3. Closing'
    BY <1>1, <1>2, <2>1 DEF Closing, WorkersDone, Process, Push, PushCancelled, CloseInput,
       Collect, Return, Cancel, OthersAcquire, OthersRelease, vars, callerVars, inputVars
  <2>4. ASSUME ~ctxDone' PROVE ~ctxDone
    BY <1>2, <2>4 DEF Process, Push, PushCancelled, CloseInput, Collect, Return, Cancel,
       OthersAcquire, OthersRelease, vars
  <2>5. Ending'
    BY <1>1, <1>2, <2>1, <2>4 DEF Closing, Ending, Process, Push, PushCancelled, CloseInput,
       Collect, Return, Cancel, OthersAcquire, OthersRelease, vars, callerVars, inputVars,
       outputVars
  <2> QED
    BY <2>2, <2>3, <2>5
<1>3. ASSUME ClosePrices \/ CloseOutput \/ Analysis
      PROVE  Closing' /\ Ending' /\ QuotesWhileFetching'
  <2>1. UNCHANGED <<caller, pushed, inputCh, inputClosed, worker, dex, ctxDone>>
    BY <1>3 DEF ClosePrices, CloseOutput, Analysis, Analyze, SendOpportunity,
       SendOpportunityCancelled, PricesEnd, callerVars, inputVars, fetchVars
  <2>2. QuotesWhileFetching'
    BY <1>1, <2>1 DEF QuotesWhileFetching
  <2>3. Closing'
    <3>1. CASE ClosePrices \/ CloseOutput
      BY <1>1, <2>1, <3>1 DEF Closing, WorkersDone, ClosePrices, CloseOutput, priceVars, outputVars
    <3>2. CASE Analysis
      <4>1. UNCHANGED <<priceClosed, outputClosed>> /\ analysis.pc = "idle"
        BY <3>2 DEF Analysis, Analyze, SendOpportunity, SendOpportunityCancelled, PricesEnd,
           priceVars, outputVars
      <4>2. analysis'.pc = "done" => analysis'.todo = <<>>
        BY <1>1, <3>2 DEF Analysis, Analyze, SendOpportunity, SendOpportunityCancelled, PricesEnd,
           TypeOK
      <4> QED
        BY <1>1, <2>1, <4>1, <4>2 DEF Closing, WorkersDone
    <3> QED
      BY <1>3, <3>1, <3>2
  <2>4. Ending'
    BY <1>1, <1>3, <2>1 DEF Closing, Ending, ClosePrices, CloseOutput, Analysis, Analyze,
       SendOpportunity, SendOpportunityCancelled, PricesEnd, priceVars, outputVars, TypeOK
  <2> QED
    BY <2>2, <2>3, <2>4
<1>4. ASSUME NEW w \in Workers, NEW s \in Sides, Limited(w, s) \/ Quote(w, s)
      PROVE  Closing' /\ Ending' /\ QuotesWhileFetching'
  <2>1. UNCHANGED <<caller, pushed, inputCh, inputClosed, worker, priceCh, priceClosed, analysis,
                    outputCh, outputClosed, ctxDone>>
    BY <1>4 DEF Limited, Acquire, AcquireCancelled, Quote, callerVars, inputVars, priceVars,
       outputVars
  <2>2. worker[w].pc = "fetching"
    <3>1. dex[w][s] \in {"waiting", "quoting"}
      BY <1>4 DEF Limited, Acquire, AcquireCancelled, Quote
    <3> QED
      BY <1>1, <3>1 DEF QuotesWhileFetching, NoQuotes
  <2>3. \A v \in Workers : v # w => dex'[v] = dex[v]
    BY <1>1, <1>4 DEF TypeOK, Limited, Acquire, AcquireCancelled, Quote
  <2>4. QuotesWhileFetching'
    BY <1>1, <2>1, <2>2, <2>3 DEF QuotesWhileFetching
  <2> QED
    BY <1>1, <2>1, <2>4 DEF Closing, Ending, WorkersDone
<1>5. ASSUME NEW w \in Workers, Fetch(w)
      PROVE  Closing' /\ Ending' /\ QuotesWhileFetching'
  <2>1. /\ UNCHANGED <<caller, pushed, inputClosed, priceClosed, analysis, outputCh, outputClosed,
                       ctxDone>>
        /\ worker[w].pc # "done" /\ ~priceClosed
    <3>1. UNCHANGED <<caller, pushed, inputClosed, priceClosed, analysis, outputCh, outputClosed,
                      ctxDone>>
      BY <1>5 DEF Fetch, TakeSize, InputEnds, FetchDone, SendPrices, SendPricesCancelled,
         callerVars, inputVars, priceVars, outputVars
    <3>2. worker[w].pc # "done"
      BY <1>5 DEF Fetch, TakeSize, InputEnds, FetchDone, SendPrices, SendPricesCancelled
    <3> QED
      BY <1>1, <3>1, <3>2 DEF Closing, WorkersDone
  <2> DEFINE Others == \A v \in Workers : v # w => worker'[v] = worker[v] /\ dex'[v] = dex[v]
             Own    == worker'[w].pc # "fetching" => dex'[w] = NoQuotes
  <2>2. Others /\ Own
    <3>1. ASSUME TakeSize(w) PROVE Others /\ Own
      BY <1>1, <3>1 DEF TypeOK, TakeSize, QuotesWhileFetching
    <3>2. ASSUME InputEnds(w) \/ SendPrices(w) \/ SendPricesCancelled(w) PROVE Others /\ Own
      BY <1>1, <3>2 DEF TypeOK, InputEnds, SendPrices, SendPricesCancelled, QuotesWhileFetching
    <3>3. ASSUME FetchDone(w) PROVE Others /\ Own
      BY <1>1, <3>3 DEF TypeOK, FetchDone
    <3> QED
      BY <1>5, <3>1, <3>2, <3>3 DEF Fetch
  <2>3. QuotesWhileFetching'
    BY <1>1, <2>2 DEF QuotesWhileFetching
  <2>4. Closing'
    BY <1>1, <2>1 DEF Closing
  <2>5. ASSUME ~ctxDone
        PROVE  /\ priceCh' = priceCh \/ analysis.pc # "done"
               /\ inputCh # <<>> => inputCh' # <<>> \/ \A v \in Workers : worker[v].pc # "done"
               /\ inputCh = <<>> => inputCh' = <<>>
               /\ worker'[w].pc = "done" => inputCh' = <<>> /\ inputClosed
    <3>1. inputCh # <<>> => \A v \in Workers : worker[v].pc # "done"
      BY <1>1, <2>5 DEF Ending
    <3>2. analysis.pc # "done"
      BY <1>1, <2>1, <2>5 DEF Ending
    <3>3. inputCh = <<>> => inputCh' = <<>>
      BY <1>5 DEF Fetch, TakeSize, InputEnds, FetchDone, SendPrices, SendPricesCancelled,
         inputVars
    <3>4. worker'[w].pc = "done" => inputCh' = <<>> /\ inputClosed
      BY <1>1, <1>5, <2>5 DEF TypeOK, Fetch, TakeSize, InputEnds, FetchDone, SendPrices,
         SendPricesCancelled, inputVars, Idle
    <3> QED
      BY <3>1, <3>2, <3>3, <3>4
  <2>6. Ending'
    BY <1>1, <2>1, <2>2, <2>5 DEF Ending
  <2> QED
    BY <2>3, <2>4, <2>6
<1> QED
  BY <1>2, <1>3, <1>4, <1>5 DEF Next, Stopped

-------------------------------------------------------------------------------
(* Where the sizes are.                                                      *)

LEMMA PlaceTypes ==
    ASSUME IInv
    PROVE  /\ pushed \in Nat /\ pushed <= NumSizes /\ Len(inputCh) \in Nat
           /\ Taken \in Nat /\ 1..Taken \subseteq Sizes
           /\ ToSet(priceCh) \subseteq Sizes /\ Out \subseteq Sizes \X Directions
<1>1. TypeOK /\ OnePlace /\ NumSizes \in Nat
  BY PipelineAssumption DEF IInv
<1>2. /\ pushed \in Nat /\ pushed <= NumSizes /\ Len(inputCh) \in Nat
      /\ Taken \in Nat /\ 1..Taken \subseteq Sizes
  BY <1>1 DEF TypeOK, OnePlace, Taken, Sizes
<1>3. \A S : \A s \in Seq(S) : ToSet(s) \subseteq S
  BY DEF ToSet
<1>4. ToSet(priceCh) \subseteq Sizes
  BY <1>1, <1>3 DEF TypeOK
<1>5. Out \subseteq Sizes \X Directions
  BY <1>1, <1>3 DEF TypeOK, Out, Sent
<1> QED
  BY <1>2, <1>4, <1>5

\* A step that moves no size keeps the places.
LEMMA PlacesFrame ==
    ASSUME IInv,
           UNCHANGED <<pushed, inputCh, priceCh>>,
           \A v \in Workers : InHand(v)' => InHand(v) /\ worker'[v].size = worker[v].size,
           ~ctxDone' => ~ctxDone /\ analysis'.todo = analysis.todo
                        /\ \A v \in Workers : InHand(v) => InHand(v)',
           Sent' = Sent, ToSet(analysis.todo)' \subseteq ToSet(analysis.todo),
           Distinct(analysis.todo)',
           \A i \in Sizes : Quoted(i)' = Quoted(i)
                           \/ \E v \in Workers : InHand(v) /\ InHand(v)' /\ worker[v].size = i
    PROVE  OnePlace' /\ ToSendOnce' /\ NothingLost'
<1>1. Taken' = Taken /\ Out' \subseteq Out /\ (~ctxDone' => Out' = Out)
  BY DEF Taken, Out
<1>2. \A o \in Out : Quoted(o[1])' = Quoted(o[1])
  BY PlaceTypes DEF IInv, OnePlace
<1>3. OnePlace'
  BY <1>1, <1>2 DEF IInv, OnePlace
<1>4. ToSendOnce'
  BY DEF IInv, ToSendOnce
<1>5. ASSUME ~ctxDone', NEW i \in 1..Taken, ~(i \in ToSet(priceCh)),
             ~ \E w \in Workers : InHand(w)' /\ worker'[w].size = i
      PROVE  \A d \in Quoted(i)' : <<i, d>> \in Out'
  <2>1. i \in Sizes /\ ~ \E w \in Workers : InHand(w) /\ worker[w].size = i
    BY <1>5, PlaceTypes
  <2>2. Quoted(i)' = Quoted(i)
    BY <2>1
  <2>3. \A d \in Quoted(i) : <<i, d>> \in Out
    BY <1>5, <2>1 DEF IInv, NothingLost
  <2> QED
    BY <1>1, <1>5, <2>2, <2>3
<1>6. NothingLost'
  BY <1>1, <1>5 DEF NothingLost
<1> QED
  BY <1>3, <1>4, <1>6

LEMMA QuotedFrame == UNCHANGED quotes => \A i : Quoted(i)' = Quoted(i)
  BY DEF Quoted

\* A size that is pushed goes to the end of the input.
LEMMA PlacesPush ==
    ASSUME IInv, Push
    PROVE  OnePlace' /\ ToSendOnce' /\ NothingLost'
<1>1. /\ UNCHANGED <<worker, priceCh, analysis, outputCh, opportunities, quotes, ctxDone>>
      /\ pushed' = pushed + 1 /\ inputCh' = Append(inputCh, pushed + 1)
  BY DEF Push, fetchVars, priceVars, outputVars, quoteVars
<1>2. inputCh \in Seq(Sizes) /\ pushed + 1 \in Sizes
  BY PipelineAssumption DEF IInv, TypeOK, Push, Sizes
<1>3. Len(inputCh') = Len(inputCh) + 1 /\ DOMAIN inputCh' = 1..Len(inputCh) + 1
      /\ DOMAIN inputCh = 1..Len(inputCh)
      /\ \A k \in DOMAIN inputCh' : inputCh'[k] = IF k = Len(inputCh) + 1 THEN pushed + 1
                                                                         ELSE inputCh[k]
  BY <1>1, <1>2, AppendFacts
<1>4. Taken' = Taken /\ Len(inputCh') <= pushed'
  BY <1>1, <1>3, PlaceTypes DEF IInv, OnePlace, Taken
<1>5. \A k \in DOMAIN inputCh' : inputCh'[k] = Taken + k
  BY <1>3, PlaceTypes DEF IInv, OnePlace, Taken
<1>6. Sent' = Sent /\ Out' = Out /\ \A v : InHand(v)' = InHand(v)
  BY <1>1 DEF Sent, Out, InHand
<1>7. \A i : Quoted(i)' = Quoted(i)
  BY <1>1, QuotedFrame
<1>8. OnePlace'
  BY <1>1, <1>4, <1>5, <1>6, <1>7 DEF IInv, OnePlace
<1>9. ToSendOnce'
  BY <1>1, <1>6 DEF IInv, ToSendOnce
<1>10. NothingLost'
  BY <1>1, <1>4, <1>6, <1>7 DEF IInv, NothingLost
<1> QED
  BY <1>8, <1>9, <1>10

\* A size that is taken was the next one, and is in no other place.
LEMMA PlacesTakeSize ==
    ASSUME IInv, NEW w \in Workers, TakeSize(w)
    PROVE  OnePlace' /\ ToSendOnce' /\ NothingLost'
<1>1. /\ UNCHANGED <<pushed, priceCh, analysis, outputCh, opportunities, quotes, ctxDone>>
      /\ inputCh # <<>> /\ inputCh' = Tail(inputCh) /\ inputCh \in Seq(Sizes)
      /\ ~InHand(w)
  BY DEF IInv, TypeOK, TakeSize, InHand, callerVars, priceVars, outputVars, quoteVars
<1>2. /\ Len(inputCh') = Len(inputCh) - 1 /\ Len(inputCh) >= 1
      /\ Head(inputCh) = inputCh[1] /\ 1 \in DOMAIN inputCh
      /\ \A k \in DOMAIN inputCh' : k \in Nat /\ k + 1 \in DOMAIN inputCh
                                    /\ inputCh'[k] = inputCh[k + 1]
  BY <1>1, HeadTailFacts
<1>3. Taken' = Taken + 1 /\ Len(inputCh') <= pushed' /\ Head(inputCh) = Taken + 1
  BY <1>1, <1>2, PlaceTypes DEF IInv, OnePlace, Taken
<1>4. ASSUME NEW k \in DOMAIN inputCh' PROVE inputCh'[k] = Taken' + k
  <2>1. k \in Nat /\ inputCh'[k] = inputCh[k + 1] /\ inputCh[k + 1] = Taken + (k + 1)
    BY <1>2 DEF IInv, OnePlace
  <2> QED
    BY <1>3, <2>1, PlaceTypes
<1>5. Sent' = Sent /\ Out' = Out /\ \A i : Quoted(i)' = Quoted(i)
  BY <1>1, QuotedFrame DEF Sent, Out
<1>6. ToSendOnce'
  BY <1>1, <1>5 DEF IInv, ToSendOnce
<1>7. /\ \A v \in Workers : v # w => InHand(v)' = InHand(v) /\ worker'[v].size = worker[v].size
      /\ IF ctxDone THEN ~InHand(w)' ELSE InHand(w)' /\ worker'[w].size = Taken + 1
  BY <1>3 DEF IInv, TypeOK, TakeSize, InHand
<1>8. \A i \in 1..Taken : i \in 1..Taken' /\ i # Taken + 1
  BY <1>3, PlaceTypes
<1>9. /\ \A i \in ToSet(priceCh) : i <= Taken' /\ i # Taken + 1
      /\ \A o \in Out : o[1] <= Taken' /\ o[1] # Taken + 1
  BY <1>3, PlaceTypes DEF IInv, OnePlace, Sizes
<1>10. OnePlace'
  <2>1. ASSUME NEW v \in Workers, InHand(v)'
        PROVE  /\ worker'[v].size \in 1..Taken' /\ worker'[v].size \notin ToSet(priceCh')
               /\ \A u \in Workers : InHand(u)' /\ worker'[u].size = worker'[v].size => u = v
               /\ \A o \in Out : worker'[v].size # o[1]
    <3>1. CASE v = w
      <4>1. worker'[v].size = Taken + 1
        BY <1>7, <2>1, <3>1
      <4>2. \A u \in Workers : InHand(u)' /\ u # w => worker'[u].size # Taken + 1
        BY <1>7, <1>8 DEF IInv, OnePlace
      <4> QED
        BY <1>1, <1>3, <1>9, <3>1, <4>1, <4>2, PlaceTypes
    <3>2. CASE v # w
      <4>1. InHand(v) /\ worker'[v].size = worker[v].size /\ worker[v].size \in 1..Taken
        BY <1>7, <2>1, <3>2 DEF IInv, OnePlace
      <4>2. \A u \in Workers : InHand(u)' /\ worker'[u].size = worker'[v].size => u = v
        BY <1>7, <1>8, <4>1 DEF IInv, OnePlace
      <4> QED
        BY <1>1, <1>8, <4>1, <4>2 DEF IInv, OnePlace
    <3> QED
      BY <3>1, <3>2
  <2> QED
    BY <1>1, <1>3, <1>4, <1>5, <1>9, <2>1 DEF IInv, OnePlace
<1>11. NothingLost'
  <2>1. ASSUME ~ctxDone, NEW i \in 1..Taken', i # Taken + 1 PROVE i \in 1..Taken
    BY <1>3, <2>1, PlaceTypes
  <2>2. ASSUME ~ctxDone, NEW v \in Workers, InHand(v)
        PROVE  InHand(v)' /\ worker'[v].size = worker[v].size
    BY <1>1, <1>7, <2>2
  <2> QED
    BY <1>1, <1>5, <1>7, <2>1, <2>2 DEF IInv, NothingLost
<1> QED
  BY <1>6, <1>10, <1>11

\* A size whose prices are sent moves from its worker to priceCh.
LEMMA PlacesSendPrices ==
    ASSUME IInv, NEW w \in Workers, SendPrices(w)
    PROVE  OnePlace' /\ ToSendOnce' /\ NothingLost'
<1> DEFINE h == worker[w].size
<1>1. /\ UNCHANGED <<pushed, inputCh, analysis, outputCh, opportunities, quotes, ctxDone>>
      /\ priceCh' = Append(priceCh, h) /\ priceCh \in Seq(Sizes)
      /\ InHand(w) /\ h \in Sizes
  BY InHandIsSize DEF IInv, TypeOK, SendPrices, InHand, callerVars, inputVars, outputVars, quoteVars
<1>2. h \in 1..Taken /\ h \notin ToSet(priceCh) /\ (\A o \in Out : o[1] # h)
      /\ \A v \in Workers : InHand(v) /\ v # w => worker[v].size # h
  BY <1>1 DEF IInv, OnePlace
<1>3. ToSet(priceCh') = ToSet(priceCh) \union {h} /\ Distinct(priceCh')
  BY <1>1, <1>2, AppendFacts DEF IInv, OnePlace
<1>4. /\ ~InHand(w)'
      /\ \A v \in Workers : v # w => InHand(v)' = InHand(v) /\ worker'[v].size = worker[v].size
  BY DEF IInv, TypeOK, SendPrices, InHand, Idle
<1>5. Taken' = Taken /\ Sent' = Sent /\ Out' = Out /\ \A i : Quoted(i)' = Quoted(i)
  BY <1>1, QuotedFrame DEF Sent, Out, Taken
<1> HIDE DEF h
<1>6. ToSendOnce'
  BY <1>1, <1>5 DEF IInv, ToSendOnce
<1>7. \A i \in ToSet(priceCh') : i <= Taken'
  BY <1>2, <1>3, <1>5 DEF IInv, OnePlace
<1>8. OnePlace'
  <2>1. ASSUME NEW v \in Workers, InHand(v)'
        PROVE  /\ InHand(v) /\ v # w /\ worker'[v].size = worker[v].size
               /\ worker'[v].size \notin ToSet(priceCh')
    BY <1>2, <1>3, <1>4, <2>1 DEF IInv, OnePlace
  <2>2. \A o \in Out : o[1] \notin ToSet(priceCh')
    BY <1>2, <1>3 DEF IInv, OnePlace
  <2> QED
    BY <1>1, <1>3, <1>5, <1>7, <2>1, <2>2 DEF IInv, OnePlace
<1>9. NothingLost'
  <2>1. ASSUME NEW v \in Workers, InHand(v), worker[v].size # h
        PROVE  InHand(v)' /\ worker'[v].size = worker[v].size
    BY <1>4, <2>1 DEF h
  <2>2. \A i \in ToSet(priceCh) \union {h} : i \in ToSet(priceCh')
    BY <1>3
  <2> QED
    BY <1>1, <1>5, <2>1, <2>2 DEF IInv, NothingLost
<1> QED
  BY <1>6, <1>8, <1>9

\* A size that is analysed leaves priceCh for the opportunities it gives.
LEMMA PlacesAnalyze ==
    ASSUME IInv, Analyze
    PROVE  OnePlace' /\ ToSendOnce' /\ NothingLost'
<1> DEFINE h == Head(priceCh)
<1>1. /\ UNCHANGED <<pushed, inputCh, worker, outputCh, opportunities, quotes, ctxDone>>
      /\ priceCh' = Tail(priceCh) /\ priceCh \in Seq(Sizes) /\ priceCh # <<>>
      /\ analysis.todo = <<>>
      /\ analysis'.todo = IF ctxDone THEN <<>> ELSE Found(h)
  BY DEF IInv, TypeOK, Analyze, callerVars, inputVars, fetchVars, outputVars, quoteVars
<1>2. /\ h \in Sizes /\ ToSet(priceCh) = {h} \union ToSet(priceCh')
      /\ Distinct(priceCh') /\ h \notin ToSet(priceCh')
  BY <1>1, HeadTailFacts DEF IInv, OnePlace
<1>3. /\ h <= Taken /\ (\A o \in Out : o[1] # h)
      /\ \A v \in Workers : InHand(v) => worker[v].size # h
  BY <1>2 DEF IInv, OnePlace
<1>4. /\ Taken' = Taken /\ Sent' = Sent /\ Sent \subseteq Out
      /\ \A i : Quoted(i)' = Quoted(i)
      /\ \A v : InHand(v)' = InHand(v)
  BY <1>1, QuotedFrame DEF Sent, Out, Taken, InHand
<1>5. /\ Distinct(analysis'.todo)
      /\ \A o \in ToSet(analysis'.todo) : o[1] = h /\ o[2] \in Quoted(h)
      /\ ~ctxDone => \A d \in Quoted(h) : <<h, d>> \in ToSet(analysis'.todo)
  BY <1>1, <1>2, EmptyFacts, FoundFacts
<1>6. Out = Sent /\ Out' = Out \union ToSet(analysis'.todo)
  BY <1>1, <1>4, EmptyFacts DEF Out
<1> HIDE DEF h
<1>7. ToSendOnce'
  BY <1>3, <1>4, <1>5, <1>6 DEF ToSendOnce
<1>8. ASSUME NEW o \in Out'
      PROVE  /\ o[1] <= Taken /\ o[2] \in Quoted(o[1]) /\ o[1] \notin ToSet(priceCh')
             /\ \A v \in Workers : InHand(v) => worker[v].size # o[1]
  <2>1. CASE o \in Out
    BY <1>2, <2>1 DEF IInv, OnePlace
  <2>2. CASE o \in ToSet(analysis'.todo)
    BY <1>2, <1>3, <1>5, <2>2
  <2> QED
    BY <1>6, <1>8, <2>1, <2>2
<1>9. OnePlace'
  BY <1>1, <1>2, <1>4, <1>8 DEF IInv, OnePlace
<1>10. NothingLost'
  BY <1>1, <1>2, <1>4, <1>5, <1>6 DEF IInv, NothingLost
<1> QED
  BY <1>7, <1>9, <1>10

\* An opportunity that is sent was not sent before.
LEMMA PlacesSendOpportunity ==
    ASSUME IInv, SendOpportunity
    PROVE  /\ OnePlace' /\ ToSendOnce' /\ NothingLost'
           /\ Last(outputCh') \notin Sent
<1> DEFINE o == Head(analysis.todo)
<1>1. /\ UNCHANGED <<pushed, inputCh, worker, priceCh, opportunities, quotes, ctxDone>>
      /\ analysis.todo \in Seq(Sizes \X Directions) /\ analysis.todo # <<>>
      /\ outputCh \in Seq(Sizes \X Directions)
      /\ outputCh' = Append(outputCh, o) /\ analysis'.todo = Tail(analysis.todo)
  BY DEF IInv, TypeOK, SendOpportunity, callerVars, inputVars, fetchVars, priceVars, quoteVars
<1>2. /\ o \in Sizes \X Directions
      /\ ToSet(analysis.todo) = {o} \union ToSet(analysis'.todo)
      /\ Distinct(analysis'.todo) /\ o \notin ToSet(analysis'.todo)
  BY <1>1, HeadTailFacts DEF IInv, ToSendOnce
<1>3. Last(outputCh') = o /\ ToSet(outputCh') = ToSet(outputCh) \union {o}
  BY <1>1, <1>2, AppendFacts
<1>4. Sent' = Sent \union {o} /\ Out' = Out /\ o \notin Sent
  BY <1>1, <1>2, <1>3 DEF Sent, Out, IInv, ToSendOnce
<1>5. /\ Taken' = Taken /\ \A i : Quoted(i)' = Quoted(i)
      /\ \A v : InHand(v)' = InHand(v)
  BY <1>1, QuotedFrame DEF Taken, InHand
<1> HIDE DEF o
<1>6. ToSendOnce'
  BY <1>2, <1>4 DEF IInv, ToSendOnce
<1>7. OnePlace'
  BY <1>1, <1>4, <1>5 DEF IInv, OnePlace
<1>8. NothingLost'
  BY <1>1, <1>4, <1>5 DEF IInv, NothingLost
<1> QED
  BY <1>3, <1>4, <1>6, <1>7, <1>8

\* Every step keeps the places.
LEMMA PlacesKept ==
    ASSUME IInv, [Next]_vars
    PROVE  OnePlace' /\ ToSendOnce' /\ NothingLost'
<1>1. TypeOK /\ Distinct(analysis.todo)
  BY DEF IInv, ToSendOnce
<1>2. ASSUME UNCHANGED <<pushed, inputCh, worker, priceCh, analysis, outputCh, opportunities,
                         quotes>>,
             ~ctxDone' => ~ctxDone
      PROVE  OnePlace' /\ ToSendOnce' /\ NothingLost'
  <2>1. Sent' = Sent /\ \A v : InHand(v)' = InHand(v)
    BY <1>2 DEF Sent, InHand
  <2>2. \A i : Quoted(i)' = Quoted(i)
    BY <1>2, QuotedFrame
  <2> QED
    BY <1>1, <1>2, <2>1, <2>2, PlacesFrame
<1>3. ASSUME PushCancelled \/ CloseInput \/ Return \/ ClosePrices \/ CloseOutput \/ Cancel
             \/ OthersAcquire \/ OthersRelease \/ UNCHANGED vars
      PROVE  OnePlace' /\ ToSendOnce' /\ NothingLost'
  BY <1>2, <1>3 DEF PushCancelled, CloseInput, Return, ClosePrices, CloseOutput, Cancel,
     OthersAcquire, OthersRelease, vars, callerVars, inputVars, fetchVars, priceVars, outputVars,
     quoteVars
<1>4. ASSUME NEW w \in Workers, NEW s \in Sides, Limited(w, s) \/ Quote(w, s)
      PROVE  OnePlace' /\ ToSendOnce' /\ NothingLost'
  BY <1>2, <1>4 DEF Limited, Acquire, AcquireCancelled, Quote, callerVars, inputVars, priceVars,
     outputVars, quoteVars
<1>5. ASSUME Collect PROVE OnePlace' /\ ToSendOnce' /\ NothingLost'
  <2>1. /\ UNCHANGED <<pushed, inputCh, worker, priceCh, analysis, quotes, ctxDone>>
        /\ outputCh \in Seq(Sizes \X Directions) /\ outputCh # <<>>
        /\ outputCh' = Tail(outputCh)
        /\ opportunities' = opportunities \union {Head(outputCh)}
    BY <1>1, <1>5 DEF TypeOK, Collect, inputVars, fetchVars, priceVars, quoteVars
  <2>2. ToSet(outputCh) = {Head(outputCh)} \union ToSet(outputCh')
    BY <2>1, HeadTailFacts
  <2>3. Sent' = Sent /\ \A v : InHand(v)' = InHand(v)
    BY <2>1, <2>2 DEF Sent, InHand
  <2>4. \A i : Quoted(i)' = Quoted(i)
    BY <2>1, QuotedFrame
  <2> QED
    BY <1>1, <2>1, <2>3, <2>4, PlacesFrame
<1>6. ASSUME NEW w \in Workers, InputEnds(w) \/ SendPricesCancelled(w)
      PROVE  OnePlace' /\ ToSendOnce' /\ NothingLost'
  <2>1. UNCHANGED <<pushed, inputCh, priceCh, analysis, outputCh, opportunities, quotes, ctxDone>>
    BY <1>6 DEF InputEnds, SendPricesCancelled, callerVars, inputVars, priceVars, outputVars,
       quoteVars
  <2>2. /\ \A v \in Workers : InHand(v)' => InHand(v) /\ worker'[v].size = worker[v].size
        /\ ~ctxDone => \A v \in Workers : InHand(v) => InHand(v)'
    BY <1>1, <1>6 DEF TypeOK, InputEnds, SendPricesCancelled, InHand
  <2>3. Sent' = Sent
    BY <2>1 DEF Sent
  <2>4. \A i : Quoted(i)' = Quoted(i)
    BY <2>1, QuotedFrame
  <2> QED
    BY <1>1, <2>1, <2>2, <2>3, <2>4, PlacesFrame
<1>7. ASSUME NEW w \in Workers, FetchDone(w) PROVE OnePlace' /\ ToSendOnce' /\ NothingLost'
  <2>1. UNCHANGED <<pushed, inputCh, priceCh, analysis, outputCh, opportunities, ctxDone>>
    BY <1>7 DEF FetchDone, callerVars, inputVars, priceVars, outputVars
  <2>2. \A v \in Workers : InHand(v)' = InHand(v) /\ worker'[v].size = worker[v].size
    BY <1>1, <1>7 DEF TypeOK, FetchDone, InHand
  <2>3. InHand(w) /\ InHand(w)'
    BY <1>7, <2>2 DEF FetchDone, InHand
  <2>4. Sent' = Sent
    BY <2>1 DEF Sent
  <2>5. ASSUME NEW i \in Sizes, i # worker[w].size PROVE Quoted(i)' = Quoted(i)
    <3>1. quotes'[i] = quotes[i]
      BY <1>1, <1>7, <2>5 DEF TypeOK, FetchDone
    <3> QED
      BY <3>1 DEF Quoted
  <2> QED
    BY <1>1, <2>1, <2>2, <2>3, <2>4, <2>5, PlacesFrame
<1>8. ASSUME SendOpportunityCancelled \/ PricesEnd
      PROVE  OnePlace' /\ ToSendOnce' /\ NothingLost'
  <2>1. UNCHANGED <<pushed, inputCh, worker, priceCh, outputCh, opportunities, quotes, ctxDone>>
    BY <1>8 DEF SendOpportunityCancelled, PricesEnd, callerVars, inputVars, fetchVars, priceVars,
       outputVars, quoteVars
  <2>2. /\ analysis'.todo = <<>>
        /\ ~ctxDone => analysis'.todo = analysis.todo
    BY <1>1, <1>8 DEF TypeOK, SendOpportunityCancelled, PricesEnd
  <2>3. Sent' = Sent /\ \A v : InHand(v)' = InHand(v)
    BY <2>1 DEF Sent, InHand
  <2>4. \A i : Quoted(i)' = Quoted(i)
    BY <2>1, QuotedFrame
  <2> QED
    BY <1>1, <2>1, <2>2, <2>3, <2>4, EmptyFacts, PlacesFrame
<1> QED
  BY <1>3, <1>4, <1>5, <1>6, <1>7, <1>8, PlacesPush, PlacesTakeSize, PlacesSendPrices,
     PlacesAnalyze, PlacesSendOpportunity DEF Next, Process, Fetch, Analysis, Stopped

-------------------------------------------------------------------------------
(* The theorems.                                                             *)

LEMMA InitIInv == ASSUME Init PROVE IInv
<1>1. NumSizes \in Nat /\ BufferSize \in Nat /\ MaxFailures \in Nat /\ Permits \in Nat
  BY PipelineAssumption
<1>2. TypeOK
  <2>1. \A S : <<>> \in Seq(S) /\ Len(<<>>) = 0
    OBVIOUS
  <2>2. worker \in [Workers -> [pc : {"idle", "fetching", "sending", "done"},
                               size : 0..NumSizes]]
    BY <1>1 DEF Init, Idle
  <2>3. dex \in [Workers -> [Sides -> {"none", "waiting", "quoting", "ok", "failed"}]]
    BY DEF Init, NoQuotes
  <2>4. analysis \in [pc : {"idle", "done"}, todo : Seq(Sizes \X Directions)]
    BY <2>1 DEF Init
  <2>5. quotes \in [Sizes -> SUBSET (CEXQuotes \union Sides)]
    BY DEF Init
  <2>6. /\ inputCh = <<>> /\ priceCh = <<>> /\ outputCh = <<>>
        /\ caller = "pushing" /\ pushed = 0 /\ opportunities = {} /\ inputClosed = FALSE
        /\ priceClosed = FALSE /\ outputClosed = FALSE /\ ctxDone = FALSE
        /\ others = 0 /\ permits = Permits /\ failures = 0
    BY DEF Init
  <2>7. /\ inputCh \in Seq(Sizes) /\ Len(inputCh) <= BufferSize
        /\ priceCh \in Seq(Sizes) /\ Len(priceCh) <= BufferSize
        /\ outputCh \in Seq(Sizes \X Directions) /\ Len(outputCh) <= 2 * BufferSize
    BY <1>1, <2>1, <2>6
  <2>8. /\ caller \in {"pushing", "draining", "returned"}
        /\ inputClosed \in BOOLEAN /\ priceClosed \in BOOLEAN
        /\ outputClosed \in BOOLEAN /\ ctxDone \in BOOLEAN
        /\ opportunities \subseteq Sizes \X Directions
    BY <2>6
  <2>9. /\ pushed \in 0..NumSizes /\ others \in 0..Permits /\ permits \in 0..Permits
        /\ failures \in 0..MaxFailures
    BY <1>1, <2>6
  <2> QED
    BY <2>2, <2>3, <2>4, <2>5, <2>7, <2>8, <2>9 DEF TypeOK
<1>3. Closing /\ QuotesWhileFetching /\ Ending
  BY DEF Init, Closing, QuotesWhileFetching, Ending, Idle, WorkersDone
<1>4. PermitsConserved
  <2>1. Quoting = {}
    BY DEF Init, Quoting, NoQuotes
  <2> QED
    BY <1>1, <2>1, FS_EmptySet DEF Init, PermitsConserved
<1>5. Taken = 0 /\ Out = {} /\ \A w \in Workers : ~InHand(w)
  <2>1. inputCh = <<>> /\ outputCh = <<>> /\ analysis.todo = <<>> /\ opportunities = {}
    BY DEF Init
  <2>2. Taken = 0
    <3>1. \A s : s = <<>> => Len(s) = 0
      OBVIOUS
    <3>2. pushed = 0 /\ Len(inputCh) = 0
      BY <2>1, <3>1 DEF Init
    <3> QED
      BY <3>2 DEF Taken
  <2>3. Out = {}
    BY <2>1, EmptyFacts DEF Out, Sent
  <2> QED
    BY <2>2, <2>3 DEF Init, InHand, Idle
<1>6. OnePlace /\ ToSendOnce /\ NothingLost
  BY <1>5, EmptyFacts DEF Init, OnePlace, ToSendOnce, NothingLost
<1> QED
  BY <1>2, <1>3, <1>4, <1>6 DEF IInv

\* Every reachable state of a call of Process satisfies the invariant.
THEOREM PipelineInvariance == Spec => []IInv
<1>1. IInv /\ [Next]_vars => IInv'
  <2> SUFFICES ASSUME IInv, [Next]_vars PROVE IInv'
    OBVIOUS
  <2>1. TypeOK' /\ PermitsConserved'
    BY TypeKept, LimiterKept DEF IInv
  <2>2. Closing' /\ Ending' /\ QuotesWhileFetching'
    BY ClosingKept
  <2>3. OnePlace' /\ ToSendOnce' /\ NothingLost'
    BY PlacesKept
  <2> QED
    BY <2>1, <2>2, <2>3 DEF IInv
<1> QED
  BY InitIInv, <1>1, PTL DEF Spec

\* The variables of a call keep their types, whatever fails or is cancelled.
THEOREM TypeCorrect == Spec => []TypeOK
  BY PipelineInvariance, PTL DEF IInv

\* No goroutine sends on a channel of pipeline.go that has been closed.
THEOREM NoSendOnClosed == Spec => []NoSendAfterClose
<1>1. IInv => NoSendAfterClose
  BY DEF IInv, Closing, NoSendAfterClose, WorkersDone
<1> QED
  BY PipelineInvariance, <1>1, PTL

\* The limiter gets back every permit, whichever way a quote ends.
THEOREM PermitsAreConserved == Spec => []PermitsConserved
  BY PipelineInvariance, PTL DEF IInv

\* An uncancelled call of Process returns exactly the opportunities that were quoted.
THEOREM ResultIsComplete == Spec => []CompleteResult
<1>1. ASSUME IInv, caller = "returned", ~ctxDone
      PROVE  opportunities = {o \in Sizes \X Directions : o[2] \in Quoted(o[1])}
  <2>1. /\ pushed = NumSizes /\ outputCh = <<>> /\ analysis.todo = <<>> /\ priceCh = <<>>
        /\ \A w \in Workers : worker[w].pc = "done"
    BY <1>1 DEF IInv, Closing, Ending, WorkersDone
  <2>2. inputCh = <<>>
    BY <1>1, <2>1, PipelineAssumption DEF IInv, Ending
  <2>3. Taken = NumSizes /\ 1..Taken = Sizes
    BY <2>1, <2>2, PipelineAssumption DEF Taken, Sizes
  <2>4. Out = opportunities /\ ToSet(priceCh) = {} /\ \A w \in Workers : ~InHand(w)
    BY <2>1, EmptyFacts DEF Out, Sent, InHand
  <2>5. \A o \in opportunities : o \in Sizes \X Directions /\ o[2] \in Quoted(o[1])
    BY <1>1, <2>4, PlaceTypes DEF IInv, OnePlace
  <2>6. \A i \in Sizes : \A d \in Quoted(i) : <<i, d>> \in opportunities
    BY <1>1, <2>3, <2>4 DEF IInv, NothingLost
  <2>7. \A o \in Sizes \X Directions : o[1] \in Sizes /\ o = <<o[1], o[2]>>
    OBVIOUS
  <2> QED
    BY <2>5, <2>6, <2>7
<1>2. IInv => CompleteResult
  BY <1>1 DEF CompleteResult
<1> QED
  BY PipelineInvariance, <1>2, PTL

\* No opportunity is sent to the caller twice.
THEOREM OpportunitiesSentOnce == Spec => SentOnce
<1>1. ASSUME IInv, Next, Len(outputCh') > Len(outputCh)
      PROVE  Last(outputCh') \notin opportunities \union ToSet(outputCh)
  <2>1. ~Collect
    <3>1. SUFFICES ASSUME Collect PROVE FALSE
      OBVIOUS
    <3>2. outputCh \in Seq(Sizes \X Directions) /\ outputCh # <<>> /\ outputCh' = Tail(outputCh)
      BY <1>1, <3>1 DEF IInv, TypeOK, Collect
    <3>3. Len(outputCh') = Len(outputCh) - 1 /\ Len(outputCh) \in Nat
      BY <3>2, TailTypes
    <3> QED
      BY <1>1, <3>3
  <2>2. outputCh' # outputCh
    <3>1. Len(outputCh) \in Nat
      BY <1>1 DEF IInv, TypeOK
    <3> QED
      BY <1>1, <3>1
  <2>3. SendOpportunity
    BY <1>1, <2>1, <2>2 DEF Next, Process, Push, PushCancelled, CloseInput, Return, ClosePrices,
       Analysis, Analyze, SendOpportunityCancelled, PricesEnd, CloseOutput, Fetch, TakeSize,
       InputEnds, FetchDone, SendPrices, SendPricesCancelled, Limited, Acquire, AcquireCancelled,
       Quote, Cancel, OthersAcquire, OthersRelease, Stopped, vars, outputVars
  <2> QED
    BY <1>1, <2>3, PlacesSendOpportunity DEF Sent
<1>2. IInv /\ [Next]_vars =>
        [Len(outputCh') > Len(outputCh) =>
            Last(outputCh') \notin opportunities \union ToSet(outputCh)]_vars
  BY <1>1
<1> QED
  BY PipelineInvariance, <1>2, PTL DEF Spec, SentOnce

-------------------------------------------------------------------------------
(* Nobody waits on everybody.                                                *)

\* No opportunity is twice on outputCh, and all quotes of a fetch have been started.
Ready ==
    /\ Distinct(outputCh)
    /\ \A w \in Workers : worker[w].pc = "fetching" =>
          \A s \in Sides : dex[w][s] # "none"

\* Only SendOpportunity adds to outputCh, what was not sent before.
LEMMA OutputKept ==
    ASSUME IInv, Ready, [Next]_vars
    PROVE  Distinct(outputCh')
<1>1. outputCh \in Seq(Sizes \X Directions) /\ Distinct(outputCh)
  BY DEF IInv, TypeOK, Ready
<1>2. ASSUME SendOpportunity PROVE Distinct(outputCh')
  <2>1. /\ outputCh' = Append(outputCh, Head(analysis.todo))
        /\ analysis.todo \in Seq(Sizes \X Directions) /\ analysis.todo # <<>>
    BY <1>2 DEF IInv, TypeOK, SendOpportunity
  <2>2. /\ Head(analysis.todo) \in Sizes \X Directions
        /\ Head(analysis.todo) \in ToSet(analysis.todo)
    BY <2>1, HeadTailFacts
  <2>3. Head(analysis.todo) \notin ToSet(outputCh)
    BY <2>2 DEF IInv, ToSendOnce, Sent
  <2> QED
    BY <1>1, <2>1, <2>2, <2>3, AppendFacts
<1>3. ASSUME Collect PROVE Distinct(outputCh')
  BY <1>1, <1>3, HeadTailFacts DEF Collect
<1>4. ASSUME ~SendOpportunity, ~Collect PROVE outputCh' = outputCh
  BY <1>4 DEF Next, Process, Push, PushCancelled, CloseInput, Return, ClosePrices, Analysis,
     Analyze, SendOpportunityCancelled, PricesEnd, CloseOutput, Fetch, TakeSize, InputEnds,
     FetchDone, SendPrices, SendPricesCancelled, Limited, Acquire, AcquireCancelled, Quote,
     Cancel, OthersAcquire, OthersRelease, Stopped, vars, outputVars
<1> QED
  BY <1>1, <1>2, <1>3, <1>4

\* A fetch starts all its quotes.
LEMMA StartedKept ==
    ASSUME IInv, Ready, [Next]_vars, NEW w \in Workers, worker'[w].pc = "fetching",
           NEW s \in Sides
    PROVE  dex'[w][s] # "none"
<1>1. /\ worker \in [Workers -> [pc : {"idle", "fetching", "sending", "done"},
                                  size : 0..NumSizes]]
      /\ dex \in [Workers -> [Sides -> {"none", "waiting", "quoting", "ok", "failed"}]]
  BY DEF IInv, TypeOK
<1>2. worker[w].pc = "fetching" => dex[w][s] # "none"
  BY DEF Ready
<1>3. ASSUME NEW v \in Workers, TakeSize(v) PROVE dex'[w][s] # "none"
  BY <1>1, <1>2, <1>3 DEF TakeSize
<1>4. ASSUME NEW v \in Workers, FetchDone(v) PROVE dex'[w][s] # "none"
  BY <1>1, <1>2, <1>4 DEF FetchDone
<1>5. ASSUME NEW v \in Workers, InputEnds(v) \/ SendPrices(v) \/ SendPricesCancelled(v)
      PROVE  dex'[w][s] # "none"
  <2>1. dex' = dex
    BY <1>5 DEF InputEnds, SendPrices, SendPricesCancelled
  <2>2. worker[w].pc = "fetching"
    BY <1>1, <1>5 DEF InputEnds, SendPrices, SendPricesCancelled, Idle
  <2> QED
    BY <1>2, <2>1, <2>2
<1>6. ASSUME NEW v \in Workers, NEW side \in Sides, Limited(v, side) \/ Quote(v, side)
      PROVE  dex'[w][s] # "none"
  <2>1. worker' = worker
    BY <1>6 DEF Limited, Acquire, AcquireCancelled, Quote
  <2>2. PICK pc \in {"quoting", "ok", "failed"} : dex' = [dex EXCEPT ![v][side] = pc]
    BY <1>6 DEF Limited, Acquire, AcquireCancelled, Quote
  <2> QED
    BY <1>1, <1>2, <2>1, <2>2
<1>7. ASSUME Process \/ ClosePrices \/ Analysis \/ CloseOutput \/ Cancel \/ OthersAcquire
             \/ OthersRelease \/ UNCHANGED vars
      PROVE  UNCHANGED <<worker, dex>>
  BY <1>7 DEF Process, Push, PushCancelled, CloseInput, Collect, Return, ClosePrices, Analysis,
     Analyze, SendOpportunity, SendOpportunityCancelled, PricesEnd, CloseOutput, Cancel,
     OthersAcquire, OthersRelease, vars, fetchVars
<1> QED
  BY <1>2, <1>3, <1>4, <1>5, <1>6, <1>7 DEF Next, Fetch, Stopped

LEMMA ReadyAlways == Spec => []Ready
<1>1. Init => Ready
  BY EmptyFacts DEF Init, Ready, Idle
<1>2. IInv /\ Ready /\ [Next]_vars => Ready'
  BY OutputKept, StartedKept DEF Ready
<1> QED
  BY <1>1, <1>2, PipelineInvariance, PTL DEF Spec

\* A fetch goes on: a permit it waits for is free, or with somebody who gives it back.
LEMMA FetchGoesOn ==
    ASSUME IInv, Ready, others = 0, NEW w \in Workers, worker[w].pc = "fetching"
    PROVE  \E v \in Workers : WorkerGoesOn(v)
<1>1. /\ permits \in 0..Permits /\ Permits \in Nat
      /\ Permits > 0 => permits + others + Cardinality(Quoting) = Permits
  BY PipelineAssumption DEF IInv, TypeOK, PermitsConserved
<1>2. \A s \in Sides : dex[w][s] \in {"waiting", "quoting", "ok", "failed"}
  BY DEF IInv, TypeOK, Ready
<1>3. CASE \A s \in Sides : dex[w][s] \in {"ok", "failed"}
  BY <1>3 DEF WorkerGoesOn
<1>4. CASE \E s \in Sides : dex[w][s] = "quoting"
  BY <1>4 DEF WorkerGoesOn
<1>5. CASE \E s \in Sides : dex[w][s] = "waiting"
  <2>1. CASE Permits = 0 \/ permits > 0
    BY <1>5, <2>1 DEF WorkerGoesOn
  <2>2. CASE Permits > 0 /\ permits = 0
    <3>1. Cardinality(Quoting) = Permits
      BY <1>1, <2>2, QuotingFinite
    <3>2. Quoting # {}
      BY <1>1, <2>2, <3>1, FS_EmptySet
    <3>3. PICK ws \in Workers \X Sides : dex[ws[1]][ws[2]] = "quoting"
      BY <3>2 DEF Quoting
    <3>4. ws[1] \in Workers /\ worker[ws[1]].pc = "fetching"
      BY <3>3 DEF IInv, QuotesWhileFetching, NoQuotes
    <3> QED
      BY <3>3, <3>4 DEF WorkerGoesOn
  <2> QED
    BY <1>1, <2>1, <2>2
<1> QED
  BY <1>2, <1>3, <1>4, <1>5

\* The elements of a list without repetitions are as many as its length.
LEMMA ListSize ==
    ASSUME NEW S, NEW q \in Seq(S), Distinct(q)
    PROVE  IsFiniteSet(ToSet(q)) /\ Cardinality(ToSet(q)) = Len(q)
<1>1. Len(q) \in Nat /\ DOMAIN q = 1..Len(q) /\ q = [i \in 1..Len(q) |-> q[i]]
  BY LenProperties
<1>2. q \in [1..Len(q) -> ToSet(q)]
  BY <1>1 DEF ToSet
<1>3. q \in Bijection(1..Len(q), ToSet(q))
  BY <1>1, <1>2 DEF Bijection, Injection, Surjection, IsInjective, Distinct, ToSet
<1>4. ExistsBijection(1..Len(q), ToSet(q))
  BY <1>3 DEF ExistsBijection
<1> QED
  BY <1>1, <1>4, FS_CountingElements, FS_NatBijection

\* Sets that share nothing add up.
LEMMA DisjointSize ==
    ASSUME NEW S, NEW T, IsFiniteSet(S), IsFiniteSet(T), S \intersect T = {}
    PROVE  /\ IsFiniteSet(S \union T)
           /\ Cardinality(S \union T) = Cardinality(S) + Cardinality(T)
<1>1. Cardinality(S) \in Nat /\ Cardinality(T) \in Nat /\ Cardinality(S \intersect T) = 0
  BY FS_CardinalityType, FS_EmptySet
<1>2. /\ IsFiniteSet(S \union T)
      /\ Cardinality(S \union T)
           = Cardinality(S) + Cardinality(T) - Cardinality(S \intersect T)
  BY FS_Union
<1> QED
  BY <1>1, <1>2

\* Everyone waits for room: what is in hand, on the channels and analysed are so many
\* sizes that all of them have been pushed.
LEMMA FullIsCapacity ==
    ASSUME IInv, Ready, \A w \in Workers : worker[w].pc = "sending",
           ~InputRoom, ~PriceRoom, ~OutputRoom, analysis.todo # <<>>
    PROVE  pushed >= Capacity
<1>1. /\ BufferSize \in Nat /\ IsFiniteSet(Workers) /\ Cardinality(Workers) \in Nat
  BY PipelineAssumption, FS_CardinalityType
<1>2. /\ Len(inputCh) = BufferSize /\ Len(priceCh) = BufferSize
      /\ Len(outputCh) = 2 * BufferSize
  <2>1. /\ Len(inputCh) \in Nat /\ Len(priceCh) \in Nat /\ Len(outputCh) \in Nat
        /\ Len(inputCh) <= BufferSize /\ Len(priceCh) <= BufferSize
        /\ Len(outputCh) <= 2 * BufferSize
    BY DEF IInv, TypeOK
  <2> QED
    BY <1>1, <2>1 DEF InputRoom, PriceRoom, OutputRoom
<1>3. /\ IsFiniteSet(1..Taken) /\ Cardinality(1..Taken) = Taken
      /\ Taken = pushed - BufferSize /\ Taken \in Nat /\ pushed \in Nat
  <2>1. Taken \in Nat /\ pushed \in Nat
    BY PlaceTypes
  <2>2. IsFiniteSet(1..Taken) /\ Cardinality(1..Taken) = IF 1 > Taken THEN 0 ELSE Taken - 1 + 1
    BY <2>1, FS_Interval
  <2> QED
    BY <1>2, <2>1, <2>2 DEF Taken
<1> DEFINE H == {worker[w].size : w \in Workers}
           P == ToSet(priceCh)
           A == {o[1] : o \in Out}
<1>4. IsFiniteSet(H) /\ Cardinality(H) = Cardinality(Workers)
  <2> DEFINE size == [w \in Workers |-> worker[w].size]
  <2>1. \A v, w \in Workers : size[v] = size[w] => v = w
    BY DEF IInv, OnePlace, InHand
  <2>2. size \in Bijection(Workers, H)
    BY <2>1 DEF Bijection, Injection, Surjection, IsInjective
  <2>3. ExistsBijection(Workers, H)
    BY <2>2 DEF ExistsBijection
  <2> QED
    BY <1>1, <2>3, FS_Bijection
<1>5. IsFiniteSet(P) /\ Cardinality(P) = BufferSize
  BY <1>2, ListSize DEF IInv, TypeOK, OnePlace
<1>6. H \subseteq 1..Taken /\ P \subseteq 1..Taken /\ A \subseteq 1..Taken
  <2>1. \A i \in Sizes : i <= Taken => i \in 1..Taken
    BY <1>3 DEF Sizes
  <2>2. H \subseteq 1..Taken
    BY DEF IInv, OnePlace, InHand
  <2>3. P \subseteq 1..Taken
    BY <2>1, PlaceTypes DEF IInv, OnePlace
  <2>4. A \subseteq 1..Taken
    BY <2>1, PlaceTypes DEF IInv, OnePlace
  <2> QED
    BY <2>2, <2>3, <2>4
<1>7. H \intersect P = {} /\ (H \union P) \intersect A = {}
  BY DEF IInv, OnePlace, InHand
\* Two opportunities of a size at most.
<1>8. IsFiniteSet(A) /\ Cardinality(A) \in Nat /\ Cardinality(A) >= BufferSize + 1
  <2> DEFINE next == Head(analysis.todo)
             O    == ToSet(outputCh) \union {next}
  <2>1. /\ analysis.todo \in Seq(Sizes \X Directions) /\ next \in ToSet(analysis.todo)
        /\ outputCh \in Seq(Sizes \X Directions) /\ Distinct(outputCh)
    BY HeadTailFacts DEF IInv, TypeOK, Ready
  <2>2. next \notin ToSet(outputCh) /\ O \subseteq Out
    BY <2>1 DEF IInv, ToSendOnce, Out, Sent
  <2>3. IsFiniteSet(ToSet(outputCh)) /\ Cardinality(ToSet(outputCh)) = 2 * BufferSize
    BY <1>2, <2>1, ListSize
  <2> HIDE DEF next
  <2>4. IsFiniteSet(O) /\ Cardinality(O) = 2 * BufferSize + 1
    BY <2>2, <2>3, FS_AddElement
  <2>5. IsFiniteSet(A) /\ Cardinality(A) \in Nat
    BY <1>3, <1>6, FS_Subset, FS_CardinalityType
  <2>6. IsFiniteSet(Directions) /\ Cardinality(Directions) = 2
    <3>1. Directions = {"CEXToDEX"} \union {"DEXToCEX"}
      BY DEF Directions
    <3>2. {"CEXToDEX"} \intersect {"DEXToCEX"} = {}
      OBVIOUS
    <3>3. PICK S, T : S = {"CEXToDEX"} /\ T = {"DEXToCEX"}
      OBVIOUS
    <3>4. IsFiniteSet(S) /\ Cardinality(S) = 1 /\ IsFiniteSet(T) /\ Cardinality(T) = 1
      BY <3>3, FS_Singleton
    <3>5. Directions = S \union T /\ S \intersect T = {}
      BY <3>1, <3>2, <3>3
    <3>6. /\ IsFiniteSet(S \union T)
          /\ Cardinality(S \union T) = Cardinality(S) + Cardinality(T)
      BY <3>4, <3>5, DisjointSize
    <3> QED
      BY <3>4, <3>5, <3>6
  <2>7. O \subseteq A \X Directions
    <3>1. \A o \in Out : o \in A \X Directions
      <4> SUFFICES ASSUME NEW o \in Out PROVE o \in A \X Directions
        OBVIOUS
      <4>1. o \in Sizes \X Directions /\ o[1] \in A
        BY PlaceTypes
      <4> HIDE DEF A
      <4> QED
        BY <4>1
    <3> QED
      BY <2>2, <3>1
  <2> HIDE DEF A, O
  <2>8. IsFiniteSet(A \X Directions) /\ Cardinality(A \X Directions) = Cardinality(A) * 2
    BY <2>5, <2>6, FS_Product
  <2>9. Cardinality(O) <= Cardinality(A \X Directions)
    BY <2>7, <2>8, FS_Subset
  <2> QED
    BY <1>1, <2>4, <2>5, <2>8, <2>9
<1> HIDE DEF H, P, A
<1>9. /\ IsFiniteSet(H \union P)
      /\ Cardinality(H \union P) = Cardinality(Workers) + BufferSize
  BY <1>4, <1>5, <1>7, DisjointSize
<1>10. Cardinality((H \union P) \union A)
         = Cardinality(Workers) + BufferSize + Cardinality(A)
  BY <1>7, <1>8, <1>9, DisjointSize
<1>11. Cardinality((H \union P) \union A) <= Taken
  BY <1>3, <1>6, FS_Subset
<1> QED
  BY <1>1, <1>3, <1>8, <1>10, <1>11 DEF Capacity

\* For every number of workers and sizes and every buffer, as long as the sizes fit into
\* Capacity: the goroutines of a call of Process never all wait on each other.
THEOREM NeverAllWait == Spec => []NeverStuck
<1>1. ASSUME IInv, Ready, NumSizes <= Capacity, ~Ended, ~CallerGoesOn, ~AnalysisGoesOn,
             ~CloserGoesOn, \A w \in Workers : ~WorkerGoesOn(w), ~(others > 0)
      PROVE  FALSE
  <2>1. others = 0
    BY <1>1 DEF IInv, TypeOK
  <2>2. \A w \in Workers : worker[w].pc \in {"idle", "sending", "done"}
    BY <1>1, <2>1, FetchGoesOn DEF IInv, TypeOK
  <2>3. \A w \in Workers :
          /\ worker[w].pc = "idle" => inputCh = <<>> /\ ~inputClosed
          /\ worker[w].pc = "sending" => ~PriceRoom /\ ~ctxDone
    BY <1>1 DEF WorkerGoesOn
  <2>4. /\ Closing /\ Ending /\ Workers # {} /\ BufferSize \in Nat \ {0}
        /\ analysis.pc \in {"idle", "done"} /\ caller \in {"pushing", "draining", "returned"}
        /\ pushed \in 0..NumSizes /\ NumSizes \in Nat
    BY <1>1, PipelineAssumption DEF IInv, TypeOK
  <2>5. \A ch : ch = <<>> => Len(ch) = 0
    OBVIOUS
  \* Whoever is still to send prices finds priceCh full, so there is one to analyse.
  <2>6. ~PriceRoom => priceCh # <<>>
    BY <2>4, <2>5 DEF PriceRoom
  <2>7. outputCh = <<>> => OutputRoom
    BY <2>4, <2>5 DEF OutputRoom
  <2>8. analysis.pc = "done" => outputClosed
    BY <1>1, <2>4 DEF CloserGoesOn
  <2>9. analysis.pc = "idle" =>
          \/ analysis.todo = <<>> /\ priceCh = <<>> /\ ~priceClosed
          \/ analysis.todo # <<>> /\ ~OutputRoom /\ ~ctxDone
    BY <1>1 DEF AnalysisGoesOn
  <2>10. WorkersDone => priceClosed
    BY <1>1 DEF CloserGoesOn
  <2>11. CASE caller = "pushing"
    <3>1. pushed # NumSizes /\ ~InputRoom /\ ~ctxDone
      BY <1>1, <2>11 DEF CallerGoesOn
    <3>2. inputCh # <<>>
      BY <2>4, <2>5, <3>1 DEF InputRoom
    <3>3. \A w \in Workers : worker[w].pc = "sending"
      BY <2>2, <2>3, <2>4, <3>1, <3>2 DEF Ending
    <3>4. ~PriceRoom /\ ~WorkersDone
      BY <2>3, <2>4, <3>3 DEF WorkersDone
    <3>5. analysis.pc = "idle"
      BY <2>4, <3>1, <3>4 DEF Closing, Ending
    <3>6. analysis.todo # <<>> /\ ~OutputRoom
      BY <2>6, <2>9, <3>4, <3>5
    <3>7. pushed >= Capacity
      BY <1>1, <3>1, <3>3, <3>4, <3>6, FullIsCapacity
    <3>8. Capacity \in Nat
      BY <2>4, PipelineAssumption, FS_CardinalityType DEF Capacity
    <3> QED
      BY <1>1, <2>4, <3>1, <3>7, <3>8
  <2>12. CASE caller = "draining"
    <3>1. outputCh = <<>> /\ ~outputClosed
      BY <1>1, <2>12 DEF CallerGoesOn
    <3>2. analysis.pc = "idle" /\ analysis.todo = <<>> /\ priceCh = <<>> /\ ~priceClosed
      BY <2>4, <2>7, <2>8, <2>9, <3>1
    <3>3. inputClosed
      BY <2>4, <2>12 DEF Closing
    <3>4. WorkersDone
      BY <2>2, <2>3, <2>6, <3>2, <3>3 DEF WorkersDone
    <3> QED
      BY <2>10, <3>2, <3>4
  <2>13. CASE caller = "returned"
    <3>1. inputClosed
      BY <2>4, <2>13 DEF Closing
    <3>2. WorkersDone
      <4>1. ASSUME NEW w \in Workers, worker[w].pc = "sending" PROVE FALSE
        <5>1. ~ctxDone /\ outputClosed
          BY <2>3, <2>4, <2>13, <4>1 DEF Ending
        <5>2. priceClosed
          BY <2>4, <5>1 DEF Closing, Ending
        <5> QED
          BY <2>4, <4>1, <5>2 DEF Closing, WorkersDone
      <4> QED
        BY <2>2, <2>3, <3>1, <4>1 DEF WorkersDone
    <3>3. priceClosed /\ ~outputClosed
      BY <1>1, <2>10, <2>13, <3>2 DEF Ended
    <3>4. ctxDone
      BY <2>4, <2>13, <3>3 DEF Ending
    <3> QED
      BY <2>4, <2>8, <2>9, <3>3, <3>4
  <2> QED
    BY <2>4, <2>11, <2>12, <2>13
<1>2. IInv /\ Ready => NeverStuck
  BY <1>1 DEF NeverStuck
<1> QED
  BY <1>2, PipelineInvariance, ReadyAlways, PTL

===============================================================================
