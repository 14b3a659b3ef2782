--------------------------- MODULE BlockQuotesProofs ---------------------------
(***************************************************************************)
(* The quotes of a pair for every set of callers, number of fee tiers,     *)
(* offers and TTLs: types, that what a detection compares belongs to its   *)
(* block, and that the best tier is chosen.                                *)
(***************************************************************************)
EXTENDS BlockQuotes, TLAPS

\* An entry that a provider may use for block n.
Current(entry, n, ttl) == entry # None => entry.of = n /\ entry.age < ttl + L1TTL

\* What the cache holds was fetched for the block of its key, and recently; the key
\* of the ETH price has no block.
CacheShape ==
    /\ \A k \in Numbers : Current(books[k], k, BookTTL)
    /\ \A n \in Numbers, t \in Tiers : Current(quotes[<<n, t>>], n, QuoteTTL)

\* What is in hand was taken for the block in hand, and between blocks nothing is.
CallShape ==
    /\ phase # "idle" => number \in Numbers
    /\ \A c \in Callers : Current(cex[c].book, number, BookTTL)
    /\ \A t \in Tiers : Current(answers[t], number, QuoteTTL)
    /\ phase # "quotes" => cex = [c \in Callers |-> NoCall]
    /\ phase \notin {"warmup", "quotes"} =>
          dex = NoQuote /\ answers = [t \in Tiers |-> None]

Answering == {t \in Tiers : answers[t] # None}

\* The first of the best offers.
Best(b, S) ==
    IF S = {} THEN b = 0
    ELSE /\ b \in S
         /\ \A u \in S : ~Better(offer[u], offer[b])
         /\ \A u \in S : offer[u] = offer[b] => b <= u

\* Tiers answer in order, and dex.best is the best of those that have.
BestSoFar ==
    /\ Best(dex.best, Answering)
    /\ dex.pc # "done" => \A t \in Answering : t < dex.tier

IInv == TypeOK /\ CacheShape /\ CallShape /\ BestSoFar

-------------------------------------------------------------------------------
LEMMA Constants ==
    /\ NumTiers \in Nat \ {0} /\ MaxBlock \in Nat \ {0} /\ MaxRounds \in Nat \ {0}
    /\ BookTTL \in Nat \ {0} /\ QuoteTTL \in Nat \ {0} /\ L1TTL \in Nat
    /\ Amounts \subseteq Nat
  BY QuotesAssumption

\* A quote just fetched is one, and can be used.
LEMMA FreshEntry ==
    ASSUME NEW n \in Numbers, NEW ttl \in Nat \ {0}
    PROVE  /\ Fresh(n) \in Entries(ttl) /\ Fresh(n) # None
           /\ Current(Fresh(n), n, ttl)
<1>1. Fresh(n) = [of |-> n, age |-> 0] /\ None = [of |-> -1, age |-> 0] /\ n >= 1
  BY Constants DEF Fresh, None, Numbers
<1>2. Fresh(n).of = n /\ None.of = -1 /\ Fresh(n).age = 0
  BY <1>1
<1>3. Fresh(n) # None
  BY <1>1, <1>2 DEF Numbers
<1>4. Fresh(n) \in Entries(ttl)
  BY <1>1, Constants DEF Entries
<1> QED
  BY <1>2, <1>3, <1>4, Constants DEF Current

\* A tick keeps the entries of a block those of the block, and forgets the old.
LEMMA OlderEntry ==
    ASSUME NEW ttl \in Nat \ {0}, NEW entry \in Entries(ttl)
    PROVE  /\ Older(entry, ttl) \in Entries(ttl)
           /\ \A n : Current(entry, n, ttl) => Current(Older(entry, ttl), n, ttl)
<1>1. CASE entry # None /\ entry.age + 1 < ttl + L1TTL
  <2>1. entry \in [of : Numbers, age : 0..ttl + L1TTL]
    BY <1>1 DEF Entries
  <2>2. Older(entry, ttl) = [entry EXCEPT !.age = entry.age + 1]
    BY <1>1 DEF Older
  <2>3. Older(entry, ttl).of = entry.of /\ Older(entry, ttl).age = entry.age + 1
    BY <2>1, <2>2
  <2>4. Older(entry, ttl) \in [of : Numbers, age : 0..ttl + L1TTL]
    BY <1>1, <2>1, <2>2, Constants
  <2> QED
    BY <1>1, <2>3, <2>4 DEF Entries, Current
<1>2. CASE ~(entry # None /\ entry.age + 1 < ttl + L1TTL)
  BY <1>2 DEF Older, Entries, Current
<1> QED
  BY <1>1, <1>2

\* The cache returns no more than Kept lets through.
LEMMA KeptEntry ==
    ASSUME NEW entry, NEW n, NEW ttl, Kept(entry, ttl), entry.of = n
    PROVE  Current(entry, n, ttl) /\ entry # None
  BY DEF Kept, Current

-------------------------------------------------------------------------------
(* Types, and what each action does to what it gets.                         *)

\* An answer of the tier in hand.
LEMMA ConsiderType ==
    ASSUME TypeOK, NEW q \in Entries(QuoteTTL), Consider(q)
    PROVE  /\ dex' \in [pc : {"idle", "tier", "request", "done"}, tier : Tiers,
                        best : 0..NumTiers]
           /\ answers' \in [Tiers -> Entries(QuoteTTL)]
<1>1. /\ dex.tier \in Tiers /\ dex.best \in 0..NumTiers
      /\ answers \in [Tiers -> Entries(QuoteTTL)]
  BY DEF TypeOK
<1>2. PICK b \in {dex.tier, dex.best} : dex' = NextTier(b)
  BY DEF Consider
<1>3. b \in 0..NumTiers
  BY <1>1, <1>2, Constants DEF Tiers
<1>4. dex' \in [pc : {"idle", "tier", "request", "done"}, tier : Tiers, best : 0..NumTiers]
  BY <1>1, <1>2, <1>3, Constants DEF NextTier, Tiers
<1>5. answers' = [answers EXCEPT ![dex.tier] = q]
  BY DEF Consider
<1> QED
  BY <1>1, <1>4, <1>5

\* Every step keeps the types.
LEMMA TypeKept ==
    ASSUME IInv, [Next]_vars
    PROVE  TypeOK'
<1> DEFINE DexType == [pc : {"idle", "tier", "request", "done"}, tier : Tiers, best : 0..NumTiers]
           CexType == [pc : {"idle", "cache", "request", "done"}, book : Entries(BookTTL)]
<1>1. TypeOK /\ 0..MaxBlock = {0} \union Numbers
  BY Constants DEF IInv, Numbers
<1>2. /\ NoQuote \in DexType /\ NoCall \in CexType
      /\ [t \in Tiers |-> None] \in [Tiers -> Entries(QuoteTTL)]
      /\ [NoQuote EXCEPT !.pc = "tier"] \in DexType
      /\ [NoCall EXCEPT !.pc = "cache"] \in CexType
  BY Constants DEF NoQuote, NoCall, Entries, Tiers
<1>3. ASSUME NEW n \in Numbers, Warmup(n) \/ Detect(n) PROVE TypeOK'
  <2>1. /\ number' = n /\ n \in 0..MaxBlock /\ phase' \in {"warmup", "eth"}
        /\ UNCHANGED <<isBuy, offer, books, quotes, cex>>
    BY <1>1, <1>3 DEF Warmup, Detect, Rigid
  <2>2. rounds' \in 0..MaxRounds
    BY <1>1, <1>3, Constants DEF TypeOK, Warmup, Detect
  <2>3. dex' \in DexType /\ answers' \in [Tiers -> Entries(QuoteTTL)]
    BY <1>1, <1>2, <1>3 DEF TypeOK, Warmup, Detect, StartQuotes
  <2> QED
    BY <1>1, <2>1, <2>2, <2>3 DEF TypeOK
<1>4. ASSUME WarmupEnds \/ Finish PROVE TypeOK'
  <2>1. /\ UNCHANGED <<isBuy, offer, number, rounds, books, quotes>> /\ phase' = "idle"
        /\ dex' = NoQuote /\ answers' = [t \in Tiers |-> None]
        /\ cex' = cex \/ cex' = [c \in Callers |-> NoCall]
    BY <1>4 DEF WarmupEnds, Finish, Rigid
  <2> QED
    BY <1>1, <1>2, <2>1 DEF TypeOK
<1>5. ASSUME ETHPrice \/ ETHPriceFails PROVE TypeOK'
  <2>1. /\ UNCHANGED <<isBuy, offer, number, rounds, quotes>> /\ phase' = "quotes"
        /\ dex' \in DexType /\ answers' \in [Tiers -> Entries(QuoteTTL)]
        /\ cex' \in [Callers -> CexType]
    BY <1>2, <1>5 DEF ETHPrice, ETHPriceFails, Rigid, StartPipeline, StartQuotes
  <2>2. books' \in [0..MaxBlock -> Entries(BookTTL)]
    <3>1. number \in Numbers
      BY <1>5 DEF IInv, CallShape, ETHPrice, ETHPriceFails
    <3>2. Fresh(number) \in Entries(BookTTL)
      BY <3>1, FreshEntry, Constants
    <3>3. books' = books \/ books' = [books EXCEPT ![0] = Fresh(number)]
      BY <1>5 DEF ETHPrice, ETHPriceFails
    <3> QED
      BY <1>1, <3>2, <3>3 DEF TypeOK
  <2> QED
    BY <1>1, <2>1, <2>2 DEF TypeOK
<1>6. ASSUME NEW c \in Callers, GetPriceHit(c) \/ GetPriceMiss(c) \/ GetPriceFetched(c)
      PROVE  TypeOK'
  <2>1. UNCHANGED <<isBuy, offer, phase, number, rounds, quotes, dex, answers>>
    BY <1>6 DEF GetPriceHit, GetPriceMiss, GetPriceFetched, Rigid
  <2>2. cex \in [Callers -> CexType] /\ books \in [0..MaxBlock -> Entries(BookTTL)]
        /\ number \in 0..MaxBlock
    BY <1>1 DEF TypeOK
  <2>3. number \in Numbers
    <3>1. phase = "quotes"
      BY <1>6 DEF IInv, CallShape, NoCall, GetPriceHit, GetPriceMiss, GetPriceFetched
    <3> QED
      BY <3>1 DEF IInv, CallShape
  <2>4. Fresh(number) \in Entries(BookTTL) /\ books[number] \in Entries(BookTTL)
    BY <2>2, <2>3, FreshEntry, Constants
  <2>5. books' \in [0..MaxBlock -> Entries(BookTTL)]
    BY <1>6, <2>2, <2>4 DEF GetPriceHit, GetPriceMiss, GetPriceFetched
  <2>6. cex' \in [Callers -> CexType]
    BY <1>6, <2>2, <2>4 DEF GetPriceHit, GetPriceMiss, GetPriceFetched, BookKey
  <2> QED
    BY <1>1, <2>1, <2>5, <2>6 DEF TypeOK
<1>7. ASSUME QuoteHit \/ QuoteMiss \/ QuoteFetched \/ QuoteFails PROVE TypeOK'
  <2>1. UNCHANGED <<isBuy, offer, phase, number, rounds, books, cex>>
    BY <1>7 DEF QuoteHit, QuoteMiss, QuoteFetched, QuoteFails, Rigid
  <2>2. number \in Numbers
    <3>1. phase \in {"warmup", "quotes"}
      BY <1>7 DEF IInv, CallShape, NoQuote, QuoteHit, QuoteMiss, QuoteFetched, QuoteFails
    <3> QED
      BY <3>1 DEF IInv, CallShape
  <2>3. /\ dex \in DexType /\ QuoteKey \in Numbers \X Tiers
        /\ quotes \in [Numbers \X Tiers -> Entries(QuoteTTL)]
    BY <1>1, <2>2 DEF TypeOK, QuoteKey
  <2>4. Fresh(number) \in Entries(QuoteTTL) /\ quotes[QuoteKey] \in Entries(QuoteTTL)
    BY <2>2, <2>3, FreshEntry, Constants
  <2>5. quotes' \in [Numbers \X Tiers -> Entries(QuoteTTL)]
    BY <1>7, <2>3, <2>4 DEF QuoteHit, QuoteMiss, QuoteFetched, QuoteFails
  <2>6. dex' \in DexType /\ answers' \in [Tiers -> Entries(QuoteTTL)]
    <3>1. CASE QuoteHit \/ QuoteFetched
      BY <1>1, <2>4, <3>1, ConsiderType DEF QuoteHit, QuoteFetched
    <3>2. CASE QuoteMiss
      BY <1>1, <2>3, <3>2 DEF QuoteMiss, TypeOK
    <3>3. CASE QuoteFails
      BY <1>1, <2>3, <3>3, Constants DEF QuoteFails, TypeOK, NextTier, Tiers
    <3> QED
      BY <1>7, <3>1, <3>2, <3>3
  <2> QED
    BY <1>1, <2>1, <2>5, <2>6 DEF TypeOK
<1>8. ASSUME Tick PROVE TypeOK'
  <2>1. /\ UNCHANGED <<isBuy, offer, phase, number, rounds, cex, dex, answers>>
        /\ books' = [k \in 0..MaxBlock |-> Older(books[k], BookTTL)]
        /\ quotes' = [key \in Numbers \X Tiers |-> Older(quotes[key], QuoteTTL)]
    BY <1>8 DEF Tick, Rigid
  <2>2. \A k \in 0..MaxBlock : Older(books[k], BookTTL) \in Entries(BookTTL)
    BY <1>1, OlderEntry, Constants DEF TypeOK
  <2>3. \A key \in Numbers \X Tiers : Older(quotes[key], QuoteTTL) \in Entries(QuoteTTL)
    BY <1>1, OlderEntry, Constants DEF TypeOK
  <2> QED
    BY <1>1, <2>1, <2>2, <2>3 DEF TypeOK
<1>9. ASSUME UNCHANGED vars PROVE TypeOK'
  BY <1>1, <1>9 DEF TypeOK, vars
<1> QED
  BY <1>3, <1>4, <1>5, <1>6, <1>7, <1>8, <1>9 DEF Next, Stopped

-------------------------------------------------------------------------------
(* What belongs to the block.                                                *)

\* An action of a call is part of the block in hand.
LEMMA CallPhase ==
    ASSUME CallShape
    PROVE  /\ \A c \in Callers : cex[c].pc # "idle" => phase = "quotes"
           /\ dex.pc # "idle" => phase \in {"warmup", "quotes"}
           /\ phase # "idle" => number \in Numbers
  BY DEF CallShape, NoCall, NoQuote

LEMMA EmptyHands ==
    /\ \A n, ttl : Current(None, n, ttl)
    /\ \A c \in Callers : \A n : Current([x \in Callers |-> NoCall][c].book, n, BookTTL)
    /\ \A t \in Tiers : \A n : Current([x \in Tiers |-> None][t], n, QuoteTTL)
  BY DEF Current, NoCall

LEMMA CacheKept ==
    ASSUME IInv, [Next]_vars
    PROVE  CacheShape'
<1>1. TypeOK /\ CacheShape /\ CallShape /\ 0 \notin Numbers /\ 0..MaxBlock = {0} \union Numbers
  BY Constants DEF IInv, Numbers
<1>2. ASSUME UNCHANGED <<books, quotes>> PROVE CacheShape'
  BY <1>1, <1>2 DEF CacheShape
<1>3. ASSUME ETHPrice \/ ETHPriceFails PROVE CacheShape'
  <2>1. quotes' = quotes /\ (books' = books \/ books' = [books EXCEPT ![0] = Fresh(number)])
    BY <1>3 DEF ETHPrice, ETHPriceFails
  <2>2. \A k \in Numbers : books'[k] = books[k]
    BY <1>1, <2>1 DEF TypeOK
  <2> QED
    BY <1>1, <2>1, <2>2 DEF CacheShape
<1>4. ASSUME NEW c \in Callers, GetPriceFetched(c) PROVE CacheShape'
  <2>1. /\ number \in Numbers /\ quotes' = quotes
        /\ books' = books \/ books' = [books EXCEPT ![number] = Fresh(number)]
    BY <1>1, <1>4, CallPhase DEF GetPriceFetched, BookKey
  <2>2. Current(Fresh(number), number, BookTTL)
    BY <2>1, FreshEntry, Constants
  <2>3. \A k \in Numbers : books'[k] = books[k] \/ (k = number /\ books'[k] = Fresh(number))
    <3>1. books \in [0..MaxBlock -> Entries(BookTTL)]
      BY <1>1 DEF TypeOK
    <3> QED
      BY <1>1, <2>1, <3>1
  <2> QED
    BY <1>1, <2>1, <2>2, <2>3 DEF CacheShape
<1>5. ASSUME QuoteFetched PROVE CacheShape'
  <2>1. /\ number \in Numbers /\ books' = books
        /\ quotes' = [quotes EXCEPT ![<<number, dex.tier>>] = Fresh(number)]
    BY <1>1, <1>5, CallPhase DEF QuoteFetched, QuoteKey
  <2>2. Current(Fresh(number), number, QuoteTTL)
    BY <2>1, FreshEntry, Constants
  <2>3. \A n \in Numbers, t \in Tiers :
           \/ quotes'[<<n, t>>] = quotes[<<n, t>>]
           \/ n = number /\ quotes'[<<n, t>>] = Fresh(number)
    <3>1. quotes \in [Numbers \X Tiers -> Entries(QuoteTTL)]
      BY <1>1 DEF TypeOK
    <3>2. \A key \in Numbers \X Tiers :
             quotes'[key] = IF key = <<number, dex.tier>> THEN Fresh(number) ELSE quotes[key]
      BY <2>1, <3>1
    <3> QED
      BY <3>2
  <2> QED
    BY <1>1, <2>1, <2>2, <2>3 DEF CacheShape
<1>6. ASSUME Tick PROVE CacheShape'
  <2>1. /\ books' = [k \in 0..MaxBlock |-> Older(books[k], BookTTL)]
        /\ quotes' = [key \in Numbers \X Tiers |-> Older(quotes[key], QuoteTTL)]
    BY <1>6 DEF Tick
  <2>2. ASSUME NEW k \in Numbers PROVE Current(books'[k], k, BookTTL)
    <3>1. books'[k] = Older(books[k], BookTTL) /\ books[k] \in Entries(BookTTL)
      BY <1>1, <2>1 DEF TypeOK
    <3> QED
      BY <1>1, <3>1, OlderEntry, Constants DEF CacheShape
  <2>3. ASSUME NEW n \in Numbers, NEW t \in Tiers PROVE Current(quotes'[<<n, t>>], n, QuoteTTL)
    <3>1. quotes'[<<n, t>>] = Older(quotes[<<n, t>>], QuoteTTL)
          /\ quotes[<<n, t>>] \in Entries(QuoteTTL)
      BY <1>1, <2>1 DEF TypeOK
    <3> QED
      BY <1>1, <3>1, OlderEntry, Constants DEF CacheShape
  <2> QED
    BY <2>2, <2>3 DEF CacheShape
<1> QED
  BY <1>2, <1>3, <1>4, <1>5, <1>6 DEF Next, Stopped, vars, Warmup, Detect, WarmupEnds, Finish,
     GetPriceHit, GetPriceMiss, QuoteHit, QuoteMiss, QuoteFails

LEMMA CallKept ==
    ASSUME IInv, [Next]_vars
    PROVE  CallShape'
<1>1. TypeOK /\ CacheShape /\ CallShape
  BY DEF IInv
<1>2. ASSUME NEW n \in Numbers, Warmup(n) PROVE CallShape'
  <2>1. /\ number' = n /\ phase' = "warmup" /\ phase = "idle" /\ cex' = cex
        /\ answers' = [t \in Tiers |-> None]
    BY <1>2 DEF Warmup, StartQuotes
  <2>2. cex' = [c \in Callers |-> NoCall]
    BY <1>1, <2>1 DEF CallShape
  <2> QED
    BY <2>1, <2>2, EmptyHands DEF CallShape
<1>3. ASSUME NEW n \in Numbers, Detect(n) PROVE CallShape'
  <2>1. /\ number' = n /\ phase' = "eth" /\ phase = "idle"
        /\ UNCHANGED <<cex, dex, answers>>
    BY <1>3 DEF Detect
  <2>2. /\ cex' = [c \in Callers |-> NoCall] /\ dex' = NoQuote
        /\ answers' = [t \in Tiers |-> None]
    BY <1>1, <2>1 DEF CallShape
  <2> QED
    BY <2>1, <2>2, EmptyHands DEF CallShape
<1>4. ASSUME WarmupEnds \/ Finish PROVE CallShape'
  <2>1. /\ phase' = "idle" /\ dex' = NoQuote /\ answers' = [t \in Tiers |-> None]
        /\ cex' = [c \in Callers |-> NoCall]
    BY <1>1, <1>4 DEF WarmupEnds, Finish, CallShape
  <2> QED
    BY <2>1, EmptyHands DEF CallShape
<1>5. ASSUME ETHPrice \/ ETHPriceFails PROVE CallShape'
  <2>1. /\ number' = number /\ number \in Numbers /\ phase' = "quotes"
        /\ answers' = [t \in Tiers |-> None]
        /\ cex' = [c \in Callers |-> [NoCall EXCEPT !.pc = "cache"]]
    BY <1>1, <1>5 DEF ETHPrice, ETHPriceFails, StartPipeline, StartQuotes, CallShape
  <2>2. \A c \in Callers : cex'[c].book = None
    BY <2>1 DEF NoCall
  <2> QED
    BY <2>1, <2>2, EmptyHands DEF CallShape
<1>6. ASSUME NEW c \in Callers, GetPriceHit(c) \/ GetPriceMiss(c) \/ GetPriceFetched(c)
      PROVE  CallShape'
  <2>1. UNCHANGED <<phase, number, dex, answers>> /\ phase = "quotes" /\ number \in Numbers
    BY <1>1, <1>6, CallPhase DEF GetPriceHit, GetPriceMiss, GetPriceFetched
  <2>2. \/ cex' = [cex EXCEPT ![c].pc = "request"]
        \/ cex' = [cex EXCEPT ![c].pc = "done"]
        \/ \E b : Current(b, number, BookTTL) /\ cex' = [cex EXCEPT ![c] = [pc |-> "done", book |-> b]]
    BY <1>1, <1>6, <2>1, FreshEntry, Constants
       DEF GetPriceHit, GetPriceMiss, GetPriceFetched, BookKey, CacheShape
  <2>3. \A x \in Callers : Current(cex'[x].book, number, BookTTL)
    BY <1>1, <2>2 DEF TypeOK, CallShape
  <2> QED
    BY <1>1, <2>1, <2>3 DEF CallShape
<1>7. ASSUME QuoteHit \/ QuoteMiss \/ QuoteFetched \/ QuoteFails PROVE CallShape'
  <2>1. UNCHANGED <<phase, number, cex>> /\ phase \in {"warmup", "quotes"} /\ number \in Numbers
    BY <1>1, <1>7, CallPhase DEF QuoteHit, QuoteMiss, QuoteFetched, QuoteFails
  <2>2. \/ answers' = answers
        \/ \E q : Current(q, number, QuoteTTL) /\ answers' = [answers EXCEPT ![dex.tier] = q]
    <3>1. CASE QuoteMiss \/ QuoteFails
      BY <3>1 DEF QuoteMiss, QuoteFails
    <3>2. CASE QuoteHit
      BY <1>1, <2>1, <3>2 DEF QuoteHit, Consider, QuoteKey, CacheShape, TypeOK
    <3>3. CASE QuoteFetched
      BY <2>1, <3>3, FreshEntry, Constants DEF QuoteFetched, Consider
    <3> QED
      BY <1>7, <3>1, <3>2, <3>3
  <2>3. \A t \in Tiers : Current(answers'[t], number, QuoteTTL)
    BY <1>1, <2>2 DEF TypeOK, CallShape
  <2> QED
    BY <1>1, <2>1, <2>3 DEF CallShape
<1>8. ASSUME Tick \/ UNCHANGED vars PROVE CallShape'
  BY <1>1, <1>8 DEF Tick, CallShape, vars
<1> QED
  BY <1>2, <1>3, <1>4, <1>5, <1>6, <1>7, <1>8 DEF Next, Stopped

-------------------------------------------------------------------------------
(* The best tier.                                                            *)

\* A tier that answers after others is the best if it is better than their best.
LEMMA BestOfMore ==
    ASSUME TypeOK, NEW b, NEW S \in SUBSET Tiers, Best(b, S), NEW t \in Tiers,
           \A u \in S : u < t
    PROVE  Best(IF b = 0 \/ Better(offer[t], offer[b]) THEN t ELSE b, S \union {t})
<1>1. /\ \A u \in Tiers : u \in Nat /\ u # 0
      /\ \A u \in Tiers : offer[u] \in Nat
  <2>1. \A u \in Tiers : u \in Nat /\ u # 0
    BY Constants DEF Tiers
  <2>2. offer \in [Tiers -> Amounts]
    BY DEF TypeOK
  <2> QED
    BY <2>1, <2>2, Constants
<1>2. CASE S = {}
  BY <1>1, <1>2 DEF Best, Better
<1>3. CASE S # {}
  <2>1. b \in S /\ b \in Tiers /\ b # 0 /\ b < t
    BY <1>1, <1>3 DEF Best
  <2>2. /\ \A u \in S : ~Better(offer[u], offer[b])
        /\ \A u \in S : offer[u] = offer[b] => b <= u
    BY <1>3 DEF Best
  <2>3. \A u \in S : u \in Nat /\ offer[u] \in Nat
    BY <1>1
  <2>4. CASE Better(offer[t], offer[b])
    <3>1. \A u \in S \union {t} : ~Better(offer[u], offer[t])
      BY <1>1, <2>1, <2>2, <2>3, <2>4 DEF Better
    <3>2. \A u \in S \union {t} : offer[u] = offer[t] => t <= u
      BY <1>1, <2>2, <2>4
    <3> QED
      BY <2>4, <3>1, <3>2 DEF Best
  <2>5. CASE ~Better(offer[t], offer[b])
    <3>1. \A u \in S \union {t} : ~Better(offer[u], offer[b])
      BY <2>2, <2>5
    <3>2. \A u \in S \union {t} : offer[u] = offer[b] => b <= u
      BY <1>1, <2>1, <2>2
    <3> QED
      BY <2>1, <2>5, <3>1, <3>2 DEF Best
  <2> QED
    BY <2>4, <2>5
<1> QED
  BY <1>2, <1>3

\* An answer of the tier in hand keeps the best.
LEMMA ConsiderBest ==
    ASSUME TypeOK, BestSoFar, dex.pc # "done", NEW q, q # None, Consider(q),
           UNCHANGED <<isBuy, offer>>
    PROVE  BestSoFar'
<1>1. dex.tier \in Tiers /\ answers' = [answers EXCEPT ![dex.tier] = q]
  BY DEF TypeOK, Consider
<1>2. Answering' = Answering \union {dex.tier}
  BY <1>1 DEF TypeOK, Answering
<1> DEFINE b == IF dex.best = 0 \/ Better(offer[dex.tier], offer[dex.best])
                THEN dex.tier ELSE dex.best
<1>3. Best(b, Answering')
  <2>1. Answering \in SUBSET Tiers
    BY DEF Answering
  <2> QED
    BY <1>1, <1>2, <2>1, BestOfMore DEF BestSoFar
<1>4. dex' = NextTier(b)
  BY DEF Consider
<1> HIDE DEF b
<1>5. dex'.best = b
  BY <1>4 DEF NextTier
<1>7. Best(dex.best, Answering)'
  BY <1>3, <1>5 DEF Best, Better
<1>8. ASSUME dex'.pc # "done", NEW t \in Answering' PROVE t < dex'.tier
  <2>1. dex'.tier = dex.tier + 1
    BY <1>4, <1>8 DEF NextTier
  <2>2. t = dex.tier \/ t < dex.tier
    BY <1>2, <1>8 DEF BestSoFar
  <2>3. t \in Nat /\ dex.tier \in Nat
    BY <1>1, Constants DEF Answering, Tiers
  <2> QED
    BY <2>1, <2>2, <2>3
<1> QED
  BY <1>7, <1>8 DEF BestSoFar

LEMMA BestKept ==
    ASSUME IInv, [Next]_vars
    PROVE  BestSoFar'
<1>1. TypeOK /\ CallShape /\ BestSoFar
  BY DEF IInv
<1>2. UNCHANGED <<isBuy, offer>>
  BY DEF Next, Stopped, vars, Warmup, Detect, WarmupEnds, Finish, ETHPrice, ETHPriceFails,
     GetPriceHit, GetPriceMiss, GetPriceFetched, QuoteHit, QuoteMiss, QuoteFetched, QuoteFails,
     Tick, Rigid
<1>3. ASSUME answers' = [t \in Tiers |-> None], dex'.best = 0 PROVE BestSoFar'
  <2>1. Answering' = {}
    BY <1>3 DEF Answering
  <2> QED
    BY <1>3, <2>1 DEF BestSoFar, Best
<1>4. ASSUME answers' = answers, dex'.best = dex.best,
             dex'.pc # "done" => dex.pc # "done" /\ dex'.tier >= dex.tier
      PROVE  BestSoFar'
  <2>1. Answering' = Answering
    BY <1>4 DEF Answering
  <2>2. Best(dex.best, Answering)'
    BY <1>1, <1>2, <1>4, <2>1 DEF BestSoFar, Best, Better
  <2>3. ASSUME dex'.pc # "done", NEW t \in Answering PROVE t < dex'.tier
    <3>1. t < dex.tier /\ dex'.tier >= dex.tier
      BY <1>1, <1>4, <2>3 DEF BestSoFar
    <3>2. t \in Nat /\ dex.tier \in Nat /\ dex' \in [pc : {"idle", "tier", "request", "done"},
                                tier : Tiers, best : 0..NumTiers]
      BY <1>1, TypeKept, Constants DEF Answering, TypeOK, Tiers
    <3>3. dex'.tier \in Nat
      BY <3>2, Constants DEF Tiers
    <3> QED
      BY <3>1, <3>2, <3>3
  <2> QED
    BY <2>1, <2>2, <2>3 DEF BestSoFar
<1>5. ASSUME WarmupEnds \/ Finish \/ ETHPrice \/ ETHPriceFails \/ \E n \in Numbers : Warmup(n)
      PROVE  BestSoFar'
  <2>1. answers' = [t \in Tiers |-> None]
    BY <1>5 DEF WarmupEnds, Finish, ETHPrice, ETHPriceFails, Warmup, StartPipeline, StartQuotes
  <2>2. dex' = NoQuote \/ dex' = [NoQuote EXCEPT !.pc = "tier"]
    BY <1>5 DEF WarmupEnds, Finish, ETHPrice, ETHPriceFails, Warmup, StartPipeline, StartQuotes
  <2>3. dex'.best = 0
    BY <2>2 DEF NoQuote
  <2> QED
    BY <1>3, <2>1, <2>3
<1>6. dex.tier \in Nat
  BY <1>1, Constants DEF TypeOK, Tiers
<1>7. ASSUME \/ \E n \in Numbers : Detect(n)
             \/ \E c \in Callers : GetPriceHit(c) \/ GetPriceMiss(c) \/ GetPriceFetched(c)
             \/ Tick \/ UNCHANGED vars
      PROVE  BestSoFar'
  <2>1. UNCHANGED <<dex, answers>>
    BY <1>7 DEF Detect, GetPriceHit, GetPriceMiss, GetPriceFetched, Tick, vars
  <2> QED
    BY <1>4, <1>6, <2>1
<1>8. ASSUME QuoteMiss PROVE BestSoFar'
  <2>1. dex.pc = "tier" /\ dex' = [dex EXCEPT !.pc = "request"] /\ answers' = answers
    BY <1>8 DEF QuoteMiss
  <2>2. dex'.best = dex.best /\ dex'.tier = dex.tier
    BY <1>1, <2>1 DEF TypeOK
  <2> QED
    BY <1>4, <1>6, <2>1, <2>2
<1>9. ASSUME QuoteFails PROVE BestSoFar'
  <2>1. dex.pc = "request" /\ dex' = NextTier(dex.best) /\ answers' = answers
    BY <1>9 DEF QuoteFails
  <2>2. dex'.best = dex.best /\ dex'.tier >= dex.tier
    BY <1>6, <2>1 DEF NextTier
  <2> QED
    BY <1>4, <2>1, <2>2
<1>10. ASSUME QuoteHit PROVE BestSoFar'
  <2>1. dex.pc = "tier" /\ quotes[QuoteKey] # None /\ Consider(quotes[QuoteKey])
    BY <1>10 DEF QuoteHit, Kept
  <2> QED
    BY <1>1, <1>2, <2>1, ConsiderBest
<1>11. ASSUME QuoteFetched PROVE BestSoFar'
  <2>1. dex.pc = "request" /\ number \in Numbers /\ Consider(Fresh(number))
    BY <1>1, <1>11, CallPhase DEF QuoteFetched
  <2>2. Fresh(number) # None
    BY <2>1, FreshEntry, Constants
  <2> QED
    BY <1>1, <1>2, <2>1, <2>2, ConsiderBest
<1> QED
  BY <1>5, <1>7, <1>8, <1>9, <1>10, <1>11 DEF Next, Stopped

-------------------------------------------------------------------------------
(* The theorems.                                                             *)

LEMMA InitIInv == ASSUME Init PROVE IInv
<1>1. /\ isBuy \in BOOLEAN /\ offer \in [Tiers -> Amounts]
      /\ phase = "idle" /\ number = 0 /\ rounds = 0
      /\ books = [k \in 0..MaxBlock |-> None]
      /\ quotes = [key \in Numbers \X Tiers |-> None]
      /\ cex = [c \in Callers |-> NoCall]
      /\ dex = NoQuote /\ answers = [t \in Tiers |-> None]
  BY DEF Init
<1>2. \A ttl : None \in Entries(ttl)
  BY DEF Entries
<1>3. TypeOK
  <2>1. /\ books \in [0..MaxBlock -> Entries(BookTTL)]
        /\ quotes \in [Numbers \X Tiers -> Entries(QuoteTTL)]
        /\ answers \in [Tiers -> Entries(QuoteTTL)]
    BY <1>1, <1>2
  <2>2. cex \in [Callers -> [pc : {"idle", "cache", "request", "done"}, book : Entries(BookTTL)]]
    BY <1>1, <1>2 DEF NoCall
  <2>3. dex \in [pc : {"idle", "tier", "request", "done"}, tier : Tiers, best : 0..NumTiers]
    BY <1>1, Constants DEF NoQuote, Tiers
  <2>4. number \in 0..MaxBlock /\ rounds \in 0..MaxRounds
    BY <1>1, Constants
  <2> QED
    BY <1>1, <2>1, <2>2, <2>3, <2>4 DEF TypeOK
<1>4. CacheShape
  BY <1>1, Constants DEF CacheShape, Current, Numbers
<1>5. CallShape
  BY <1>1, EmptyHands DEF CallShape
<1>6. BestSoFar
  <2>1. Answering = {} /\ dex.best = 0
    BY <1>1 DEF Answering, NoQuote
  <2> QED
    BY <2>1 DEF BestSoFar, Best
<1> QED
  BY <1>3, <1>4, <1>5, <1>6 DEF IInv

\* Every reachable state of the quotes satisfies the invariant.
THEOREM QuotesInvariance == Spec => []IInv
<1>1. IInv /\ [Next]_vars => IInv'
  BY TypeKept, CacheKept, CallKept, BestKept DEF IInv
<1> QED
  BY InitIInv, <1>1, PTL DEF Spec

\* Cache, calls and answers keep their types.
THEOREM TypeCorrect == Spec => []TypeOK
  BY QuotesInvariance, PTL DEF IInv

\* What a detection gets from getPrice and getPriceForFeeTier was fetched for its block,
\* and not longer ago than the cache may keep it.
THEOREM QuotesBelongToBlock == Spec => []QuotesOfBlock
<1>1. IInv => QuotesOfBlock
  BY DEF IInv, CallShape, Current, QuotesOfBlock
<1> QED
  BY QuotesInvariance, <1>1, PTL

\* GetPrice of uniswap.go returns the first of the best tiers that have answered.
THEOREM BestIsChosen == Spec => []BestOfAnswered
<1>1. IInv => BestOfAnswered
  <2> SUFFICES ASSUME IInv PROVE BestOfAnswered
    OBVIOUS
  <2>1. Best(dex.best, Answering) /\ \A t \in Tiers : offer[t] \in Nat
    BY Constants DEF IInv, BestSoFar, TypeOK
  <2>2. Answering \subseteq Tiers
    BY DEF Answering
  <2> QED
    BY <2>1, <2>2 DEF Best, Better, BestOfAnswered, Answering
<1> QED
  BY QuotesInvariance, <1>1, PTL
===============================================================================
