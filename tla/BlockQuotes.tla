------------------------------ MODULE BlockQuotes ------------------------------
(***************************************************************************)
(* The quotes of one pair for block after block: the orderbook the         *)
(* goroutines of a detection share (getPrice and GetETHPrice of            *)
(* internal/pricing/binance.go), the best of Uniswap's fee tiers (GetPrice *)
(* and getPriceForFeeTier of internal/pricing/uniswap.go), the cache both  *)
(* keep them in, and the warm-up before the first block                    *)
(* (internal/platform/cache/warming.go).                                   *)
(*                                                                         *)
(* The cache is what LayeredCache promises of it: a Get misses, or returns *)
(* what was last put under the key, for less than the TTL of the Set and   *)
(* the longest TTL of L1 together (HitIsLast, HitWithinTTLs).  A request   *)
(* fails or succeeds; ProviderCalls has its retries.  The quotes of one    *)
(* trade size and one direction are followed: others have other keys.      *)
(***************************************************************************)
EXTENDS Integers, FiniteSets

CONSTANTS Callers,   \* goroutines that ask for the CEX price of a block
          NumTiers,  \* len(u.feeTiers)
          Amounts,   \* amounts of quote token a tier may ask or give
          BookTTL,   \* of an orderbook, in ticks
          QuoteTTL,  \* of a DEX quote
          L1TTL,     \* l1MaxTTL of the layered cache
          MaxBlock,  \* bound: block numbers
          MaxRounds  \* bound: detections

ASSUME QuotesAssumption ==
    /\ IsFiniteSet(Callers) /\ NumTiers \in Nat \ {0}
    /\ Amounts \subseteq Nat \ {0} /\ Amounts # {}
    /\ {BookTTL, QuoteTTL} \subseteq Nat \ {0} /\ L1TTL \in Nat
    /\ {MaxBlock, MaxRounds} \subseteq Nat \ {0}

VARIABLES
    isBuy,      \* the direction followed, and what each tier offers in it
    offer,
    phase,      \* "idle", "warmup", "eth", "quotes"
    number,     \* the block being analysed or warmed up for
    rounds,     \* detections so far
    books,      \* cache key -> the orderbook under it, or None
    quotes,     \* block number, tier -> the quote under that key, or None
    cex,        \* per caller: pc and the orderbook it has got
    dex,        \* the call of GetPrice: pc, tier in hand, best tier so far
    answers     \* history: the tiers that have answered this call, and the
                \* quotes they gave

vars == <<isBuy, offer, phase, number, rounds, books, quotes, cex, dex,
          answers>>

Tiers   == 1..NumTiers
Numbers == 1..MaxBlock
\* What was fetched while analysing block of, age ticks ago.
None    == [of |-> -1, age |-> 0]
NoCall  == [pc |-> "idle", book |-> None]
NoQuote == [pc |-> "idle", tier |-> 1, best |-> 0]

Init ==
    /\ isBuy \in BOOLEAN /\ offer \in [Tiers -> Amounts]
    /\ phase = "idle" /\ number = 0 /\ rounds = 0
    /\ books = [k \in 0..MaxBlock |-> None]
    /\ quotes = [key \in Numbers \X Tiers |-> None]
    /\ cex = [c \in Callers |-> NoCall]
    /\ dex = NoQuote /\ answers = [t \in Tiers |-> None]

Rigid == UNCHANGED <<isBuy, offer>>

\* What a provider puts in the cache.
Fresh(n) == [of |-> n, age |-> 0]

-------------------------------------------------------------------------------
(* The block loop, as this pair sees it. *)

StartQuotes ==
    /\ dex' = [NoQuote EXCEPT !.pc = "tier"]
    /\ answers' = [t \in Tiers |-> None]

\* WarmupWithSizes asks for the quotes of the current block; the orderbook that
\* Binance's Warmup fetches is put in no cache.
Warmup(n) ==
    /\ phase = "idle" /\ rounds = 0 /\ number = 0
    /\ phase' = "warmup" /\ number' = n
    /\ StartQuotes
    /\ Rigid /\ UNCHANGED <<rounds, books, quotes, cex>>

\* A block, possibly one with the number of an earlier one.
Detect(n) ==
    /\ phase = "idle" /\ rounds < MaxRounds
    /\ phase' = "eth" /\ number' = n /\ rounds' = rounds + 1
    /\ Rigid /\ UNCHANGED <<books, quotes, cex, dex, answers>>

\* The pipeline asks CEX and DEX at the same time.
StartPipeline ==
    /\ phase' = "quotes"
    /\ cex' = [c \in Callers |-> [NoCall EXCEPT !.pc = "cache"]]
    /\ StartQuotes

\* The first block waits for the warm-up, whose deadline makes requests fail.
WarmupEnds ==
    /\ phase = "warmup" /\ dex.pc = "done"
    /\ phase' = "idle" /\ dex' = NoQuote
    /\ answers' = [t \in Tiers |-> None]
    /\ Rigid /\ UNCHANGED <<number, rounds, books, quotes, cex>>

Finish ==
    /\ phase = "quotes" /\ dex.pc = "done"
    /\ \A c \in Callers : cex[c].pc = "done"
    /\ phase' = "idle"
    /\ cex' = [c \in Callers |-> NoCall] /\ dex' = NoQuote
    /\ answers' = [t \in Tiers |-> None]
    /\ Rigid /\ UNCHANGED <<number, rounds, books, quotes>>

-------------------------------------------------------------------------------
(* Binance. *)

\* The cache may still return it.
Kept(entry, ttl) == entry # None /\ entry.age < ttl + L1TTL

\* The ETH price: the orderbook of a key without a block, from the cache or anew.
ETHPrice ==
    /\ phase = "eth"
    /\ \/ Kept(books[0], BookTTL) /\ UNCHANGED books
       \/ books' = [books EXCEPT ![0] = Fresh(number)]
    /\ StartPipeline
    /\ Rigid /\ UNCHANGED <<number, rounds, quotes>>

\* The request fails, or the price lies outside its range (and the orderbook stays
\* in the cache): the detector goes on with the last price it has.
ETHPriceFails ==
    /\ phase = "eth"
    /\ \/ UNCHANGED books
       \/ books' = [books EXCEPT ![0] = Fresh(number)]
    /\ StartPipeline
    /\ Rigid /\ UNCHANGED <<number, rounds, quotes>>

\* Mutant: the key of the price has no block either.
BookKeyOfSymbol == 0

\* One orderbook per symbol and block.
BookKey == number

GetPriceHit(c) ==
    /\ cex[c].pc = "cache" /\ Kept(books[BookKey], BookTTL)
    /\ cex' = [cex EXCEPT ![c] = [pc |-> "done", book |-> books[BookKey]]]
    /\ Rigid /\ UNCHANGED <<phase, number, rounds, books, quotes, dex,
                            answers>>

\* A miss, for whatever reason.
GetPriceMiss(c) ==
    /\ cex[c].pc = "cache"
    /\ cex' = [cex EXCEPT ![c].pc = "request"]
    /\ Rigid /\ UNCHANGED <<phase, number, rounds, books, quotes, dex,
                            answers>>

\* GetOrderbook returns.  Callers that have missed together fetch one each, and the
\* last one to be stored stays.
GetPriceFetched(c) ==
    /\ cex[c].pc = "request"
    /\ \/ /\ books' = [books EXCEPT ![BookKey] = Fresh(number)]
          /\ cex' = [cex EXCEPT ![c] = [pc |-> "done", book |-> Fresh(number)]]
       \/ /\ cex' = [cex EXCEPT ![c].pc = "done"]
          /\ UNCHANGED books
    /\ Rigid /\ UNCHANGED <<phase, number, rounds, quotes, dex, answers>>

-------------------------------------------------------------------------------
(* Uniswap: the fee tiers one after the other. *)

\* Mutant: the comparison of a sale, whatever the direction.
BetterForSeller(a, b) == a > b

\* Buying, the least is spent; selling, the most is received.
Better(a, b) == IF isBuy THEN a < b ELSE a > b

\* One quote per block and fee tier (size and direction are fixed here).
QuoteKey == <<number, dex.tier>>

\* The next tier; after the last one the call returns the best, or an error if none
\* has answered.
NextTier(best) ==
    IF dex.tier < NumTiers
    THEN [pc |-> "tier", tier |-> dex.tier + 1, best |-> best]
    ELSE [pc |-> "done", tier |-> dex.tier, best |-> best]

\* The tier in hand has answered with the quote q: it is the best so far if none
\* has answered before, or if it is better than these.
Consider(q) ==
    LET t == dex.tier
    IN  /\ answers' = [answers EXCEPT ![t] = q]
        /\ dex' = NextTier(IF dex.best = 0 \/ Better(offer[t], offer[dex.best])
                           THEN t ELSE dex.best)

QuoteHit ==
    /\ dex.pc = "tier" /\ Kept(quotes[QuoteKey], QuoteTTL)
    /\ Consider(quotes[QuoteKey])
    /\ Rigid /\ UNCHANGED <<phase, number, rounds, books, quotes, cex>>

QuoteMiss ==
    /\ dex.pc = "tier"
    /\ dex' = [dex EXCEPT !.pc = "request"]
    /\ Rigid /\ UNCHANGED <<phase, number, rounds, books, quotes, cex,
                            answers>>

\* The quoter answers for the state of the block asked for.
QuoteFetched ==
    /\ dex.pc = "request"
    /\ quotes' = [quotes EXCEPT ![QuoteKey] = Fresh(number)]
    /\ Consider(Fresh(number))
    /\ Rigid /\ UNCHANGED <<phase, number, rounds, books, cex>>

QuoteFails ==
    /\ dex.pc = "request"
    /\ dex' = NextTier(dex.best)
    /\ Rigid /\ UNCHANGED <<phase, number, rounds, books, quotes, cex,
                            answers>>

-------------------------------------------------------------------------------
\* A tick that something kept can notice: what the cache can no longer return is
\* forgotten.
Older(entry, ttl) ==
    IF entry # None /\ entry.age + 1 < ttl + L1TTL
    THEN [entry EXCEPT !.age = @ + 1] ELSE None

Tick ==
    /\ \/ \E k \in 0..MaxBlock : books[k] # None
       \/ \E key \in Numbers \X Tiers : quotes[key] # None
    /\ books' = [k \in 0..MaxBlock |-> Older(books[k], BookTTL)]
    /\ quotes' = [key \in Numbers \X Tiers |-> Older(quotes[key], QuoteTTL)]
    /\ Rigid /\ UNCHANGED <<phase, number, rounds, cex, dex, answers>>

\* No block comes any more.
Stopped == phase = "idle" /\ rounds = MaxRounds /\ UNCHANGED vars

Next ==
    \/ \E n \in Numbers : Warmup(n) \/ Detect(n)
    \/ WarmupEnds \/ Finish \/ ETHPrice \/ ETHPriceFails
    \/ \E c \in Callers : GetPriceHit(c) \/ GetPriceMiss(c) \/ GetPriceFetched(c)
    \/ QuoteHit \/ QuoteMiss \/ QuoteFetched \/ QuoteFails
    \/ Tick \/ Stopped

Spec == Init /\ [][Next]_vars

-------------------------------------------------------------------------------
(* Properties. *)

Entries(ttl) == {None} \union [of : Numbers, age : 0..ttl + L1TTL]

\* Types: the tier under way is one of the pool's, no entry outlives its TTL and L1's.
TypeOK ==
    /\ isBuy \in BOOLEAN /\ offer \in [Tiers -> Amounts]
    /\ phase \in {"idle", "warmup", "eth", "quotes"}
    /\ number \in 0..MaxBlock /\ rounds \in 0..MaxRounds
    /\ books \in [0..MaxBlock -> Entries(BookTTL)]
    /\ quotes \in [Numbers \X Tiers -> Entries(QuoteTTL)]
    /\ cex \in [Callers -> [pc : {"idle", "cache", "request", "done"},
                            book : Entries(BookTTL)]]
    /\ dex \in [pc : {"idle", "tier", "request", "done"}, tier : Tiers,
                best : 0..NumTiers]
    /\ answers \in [Tiers -> Entries(QuoteTTL)]

\* What a detection compares belongs together: every CEX orderbook and every DEX
\* quote it gets was fetched for the block it analyses, and not longer ago than the
\* cache may keep it, whatever warm-up, earlier blocks and concurrent callers have
\* left there.
QuotesOfBlock ==
    /\ \A c \in Callers :
          LET b == cex[c].book
          IN  b # None => b.of = number /\ b.age < BookTTL + L1TTL
    /\ \A t \in Tiers :
          LET q == answers[t]
          IN  q # None => q.of = number /\ q.age < QuoteTTL + L1TTL

\* GetPrice returns the best tier of those that have answered, the first one if
\* several are, and fails only if none has, whichever tiers fail or were cached.
BestOfAnswered ==
    LET answered == {t \in Tiers : answers[t] # None}
        best     == {t \in answered : \A u \in answered :
                        IF isBuy THEN offer[t] <= offer[u] ELSE offer[t] >= offer[u]}
    IN  dex.pc = "done" =>
            IF answered = {} THEN dex.best = 0
            ELSE dex.best \in best /\ \A t \in best : dex.best <= t
===============================================================================
