------------------------------ MODULE Execution ------------------------------
(***************************************************************************)
(* The arithmetic that turns quotes into an opportunity, for one trade     *)
(* size of one pair and block: the walk through the order book             *)
(* (Orderbook.CalculateExecution), the fee of the exchange                 *)
(* (BinanceProvider.getPrice), the flows and the profit of both directions *)
(* (opportunityAnalyzer.analyze, Calculator.CalculateProfit), and what of  *)
(* it the detector publishes (Detector.Detect).  How the fetches           *)
(* interleave is the matter of Pipeline.                                   *)
(*                                                                         *)
(* Amounts are integers: prices and volumes are small numbers, fees are    *)
(* parts of FeeScale, so every amount of quote currency is FeeScale times  *)
(* its value, and quotients are compared multiplied out.                   *)
(***************************************************************************)
EXTENDS Integers, Sequences, FiniteSets

CONSTANTS Prices, Volumes,  \* of the levels of the order book
          MaxLevels,        \* levels fetched of each side
          Sizes,            \* trade_sizes of the configuration
          Amounts,          \* what the pools ask or pay for the size
          GasPrices,        \* gas prices, of the detector or the node
          GasEstimate,      \* gas of a quote, as QuoterV2 estimates it
          SizeBounds,       \* of the size buckets of the other estimate
          DefaultGasPrice,  \* the 50 gwei of the code
          ETHPrice,         \* ethPrice of the block
          TradingFee, FeeScale,
          MinProfitPct      \* min_profit_threshold

ASSUME ExecutionAssumption ==
    /\ Prices \subseteq Nat \ {0} /\ Volumes \subseteq Nat \ {0}
    /\ Sizes \subseteq Nat \ {0} /\ Amounts \subseteq Nat /\ GasPrices \subseteq Nat
    /\ SizeBounds \subseteq Nat /\ IsFiniteSet(SizeBounds)
    /\ {GasEstimate, DefaultGasPrice} \subseteq Nat
    /\ MaxLevels \in Nat /\ ETHPrice \in Nat /\ MinProfitPct \in Nat
    /\ FeeScale \in Nat \ {0} /\ TradingFee \in 0..FeeScale

VARIABLES book,       \* the sides of the order book: bids and asks
          size,       \* the trade size
          pool,       \* what the DEX asks for the size (buy) and pays (sell)
          gasPrice,   \* the gas price of the detector, if any, and those the node
                      \* gives to the two DEX quotes, each asking on its own
          pc,         \* "fetch", "analyse", "publish", "done"
          quotes,     \* the prices of the four fetches
          found,      \* the opportunities of the size
          published   \* those the detector publishes

vars == <<book, size, pool, gasPrice, pc, quotes, found, published>>

Quotes     == {"cexBuy", "cexSell", "dexBuy", "dexSell"}
Directions == {"CEXToDEX", "DEXToCEX"}
NoPrice    == [amount |-> -1]      \* a fetch that ended with an error

Level == [price : Prices, volume : Volumes]
Sides == UNION {[1..n -> Level] : n \in 0..MaxLevels}

\* Binance sends bids from the highest price, asks from the lowest.  The two sides
\* may cross: the fetches of a size run at the same time, and each that misses the
\* cache asks for a snapshot of its own.  A side that could not be fetched is empty.
Descending(side) == \A i, j \in DOMAIN side : i < j => side[i].price > side[j].price
Ascending(side)  == \A i, j \in DOMAIN side : i < j => side[i].price < side[j].price
Books == [bids : {s \in Sides : Descending(s)}, asks : {s \in Sides : Ascending(s)}]

\* Either quote may fail; the better one of the fee tiers may be another tier for
\* buying than for selling, so nothing ties the two amounts.
Pools == [buy : Amounts \union {-1}, sell : Amounts \union {-1}]

\* The detector goes on without a gas price it could not get (Detectors), and so may
\* the request of a quote that then asks for it.
NoGasPrice == -1
MayFail(prices) == prices \union {NoGasPrice}
\* The node is not asked for what the detector has.
GasInputs ==
    {g \in [cached : MayFail(GasPrices), buy : MayFail(GasPrices), sell : MayFail(GasPrices)] :
        g.cached # NoGasPrice => g.buy = NoGasPrice /\ g.sell = NoGasPrice}

Init ==
    /\ book \in Books /\ size \in Sizes /\ pool \in Pools
    /\ gasPrice \in GasInputs
    /\ pc = "fetch"
    /\ quotes = [q \in Quotes |-> NoPrice]
    /\ found = {} /\ published = {}

-------------------------------------------------------------------------------
(* Orderbook.CalculateExecution. *)

Side(isBuy) == IF isBuy THEN book.asks ELSE book.bids

\* Mutant: the level is taken whole, whatever is left.
FillWhole(walk, level) ==
    [remaining |-> walk.remaining - level.volume,
     cost |-> walk.cost + level.volume * level.price]

\* One turn of the loop: the level fills what is left, as far as its volume goes.
Fill(walk, level) ==
    LET fill == IF walk.remaining <= level.volume THEN walk.remaining ELSE level.volume
    IN  [remaining |-> walk.remaining - fill, cost |-> walk.cost + fill * level.price]

\* The loop over the levels: what is left and paid before the first, and after each.
Walked(side, n) ==
    LET walk[i \in 0..Len(side)] ==
            IF i = 0 THEN [remaining |-> n, cost |-> 0] ELSE Fill(walk[i - 1], side[i])
    IN  walk

Walk(side, n) == Walked(side, n)[Len(side)]

\* Slippage of an execution, times the size: against the best level, turned over
\* for a sale, where a lower price is the worse one.
Slippage(side, cost, isBuy) ==
    LET diff == cost - side[1].price * size IN IF isBuy THEN diff ELSE -diff

\* Mutant: the fee is given back instead of taken.
WithFeeGivenBack(cost, isBuy) ==
    cost * (IF isBuy THEN FeeScale - TradingFee ELSE FeeScale + TradingFee)

\* BinanceProvider.getPrice: buying costs the fee on top, selling brings less by it.
WithFee(cost, isBuy) ==
    cost * (IF isBuy THEN FeeScale + TradingFee ELSE FeeScale - TradingFee)

CEXPrice(isBuy) ==
    LET side == Side(isBuy)
        walk == Walk(side, size)
    IN  IF side = <<>> \/ walk.remaining > 0 THEN NoPrice
        ELSE [amount |-> WithFee(walk.cost, isBuy), value |-> walk.cost * FeeScale,
              slippage |-> Slippage(side, walk.cost, isBuy), gas |-> 0]

\* estimateGasCostWithPrice: gas by the bucket of the size, more for a larger one.
GasOfSize == 1 + Cardinality({bound \in SizeBounds : size >= bound})

\* The gas estimate at the price of the detector; without one, a guess from the size
\* at the price the node gives this quote; without that, the estimate at the default
\* price.
GasCost(node) ==
    IF gasPrice.cached # NoGasPrice THEN GasEstimate * gasPrice.cached
    ELSE IF node # NoGasPrice THEN GasOfSize * node
    ELSE GasEstimate * DefaultGasPrice

\* The fee of the pool is in its amount.  Slippage, which tells how many ticks the
\* trade crosses, goes into no decision.
DEXPrice(amount, node) ==
    IF amount = -1 THEN NoPrice
    ELSE [amount |-> amount * FeeScale, value |-> amount * FeeScale,
          slippage |-> 0, gas |-> GasCost(node)]

Fetch ==
    /\ pc = "fetch" /\ pc' = "analyse"
    /\ quotes' = [cexBuy  |-> CEXPrice(TRUE), cexSell |-> CEXPrice(FALSE),
                  dexBuy  |-> DEXPrice(pool.buy, gasPrice.buy),
                  dexSell |-> DEXPrice(pool.sell, gasPrice.sell)]
    /\ UNCHANGED <<book, size, pool, gasPrice, found, published>>

-------------------------------------------------------------------------------
(* opportunityAnalyzer.analyze and Calculator.CalculateProfit. *)

GasCostUSD(gas) == gas * ETHPrice * FeeScale

\* The quote bought with and the quote sold with, in each direction.
Buy(direction)  == IF direction = "CEXToDEX" THEN quotes["cexBuy"] ELSE quotes["dexBuy"]
Sell(direction) == IF direction = "CEXToDEX" THEN quotes["dexSell"] ELSE quotes["cexSell"]
DEXLeg(direction) == IF direction = "CEXToDEX" THEN Sell(direction) ELSE Buy(direction)
CEXLeg(direction) == IF direction = "CEXToDEX" THEN Buy(direction) ELSE Sell(direction)

Profit(direction) ==
    LET gross == Sell(direction).amount - Buy(direction).amount
    IN  [gross |-> gross, net |-> gross - GasCostUSD(DEXLeg(direction).gas),
         invested |-> Buy(direction).value]

\* Both DEX quotes are required, even for the direction that uses one of them.
Analysed(direction) ==
    /\ quotes["dexBuy"] # NoPrice /\ quotes["dexSell"] # NoPrice
    /\ Buy(direction) # NoPrice /\ Sell(direction) # NoPrice

\* What an opportunity states: prices without fees, how far the DEX is above the
\* CEX, and the profit.  Its execution steps and risk factors are wording.
Opportunity(direction) ==
    [direction |-> direction, profit |-> Profit(direction),
     priceDiff |-> DEXLeg(direction).value - CEXLeg(direction).value]

Analyze ==
    /\ pc = "analyse" /\ pc' = "publish"
    /\ found' = {Opportunity(d) : d \in {e \in Directions : Analysed(e)}}
    /\ UNCHANGED <<book, size, pool, gasPrice, quotes, published>>

\* Opportunity.IsProfitable, and the percentage of the investment.
IsProfitable(opp) == opp.profit.net > 0
MeetsThreshold(opp) ==
    IF opp.profit.invested > 0 THEN opp.profit.net * 100 >= MinProfitPct * opp.profit.invested
    ELSE 0 >= MinProfitPct

Publish ==
    /\ pc = "publish" /\ pc' = "done"
    /\ published' = {o \in found : IsProfitable(o) /\ MeetsThreshold(o)}
    /\ UNCHANGED <<book, size, pool, gasPrice, quotes, found>>

Stopped == pc = "done" /\ UNCHANGED vars

Next == Fetch \/ Analyze \/ Publish \/ Stopped

Spec == Init /\ [][Next]_vars

-------------------------------------------------------------------------------
(* Properties. *)

\* The sum of the first n values of f.
Total(f, n) ==
    LET sum[i \in 0..n] == IF i = 0 THEN 0 ELSE sum[i - 1] + f[i] IN sum[n]

\* Every way to take the size from the levels of a side, and what it costs.
Fillings(side) ==
    {f \in [DOMAIN side -> 0..size] :
        /\ \A i \in DOMAIN side : f[i] <= side[i].volume
        /\ Total(f, Len(side)) = size}
Cost(side, f) == Total([i \in DOMAIN side |-> f[i] * side[i].price], Len(side))

\* The execution of an order is the best the book allows: nothing is left out or
\* counted twice, no filling of the size from the levels would be cheaper to buy or
\* pay more when selling, slippage is never a gain, and there is a price whenever
\* the size can be filled at all (Orderbook.CalculateExecution, getPrice).
BestExecution ==
    pc # "fetch" =>
        \A isBuy \in BOOLEAN :
            LET side  == Side(isBuy)
                quote == quotes[IF isBuy THEN "cexBuy" ELSE "cexSell"]
            IN  /\ quote = NoPrice <=> Fillings(side) = {}
                /\ quote # NoPrice =>
                    /\ \E f \in Fillings(side) : quote.amount = WithFee(Cost(side, f), isBuy)
                    /\ \A f \in Fillings(side) :
                          LET bare == FeeScale * Cost(side, f)
                              fee  == TradingFee * Cost(side, f)
                          IN  IF isBuy THEN quote.amount <= bare + fee
                              ELSE quote.amount >= bare - fee
                    /\ quote.slippage >= 0

\* What is published is a real gap between the two markets: it is there between the
\* best level of the book and the pool before fees, slippage and gas, which can only
\* make it smaller, and the price difference it states has the sign of its
\* direction.  Both directions at once therefore take sides of the book, or pools,
\* that are themselves crossed (CalculateProfit's flows and signs, SetPrices,
\* Detect's condition).
PublishedGapIsReal ==
    \A o \in published :
        IF o.direction = "CEXToDEX"
        THEN size * book.asks[1].price < pool.sell /\ o.priceDiff > 0
        ELSE pool.buy < size * book.bids[1].price /\ o.priceDiff < 0

===============================================================================
