------------------------------ MODULE Scanner -------------------------------
(***************************************************************************)
(* The scanner of the orchestrator (orchestrator/src/scanner/index.ts):    *)
(* BatchScanner ingests pool states into the PriceOracle, a Map whose      *)
(* order of insertion decides ties, and the RouteDetector looks for routes *)
(* in it.  A scan changes nothing, so it is an operator of the price map.  *)
(*                                                                         *)
(* Prices and amounts are exact fractions where the code has doubles.  The *)
(* fields of a route that are copied from the pool and read by no step     *)
(* here (liquidity, tradingFee, computeBudget ...) are left out, and scan  *)
(* is a set: the list sorted by net profit is Orchestrator!Batches.        *)
(*                                                                         *)
(* The initial state, the next-state relation and the type invariant have  *)
(* names of their own: MarketDataProofs extends this module and PoolCache. *)
(***************************************************************************)
EXTENDS Integers, Sequences

CONSTANTS
  PoolStates,    \* the states of pools that updates may carry
  DexFee,        \* getDexFee of each DEX, in units of 1 / BasisPoints
  SlippageBps,   \* in the same unit
  BasisPoints,   \* 10000 in the code
  MinProfit,     \* minProfitThresholdSol, a fraction
  AmountIn,      \* what scan is asked to trade (BATCH_SIZE)
  MaxMessage     \* bound: pools in one message

-----------------------------------------------------------------------------
(* Fractions.  The prices of a live pool are positive.                     *)

Fraction(n, d) == [num |-> n, den |-> d]
Times(x, y)   == Fraction(x.num * y.num, x.den * y.den)
Reciprocal(x) == Fraction(x.den, x.num)
Minus(x, y)   == Fraction(x.num * y.den - y.num * x.den, x.den * y.den)
Below(x, y)   == x.num * y.den < y.num * x.den
AtMost(x, y)  == x.num * y.den <= y.num * x.den

Amount == Fraction(AmountIn, 1)

(* What is left after a cost of so many basis points.                      *)
After(bps) == Fraction(BasisPoints - bps, BasisPoints)

Key(pool) == <<pool.dex, pool.tokenA, pool.tokenB>>

IsPrice(x) == x \in [num : Nat \ {0}, den : Nat \ {0}]

(* An address is that of one pool: its DEX and its tokens do not change.   *)
ASSUME ScannerConstants ==
  /\ BasisPoints \in Nat \ {0}
  /\ SlippageBps \in 0..BasisPoints
  /\ AmountIn \in Nat \ {0}
  /\ MaxMessage \in Nat \ {0}
  /\ MinProfit \in [num : Nat, den : Nat \ {0}]
  /\ \A pool \in PoolStates :
       /\ DexFee[pool.dex] \in 0..BasisPoints
       /\ pool.tokenA # pool.tokenB
       /\ IsPrice(pool.priceA)
       /\ pool.priceB = Reciprocal(pool.priceA)
       /\ \A other \in PoolStates :
            other.poolAddress = pool.poolAddress => Key(other) = Key(pool)

VARIABLES
  pools,    \* the entries of the price map, in the order of insertion
  pending,  \* how many pools of the message being ingested are still to come
  latest    \* history: the last state received of each pool address

scannerVars == <<pools, pending, latest>>

-----------------------------------------------------------------------------
(* PriceOracle                                                             *)

(* Bug: entries are told apart by the address of the pool.                 *)
UpdateByAddress(entries, pool) ==
  IF \E i \in DOMAIN entries : entries[i].poolAddress = pool.poolAddress
  THEN [i \in DOMAIN entries |->
          IF entries[i].poolAddress = pool.poolAddress THEN pool ELSE entries[i]]
  ELSE Append(entries, pool)

(* Bug: the first state of a pool stays.                                   *)
UpdateFirstWins(entries, pool) ==
  IF \E i \in DOMAIN entries : Key(entries[i]) = Key(pool)
  THEN entries
  ELSE Append(entries, pool)

(* Map.set: a known key keeps its place.                                   *)
Update(entries, pool) ==
  IF \E i \in DOMAIN entries : Key(entries[i]) = Key(pool)
  THEN [i \in DOMAIN entries |->
          IF Key(entries[i]) = Key(pool) THEN pool ELSE entries[i]]
  ELSE Append(entries, pool)

(* Every pool trades in both directions.                                   *)
PoolsOf(entries, in, out) ==
  {i \in DOMAIN entries : {entries[i].tokenA, entries[i].tokenB} = {in, out}}

Rate(pool, in) == IF pool.tokenA = in THEN pool.priceA ELSE pool.priceB

(* The first of the entries with the highest price, as getBestPrice scans  *)
(* them; there is none when no pool trades the pair.                       *)
IsFirstBest(entries, i, in, out) ==
  \A j \in PoolsOf(entries, in, out) :
    /\ AtMost(Rate(entries[j], in), Rate(entries[i], in))
    /\ j < i => Below(Rate(entries[j], in), Rate(entries[i], in))

BestPool(entries, in, out) ==
  {entries[i] : i \in {k \in PoolsOf(entries, in, out) : IsFirstBest(entries, k, in, out)}}

KnownTokens(entries) ==
  UNION {{entries[i].tokenA, entries[i].tokenB} : i \in DOMAIN entries}

-----------------------------------------------------------------------------
(* RouteDetector                                                           *)

Hop(pool, in, out, price) ==
  [dex |-> pool.dex, poolAddress |-> pool.poolAddress,
   tokenIn |-> in, tokenOut |-> out, price |-> price]

Route(type, hops, out, profit) ==
  [type |-> type, hops |-> hops, tokenIn |-> hops[1].tokenIn,
   tokenOut |-> hops[Len(hops)].tokenOut,
   expectedAmountOut |-> out, netProfit |-> profit]

(* Bug: whatever way the pool lists its pair, its priceA is taken.         *)
PriceInBOneWay(pool, a) == pool.priceA

(* The price of a in the other token, from priceA alone.                   *)
PriceInB(pool, a) == IF pool.tokenA = a THEN pool.priceA ELSE Reciprocal(pool.priceA)

TwoPoolRoute(buy, sell, a, b, gross) ==
  LET net == Times(Times(gross, After(DexFee[buy.dex] + DexFee[sell.dex])), After(SlippageBps))
  IN  Route("multi-hop",
            <<Hop(buy, a, b, PriceInB(buy, a)), Hop(sell, b, a, PriceInB(sell, a))>>,
            net, Minus(net, Amount))

(* Two pools of a pair whose prices differ: the hop through the one with   *)
(* the lower price of a comes first.                                       *)
TwoPool(entries, a, b) ==
  {TwoPoolRoute(entries[p[1]], entries[p[2]], a, b,
     Times(Amount, Times(PriceInB(entries[p[2]], a), Reciprocal(PriceInB(entries[p[1]], a))))) :
   p \in {q \in PoolsOf(entries, a, b) \X PoolsOf(entries, a, b) :
            Below(PriceInB(entries[q[1]], a), PriceInB(entries[q[2]], a))}}

(* Bug: the fee of the last hop is forgotten.                              *)
TriangleNetWithoutLastFee(amount, hop1, hop2, hop3) ==
  Times(amount, After(DexFee[hop1.dex] + DexFee[hop2.dex] + SlippageBps))

(* Fees and slippage of a triangle are taken together from its end.        *)
TriangleNet(amount, hop1, hop2, hop3) ==
  Times(amount, After(DexFee[hop1.dex] + DexFee[hop2.dex] + DexFee[hop3.dex]
                        + SlippageBps))

Through(pool, in, amount) == Times(amount, Rate(pool, in))

TriangularRoute(hop1, hop2, hop3, a, b, c) ==
  LET net == TriangleNet(Through(hop3, c, Through(hop2, b, Through(hop1, a, Amount))),
                         hop1, hop2, hop3)
  IN  Route("triangular",
            <<Hop(hop1, a, b, Rate(hop1, a)), Hop(hop2, b, c, Rate(hop2, b)),
              Hop(hop3, c, a, Rate(hop3, c))>>,
            net, Minus(net, Amount))

(* a -> b -> c -> a through the best pool of each pair.                    *)
Triangular(entries, a, b, c) ==
  {route \in {TriangularRoute(hop1, hop2, hop3, a, b, c) :
                hop1 \in BestPool(entries, a, b), hop2 \in BestPool(entries, b, c),
                hop3 \in BestPool(entries, c, a)} :
     route.netProfit.num > 0}

(* Bug: the detour is compared with the way back.                          *)
DirectBackwards(entries, a, c) ==
  {Through(pool, c, Amount) : pool \in BestPool(entries, c, a)}

(* What the best single pool gives for the amount.                         *)
Direct(entries, a, c) ==
  {Through(pool, a, Amount) : pool \in BestPool(entries, a, c)}

DetourRoute(hop1, hop2, direct, a, b, c) ==
  LET net == Times(Through(hop2, b, Through(hop1, a, Amount)),
                   After(DexFee[hop1.dex] + DexFee[hop2.dex] + SlippageBps))
  IN  Route("multi-hop",
            <<Hop(hop1, a, b, Rate(hop1, a)), Hop(hop2, b, c, Rate(hop2, b))>>,
            net, Minus(net, direct))

(* a -> b -> c where that beats the best pool from a to c.                 *)
MultiHop(entries, a, b, c) ==
  {route \in {DetourRoute(hop1, hop2, direct, a, b, c) :
                hop1 \in BestPool(entries, a, b), hop2 \in BestPool(entries, b, c),
                direct \in Direct(entries, a, c)} :
     route.netProfit.num > 0}

Pairs(tokens) == {p \in tokens \X tokens : p[1] # p[2]}
Triples(tokens) ==
  {t \in tokens \X tokens \X tokens : t[1] # t[2] /\ t[2] # t[3] /\ t[1] # t[3]}

Found(entries) ==
  (UNION {TwoPool(entries, p[1], p[2]) : p \in Pairs(KnownTokens(entries))}) \cup
  (UNION {Triangular(entries, t[1], t[2], t[3]) \cup MultiHop(entries, t[1], t[2], t[3]) :
            t \in Triples(KnownTokens(entries))})

DetectAll(entries) == {route \in Found(entries) : AtMost(MinProfit, route.netProfit)}

-----------------------------------------------------------------------------
(* BatchScanner                                                            *)

ScannerInit ==
  /\ pools = << >>
  /\ pending = 0
  /\ latest = << >>

(* A message with states of pools arrives; which they are is left open     *)
(* until the loop comes to them.                                           *)
IngestPoolUpdates ==
  /\ pending = 0
  /\ pending' \in 1..MaxMessage
  /\ UNCHANGED <<pools, latest>>

(* The loop of updateBatch: each pool of the message in turn.  No scan     *)
(* comes in between, so what holds at every step holds at every scan.      *)
UpdateBatch ==
  /\ pending > 0
  /\ \E pool \in PoolStates :
       /\ pools' = Update(pools, pool)
       /\ latest' = [known \in DOMAIN latest \cup {pool.poolAddress} |->
                      IF known = pool.poolAddress THEN pool ELSE latest[known]]
  /\ pending' = pending - 1

ScannerNext == IngestPoolUpdates \/ UpdateBatch

ScannerSpec == ScannerInit /\ [][ScannerNext]_scannerVars

-----------------------------------------------------------------------------
(* Properties                                                              *)

(* Types; the price map has one entry for each DEX and ordered pair        *)
(* (PriceOracle.update).                                                   *)
ScannerTypeOK ==
  /\ pools \in Seq(PoolStates)
  /\ \A i, j \in DOMAIN pools : Key(pools[i]) = Key(pools[j]) => i = j
  /\ pending \in 0..MaxMessage
  /\ \A known \in DOMAIN latest : latest[known] \in PoolStates

(* What the market pays for a route: each hop sells all of what the one    *)
(* before returned to its pool, at the pool's last known price for that    *)
(* direction and less that DEX's fee; then the slippage allowed.           *)
Market(hop) == latest[hop.poolAddress]

Sell(amount, hop) ==
  Times(Times(amount, Rate(Market(hop), hop.tokenIn)), After(DexFee[Market(hop).dex]))

SellTwo(hops) == Sell(Sell(Amount, hops[1]), hops[2])

Execute(route) ==
  Times(IF Len(route.hops) = 2 THEN SellTwo(route.hops)
                               ELSE Sell(SellTwo(route.hops), route.hops[3]),
        After(SlippageBps))

IsRoundTrip(route) == route.tokenIn = route.tokenOut
IsTwoPool(route) == IsRoundTrip(route) /\ Len(route.hops) = 2

Honoured(route) == AtMost(route.expectedAmountOut, Execute(route))

(* A route returns at least the amount it was reported with, at the last   *)
(* prices received: detectTriangularArbitrage and detectMultiHopRoute      *)
(* chain their hops over current pools in the direction they trade, and    *)
(* adding fees up never understates what they cost.                        *)
QuotesAreHonoured ==
  \A route \in DetectAll(pools) : IsTwoPool(route) \/ Honoured(route)

(* A route that ends in another token returns more of it than any single   *)
(* pool of the map would (detectMultiHopRoute).                            *)
DetoursBeatEveryPool ==
  \A route \in DetectAll(pools) : IsRoundTrip(route) \/
    \A i \in PoolsOf(pools, route.tokenIn, route.tokenOut) :
      Below(Times(Amount, Rate(pools[i], route.tokenIn)), Execute(route))

(* The same pool with its pair listed the other way round.                 *)
Flip(pool) ==
  [dex |-> pool.dex, poolAddress |-> pool.poolAddress,
   tokenA |-> pool.tokenB, tokenB |-> pool.tokenA,
   priceA |-> pool.priceB, priceB |-> pool.priceA]

Flipped(entries) == [i \in DOMAIN entries |-> Flip(entries[i])]

(* It makes no difference which way round the pools list their pairs: the  *)
(* detectors read prices through three different pieces of code            *)
(* (getBestPrice for either order, detectTwoPoolArbitrage).                *)
OrientationDoesNotMatter ==
  DetectAll(pools) = DetectAll(Flipped(pools))

(* "Buy SOL/USDC on DEX A for 20 USDC, sell on DEX B for 21 USDC": a       *)
(* two-pool route returns what it was reported with.  Its first hop sells  *)
(* tokenA to the pool that pays less for it and the second buys it back    *)
(* from the one that asks more (detectTwoPoolArbitrage).                   *)
TwoPoolQuotesAreHonoured ==
  \A route \in DetectAll(pools) : IsTwoPool(route) => Honoured(route)
=============================================================================
