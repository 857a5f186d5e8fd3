----------------------------- MODULE GasPrices -----------------------------
(***************************************************************************)
(* What the gas price manager (src/src/handlers/gasPriceManager.ts) makes  *)
(* of a reading of the node, and what it answers from its windows of       *)
(* recent prices.                                                          *)
(*                                                                         *)
(* A configuration c is a record of the options used here.  Its            *)
(* gasPriceRefreshInterval is 0 or 1, which says whether a timer runs, and *)
(* a floor is 0 when there is none.  A reading n holds what the node and   *)
(* the gas station answer at one moment, Null for a call that fails or a   *)
(* field that is missing.                                                  *)
(***************************************************************************)
EXTENDS MinMaxQueue

CONSTANTS
  GasPriceBump,              \* per cent
  PolygonDefaultFee,         \* 31 gwei
  PriorityDivisor,           \* 200
  HederaUnit                 \* 10^9

ASSUME GasPricesAssumption ==
  /\ GasPriceBump \in Nat
  /\ PolygonDefaultFee \in Nat
  /\ PriorityDivisor \in Nat \ {0} /\ HederaUnit \in Nat \ {0}

MaxOf(a, b) == IF a > b THEN a ELSE b

MinOf(a, b) == IF a < b THEN a ELSE b

OrElse(a, b) == IF a = Null THEN b ELSE a

Price(maxFee, priority) == [maxFeePerGas |-> maxFee, maxPriorityFeePerGas |-> priority]

ScaleByPercent(value, percent) == (value * percent) \div 100

-----------------------------------------------------------------------------
(* A price from a reading; Null when the code throws.                      *)

DefaultGasFee(c) == IF c.polygon THEN PolygonDefaultFee ELSE 0

\* Mutant: the fee is not raised to the priority fee before the bump.
BumpedUnordered(c, p) ==
  LET priority == MaxOf(p.maxPriorityFeePerGas, DefaultGasFee(c))
  IN Price(MaxOf(c.floorMaxFeePerGas, ScaleByPercent(p.maxFeePerGas, GasPriceBump)),
           MaxOf(c.floorMaxPriorityFeePerGas, ScaleByPercent(priority, GasPriceBump)))

\* bumpTheGasPrice.  Without a floor the last comparison changes nothing.
Bumped(c, p) ==
  LET priority == MaxOf(p.maxPriorityFeePerGas, DefaultGasFee(c))
      maxFee == MaxOf(p.maxFeePerGas, priority)
      flooredPriority == MaxOf(c.floorMaxPriorityFeePerGas, ScaleByPercent(priority, GasPriceBump))
      flooredFee == MaxOf(c.floorMaxFeePerGas, ScaleByPercent(maxFee, GasPriceBump))
  IN Price(MaxOf(flooredFee, flooredPriority), flooredPriority)

\* getFallBackMaxPriorityFeePerGas: the fee history may come without rewards.
FallBackPriorityFee(n, gasPrice) ==
  IF n.feeHistory = Null THEN Null
  ELSE IF n.feeHistory.reward = Null THEN gasPrice
  ELSE MinOf(n.feeHistory.reward, gasPrice)

\* getLegacyTransactionGasPrice
LegacyPrice(n) ==
  LET gasPrice == OrElse(n.legacyFee, n.gasPrice)
  IN IF gasPrice = Null THEN Null ELSE Price(gasPrice, gasPrice)

\* estimateGasPrice
EstimatedPrice(n) ==
  LET priority == IF n.fees # Null /\ n.fees.maxPriorityFeePerGas # Null
                  THEN n.fees.maxPriorityFeePerGas
                  ELSE FallBackPriorityFee(n, IF n.fees = Null THEN 0
                                              ELSE OrElse(n.fees.maxFeePerGas, 0))
      maxFee == IF n.fees # Null /\ n.fees.maxFeePerGas # Null THEN n.fees.maxFeePerGas
                ELSE IF n.gasPrice = Null \/ priority = Null THEN Null
                ELSE n.gasPrice + priority
  IN IF priority = Null \/ maxFee = Null THEN Null
     ELSE Price(maxFee, IF priority = 0 THEN maxFee \div PriorityDivisor ELSE priority)

\* innerGetGasPrice
InnerGetGasPrice(c, n) ==
  LET source == IF c.polygon /\ n.station # Null THEN n.station
                ELSE IF c.legacyTransactions THEN LegacyPrice(n)
                ELSE EstimatedPrice(n)
  IN IF source = Null THEN Null ELSE Bumped(c, source)

-----------------------------------------------------------------------------
(* Answers from the windows w.baseFee, w.maxFee and w.priority.  `live' is *)
(* what a fetch returns now: it is used when the window has no value.      *)

\* getGasPrice of a manager whose timer keeps the windows up to date.
LatestGasPrice(w) ==
  IF w.maxFee.latestValue = Null \/ w.priority.latestValue = Null THEN Null
  ELSE Price(w.maxFee.latestValue, w.priority.latestValue)

HederaPrice(c, p) ==
  IF c.chainType = "hedera"
  THEN Price(p.maxFeePerGas \div HederaUnit, p.maxPriorityFeePerGas \div HederaUnit)
  ELSE p

\* Mutant: the floor of a valid price is the latest price.
LowestValidIsLatest(c, w, live) == HederaPrice(c, OrElse(LatestGasPrice(w), live))

\* getLowestValidGasPrices
LowestValidGasPrices(c, w, live) ==
  HederaPrice(c, Price(IF MinValue(w.maxFee) = Null THEN live.maxFeePerGas
                       ELSE MinValue(w.maxFee),
                       IF MinValue(w.priority) = Null THEN live.maxPriorityFeePerGas
                       ELSE MinValue(w.priority)))

\* getHighestMaxFeePerGas
HighestMaxFeePerGas(w, live) == IF MaxValue(w.maxFee) = Null THEN live.maxFeePerGas
                                ELSE MaxValue(w.maxFee)

\* getHighestMaxPriorityFeePerGas
HighestMaxPriorityFeePerGas(w, live) ==
  IF MaxValue(w.priority) = Null THEN live.maxPriorityFeePerGas ELSE MaxValue(w.priority)

\* getMaxBaseFeePerGas
MaxBaseFeePerGas(w, liveBaseFee) == IF MaxValue(w.baseFee) = Null THEN liveBaseFee
                                    ELSE MaxValue(w.baseFee)
=============================================================================
