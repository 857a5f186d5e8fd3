------------------------ MODULE PreVerificationGas ------------------------
(***************************************************************************)
(* The preVerificationGas of a userOp                                      *)
(* (src/src/utils/preVerificationGasCalulator.ts): a part for its          *)
(* execution and, on a rollup, a part for its data, once as it is          *)
(* estimated (from a reading of the node) and once as it is required of a  *)
(* submitted userOp (from the windows of recent values).                   *)
(*                                                                         *)
(* A userOp g is a record [version, callGasLimit, verificationGasLimit,    *)
(* paymasterPostOpGasLimit, tokens, opWords, callDataWords,                *)
(* executesUserOp, eip7702Auth, txBytes]; sizes are those of the op filled *)
(* with dummy data, the same at both times.                                *)
(***************************************************************************)
EXTENDS GasPrices

CONSTANTS
  CallGasLimitMultiplier,            \* per cent
  VerificationGasLimitMultiplier,
  PaymasterPostOpGasLimitMultiplier,
  EtherlinkRate,                     \* wei per byte
  MantleDivisionFactor,              \* 10^6
  MaxUint128                         \* more than any fee

ASSUME PreVerificationGasAssumption ==
  /\ {CallGasLimitMultiplier, VerificationGasLimitMultiplier,
      PaymasterPostOpGasLimitMultiplier, MantleDivisionFactor} \subseteq Nat \ {0}
  /\ EtherlinkRate \in Nat /\ MaxUint128 \in Nat \ {0}

\* defaultOverHeads
TransactionGasStipend == 21000
FixedGasOverhead == 21000
PerUserOp == 18300
StandardTokenGasCost == 4
FloorPerTokenGasCost == 10
EIP7702AuthGas == 25000

CeilDiv(a, b) == (a + b - 1) \div b

UnscaleByPercent(value, percent) == (value * 100) \div percent

-----------------------------------------------------------------------------

\* getUserOpGasUsed
UserOpGasUsed(g) ==
  LET call == UnscaleByPercent(g.callGasLimit, CallGasLimitMultiplier)
  IN IF g.version = "0.6"
     THEN (call + UnscaleByPercent(g.verificationGasLimit, VerificationGasLimitMultiplier)) \div 10
     ELSE (call + UnscaleByPercent(g.paymasterPostOpGasLimit,
                                   PaymasterPostOpGasLimitMultiplier)) \div 10

\* getEip7623transactionGasCost
Eip7623Cost(tokens, executionGasCost) ==
  TransactionGasStipend + MaxOf(StandardTokenGasCost * tokens + executionGasCost,
                                FloorPerTokenGasCost * tokens)

UserOpSpecificOverhead(g) ==
  PerUserOp + (IF g.eip7702Auth = Null THEN 0 ELSE EIP7702AuthGas)
  + (IF g.executesUserOp THEN 1610 + (8200 * g.opWords) \div 1000
     ELSE (g.callDataWords * 9200) \div 1000)

\* calcExecutionPvgComponent.  Under EIP-7623 the gas the op is known to use
\* counts against the floor of the calldata.
ExecutionComponent(c, g) ==
  IF c.supportsEip7623
  THEN Eip7623Cost(g.tokens, FixedGasOverhead + UserOpSpecificOverhead(g) + UserOpGasUsed(g))
       - UserOpGasUsed(g)
  ELSE StandardTokenGasCost * g.tokens + TransactionGasStipend + FixedGasOverhead
       + UserOpSpecificOverhead(g)

-----------------------------------------------------------------------------
(* The rollups.  An oracle's answer is part of the reading n; the values   *)
(* an estimate leaves in the windows are a function of their names.  A     *)
(* component is Null where the code divides by zero, which throws.         *)

Divided(a, b) == IF b = 0 THEN Null ELSE a \div b

\* The gas price oracle precompile of Arbitrum.
GasEstimateL1Component(n, g) == (g.txBytes * n.l1BaseFee) \div n.l2BaseFee

\* calcArbitrumPvg.  Its own reading is saved first, in both cases.
ArbitrumEstimate(n, g) == GasEstimateL1Component(n, g)

ArbitrumRequired(n, w, g) ==
  LET minL1Fee == OrElse(MinValue(w.l1BaseFee), 1)
      maxL1Fee == IF n.l1BaseFee # 0 THEN n.l1BaseFee
                  ELSE OrElse(MaxValue(w.l1BaseFee), MaxUint128)
      maxL2Fee == OrElse(MaxValue(w.l2BaseFee), MaxUint128)
  IN (GasEstimateL1Component(n, g) * n.l2BaseFee * minL1Fee) \div (maxL1Fee * maxL2Fee)

\* calcMantlePvg
MantleFee(tokenRatio, scalar, rollup, l1GasPrice) ==
  (rollup * l1GasPrice * tokenRatio * scalar) \div MantleDivisionFactor

MantleEstimate(n, g, price) ==
  Divided(MantleFee(n.tokenRatio, n.scalar, g.txBytes, n.l1GasPrice), price.maxFeePerGas)

MantleRequired(w, live) ==
  Divided(MantleFee(OrElse(MinValue(w.tokenRatio), 1), OrElse(MinValue(w.scalar), 1),
                    OrElse(MinValue(w.rollup), 1), OrElse(MinValue(w.l1GasPrice), 1)),
          HighestMaxFeePerGas(w, live))

\* calcOptimismPvg.  No code saves an L1 fee, so the least one is always 1.
OptimismEstimate(n, price, baseFee) ==
  Divided(n.l1Fee, MinOf(price.maxFeePerGas, baseFee + price.maxPriorityFeePerGas))

OptimismRequired(w, live, baseFee) ==
  Divided(OrElse(MinValue(w.l1Fee), 1),
          MinOf(HighestMaxFeePerGas(w, live),
                MaxBaseFeePerGas(w, baseFee) + HighestMaxPriorityFeePerGas(w, live)))

\* calcEtherlinkPvg
EtherlinkComponent(g, maxFeePerGas) == Divided((150 + g.txBytes) * EtherlinkRate, maxFeePerGas)

\* calcAbstractPvg: the base fee is the current one at both times.
AbstractComponent(c, g, pubdataPrice, baseFee) ==
  LET memoryGas == g.txBytes * 10
      staticFee == ExecutionComponent([c EXCEPT !.supportsEip7623 = FALSE], g)
  IN IF baseFee = 0 THEN Null
     ELSE memoryGas + 10000 + g.txBytes * CeilDiv(pubdataPrice, baseFee)
          + (staticFee + memoryGas) * 7

\* The values an estimation (on Arbitrum: a submission too) saves.
OracleValues(c, n, g) ==
  CASE c.chainType = "arbitrum" -> [l1BaseFee |-> n.l1BaseFee, l2BaseFee |-> n.l2BaseFee]
    [] c.chainType = "mantle" -> [tokenRatio |-> n.tokenRatio, scalar |-> n.scalar,
                                  rollup |-> g.txBytes, l1GasPrice |-> n.l1GasPrice]
    [] c.chainType = "abstract" -> [pubdata |-> n.pubdata]
    [] OTHER -> [k \in {} |-> 0]

\* calcL2PvgComponent, of an estimation
EstimatedL2Component(c, n, g, price, baseFee) ==
  CASE c.chainType = "op-stack" -> OptimismEstimate(n, price, baseFee)
    [] c.chainType = "arbitrum" -> ArbitrumEstimate(n, g)
    [] c.chainType = "mantle" -> MantleEstimate(n, g, price)
    [] c.chainType = "etherlink" -> EtherlinkComponent(g, price.maxFeePerGas)
    [] c.chainType = "abstract" -> AbstractComponent(c, g, n.pubdata, baseFee)
    [] OTHER -> 0

\* Mutant: a submission is held to the latest values, as an estimation is.
RequiredNow(c, n, w, g, live, baseFee) ==
  EstimatedL2Component(c, n, g, OrElse(LatestGasPrice(w), live), baseFee)

\* calcL2PvgComponent, of a submission
RequiredL2Component(c, n, w, g, live, baseFee) ==
  CASE c.chainType = "op-stack" -> OptimismRequired(w, live, baseFee)
    [] c.chainType = "arbitrum" -> ArbitrumRequired(n, w, g)
    [] c.chainType = "mantle" -> MantleRequired(w, live)
    [] c.chainType = "etherlink" -> EtherlinkComponent(g, HighestMaxFeePerGas(w, live))
    [] c.chainType = "abstract" ->
         AbstractComponent(c, g, OrElse(MinValue(w.pubdata), 1), baseFee)
    [] OTHER -> 0
=============================================================================
