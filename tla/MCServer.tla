------------------------------ MODULE MCServer ------------------------------
(* Admission has one scenario per kind of chain, with and without a timer; the node's    *)
(* prices rise and fall, and one reading lacks what the code falls back    *)
(* from.                                                                   *)
EXTENDS Server, TLC

Fees(maxFee, priority) == [maxFeePerGas |-> maxFee, maxPriorityFeePerGas |-> priority]

\* l scales what a rollup charges.
Reading(fees, base, l) ==
  [station |-> fees, fees |-> fees, legacyFee |-> fees.maxFeePerGas,
   gasPrice |-> fees.maxFeePerGas, feeHistory |-> [reward |-> 1], baseFee |-> base,
   l1BaseFee |-> 1000 * l, l2BaseFee |-> base, l1Fee |-> 300000 * l,
   tokenRatio |-> 2, scalar |-> 3, l1GasPrice |-> 10000 * l, pubdata |-> 20 * l]

Low == Reading(Fees(400, 2), 4, 1)
High == Reading(Fees(800, 6), 8, 3)

\* estimateFeesPerGas fails and the block has no base fee.
Partial == [Reading(Fees(500, 3), 5, 2) EXCEPT !.fees = Null, !.station = Null,
              !.legacyFee = Null, !.baseFee = Null, !.feeHistory = [reward |-> Null]]

Free == [Reading(Fees(0, 0), 0, 0) EXCEPT !.baseFee = Null]

Need(verification, call) == [verification |-> verification, paymaster |-> 0, call |-> call]

\* The last two exceed what the search tries; only the second can be doubled to.
Searching == {Need(12000, 39000), Need(30000, 60000), Need(30000, 120000)}

Config(chainType, interval) ==
  [chainType |-> chainType, gasPriceRefreshInterval |-> interval, polygon |-> FALSE,
   legacyTransactions |-> FALSE, isGasFreeChain |-> FALSE, supportsEip7623 |-> FALSE,
   floorMaxFeePerGas |-> 0, floorMaxPriorityFeePerGas |-> 0, safeMode |-> FALSE,
   expirationCheck |-> TRUE, provenGasCap |-> Null, readings |-> {Low, High},
   needs |-> {Need(12000, 5000)}, perCall |-> {5},
   codeOverrideSupport |-> TRUE, chainId |-> 1, accountNonce |-> 0, contracts |-> {7},
   traces |-> {Null}, maxTasks |-> 2]

Always == [validAfter |-> 0, validUntil |-> 0]

Op(version) ==
  [version |-> version, apiVersion |-> "v2", boost |-> FALSE, hasCallData |-> TRUE,
   hasPaymaster |-> FALSE, executesUserOp |-> FALSE, eip7702Auth |-> Null,
   sender |-> 2, factory |-> Null,
   tokens |-> 2000, opWords |-> 20, callDataWords |-> 5, txBytes |-> 100,
   callGasLimit |-> 20000, verificationGasLimit |-> 20000,
   paymasterVerificationGasLimit |-> 0, paymasterPostOpGasLimit |-> 0,
   preVerificationGas |-> 1, maxFeePerGas |-> 0, maxPriorityFeePerGas |-> 0,
   account |-> Always, paymaster |-> Always]

-----------------------------------------------------------------------------
(* Traces.  1 is the EntryPoint, 2 and 3 are accounts, 4 is a token, 5 a   *)
(* paymaster and 6 a factory.                                              *)

Keccaks == { [prefix |-> addr, hash |-> 1000 * addr] : addr \in {2, 3, 5} }

Info(addr, staked) ==
  [addr |-> addr, stake |-> IF staked THEN 1 ELSE 0, unstakeDelaySec |-> 1]

Quiet == [oog |-> FALSE, opcodes |-> [o \in {} |-> 0], access |-> [a \in {} |-> {}],
          noCode |-> {}, extCode |-> {}]

Enter(to, method) == [type |-> "CALL", to |-> to, from |-> EntryPoint, method |-> method, value |-> 0]

Leave(context) == [type |-> "RETURN", context |-> context]

Trace(version, sender, factory, stakes) ==
  [version |-> version, sender |-> sender, keccak |-> Keccaks,
   infos |-> [factory |-> IF factory THEN Info(6, "factory" \in stakes) ELSE NoEntity,
              account |-> Info(sender, "account" \in stakes),
              paymaster |-> Info(5, "paymaster" \in stakes)],
   levels |-> [factory |-> IF factory THEN [Quiet EXCEPT !.opcodes = ("CREATE2" :> 1)] ELSE NoEntity,
               account |-> Quiet, paymaster |-> Quiet],
   calls |-> <<Enter(sender, "validateUserOp"), Leave(FALSE),
               Enter(5, "validatePaymasterUserOp"), Leave(FALSE)>>]

\* One entity uses one slot of another contract.
Touching(t, title, addr, slot, mode) ==
  [t EXCEPT !.levels[title].access =
     addr :> [reads |-> IF mode = "read" THEN {slot} ELSE {},
              writes |-> IF mode = "write" THEN {slot} ELSE {}]]

Touches ==
  { Touching(Trace("0.7", sender, factory, stakes), title, addr, slot, mode) :
      sender \in {2, 3}, factory \in BOOLEAN, stakes \in {{}, {"paymaster"}},
      title \in {"account", "paymaster"}, addr \in {4, 5}, slot \in {2000, 2127, 3000},
      mode \in {"read", "write"} }

Calling(t, to, method, value) ==
  [t EXCEPT !.calls = <<[Enter(to, method) EXCEPT !.from = t.sender, !.value = value],
                        Leave(FALSE)>> \o @]

\* One of each of the other rules.
Others ==
  UNION { LET t == Trace(version, 2, TRUE, stakes) IN
    { t, Calling(t, EntryPoint, "depositTo", 1), Calling(t, EntryPoint, "getNonce", 0),
      Calling(t, 4, "transfer", 1),
      [t EXCEPT !.calls[4] = Leave(TRUE)],
      [t EXCEPT !.levels.account = NoEntity],
      [t EXCEPT !.levels.account.oog = TRUE],
      [t EXCEPT !.levels.account.noCode = {2}],
      [t EXCEPT !.levels.account.noCode = {4}],
      [t EXCEPT !.levels.paymaster.extCode = {EntryPoint}],
      [t EXCEPT !.levels.account.opcodes = ("CREATE" :> 1)],
      [t EXCEPT !.levels.account.opcodes = ("BALANCE" :> 1)],
      [t EXCEPT !.levels.factory.opcodes = ("CREATE2" :> 2)] } :
    version \in {"0.6", "0.7", "0.8"}, stakes \in {{}, Titles} }

Traces == Touches \cup Others

-----------------------------------------------------------------------------

With(c, o) == [config |-> c, userOp |-> o]

MCScenarios ==
  { With([Config("default", 0) EXCEPT !.safeMode = TRUE, !.isGasFreeChain = TRUE,
            !.readings = {Free}, !.maxTasks = 0,
            !.traces = { t \in Traces : t.version = version }],
         [Op(version) EXCEPT !.preVerificationGas = 200000,
                             !.account = [validAfter |-> 0, validUntil |-> 3]]) :
      version \in {"0.6", "0.7", "0.8"} }
  \cup
  { With(Config(type, 1), Op("0.7")) : type \in {"arbitrum", "mantle", "abstract"} }
  \cup
  { With(Config(type, 0), Op("0.7")) : type \in {"arbitrum", "etherlink"} }
  \cup
  { With([Config("op-stack", 1) EXCEPT !.readings = {Low, [High EXCEPT !.baseFee = 0]}], Op("0.7")),
    With([Config("hedera", 1) EXCEPT !.readings = {High, Partial}], Op("0.7")),
    With([Config("default", 0) EXCEPT !.readings = {Low, Partial}, !.floorMaxFeePerGas = 300,
            !.floorMaxPriorityFeePerGas = 700], Op("0.6")),
    With([Config("default", 1) EXCEPT !.polygon = TRUE, !.readings = {High, Partial}],
         [Op("0.7") EXCEPT !.account = [validAfter |-> 1, validUntil |-> 2],
                           !.paymaster = [validAfter |-> 0, validUntil |-> 5]]),
    With([Config("default", 1) EXCEPT !.legacyTransactions = TRUE, !.provenGasCap = 200000],
         Op("0.6")),
    With([Config("default", 0) EXCEPT !.isGasFreeChain = TRUE, !.readings = {Free}],
         [Op("0.7") EXCEPT !.boost = TRUE, !.preVerificationGas = 0]),
    With([Config("default", 0) EXCEPT !.maxTasks = 1],
         [Op("0.7") EXCEPT !.eip7702Auth = [chainId |-> 0, yParity |-> 1, nonce |-> 0,
                                            signer |-> 3, delegate |-> 7]]),
    With([Config("default", 0) EXCEPT !.supportsEip7623 = TRUE, !.expirationCheck = FALSE,
            !.needs = Searching, !.perCall = {0, 1}],
         [Op("0.7") EXCEPT !.tokens = 20000, !.paymaster = [validAfter |-> 2, validUntil |-> 1]]) }

-----------------------------------------------------------------------------

Network(maxFee, priority, baseFee) == [price |-> Price(maxFee, priority), baseFee |-> baseFee]

\* A chain without fees, and one whose prices rise.
MCNetworks == {Network(0, 0, 0), Network(40, 15, 20), Network(60, 21, 30), Network(90, 30, 50)}

MCLeftovers == {Price(30, 30)}

Bidder(chainType, legacy, cap) ==
  [chainType |-> chainType, legacyTransactions |-> legacy, maxBundlingGasPrice |-> cap,
   resubmitMultiplierCeiling |-> 300, bundlerInitialCommission |-> 10,
   arbitrumGasBidMultiplier |-> 5, arbitrumPriorityFeePerGas |-> 13,
   transactionUnderpricedMultiplier |-> 150, sendHandleOpsRetryCount |-> 3]

MCBidders == {Bidder("default", FALSE, Null), Bidder("default", FALSE, 100),
              Bidder("default", TRUE, 100), Bidder("arbitrum", FALSE, Null)}

\* Blocks and receipts; preconfirmations.
MCWatchers == {[flashblocksPreconfirmationTime |-> 0, sync |-> TRUE],
               [flashblocksPreconfirmationTime |-> 2, sync |-> FALSE]}

CONSTANTS x1, x2

\* Of two executors and the utility wallet.
Of(first, second, utility) == x1 :> first @@ x2 :> second @@ Utility :> utility

Upkeep(filling, helper, flushing, backlog, funds) ==
  [refillingWallets |-> filling, refillHelperContract |-> helper,
   flushStuckTransactionsDuringStartup |-> flushing, backlog |-> backlog, balance |-> funds]

MCUpkeeps ==
  {Upkeep(TRUE, TRUE, FALSE, Of(0, 0, 0), Of(0, 5, 14)),
   Upkeep(TRUE, FALSE, FALSE, Of(0, 0, 0), Of(0, 1, 14)),
   Upkeep(FALSE, FALSE, TRUE, Of(2, 1, 0), Of(2, 2, 2)),
   Upkeep(TRUE, TRUE, TRUE, Of(0, 0, 1), Of(0, 6, 7))}

MCMaxTransactions == Of(1, 0, 2)

CONSTANTS t1, t2, b1, b2, m1, m2, h1, h2, f1, f2

Swapped == t1 :> t2 @@ t2 :> t1 @@ b1 :> b2 @@ b2 :> b1 @@ m1 :> m2 @@ m2 :> m1 @@ h1 :> h2 @@ h2 :> h1
             @@ f1 :> f2 @@ f2 :> f1

\* A part that is not the subject looks the same to any exchange, so one serves
\* for all of them.
Symmetry == {Swapped} \cup Permutations(Setters)
=============================================================================
