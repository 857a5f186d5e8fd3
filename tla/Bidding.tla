------------------------------ MODULE Bidding ------------------------------
(***************************************************************************)
(* What a bundle bids, from its first transaction to the last replacement  *)
(* (src/src/executor/executor.ts, and potentiallyResubmitBundle of         *)
(* executorManager.ts): the price computed from the network's, the floor   *)
(* over the transaction it replaces, the ceiling, the retries of one send, *)
(* and the choice between waiting, replacing and rotating.                 *)
(*                                                                         *)
(* One bundle, on one wallet.  The node answers by the rules of a mempool: *)
(* a fee cap below the base fee is refused, and so is a transaction that   *)
(* does not outbid the pending one of its nonce.  Other failures of a send *)
(* are BundleLifecycle's subject.                                          *)
(***************************************************************************)
EXTENDS GasPrices

CONSTANTS
  Bidders,                      \* configurations of the executor
  Networks,                     \* what the gas price manager answers: fees and base fee
  BreakEvenPrices,              \* totalBeneficiaryFees / bundleGasUsed
  Leftovers,                    \* fees of a transaction that an earlier bundle left at the nonce
  ReplacementMinBump,           \* 110, REPLACEMENT_MIN_BUMP_PERCENT
  MaxStuckAttemptsBeforeRotation,
  MaxSubmissions                \* bound

ASSUME BiddingAssumption ==
  /\ ReplacementMinBump \in Nat /\ MaxSubmissions \in Nat
  /\ MaxStuckAttemptsBeforeRotation \in Nat
  /\ \A c \in Bidders :
       /\ c.sendHandleOpsRetryCount \in Nat \ {0}
       /\ {c.resubmitMultiplierCeiling, c.bundlerInitialCommission, c.arbitrumGasBidMultiplier,
           c.arbitrumPriorityFeePerGas, c.transactionUnderpricedMultiplier} \subseteq Nat
       /\ c.maxBundlingGasPrice \in Nat \cup {Null}
  /\ \A n \in Networks :
       n.price \in [maxFeePerGas : Nat, maxPriorityFeePerGas : Nat] /\ n.baseFee \in Nat
  /\ BreakEvenPrices \subseteq Nat

VARIABLES
  bidder,       \* the configuration, fixed
  phase,        \* where the bundle is
  submissions,  \* submissionAttempts
  recorded,     \* transactionRequest of the tracked bundle: the fees as asked
  asked,        \* the fees of the send in progress, as asked
  request,      \* ... as the next attempt sends them, or as the last one did
  tries,        \* its attempts so far
  refusals,     \* why the node refused them
  held          \* the fees of the transaction the node holds at the nonce

bidVars == <<bidder, phase, submissions, recorded, asked, request, tries,
             refusals, held>>

BiddingInit ==
  /\ bidder \in Bidders
  /\ phase = "ready" /\ submissions = 0
  /\ recorded = Null /\ asked = Null /\ request = Null
  /\ tries = 0 /\ refusals = {}
  /\ held \in Leftovers \cup {Null}

-----------------------------------------------------------------------------
(* The price.                                                              *)

AtLeast(p, floor) == Price(MaxOf(p.maxFeePerGas, floor.maxFeePerGas),
                           MaxOf(p.maxPriorityFeePerGas, floor.maxPriorityFeePerGas))

AtMost(p, limit) == Price(MinOf(p.maxFeePerGas, limit), MinOf(p.maxPriorityFeePerGas, limit))

Scaled(p, percent) == Price(ScaleByPercent(p.maxFeePerGas, percent),
                            ScaleByPercent(p.maxPriorityFeePerGas, percent))

\* On Arbitrum the tip is a configured bid, and both grow linearly.
ArbitrumGasPrice(c, attempts, n) ==
  LET percent == 100 + 20 * attempts
      base == ScaleByPercent(n.baseFee, percent)
      tip == ScaleByPercent(c.arbitrumPriorityFeePerGas, percent)
  IN Price(MaxOf(base * c.arbitrumGasBidMultiplier, base + tip), tip)

Multiplier[n \in Nat] == IF n = 0 THEN 100 ELSE (Multiplier[n - 1] * 120) \div 100

\* The commission is halved with each attempt.
PowerOfTwo[n \in Nat] == IF n = 0 THEN 1 ELSE 2 * PowerOfTwo[n - 1]

\* Elsewhere it is the network's, raised by a fifth with each attempt up to a
\* ceiling, or what the bundle earns less the commission, if that is more.
BundleGasPrice(c, attempts, n, breakEven) ==
  LET network == IF attempts = 0 THEN n.price
                 ELSE Scaled(n.price, MinOf(Multiplier[attempts], c.resubmitMultiplierCeiling))
      bundling == ScaleByPercent(breakEven, 100 - (c.bundlerInitialCommission \div PowerOfTwo[attempts]))
      effective == MinOf(network.maxFeePerGas, n.baseFee + network.maxPriorityFeePerGas)
      legacy == MaxOf(bundling, network.maxFeePerGas)
  IN IF c.chainType = "arbitrum" THEN ArbitrumGasPrice(c, attempts, n)
     ELSE IF c.legacyTransactions THEN Price(legacy, legacy)
     ELSE IF bundling > effective THEN Price(bundling, bundling)
     ELSE network

Clamped(c, p) == IF c.maxBundlingGasPrice = Null THEN p ELSE AtMost(p, c.maxBundlingGasPrice)

\* Mutant: only the fee cap is floored.
FlooredFeeCap(p, previous) ==
  IF previous = Null THEN p
  ELSE [p EXCEPT !.maxFeePerGas =
          MaxOf(@, ScaleByPercent(previous.maxFeePerGas, ReplacementMinBump))]

\* A replacement bids at least a tenth more than what is recorded of the last.
Floored(p, previous) ==
  IF previous = Null THEN p ELSE AtLeast(p, Scaled(previous, ReplacementMinBump))

\* bundle, once its simulation left something to send.
Bid(n, breakEven) ==
  /\ phase \in {"ready", "replacing"}
  /\ submissions < MaxSubmissions
  /\ asked' = Clamped(bidder, Floored(BundleGasPrice(bidder, submissions, n, breakEven), recorded))
  /\ request' = asked'
  /\ tries' = 0 /\ refusals' = {}
  /\ phase' = "sending"
  /\ UNCHANGED <<bidder, submissions, recorded, held>>

-----------------------------------------------------------------------------
(* sendHandleOpsTransaction: the loop of one send.                         *)

Outbids(p, old) ==
  \A fee \in {"maxFeePerGas", "maxPriorityFeePerGas"} :
    p[fee] > old[fee] /\ p[fee] >= ScaleByPercent(old[fee], ReplacementMinBump)

Refused(p, baseFee) ==
  IF p.maxFeePerGas < baseFee THEN "feeCapTooLow"
  ELSE IF held # Null /\ ~Outbids(p, held) THEN "underpriced"
  ELSE "none"

\* The ceiling holds in every attempt.
Attempted(c, p) == Clamped(c, p)

\* The error of a fee cap that is too low is only recognised when it comes bare.
Retried(p, why, bare) ==
  IF why = "underpriced" THEN Scaled(p, bidder.transactionUnderpricedMultiplier)
  ELSE IF bare THEN Scaled(p, 125)
  ELSE p

\* The request recorded is the one that was asked for, not the one that was sent.
Accept(baseFee) ==
  LET sent == Attempted(bidder, request) IN
  /\ phase = "sending" /\ Refused(sent, baseFee) = "none"
  /\ held' = sent /\ recorded' = asked
  /\ phase' = "tracked"
  /\ submissions' = submissions + 1
  /\ asked' = Null /\ request' = Null /\ tries' = 0 /\ refusals' = {}
  /\ UNCHANGED bidder

\* Without an attempt left the send throws: the userOps are requeued and the
\* wallet is freed, whatever the node still holds at its nonce.
Refuse(baseFee, bare) ==
  LET sent == Attempted(bidder, request)
      why == Refused(sent, baseFee)
  IN /\ phase = "sending" /\ why # "none"
     /\ tries' = tries + 1 /\ refusals' = refusals \cup {why}
     /\ IF tries + 1 = bidder.sendHandleOpsRetryCount
        THEN phase' = "freed" /\ request' = sent
        ELSE phase' = "sending" /\ request' = Retried(sent, why, bare)
     /\ UNCHANGED <<bidder, submissions, recorded, asked, held>>

-----------------------------------------------------------------------------
(* potentiallyResubmitBundle: what a look at the unmined transaction finds. *)

\* On Arbitrum the tip is no estimate of the market and is not compared.
TooLow(n) ==
  \/ recorded.maxFeePerGas < n.price.maxFeePerGas
  \/ /\ bidder.chainType # "arbitrum"
     /\ recorded.maxPriorityFeePerGas < n.price.maxPriorityFeePerGas

AtGasCap == bidder.maxBundlingGasPrice # Null /\ recorded.maxFeePerGas >= bidder.maxBundlingGasPrice

ShouldRotate == submissions >= MaxStuckAttemptsBeforeRotation \/ AtGasCap

\* A fee below the network's is raised before anything else; a stuck bundle
\* moves to another wallet if it should and the quarantine has room.
Look(n, stuck, canRotate) ==
  /\ phase = "tracked"
  /\ TooLow(n) \/ stuck
  /\ phase' = IF ~TooLow(n) /\ ShouldRotate /\ canRotate THEN "rotated" ELSE "replacing"
  /\ UNCHANGED <<bidder, submissions, recorded, asked, request, tries, refusals, held>>

BiddingNext ==
  \/ \E n \in Networks, breakEven \in BreakEvenPrices : Bid(n, breakEven)
  \/ \E n \in Networks, bare \in BOOLEAN : Accept(n.baseFee) \/ Refuse(n.baseFee, bare)
  \/ \E n \in Networks, stuck, canRotate \in BOOLEAN : Look(n, stuck, canRotate)

BiddingSpec == BiddingInit /\ [][BiddingNext]_bidVars

-----------------------------------------------------------------------------

\* What the percentages of one send and of the rule lose at most.
Rounding == 2

\* A bundle's wallet is not given up with its transaction pending because a
\* replacement bid too little: where the ceiling leaves room, the attempts of one
\* send make up for the retries of the last one, which are not recorded.  Only
\* the rounding of the percentages may leave it short.
ReplacementStands ==
  (phase = "freed" /\ refusals = {"underpriced"} /\ recorded # Null) =>
    \A fee \in {"maxFeePerGas", "maxPriorityFeePerGas"} :
      LET least == ScaleByPercent(held[fee], ReplacementMinBump)
      IN \/ request[fee] + Rounding >= least
         \/ bidder.maxBundlingGasPrice # Null /\ least > bidder.maxBundlingGasPrice
=============================================================================
