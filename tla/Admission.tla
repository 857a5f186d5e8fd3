----------------------------- MODULE Admission -----------------------------
(***************************************************************************)
(* From a price quote to the admission of a userOp, on one server that     *)
(* keeps its price windows in memory: the timer of the gas price manager,  *)
(* pimlico_getUserOperationGasPrice, eth_estimateUserOperationGas and the  *)
(* checks of eth_sendUserOperation that come before the mempool's.         *)
(*                                                                         *)
(* One client takes its op through the three calls; the timer and other    *)
(* clients fill the windows meanwhile.  A call samples the node when it    *)
(* starts and is answered later, so answers arrive out of order.           *)
(***************************************************************************)
EXTENDS GasEstimation, TracerRules, FiniteSets

CONSTANTS
  Scenarios,        \* a configuration, the op of the client, what the node may answer
  MaxGasPerBundle,
  ExpiryMargin,     \* 5 s
  SafeExpiryMargin, \* 30 s
  SafeAge,          \* 5 s
  Tasks,            \* refreshes and other clients' calls that overlap
  MaxTime, MaxChanges      \* bounds; config.maxTasks is one, too

ASSUME AdmissionAssumption ==
  /\ \A s \in Scenarios : s.config.gasPriceRefreshInterval \in {0, 1}
  /\ MaxGasPerBundle \in Nat /\ ExpiryMargin \in Nat
  /\ SafeExpiryMargin \in Nat /\ SafeAge \in Nat
  /\ MaxTime \in Nat /\ MaxChanges \in Nat

\* The node answers with numbers, where it answers.
ASSUME ReadingsAssumption ==
  \A s \in Scenarios :
    /\ {s.config.floorMaxFeePerGas, s.config.floorMaxPriorityFeePerGas, s.userOp.txBytes} \subseteq Nat
    /\ {"maxFeePerGas", "maxPriorityFeePerGas", "callGasLimit", "verificationGasLimit",
        "paymasterVerificationGasLimit", "preVerificationGas", "txBytes", "version"}
         \subseteq DOMAIN s.userOp
    /\ \A n \in s.config.readings :
         /\ {n.legacyFee, n.gasPrice, n.baseFee} \subseteq Nat \cup {Null}
         /\ n.feeHistory # Null => n.feeHistory.reward \in Nat \cup {Null}
         /\ n.fees # Null =>
              {n.fees.maxFeePerGas, n.fees.maxPriorityFeePerGas} \subseteq Nat \cup {Null}
         /\ n.station # Null =>
              {n.station.maxFeePerGas, n.station.maxPriorityFeePerGas} \subseteq Nat
         /\ {n.l1BaseFee, n.l2BaseFee, n.tokenRatio, n.scalar, n.l1GasPrice, n.pubdata, n.l1Fee}
              \subseteq Nat

\* So are the sizes of an op.
ASSUME SizesAssumption ==
  \A s \in Scenarios :
    /\ {"tokens", "opWords", "callDataWords", "executesUserOp", "eip7702Auth",
        "paymasterPostOpGasLimit"} \subseteq DOMAIN s.userOp
    /\ {s.userOp.tokens, s.userOp.opWords, s.userOp.callDataWords,
        s.userOp.paymasterPostOpGasLimit} \subseteq Nat

\* The gas an op needs, and the rounds of a search that fit one call, are numbers.
ASSUME NeedsAssumption ==
  \A s \in Scenarios :
    /\ \A n \in s.config.needs : {n.verification, n.paymaster, n.call} \subseteq Nat
    /\ s.config.perCall \subseteq Nat

\* A chain that is not free of gas charges for it, and one of legacy transactions
\* has one price: its floors, if any, are the same.
ASSUME PricesAssumption ==
  \A s \in Scenarios : \A n \in s.config.readings :
    LET p == InnerGetGasPrice(s.config, n)
    IN p # Null =>
         /\ IF s.config.isGasFreeChain THEN p = Price(0, 0)
            ELSE p.maxFeePerGas > 0 /\ p.maxPriorityFeePerGas > 0
         /\ s.config.legacyTransactions => p.maxFeePerGas = p.maxPriorityFeePerGas

\* Addresses, slots and hashes are numbers, and the hashes of different senders
\* lie apart.
ASSUME TracesAssumption ==
  \A s \in Scenarios : s.config.safeMode =>
    \A t \in s.config.traces :
      /\ t.sender \in Nat /\ \A h \in t.keccak : h.hash \in Nat
      /\ \A title \in Titles : t.levels[title] # NoEntity =>
           \A addr \in DOMAIN t.levels[title].access :
             t.levels[title].access[addr].reads \cup t.levels[title].access[addr].writes \subseteq Nat
      /\ \A u \in s.config.traces : t.sender # u.sender =>
           \A h \in t.keccak : h.prefix = t.sender =>
             /\ u.sender \notin h.hash .. h.hash + StructSlots - 1
             /\ \A k \in u.keccak : k.prefix = u.sender =>
                  h.hash + StructSlots <= k.hash \/ k.hash + StructSlots <= h.hash

Windows == {"baseFee", "maxFee", "priority", "l1BaseFee", "l2BaseFee", "l1Fee",
            "tokenRatio", "scalar", "rollup", "l1GasPrice", "pubdata"}

VARIABLES
  config,    \* the configuration of the server and the node's answers, fixed
  userOp,    \* the op of the client, with the limits and fees it has so far
  now,       \* the clock, in seconds
  reading,   \* what the node answers now
  changes,   \* bound: how often the node's answer changed
  windows,   \* the windows of recent values, by name
  saves,     \* history: every value saved in a window, and when
  task,      \* the background calls
  started,   \* bound: how many background calls were started
  client     \* where the client is, and what it was told

serverVars == <<windows, saves>>
admissionVars == <<config, userOp, now, reading, changes, windows, saves, task, started, client>>

NoTask == [doing |-> "idle", got |-> Null]

NewClient == [doing |-> "idle", got |-> Null, quote |-> Null, quotedAt |-> Null,
              pricedAt |-> Null, need |-> Null,
              trace |-> Null, outcome |-> "none", at |-> Null]

AdmissionInit ==
  /\ \E s \in Scenarios : config = s.config /\ userOp = s.userOp /\ reading \in s.config.readings
  /\ now = 0 /\ changes = 0 /\ started = 0
  /\ windows = [k \in Windows |-> EmptyWindow]
  /\ saves = [k \in Windows |-> {}]
  /\ task = [t \in Tasks |-> NoTask]
  /\ client = NewClient

Tick ==
  /\ now < MaxTime
  /\ now' = now + 1
  /\ UNCHANGED <<config, userOp, reading, changes, windows, saves, task, started, client>>

NodeChanges ==
  /\ changes < MaxChanges
  /\ changes' = changes + 1
  /\ reading' \in config.readings \ {reading}
  /\ UNCHANGED <<config, userOp, now, windows, saves, task, started, client>>

-----------------------------------------------------------------------------
(* The windows.  values maps some of their names to what is saved in them. *)

SaveAll(values) ==
  /\ windows' = [k \in Windows |->
       IF k \in DOMAIN values THEN Saved(windows[k], values[k], now) ELSE windows[k]]
  /\ saves' = [k \in Windows |->
       IF k \in DOMAIN values /\ values[k] # 0
       THEN saves[k] \cup {[value |-> values[k], timestamp |-> now]} ELSE saves[k]]

Merged(f, g) == [k \in DOMAIN f \cup DOMAIN g |-> IF k \in DOMAIN g THEN g[k] ELSE f[k]]

Nothing == [k \in {} |-> 0]

PriceValues(p) ==
  IF p = Null THEN Nothing
  ELSE [maxFee |-> p.maxFeePerGas, priority |-> p.maxPriorityFeePerGas]

BaseFeeValue(n) == IF n.baseFee = Null THEN Nothing ELSE [baseFee |-> n.baseFee]

Refreshes == config.gasPriceRefreshInterval # 0

\* The values a request saves when it needs a gas price or the base fee of
\* getGasPrice and getBaseFee, n being what the node answered it.
FetchedPrice(n) ==
  IF Refreshes \/ config.isGasFreeChain THEN Nothing
  ELSE PriceValues(InnerGetGasPrice(config, n))

FetchedBaseFee(n) ==
  IF config.legacyTransactions \/ (Refreshes /\ windows.baseFee.latestValue # Null) THEN Nothing
  ELSE BaseFeeValue(n)

\* getGasPrice; Null when it throws.
GasPrice(n) ==
  IF config.isGasFreeChain THEN Price(0, 0)
  ELSE IF Refreshes THEN LatestGasPrice(windows)
  ELSE InnerGetGasPrice(config, n)

\* getBaseFee: a failed fetch counts as zero.
BaseFee(n) ==
  IF config.legacyTransactions THEN 0
  ELSE IF Refreshes /\ windows.baseFee.latestValue # Null THEN windows.baseFee.latestValue
  ELSE OrElse(n.baseFee, 0)

-----------------------------------------------------------------------------
(* The timer, and other clients: their calls save values as well.          *)

\* The timer does not wait for its last refresh.
StartRefresh(t) ==
  /\ Refreshes /\ started < config.maxTasks
  /\ task[t].doing = "idle"
  /\ task' = [task EXCEPT ![t] =
       [doing |-> IF config.legacyTransactions THEN "price" ELSE "baseFee", got |-> reading]]
  /\ started' = started + 1
  /\ UNCHANGED <<config, userOp, now, reading, changes, windows, saves, client>>

\* tryUpdateBaseFee: without a base fee the whole refresh is given up.
BaseFeeArrives(t) ==
  /\ task[t].doing = "baseFee"
  /\ SaveAll(BaseFeeValue(task[t].got))
  /\ task' = [task EXCEPT ![t] = IF task[t].got.baseFee = Null THEN NoTask
                                 ELSE [doing |-> "price", got |-> reading]]
  /\ UNCHANGED <<config, userOp, now, reading, changes, started, client>>

\* tryUpdateGasPrice
PriceArrives(t) ==
  /\ task[t].doing = "price"
  /\ SaveAll(PriceValues(InnerGetGasPrice(config, task[t].got)))
  /\ task' = [task EXCEPT ![t] = NoTask]
  /\ UNCHANGED <<config, userOp, now, reading, changes, started, client>>

\* Another client's estimation, and the price it fetches without a timer.
StartOther(t) ==
  /\ started < config.maxTasks
  /\ task[t].doing = "idle"
  /\ task' = [task EXCEPT ![t] = [doing |-> "other", got |-> reading]]
  /\ started' = started + 1
  /\ UNCHANGED <<config, userOp, now, reading, changes, windows, saves, client>>

OtherArrives(t) ==
  /\ task[t].doing = "other"
  /\ SaveAll(Merged(Merged(OracleValues(config, task[t].got, userOp), FetchedPrice(task[t].got)),
                    FetchedBaseFee(task[t].got)))
  /\ task' = [task EXCEPT ![t] = NoTask]
  /\ UNCHANGED <<config, userOp, now, reading, changes, started, client>>

-----------------------------------------------------------------------------
(* The client.  `since' is when the values it was told had been saved.     *)

LastSave(k) == CHOOSE t \in { s.timestamp : s \in saves'[k] } :
                 \A s \in saves'[k] : s.timestamp <= t

OldestSave(ks) ==
  LET times == { LastSave(k) : k \in { j \in ks : saves'[j] # {} } }
  IN IF times = {} THEN now ELSE CHOOSE t \in times : \A u \in times : t <= u

\* The windows a data component is computed from.
PricingWindows ==
  CASE config.chainType = "arbitrum" -> {"l1BaseFee", "l2BaseFee"}
    [] config.chainType = "mantle" -> {"tokenRatio", "scalar", "rollup", "l1GasPrice", "maxFee"}
    [] config.chainType = "etherlink" -> {"maxFee"}
    [] config.chainType = "abstract" -> {"pubdata"}
    [] OTHER -> {}

Ask(call) ==
  /\ client.doing = "idle" /\ client.outcome = "none"
  /\ client' = [client EXCEPT !.doing = call, !.got = reading]
  /\ UNCHANGED <<config, userOp, now, reading, changes, windows, saves, task, started>>

Fails == client' = [client EXCEPT !.doing = "idle", !.got = Null]

\* pimlico_getUserOperationGasPrice: the quote, which the client takes over.
AskPrice == client.quote = Null /\ client.pricedAt = Null /\ Ask("quoting")

Quoted ==
  LET price == GasPrice(client.got) IN
  /\ client.doing = "quoting"
  /\ SaveAll(FetchedPrice(client.got))
  /\ IF price = Null THEN Fails /\ UNCHANGED userOp
     ELSE /\ client' = [client EXCEPT !.doing = "idle", !.got = Null,
                          !.quote = HederaPrice(config, price),
                          !.quotedAt = OldestSave({"maxFee", "priority"})]
          /\ userOp' = [userOp EXCEPT
               !.maxFeePerGas = HederaPrice(config, price).maxFeePerGas,
               !.maxPriorityFeePerGas = HederaPrice(config, price).maxPriorityFeePerGas]
  /\ UNCHANGED <<config, now, reading, changes, task, started>>

\* eth_estimateUserOperationGas
AskEstimate ==
  /\ client.pricedAt = Null
  /\ Ask("estimating")

\* validateEip7702Auth.  The estimation does not recover the signer, for which it
\* takes the sender.  The cache of delegates only saves reading their code.
AuthValid(validateSender) ==
  LET auth == userOp.eip7702Auth IN
  auth # Null =>
    /\ config.codeOverrideSupport
    /\ auth.chainId \in {config.chainId, 0}
    /\ auth.yParity \in {0, 1}
    /\ auth.nonce = config.accountNonce
    /\ validateSender => auth.signer = userOp.sender
    /\ userOp.factory \in (IF userOp.version = "0.6" THEN {Null} ELSE {Null, "0x7702"})
    /\ auth.delegate \in config.contracts

\* The preVerificationGas is computed from the limits before validateHandleOp
\* looks at them.  need is the gas the op turns out to need, perCall how many
\* iterations of a search one call of the node can pay for.
Estimated(need, perCall) ==
  LET price == GasPrice(client.got)
      l2 == IF price = Null /\ config.chainType \in {"op-stack", "mantle", "etherlink"} THEN Null
            ELSE EstimatedL2Component(config, client.got, userOp, price, BaseFee(client.got))
      limits == GasEstimates(userOp, need, perCall)
      final == IF AuthValid(FALSE) THEN ValidatedLimits(limits, need) ELSE Null
  IN
  /\ client.doing = "estimating"
  /\ SaveAll(Merged(Merged(OracleValues(config, client.got, userOp), FetchedPrice(client.got)),
                    FetchedBaseFee(client.got)))
  /\ IF l2 = Null \/ final = Null THEN Fails /\ UNCHANGED userOp
     ELSE /\ client' = [client EXCEPT !.doing = "idle", !.got = Null, !.need = need,
                          !.pricedAt = OldestSave(PricingWindows)]
          /\ userOp' = [WithLimits(userOp, final) EXCEPT
               !.preVerificationGas =
                 ScaleByPercent(ExecutionComponent(config, WithLimits(userOp, limits)) + l2,
                                PvgMultiplier)]
  /\ UNCHANGED <<config, now, reading, changes, task, started>>

-----------------------------------------------------------------------------
(* eth_sendUserOperation: the checks run side by side, and the first that  *)
(* refuses in the order below names the reason.                            *)

SkipsPricing == userOp.boost \/ userOp.apiVersion = "v1"

\* parseValidationData and mergeValidationData: 0 stands for no end.
Forever == 2 ^ 30

ValidUntil(v) == IF v.validUntil = 0 THEN Forever ELSE v.validUntil

Validity ==
  [validAfter |-> MaxOf(userOp.account.validAfter, userOp.paymaster.validAfter),
   validUntil |-> MinOf(ValidUntil(userOp.account), ValidUntil(userOp.paymaster))]

\* What the safe validator asks, with any configuration.
SafelyTimely ==
  /\ Validity.validAfter + SafeAge <= now
  /\ Validity.validUntil >= now + SafeExpiryMargin

\* What the other one asks: getValidationResultV06.
TimelyV06 ==
  config.expirationCheck =>
    Validity.validAfter <= now /\ Validity.validUntil >= now + ExpiryMargin

\* getValidationResultV07, which asks for validAfter with any configuration.
TimelyV07 ==
  /\ Validity.validAfter <= now
  /\ config.expirationCheck => Validity.validUntil >= now + ExpiryMargin

Timely ==
  \/ config.safeMode /\ SafelyTimely
  \/ ~config.safeMode /\ userOp.version = "0.6" /\ TimelyV06
  \/ ~config.safeMode /\ userOp.version # "0.6" /\ TimelyV07

\* calculateAA95GasFloor, of one op
GasFloor ==
  IF userOp.version = "0.6"
  THEN userOp.callGasLimit + 2 * userOp.verificationGasLimit + 35000 + 16 * userOp.txBytes
  ELSE ((userOp.callGasLimit + userOp.paymasterPostOpGasLimit + 10000) * 64) \div 63
       + userOp.verificationGasLimit + userOp.paymasterVerificationGasLimit
       + 30000 + 16 * userOp.txBytes

\* getGasPrice may have to ask the node: a window can only be empty without a
\* timer, or before its first refresh.
NeedsLive == MinValue(windows.maxFee) = Null \/ MinValue(windows.priority) = Null

PriceEnough ==
  LET lowest == LowestValidGasPrices(config, windows', OrElse(GasPrice(client.got), Price(0, 0)))
  IN /\ userOp.maxFeePerGas >= lowest.maxFeePerGas
     /\ userOp.maxPriorityFeePerGas >= lowest.maxPriorityFeePerGas

\* validatePvg; Null when it throws.
RequiredPvg ==
  LET l2 == RequiredL2Component(config, client.got, windows', userOp,
                                OrElse(GasPrice(client.got), Price(0, 0)), BaseFee(client.got))
  IN IF l2 = Null THEN Null ELSE ExecutionComponent(config, userOp) + l2

\* Why the op is refused: the first of the checks.  trace
\* is what the simulation of the validation shows in safe mode.
Refusal(trace) ==
  IF config.provenGasCap # Null
     /\ ScaleByPercent(GasFloor + (IF userOp.eip7702Auth = Null THEN 0 ELSE 40000), 105)
          > config.provenGasCap
    THEN "gasCap"
  ELSE IF ~Timely THEN "validity"
  ELSE IF config.safeMode /\ ~TraceAllowed(trace) THEN "opcode"
  ELSE IF ~SkipsPricing /\ NeedsLive /\ GasPrice(client.got) = Null THEN "error"
  ELSE IF ~AuthValid(TRUE) THEN "auth"
  ELSE IF config.legacyTransactions /\ userOp.maxFeePerGas # userOp.maxPriorityFeePerGas
    THEN "legacyFees"
  ELSE IF ~SkipsPricing /\ ~config.safeMode /\ ~PriceEnough THEN "fees"
  ELSE IF \/ userOp.verificationGasLimit < 10000
          \/ ~userOp.boost /\ userOp.preVerificationGas = 0
          \/ GasFloor > MaxGasPerBundle THEN "limits"
  ELSE IF ~SkipsPricing /\ RequiredPvg = Null THEN "error"
  ELSE IF ~SkipsPricing /\ RequiredPvg > userOp.preVerificationGas THEN "pvg"
  ELSE "accepted"

Send == Ask("sending")

Answered(trace) ==
  /\ client.doing = "sending"
  /\ SaveAll(IF SkipsPricing THEN Nothing
             ELSE Merged(IF config.chainType = "arbitrum"
                         THEN OracleValues(config, client.got, userOp) ELSE Nothing,
                  Merged(IF NeedsLive THEN FetchedPrice(client.got) ELSE Nothing,
                         IF config.chainType = "abstract" THEN FetchedBaseFee(client.got)
                         ELSE Nothing)))
  /\ client' = [client EXCEPT !.doing = "idle", !.got = Null, !.trace = trace,
                                !.outcome = Refusal(trace), !.at = now]
  /\ UNCHANGED <<config, userOp, now, reading, changes, task, started>>

-----------------------------------------------------------------------------

\* A behaviour ends with the answer to the submission.
AdmissionNext ==
  /\ client.outcome = "none"
  /\ \/ Tick \/ NodeChanges
     \/ \E t \in Tasks : \/ StartRefresh(t) \/ BaseFeeArrives(t) \/ PriceArrives(t)
                        \/ StartOther(t) \/ OtherArrives(t)
     \/ AskPrice \/ Quoted
     \/ AskEstimate
     \/ \E need \in config.needs, perCall \in config.perCall : Estimated(need, perCall)
     \/ Send \/ \E trace \in config.traces : Answered(trace)

AdmissionSpec == AdmissionInit /\ [][AdmissionNext]_admissionVars

-----------------------------------------------------------------------------

\* A window answers the smallest and the largest of the values that were at most
\* gasPriceExpiry old when the last one was saved, however the entries that newer
\* values made useless were dropped.
WindowsAreExact ==
  \A k \in Windows : saves[k] # {} =>
    LET last == CHOOSE s \in saves[k] : \A r \in saves[k] : r.timestamp <= s.timestamp
        recent == { s.value : s \in { r \in saves[k] : r.timestamp >= last.timestamp - GasPriceExpiry } }
    IN /\ MinValue(windows[k]) \in recent /\ \A v \in recent : MinValue(windows[k]) <= v
       /\ MaxValue(windows[k]) \in recent /\ \A v \in recent : MaxValue(windows[k]) >= v

\* An op that carries a quoted price is not refused for its fees before the
\* quoted values are older than the expiry, whatever refreshes, slow answers of
\* the node and other clients saved in between.
QuoteStaysValid ==
  (client.quote # Null /\ client.outcome \in {"fees", "legacyFees"})
    => client.at - client.quotedAt > GasPriceExpiry

\* An op that carries an estimate, sent with the limits it was given, is not
\* refused for its preVerificationGas before the values it was priced at are
\* older than the expiry.  On Abstract the current base fee counts at both
\* times, so there a lower base fee may refuse it.
EstimateStaysEnough ==
  (client.pricedAt # Null /\ client.outcome = "pvg")
    => \/ client.at - client.pricedAt > GasPriceExpiry
       \/ config.chainType = "abstract"

\* A quote pays at least its priority fee, though the two parts are kept in
\* separate windows and refreshes overlap.
QuoteIsOrdered ==
  client.quote # Null => client.quote.maxFeePerGas >= client.quote.maxPriorityFeePerGas

\* The limits of an estimate pass a simulation, and the call's is at most twice
\* what the search may miss, however often the search ran out of gas.
EstimateFitsNeed ==
  (client.need # Null /\ userOp.version # "0.6") =>
    /\ userOp.verificationGasLimit >= client.need.verification
    /\ userOp.callGasLimit >= client.need.call
    /\ userOp.callGasLimit <= 2 * (MaxOf(client.need.call, InitialMinGas)
                                   + BinarySearchToleranceDelta)

\* The storage that the entities of a trace without stake use, or write, outside
\* of the accounts of the two ops and of the EntryPoint.
UnstakedSlots(t, accounts, kept(_)) ==
  UNION { UNION { {addr} \X kept(t.levels[title].access[addr]) :
                    addr \in DOMAIN t.levels[title].access \ (accounts \cup {EntryPoint}) } :
          title \in { e \in Titles : t.levels[e] # NoEntity /\ ~IsStaked(t.infos[e]) } }

\* In safe mode no validation of another sender's op can undo the validation of
\* an admitted one: what the one's entities without stake write, the other's do
\* not use.  (An account's own storage is left to the mempool's storage maps.)
AdmittedAreIndependent ==
  (client.outcome = "accepted" /\ config.safeMode) =>
    \A other \in { t \in config.traces : t.sender # client.trace.sender /\ TraceAllowed(t) } :
      LET accounts == {client.trace.sender, other.sender}
          written(a) == a.writes
          used(a) == a.reads \cup a.writes
      IN /\ UnstakedSlots(client.trace, accounts, used)
              \cap UnstakedSlots(other, accounts, written) = {}
         /\ UnstakedSlots(client.trace, accounts, written)
              \cap UnstakedSlots(other, accounts, used) = {}
=============================================================================
