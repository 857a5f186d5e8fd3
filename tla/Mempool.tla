------------------------------ MODULE Mempool ------------------------------
(***************************************************************************)
(* The mempool of one entry point in safe mode (src/src/mempool/           *)
(* mempool.ts) over the memory stores: the handlers of                     *)
(* eth_sendUserOperation that add userOps, the bundling pass that packs    *)
(* them, and the executor that returns, drops or settles what it got.      *)
(*                                                                         *)
(* The memory stores answer without I/O, so a handler or the pass gives    *)
(* way to the others only while it waits for an answer of the chain: a     *)
(* validation, a hash, a stake or a deposit read.                          *)
(***************************************************************************)
EXTENDS SlotQueue, Reputation, Totals

LOCAL INSTANCE FiniteSetsExt

CONSTANTS
  Entities,                    \* senders, paymasters and factories
  Clients,                     \* concurrent eth_sendUserOperation requests
  Deposit,                     \* what each paymaster has in the entry point
  GasCeiling, ByteThreshold,   \* bundle caps
  GasLimitRoundingMultiple,    \* of the gas limit of a transaction
  MaxBundleCount,              \* bundles one pass may form
  ThrottledEntityBundleCount,
  EnforceUniqueSenders,        \* enforceUniqueSendersPerBundle
  SkipValidation,              \* dangerousSkipUserOperationValidation
  MaxNonceGap,                 \* 10
  MaxRequests, MaxPasses, MaxFaults    \* bounds

ASSUME MempoolAssumption ==
  /\ MaxBundleCount \in Nat \ {0}
  /\ EnforceUniqueSenders \in BOOLEAN /\ SkipValidation \in BOOLEAN
  /\ MaxNonceGap \in Nat
  /\ GasLimitRoundingMultiple \in Nat \ {0}
  /\ GasCeiling \in Nat /\ ByteThreshold \in Nat
  /\ MaxRequests \in Nat /\ MaxPasses \in Nat /\ MaxFaults \in Nat
  /\ Clients \cap Ops = {} /\ NoOp \notin Ops

\* What an op costs are numbers, and the entry point has an account of every
\* paymaster.
ASSUME OpsAssumption ==
  /\ NoEntity \notin Entities
  /\ \A e \in DOMAIN Deposit : Deposit[e] \in Nat
  /\ \A o \in Ops :
       /\ UserOp[o].maxFeePerGas \in Nat /\ UserOp[o].prefund \in Nat
       /\ UserOp[o].gas \in Nat /\ UserOp[o].bytes \in Nat
       /\ UserOp[o].paymaster \in {NoEntity} \cup DOMAIN Deposit

VARIABLES
  outstanding,    \* the queue of SlotQueue
  processing,     \* the two stores that hold picked userOps
  submitted,
  reputation,     \* the record of Reputation
  status,         \* what the monitor says of each userOp
  nonce,          \* the chain's next nonce of each slot
  call,           \* one add per client, and one resubmission per userOp
  pass,           \* the bundling pass
  executing,      \* bundles the executor owns: [pass, n, ops, stage]
  requests, passes, faults,    \* counters of the bounds
  forsaken,       \* userOps given up without a verdict, for a named reason
  stranded        \* userOps of a bundle whose pass threw

stores == <<outstanding, processing, submitted>>
history == <<forsaken, stranded>>
counters == <<requests, passes, faults>>
vars == <<stores, reputation, status, nonce, call, pass, executing, counters, history>>

Bytes(ops) == Total([i \in DOMAIN ops |-> UserOp[ops[i]].bytes])

NoCall == [pc |-> "idle", op |-> NoOp, queued |-> FALSE, displaced |-> NoOp]

\* A pass without a bundle: what process declares outside its loops.
NoPass ==
  [pc |-> "idle", hand |-> NoOp, fromCarry |-> FALSE, carry |-> NoOp,
   empty |-> FALSE, stop |-> FALSE, seen |-> {}, prior |-> {}, n |-> 0,
   bundle |-> <<>>, deposit |-> <<>>, staked |-> [e \in Entities |-> 0],
   senders |-> {}, known |-> {}]

Init ==
  /\ outstanding = EmptyQueue(Slots)
  /\ processing = {} /\ submitted = {}
  /\ reputation = [entries |-> <<>>, count |-> [e \in Entities |-> 0]]
  /\ status = [o \in Ops |-> "not_found"]
  /\ nonce = [s \in Slots |-> 0]
  /\ call = [c \in Clients \cup Ops |-> NoCall]
  /\ pass = NoPass
  /\ executing = {}
  /\ requests = 0 /\ passes = 0 /\ faults = 0
  /\ forsaken = {} /\ stranded = {}

Fault == faults < MaxFaults /\ faults' = faults + 1 /\ UNCHANGED <<requests, passes>>

-----------------------------------------------------------------------------
(* Adding a userOp.                                                        *)

QueueOps == UNION { OpsOf(outstanding.pendingOps[s]) : s \in Slots }

\* getQueuedUserOps: earlier ops of the slot, and ops of the same paymaster.
QueuedUserOps(o) ==
  Cardinality({ p \in QueueOps :
    \/ SlotOf(p) = SlotOf(o) /\ UserOp[p].nonceSeq < UserOp[o].nonceSeq
    \/ /\ UserOp[o].paymaster # NoEntity /\ UserOp[p].paymaster = UserOp[o].paymaster
       /\ ~(SlotOf(p) = SlotOf(o) /\ UserOp[p].nonceSeq = UserOp[o].nonceSeq) })

\* addToMempoolIfValid up to the nonce checks: the chain answered, and the
\* nonce is neither stale nor too far ahead.
Receive(c, o) ==
  /\ call[c].pc = "idle" /\ requests < MaxRequests
  /\ UserOp[o].nonceSeq >= nonce[SlotOf(o)]
  /\ UserOp[o].nonceSeq <= nonce[SlotOf(o)] + MaxNonceGap
  /\ call' = [call EXCEPT ![c] =
       [NoCall EXCEPT !.pc = "received", !.op = o,
                      !.queued = UserOp[o].nonceSeq > nonce[SlotOf(o)] + QueuedUserOps(o)]]
  /\ requests' = requests + 1
  /\ UNCHANGED <<stores, reputation, status, nonce, pass, executing, passes, faults, history>>

KnownSenders == { UserOp[o].sender : o \in QueueOps }
KnownOthers == UNION { EntitiesIn(o, {"paymaster", "factory"}) : o \in QueueOps }

\* checkEntityMultipleRoleViolation
PlaysTwoRoles(o) ==
  \/ UserOp[o].sender \in KnownOthers
  \/ EntitiesIn(o, {"paymaster", "factory"}) \cap KnownSenders # {}

\* addToMempoolIfValid after the nonce checks.  A queued op and one whose
\* validation is skipped go straight to add; the counts of any other op rise
\* before it is judged and stay when it is refused.
Admit(c) ==
  /\ call[c].pc = "received"
  /\ LET o == call[c].op
         counted == IncreaseUserOpCount(reputation, o)
         admitted == CheckReputation(counted, o) /\ ~PlaysTwoRoles(o)
     IN IF call[c].queued \/ SkipValidation
          THEN /\ call' = [call EXCEPT ![c].pc = "check"]
               /\ UNCHANGED reputation
          ELSE /\ reputation' = counted
               /\ call' = [call EXCEPT ![c] =
                    IF admitted THEN [@ EXCEPT !.pc = "check"] ELSE NoCall]
  /\ UNCHANGED <<stores, status, nonce, pass, executing, counters, history>>

\* Mutant: a resubmitted op that is refused keeps its status.
RefuseSilently(c) ==
  /\ call' = [call EXCEPT ![c] = NoCall]
  /\ processing' = processing \ {c}
  /\ submitted' = submitted \ {c}
  /\ UNCHANGED status

\* add refuses: a client gets the error; a resubmitted op is dropped.
Refuse(c) ==
  /\ call' = [call EXCEPT ![c] = NoCall]
  /\ IF c \in Ops
       THEN /\ processing' = processing \ {c}
            /\ submitted' = submitted \ {c}
            /\ status' = [status EXCEPT ![c] = "rejected"]
       ELSE UNCHANGED <<processing, submitted, status>>

InMempool(o) == Queued(outstanding, o) \/ o \in processing \cup submitted

ScaledBy110(fee) == (fee * 110) \div 100

HasHigherFees(o, p) ==
  /\ UserOp[o].maxPriorityFeePerGas >= ScaledBy110(UserOp[p].maxPriorityFeePerGas)
  /\ UserOp[o].maxFeePerGas >= ScaledBy110(UserOp[p].maxFeePerGas)

BeingProcessed(o) == \E p \in processing \cup submitted : Conflicts(o, p)

\* add up to its stake read: isInMempool and validateSubmittedOrProcessing may
\* refuse the op; a conflicting op leaves the queue and is put back, or is
\* displaced by higher fees.
Check(c) ==
  /\ call[c].pc = "check"
  /\ LET o == call[c].op IN
     \/ /\ InMempool(o) \/ BeingProcessed(o)
        /\ Refuse(c)
        /\ UNCHANGED <<outstanding, forsaken>>
     \/ /\ ~InMempool(o) /\ ~BeingProcessed(o)
        /\ Conflicting(outstanding, o) = {}
        /\ call' = [call EXCEPT ![c].pc = "count"]
        /\ UNCHANGED <<stores, status, forsaken>>
     \/ /\ ~InMempool(o) /\ ~BeingProcessed(o)
        /\ \E p \in Conflicting(outstanding, o) :
             IF HasHigherFees(o, p)
               THEN /\ outstanding' = Removed(outstanding, p)
                    /\ call' = [call EXCEPT ![c].pc = "replace", ![c].displaced = p]
                    /\ forsaken' = forsaken \cup { q \in {p} : ~Queued(outstanding', q) }
                    /\ UNCHANGED <<processing, submitted, status>>
               ELSE /\ outstanding' = Added(Removed(outstanding, p), p)
                    /\ Refuse(c)
                    /\ UNCHANGED forsaken
  /\ UNCHANGED <<reputation, nonce, pass, executing, counters, stranded>>

\* replaceUserOpSeenStatus, once the stake of the sender is read.
Replace(c) ==
  /\ call[c].pc = "replace"
  /\ reputation' = ReplaceUserOpSeenStatus(reputation, call[c].displaced)
  /\ call' = [call EXCEPT ![c].pc = "count"]
  /\ UNCHANGED <<stores, status, nonce, pass, executing, counters, history>>

\* increaseUserOpSeenStatus, once the stake is read, then the op is queued.
Queue(c) ==
  /\ call[c].pc = "count"
  /\ reputation' = IncreaseUserOpSeenStatus(reputation, call[c].op)
  /\ outstanding' = Added(outstanding, call[c].op)
  /\ status' = [status EXCEPT ![call[c].op] = "not_submitted"]
  /\ call' = [call EXCEPT ![c] = NoCall]
  /\ forsaken' = forsaken \ {call[c].op}
  /\ UNCHANGED <<processing, submitted, nonce, pass, executing, counters, stranded>>

\* The stake read throws: add rejects, and neither the op nor the one it
\* displaced is in the queue.
StakeReadFails(c) ==
  /\ call[c].pc \in {"replace", "count"} /\ Fault
  /\ call' = [call EXCEPT ![c] = NoCall]
  /\ forsaken' = forsaken \cup ({c} \cap Ops)
  /\ UNCHANGED <<stores, reputation, status, nonce, pass, executing, stranded>>

-----------------------------------------------------------------------------
(* The bundling pass: process.                                             *)

\* A pass starts when the queue has a ready op.
StartPass ==
  /\ pass.pc = "idle" /\ passes < MaxPasses
  /\ outstanding.priorityQueue # <<>>
  /\ pass' = [NoPass EXCEPT !.pc = "setup"]
  /\ passes' = passes + 1
  /\ UNCHANGED <<stores, reputation, status, nonce, call, executing, requests, faults, history>>

MoreBundles ==
  (pass.carry # NoOp \/ ~pass.empty) /\ pass.n < MaxBundleCount /\ ~pass.stop

\* The state of one bundle; the carried op is added to the known entities.
SetupBundle ==
  /\ pass.pc = "setup" /\ MoreBundles
  /\ pass' = [pass EXCEPT
       !.pc = "select", !.bundle = <<>>, !.deposit = <<>>, !.senders = {},
       !.staked = [e \in Entities |-> 0],
       !.known = KnownSenders \cup { UserOp[o].sender : o \in {pass.carry} \ {NoOp} }]
  /\ UNCHANGED <<stores, reputation, status, nonce, call, executing, counters, history>>

\* Mutant: a pass that throws forgets what it carries.
FinishWithoutCarry ==
  /\ \/ pass.pc = "setup" /\ ~MoreBundles
     \/ pass.pc = "finish"
  /\ outstanding' = IF pass.carry = NoOp \/ pass.pc = "finish"
                      THEN outstanding ELSE Added(outstanding, pass.carry)
  /\ pass' = NoPass
  /\ UNCHANGED <<processing, submitted, reputation, status, nonce, call, executing,
                 counters, history>>

\* The pass returns or throws; the finally writes back what is still carried.
Finish ==
  /\ \/ pass.pc = "setup" /\ ~MoreBundles
     \/ pass.pc = "finish"
  /\ outstanding' = IF pass.carry = NoOp THEN outstanding
                                         ELSE Added(outstanding, pass.carry)
  /\ pass' = NoPass
  /\ UNCHANGED <<processing, submitted, reputation, status, nonce, call, executing,
                 counters, history>>

\* Nothing to pop: the bundle is complete.
SelectNothing ==
  /\ pass.pc = "select" /\ pass.carry = NoOp
  /\ pass.empty \/ outstanding.priorityQueue = <<>>
  /\ pass' = [pass EXCEPT !.empty = TRUE, !.pc = "bundled"]
  /\ UNCHANGED <<stores, reputation, status, nonce, call, executing, counters, history>>

HasStatus(o, verdict) ==
  \E e \in EntitiesIn(o, {"paymaster", "factory"}) : GetStatus(reputation, e) = verdict

\* shouldSkip before it validates: the op is handed back.
MustWait(o) ==
  \/ \E e \in EntitiesIn(o, {"paymaster", "factory"}) :
       /\ GetStatus(reputation, e) = "throttled"
       /\ pass.staked[e] >= ThrottledEntityBundleCount
  \/ EnforceUniqueSenders /\ UserOp[o].sender \in pass.senders

\* What becomes of a selected op up to its validation; q is the queue without
\* it.  A slot that an earlier bundle of the pass holds ends the pass, a banned
\* entity makes the op vanish.
Judge(o, q, p) ==
  IF SlotOf(o) \in p.prior
    THEN /\ outstanding' = Added(q, o)
         /\ pass' = [p EXCEPT !.carry = NoOp, !.stop = TRUE, !.pc = "bundled"]
         /\ UNCHANGED forsaken
  ELSE IF HasStatus(o, "banned")
    THEN /\ outstanding' = q
         /\ pass' = [p EXCEPT !.carry = NoOp]
         /\ forsaken' = forsaken \cup {o}
  ELSE IF MustWait(o)
    THEN /\ outstanding' = Added(q, o)
         /\ pass' = [p EXCEPT !.carry = NoOp]
         /\ UNCHANGED forsaken
  ELSE /\ outstanding' = q
       /\ pass' = [p EXCEPT !.pc = "validate", !.hand = o]
       /\ UNCHANGED forsaken

\* The carried op comes first; the carry keeps it until it is accepted or skipped.
SelectCarried ==
  /\ pass.pc = "select" /\ pass.carry # NoOp
  /\ Judge(pass.carry, outstanding, [pass EXCEPT !.fromCarry = TRUE])
  /\ UNCHANGED <<processing, submitted, reputation, status, nonce, call, executing,
                 counters, stranded>>

\* Mutant: the repeat guard is missing.
SelectAny ==
  /\ pass.pc = "select" /\ pass.carry = NoOp
  /\ ~pass.empty /\ outstanding.priorityQueue # <<>>
  /\ LET o == Head(outstanding.priorityQueue) IN
     Judge(o, Popped(outstanding), [pass EXCEPT !.seen = @ \cup {o}, !.fromCarry = FALSE])
  /\ UNCHANGED <<processing, submitted, reputation, status, nonce, call, executing,
                 counters, stranded>>

\* A popped op; one that this pass saw before goes back and ends the pass.
SelectPopped ==
  /\ pass.pc = "select" /\ pass.carry = NoOp
  /\ ~pass.empty /\ outstanding.priorityQueue # <<>>
  /\ LET o == Head(outstanding.priorityQueue)
         q == Popped(outstanding)
     IN IF o \in pass.seen
          THEN /\ outstanding' = Added(q, o)
               /\ pass' = [pass EXCEPT !.stop = TRUE, !.pc = "bundled"]
               /\ UNCHANGED forsaken
          ELSE Judge(o, q, [pass EXCEPT !.seen = @ \cup {o}, !.fromCarry = FALSE])
  /\ UNCHANGED <<processing, submitted, reputation, status, nonce, call, executing,
                 counters, stranded>>

\* The op in hand goes back to the queue and the pass takes the next one.
HandBack(q) ==
  /\ outstanding' = Added(q, pass.hand)
  /\ pass' = [pass EXCEPT !.carry = NoOp, !.hand = NoOp, !.pc = "select"]

\* The second validation fails.  removeOutstanding finds another copy at most,
\* for the op itself was popped; the reads of decreaseUserOpSeenStatus are not
\* waited for, which is abstracted.
ValidationFails ==
  /\ pass.pc = "validate"
  /\ \/ /\ UserOp[pass.hand].nonceSeq < nonce[SlotOf(pass.hand)]
        /\ UNCHANGED counters
     \/ Fault
  /\ HandBack(Removed(outstanding, pass.hand))
  /\ \E isAA3 \in BOOLEAN :
       reputation' = DecreaseUserOpSeenStatus(reputation, pass.hand, isAA3)
  /\ UNCHANGED <<processing, submitted, status, nonce, call, executing, history>>

\* The second validation passes, and the storage the op touches tells whether
\* it may share a bundle with the known senders.
Validated ==
  /\ pass.pc = "validate"
  /\ UserOp[pass.hand].nonceSeq >= nonce[SlotOf(pass.hand)]
  /\ IF (UserOp[pass.hand].touches \ {UserOp[pass.hand].sender}) \cap pass.known # {}
       THEN HandBack(outstanding)
       ELSE /\ pass' = [pass EXCEPT !.pc =
                 IF UserOp[pass.hand].paymaster \in {NoEntity} \cup DOMAIN pass.deposit
                   THEN "sponsor" ELSE "deposit"]
            /\ UNCHANGED outstanding
  /\ UNCHANGED <<processing, submitted, reputation, status, nonce, call, executing,
                 counters, history>>

\* balanceOf answers.
ReadDeposit ==
  /\ pass.pc = "deposit"
  /\ LET pm == UserOp[pass.hand].paymaster IN
     pass' = [pass EXCEPT !.pc = "sponsor",
                !.deposit = [e \in DOMAIN @ \cup {pm} |-> IF e = pm THEN Deposit[pm] ELSE @[e]]]
  /\ UNCHANGED <<stores, reputation, status, nonce, call, executing, counters, history>>

\* balanceOf throws through process.  A carried op is written back; a popped one,
\* and the ops of the bundle in progress, are in no flow any more.
DepositReadFails ==
  /\ pass.pc = "deposit" /\ Fault
  /\ pass' = [pass EXCEPT !.pc = "finish", !.hand = NoOp, !.bundle = <<>>]
  /\ stranded' = stranded \cup OpsOf(pass.bundle)
  /\ forsaken' = forsaken \cup OpsOf(pass.bundle) \cup ({pass.hand} \ {pass.carry})
  /\ UNCHANGED <<stores, reputation, status, nonce, call, executing>>

\* gasUsed and eip7702Overhead: "gas" is the AA95 floor of an op.
GasWithOverhead(ops) ==
  Total([i \in DOMAIN ops |-> UserOp[ops[i]].gas + (IF UserOp[ops[i]].authorizes THEN 40000 ELSE 0)])

\* scaleBigIntByPercent of 105.
WithMargin(gas) == gas + gas \div 20

\* Mutant: the pass projects the bare floor, the sender adds its margin of 5 %.
ExceedsByFloor(ops) == GasWithOverhead(ops) > GasCeiling \/ Bytes(ops) > ByteThreshold

\* The caps hold against what the bundle with the candidate is expected to need.
Exceeds(ops) ==
  \/ WithMargin(GasWithOverhead(ops)) > GasCeiling
  \/ Bytes(ops) > ByteThreshold

\* getBundleGasLimit, estimated locally.
BundleGasLimit(ops) == WithMargin(GasWithOverhead(ops))

RoundUp(value, multiple) == ((value + multiple - 1) \div multiple) * multiple

\* The gas limit of the first send, executorGasMultiplier being 100.
SentGas(ops) == RoundUp(BundleGasLimit(ops), GasLimitRoundingMultiple)

\* Mutant: the prefund is not deducted from what is left of the deposit.
SponsoredWithoutDeduction(p, o) ==
  [p EXCEPT !.senders = @ \cup {UserOp[o].sender},
            !.staked = [e \in Entities |-> @[e] + TimesIn(o, {"paymaster", "factory"}, e)]]

\* shouldSkip after the deposit: the op's claims on this bundle.
Sponsored(p, o) ==
  [p EXCEPT !.senders = @ \cup {UserOp[o].sender},
            !.staked = [e \in Entities |-> @[e] + TimesIn(o, {"paymaster", "factory"}, e)],
            !.deposit = [e \in DOMAIN @ |-> IF e = UserOp[o].paymaster THEN @[e] - UserOp[o].prefund ELSE @[e]]]

DepositSuffices(p, o) == UserOp[o].paymaster # NoEntity => p.deposit[UserOp[o].paymaster] >= UserOp[o].prefund

\* The deposit left in this bundle does not cover the op.
SkipUnsponsored ==
  /\ pass.pc = "sponsor" /\ ~DepositSuffices(pass, pass.hand)
  /\ HandBack(outstanding)
  /\ UNCHANGED <<processing, submitted, reputation, status, nonce, call, executing,
                 counters, history>>

\* The op would push a bundle over a cap: it is carried into the next one.
Defer ==
  /\ pass.pc = "sponsor" /\ DepositSuffices(pass, pass.hand)
  /\ pass.bundle # <<>> /\ Exceeds(Append(pass.bundle, pass.hand))
  /\ pass' = [Sponsored(pass, pass.hand) EXCEPT
                !.carry = pass.hand, !.hand = NoOp, !.pc = "bundled"]
  /\ UNCHANGED <<stores, reputation, status, nonce, call, executing, counters, history>>

\* The bundle takes the op, a lone one whatever its size.
Accept ==
  /\ pass.pc = "sponsor" /\ DepositSuffices(pass, pass.hand)
  /\ pass.bundle = <<>> \/ ~Exceeds(Append(pass.bundle, pass.hand))
  /\ pass' = [Sponsored(pass, pass.hand) EXCEPT
                !.carry = NoOp, !.hand = NoOp, !.pc = "select",
                !.bundle = Append(@, pass.hand)]
  /\ reputation' = DecreaseUserOpCount(reputation, pass.hand)
  /\ processing' = processing \cup {pass.hand}
  /\ UNCHANGED <<outstanding, submitted, status, nonce, call, executing, counters, history>>

SlotsOf(ops) == { SlotOf(o) : o \in OpsOf(ops) }

\* Mutant: the slots of the bundle are not remembered.
NextBundleForgetsSlots(p) == [p EXCEPT !.bundle = <<>>, !.n = @ + 1, !.pc = "setup"]

\* The pass goes on after a bundle.
NextBundle(p) ==
  [p EXCEPT !.bundle = <<>>, !.n = @ + 1, !.pc = "setup",
            !.prior = @ \cup SlotsOf(p.bundle)]

\* A bundle is complete: onBundle takes it over while the pass goes on.
HandOver ==
  /\ pass.pc = "bundled"
  /\ IF pass.bundle = <<>>
       THEN pass' = [pass EXCEPT !.pc = "setup"] /\ UNCHANGED executing
       ELSE /\ executing' = executing \cup
                 {[pass |-> passes, n |-> pass.n, ops |-> pass.bundle, stage |-> "processing"]}
            /\ pass' = NextBundle(pass)
  /\ UNCHANGED <<stores, reputation, status, nonce, call, counters, history>>

-----------------------------------------------------------------------------
(* What the executor does with a bundle.                                   *)

\* resubmitUserOps: the ops leave both stores and are added again, each on its
\* own.
Resubmit(ops) ==
  /\ \A o \in ops : call[o].pc = "idle"
  /\ processing' = processing \ ops
  /\ submitted' = submitted \ ops
  /\ call' = [c \in DOMAIN call |->
                IF c \in ops THEN [NoCall EXCEPT !.pc = "check", !.op = c] ELSE call[c]]

\* onBundle throws before it accepts: the ops are resubmitted, then the pass
\* throws.
HandOverFails ==
  /\ pass.pc = "bundled" /\ pass.bundle # <<>> /\ Fault
  /\ Resubmit(OpsOf(pass.bundle))
  /\ pass' = [NextBundle(pass) EXCEPT !.pc = "returning"]
  /\ UNCHANGED <<outstanding, reputation, status, nonce, executing, history>>

BundleReturned ==
  /\ pass.pc = "returning"
  /\ \A o \in Ops : call[o].pc = "idle"
  /\ pass' = [pass EXCEPT !.pc = "finish"]
  /\ UNCHANGED <<stores, reputation, status, nonce, call, executing, counters, history>>

\* markUserOpsAsSubmitted
MarkSubmitted(b) ==
  /\ b.stage = "processing"
  /\ processing' = processing \ OpsOf(b.ops)
  /\ submitted' = submitted \cup OpsOf(b.ops)
  /\ status' = [o \in Ops |-> IF o \in OpsOf(b.ops) THEN "submitted" ELSE status[o]]
  /\ executing' = (executing \ {b}) \cup {[b EXCEPT !.stage = "submitted"]}
  /\ UNCHANGED <<outstanding, reputation, nonce, call, pass, counters, history>>

\* The executor gives a bundle back after a failure it can recover from.
Requeue(b) ==
  /\ Fault
  /\ Resubmit(OpsOf(b.ops))
  /\ executing' = executing \ {b}
  /\ UNCHANGED <<outstanding, reputation, status, nonce, pass, history>>

\* Mutant: an op is dropped from the submitted store only.
DropKeepsProcessing(b) ==
  /\ Fault
  /\ submitted' = submitted \ OpsOf(b.ops)
  /\ status' = [o \in Ops |-> IF o \in OpsOf(b.ops) THEN "rejected" ELSE status[o]]
  /\ executing' = executing \ {b}
  /\ UNCHANGED <<outstanding, processing, reputation, nonce, call, pass, history>>

\* dropUserOps
Drop(b) ==
  /\ Fault
  /\ processing' = processing \ OpsOf(b.ops)
  /\ submitted' = submitted \ OpsOf(b.ops)
  /\ status' = [o \in Ops |-> IF o \in OpsOf(b.ops) THEN "rejected" ELSE status[o]]
  /\ executing' = executing \ {b}
  /\ UNCHANGED <<outstanding, reputation, nonce, call, pass, history>>

\* The chain executes a bundle in the order of its nonces and its ops are settled.
Settle(b) ==
  /\ b.stage = "submitted"
  /\ \A i \in DOMAIN b.ops :
       UserOp[b.ops[i]].nonceSeq = nonce[SlotOf(b.ops[i])]
         + Cardinality({ k \in 1 .. i - 1 : SlotOf(b.ops[k]) = SlotOf(b.ops[i]) })
  /\ nonce' = [s \in Slots |-> nonce[s]
                 + Cardinality({ i \in DOMAIN b.ops : SlotOf(b.ops[i]) = s })]
  /\ submitted' = submitted \ OpsOf(b.ops)
  /\ status' = [o \in Ops |-> IF o \in OpsOf(b.ops) THEN "included" ELSE status[o]]
  /\ reputation' = FoldSet(LAMBDA o, r : UpdateUserOpIncludedStatus(r, o, UserOp[o].deploys),
                           reputation, OpsOf(b.ops))
  /\ executing' = executing \ {b}
  /\ UNCHANGED <<outstanding, processing, call, pass, counters, history>>

PassStep ==
  \/ StartPass \/ SetupBundle \/ Finish
  \/ SelectNothing \/ SelectCarried \/ SelectPopped
  \/ ValidationFails \/ Validated \/ ReadDeposit \/ DepositReadFails
  \/ SkipUnsponsored \/ Defer \/ Accept
  \/ HandOver \/ HandOverFails \/ BundleReturned

\* The pass waits for the chain, or for the ops it resubmits.
PassWaits == pass.pc \in {"idle", "validate", "deposit", "returning"}

CallStep(c) ==
  /\ PassWaits
  /\ Admit(c) \/ Check(c) \/ Replace(c) \/ Queue(c) \/ StakeReadFails(c)

BundleStep(b) ==
  /\ PassWaits
  /\ MarkSubmitted(b) \/ Requeue(b) \/ Drop(b) \/ Settle(b)

Next ==
  \/ PassStep
  \/ PassWaits /\ \E c \in Clients, o \in Ops : Receive(c, o)
  \/ \E c \in Clients \cup Ops : CallStep(c)
  \/ \E b \in executing : BundleStep(b)

\* Every answer the chain owes arrives, so calls and the pass go on.
Fairness ==
  /\ WF_vars(PassStep)
  /\ \A c \in Clients \cup Ops : WF_vars(CallStep(c))

Spec == Init /\ [][Next]_vars /\ Fairness

-----------------------------------------------------------------------------

Bundles == { b.ops : b \in executing } \cup {pass.bundle}

TimesInSeq(s, o) == Cardinality({ i \in DOMAIN s : s[i] = o })

\* The copies of an accepted op: in the queue, in the pass, with the executor,
\* or on the way back to the queue.
Copies(o) ==
  TimesInSeq(outstanding.pendingOps[SlotOf(o)], o)
  + Cardinality({ p \in {pass.hand, pass.carry} : p = o })
  + TimesInSeq(pass.bundle, o)
  + Total([b \in executing |-> TimesInSeq(b.ops, o)])
  + (IF call[o].pc = "idle" THEN 0 ELSE 1)

\* ADR 0005: the nonces of one sender and key never sit in two bundles of one
\* pass, for the later bundle would be simulated before the earlier one lands.
\* Slots are recorded at the end of a bundle and read when an op is selected or
\* carried over, with requests and give-backs in between.
ChainsDoNotSpan ==
  /\ \A b, d \in executing :
       b # d /\ b.pass = d.pass => SlotsOf(b.ops) \cap SlotsOf(d.ops) = {}
  /\ \A b \in executing :
       b.pass = passes => SlotsOf(b.ops) \cap SlotsOf(pass.bundle) = {}

\* A pass neither loses nor multiplies what it handles: each of its steps leaves
\* an op that was somewhere in some place, in no more copies than before, unless
\* the op is given up for a named reason (a banned entity, a deposit read that
\* throws).  The carry slot and the finally of process exist for this.
PassConserves ==
  [][pass' # pass =>
       \A o \in Ops : /\ Copies(o)' <= Copies(o)
                      /\ Copies(o) > 0 => Copies(o)' > 0 \/ o \in forsaken']_vars

\* What the monitor reports as pending is pending: an op that the status calls
\* not submitted or submitted is held by the queue, the pass, the executor or a
\* resubmission, or was given up for a named reason.
AcceptedIsHeld ==
  \A o \in Ops : status[o] \in {"not_submitted", "submitted"} =>
    Copies(o) > 0 \/ o \in forsaken

\* CONTEXT.md: leaving a stage erases every record held for that stage.  An op
\* in a store of picked ops is in a bundle of the pass or of the executor; a
\* stale record would refuse the sender's nonce for ever.
StoresHaveOwners ==
  /\ processing \subseteq (UNION { OpsOf(ops) : ops \in Bundles }) \cup stranded
  /\ submitted \subseteq
       UNION { OpsOf(b.ops) : b \in { d \in executing : d.stage = "submitted" } }

\* What the ops of a bundle may take from the deposit of a paymaster.
Prefunds(ops, e) ==
  Total([i \in DOMAIN ops |-> IF UserOp[ops[i]].paymaster = e THEN UserOp[ops[i]].prefund ELSE 0])

\* The prefunds of one bundle never exceed the deposit of a paymaster, however
\* often ops are skipped, handed back and carried over meanwhile.
PrefundsCovered ==
  \A ops \in Bundles : \A e \in Entities :
    Prefunds(ops, e) <= (IF e \in DOMAIN Deposit THEN Deposit[e] ELSE 0)

\* A bundle of several ops obeys both caps as it is sent, wherever its ops came
\* from.  Its gas limit is rounded up after the pass has held it against the cap,
\* so it is the rounded cap that it obeys.
WithinCaps ==
  \A ops \in Bundles : Len(ops) > 1 =>
    /\ SentGas(ops) <= RoundUp(GasCeiling, GasLimitRoundingMultiple)
    /\ Bytes(ops) <= ByteThreshold

\* CONTEXT.md, Deployment operation: "At most one deployment operation per
\* sender may be pending at a time; a newer one displaces the older".
OneDeployment ==
  \A o, p \in Ops :
    o # p /\ Conflicts(o, p) /\ UserOp[o].deploys /\ UserOp[p].deploys => Copies(o) = 0 \/ Copies(p) = 0

\* A pass ends, although what it hands back is ready again at once.  Every
\* answer of the chain arrives, and a client adds finitely many ops.
PassEnds == pass.pc # "idle" ~> pass.pc = "idle"
=============================================================================
