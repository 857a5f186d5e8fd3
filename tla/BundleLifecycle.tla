-------------------------- MODULE BundleLifecycle --------------------------
(***************************************************************************)
(* The life of a bundle after the mempool handed it over: the executor     *)
(* manager gets it a wallet, simulates and broadcasts it, tracks the       *)
(* transaction block by block, replaces it or rotates it to another        *)
(* wallet, and settles its userOps                                         *)
(* (src/src/executor/{executorManager,bundleManager,executor}.ts with the  *)
(* stores of src/src/mempool/mempool.ts).                                  *)
(*                                                                         *)
(* A job is one call of sendBundleToExecutor with everything that follows  *)
(* from it.  One action is what a job does between two awaits of the       *)
(* network, a wallet or a timer.  The chain is the environment.  Every     *)
(* failure of a dependency costs one unit of the budget "faults".          *)
(***************************************************************************)
EXTENDS Naturals, FiniteSets

CONSTANTS
  Ops,                \* userOps, each with a sender and nonce of its own
  Wallets,            \* the executor accounts
  Jobs,               \* concurrent bundles
  NoWallet,
  FaultKinds,         \* the failures that may happen
  MaxFaults,          \* bound: how many of them happen
  MaxStuckAttempts,   \* maxStuckAttemptsBeforeRotation
  MaxCancelAttempts,  \* MAX_CANCEL_ATTEMPTS (line 1379)
  ClearToRelease      \* QUARANTINE_CLEAR_OBSERVATIONS_TO_RELEASE (line 71)

ASSUME LifecycleAssumption ==
  /\ IsFiniteSet(Wallets)
  /\ NoWallet \notin Wallets
  /\ MaxFaults \in Nat
  /\ MaxStuckAttempts \in Nat \ {0}
  /\ MaxCancelAttempts \in Nat
  /\ ClearToRelease \in Nat \ {0}

VARIABLES
  \* mempool and monitor
  outstanding, processing, submitted,   \* the userOps in each store
  status,             \* what the monitor answers for each userOp
  dropping,           \* userOps whose drop runs in the background
  \* jobs
  pc,                 \* what the job does next
  bundle,             \* the userOps it still carries
  rejected,           \* the userOps the simulation rejected
  aa25,               \* whether one was rejected for a used nonce
  wallet,             \* the executor account
  nonce,              \* transactionRequest.nonce, as recorded
  txs,                \* transactionHash and previousTransactionHashes
  attempts,           \* submissionAttempts of the tracked bundle
  \* wallets
  available,          \* the sender manager's pool
  cancelsInFlight, quarantined,
  stuckNonce,         \* recorded nonce of a rotated-away transaction
  cancelsLeft,        \* cancel broadcasts left
  clearObservations,  \* consecutive "no tx in flight" readings
  \* chain
  latest,             \* the next nonce of each account
  pending,            \* transactions that can still be mined
  minedOk, minedBad,  \* mined bundles, executed or reverted
  foreign,            \* userOps another bundler included
  faults              \* failures that may still happen

mempoolVars == <<outstanding, processing, submitted, status, dropping>>
jobVars == <<pc, bundle, rejected, aa25, wallet, nonce, txs, attempts>>
cancelVars == <<cancelsInFlight, quarantined, stuckNonce, cancelsLeft,
                clearObservations>>
chainVars == <<latest, pending, minedOk, minedBad, foreign>>
vars == <<mempoolVars, jobVars, available, cancelVars, chainVars, faults>>

Tx(w, n, S) == [executor |-> w, nonce |-> n, ops |-> S]

Transactions == [executor : Wallets, nonce : Nat, ops : SUBSET Ops]

OnChain == foreign \cup UNION { t.ops : t \in minedOk }

Fault(kind) ==
  /\ kind \in FaultKinds
  /\ faults > 0
  /\ faults' = faults - 1

\* Nothing unusual, or a fault that makes the userOps in S the victims.
MayFault(kind, S) ==
  IF S = {} THEN UNCHANGED faults ELSE Fault(kind)

Init ==
  /\ outstanding = {} /\ processing = {} /\ submitted = {} /\ dropping = {}
  /\ status = [o \in Ops |-> "none"]
  /\ pc = [j \in Jobs |-> "idle"]
  /\ bundle = [j \in Jobs |-> {}]
  /\ rejected = [j \in Jobs |-> {}]
  /\ aa25 = [j \in Jobs |-> FALSE]
  /\ wallet = [j \in Jobs |-> NoWallet]
  /\ nonce = [j \in Jobs |-> 0]
  /\ txs = [j \in Jobs |-> {}]
  /\ attempts = [j \in Jobs |-> 0]
  /\ available = Wallets
  /\ cancelsInFlight = {} /\ quarantined = {}
  /\ stuckNonce = [w \in Wallets |-> 0]
  /\ cancelsLeft = [w \in Wallets |-> 0]
  /\ clearObservations = [w \in Wallets |-> 0]
  /\ latest = [w \in Wallets |-> 0]
  /\ pending = {} /\ minedOk = {} /\ minedBad = {} /\ foreign = {}
  /\ faults = MaxFaults

-----------------------------------------------------------------------------
(* The mempool's methods.                                                  *)

SetStatus(S, value) ==
  status' = [o \in Ops |-> IF o \in S THEN value ELSE status[o]]

\* Mutant: the record of a submitted userOp stays.
ResubmitKeepsSubmitted(S) ==
  /\ outstanding' = outstanding \cup S
  /\ processing' = processing \ S
  /\ UNCHANGED submitted
  /\ SetStatus(S, "not_submitted")

\* resubmitUserOps
Resubmit(S) ==
  /\ outstanding' = outstanding \cup S
  /\ processing' = processing \ S
  /\ submitted' = submitted \ S
  /\ SetStatus(S, "not_submitted")

\* dropUserOps
DropUserOps(S) ==
  /\ processing' = processing \ S
  /\ submitted' = submitted \ S
  /\ SetStatus(S, "rejected")

-----------------------------------------------------------------------------
(* A job's local steps.                                                    *)

Goto(j, label) == pc' = [pc EXCEPT ![j] = label]

\* The job is over and forgets everything.
Finish(j) ==
  /\ Goto(j, "idle")
  /\ bundle' = [bundle EXCEPT ![j] = {}]
  /\ rejected' = [rejected EXCEPT ![j] = {}]
  /\ aa25' = [aa25 EXCEPT ![j] = FALSE]
  /\ wallet' = [wallet EXCEPT ![j] = NoWallet]
  /\ nonce' = [nonce EXCEPT ![j] = 0]
  /\ txs' = [txs EXCEPT ![j] = {}]
  /\ attempts' = [attempts EXCEPT ![j] = 0]

\* What the simulation leaves to send and what it rejects.
Split(j, keep, reject, nonceUsed) ==
  /\ bundle' = [bundle EXCEPT ![j] = keep]
  /\ rejected' = [rejected EXCEPT ![j] = reject]
  /\ aa25' = [aa25 EXCEPT ![j] = nonceUsed]

\* A bundle that was sent before is replaced, not sent anew.
Replacing(j) == txs[j] # {}

\* The userOps a job still has to requeue, settle or drop.
Owned(j) == bundle[j] \cup rejected[j]

-----------------------------------------------------------------------------
(* From the mempool to a simulated bundle.                                 *)

\* A client's userOp enters the mempool.
Add(o) ==
  /\ status[o] = "none"
  /\ outstanding' = outstanding \cup {o}
  /\ SetStatus({o}, "not_submitted")
  /\ UNCHANGED <<processing, submitted, dropping, jobVars, available,
                 cancelVars, chainVars, faults>>

\* A bundling pass moves userOps to processing and hands the bundle over.
StartBundle(j) ==
  /\ pc[j] = "idle"
  /\ \E S \in SUBSET outstanding \ {{}} :
       /\ outstanding' = outstanding \ S
       /\ processing' = processing \cup S
       /\ bundle' = [bundle EXCEPT ![j] = S]
  /\ Goto(j, "acquire")
  /\ UNCHANGED <<submitted, status, dropping, rejected, aa25, wallet, nonce, txs,
                 attempts, available, cancelVars, chainVars, faults>>

\* acquireWallet; the order of the pool is MemorySenderManager's subject.
AcquireWallet(j) ==
  /\ pc[j] = "acquire"
  /\ \E w \in available :
       /\ wallet' = [wallet EXCEPT ![j] = w]
       /\ available' = available \ {w}
  /\ Goto(j, "preflight")
  /\ UNCHANGED <<mempoolVars, bundle, rejected, aa25, nonce, txs, attempts,
                 cancelVars, chainVars, faults>>

\* getWallet throws: recoverFailedSend requeues, there is no wallet to free.
AcquisitionFails(j) ==
  /\ pc[j] = "acquire"
  /\ Fault("acquire")
  /\ Resubmit(bundle[j])
  /\ Finish(j)
  /\ UNCHANGED <<dropping, available, cancelVars, chainVars>>

\* The nonce is read at the latest block, by a node that may lag behind it.
Preflight(j) ==
  /\ pc[j] = "preflight"
  /\ LET n == latest[wallet[j]] IN
     \/ nonce' = [nonce EXCEPT ![j] = n] /\ UNCHANGED faults
     \/ n > 0 /\ nonce' = [nonce EXCEPT ![j] = n - 1] /\ Fault("staleNonce")
  /\ Goto(j, "simulate")
  /\ UNCHANGED <<mempoolVars, bundle, rejected, aa25, wallet, txs, attempts,
                 available, cancelVars, chainVars>>

\* Mutant: the failure branch does not free the wallet.
PreflightFailsKeepsWallet(j) ==
  /\ pc[j] = "preflight"
  /\ Fault("preflight")
  /\ wallet' = [wallet EXCEPT ![j] = NoWallet]
  /\ Goto(j, "requeue")
  /\ UNCHANGED <<mempoolVars, bundle, rejected, aa25, nonce, txs, attempts,
                 available, cancelVars, chainVars>>

\* No gas price, base fee or nonce: the wallet is freed first.
PreflightFails(j) ==
  /\ pc[j] = "preflight"
  /\ Fault("preflight")
  /\ available' = available \cup {wallet[j]}
  /\ wallet' = [wallet EXCEPT ![j] = NoWallet]
  /\ Goto(j, "requeue")
  /\ UNCHANGED <<mempoolVars, bundle, rejected, aa25, nonce, txs, attempts,
                 cancelVars, chainVars>>

\* ... and the userOps are requeued after that.
PreflightRequeue(j) ==
  /\ pc[j] = "requeue"
  /\ Resubmit(bundle[j])
  /\ Finish(j)
  /\ UNCHANGED <<dropping, available, cancelVars, chainVars, faults>>

\* filterOpsAndEstimateGas: userOps the chain already executed fail with AA25,
\* others may fail for reasons of their own.
Simulate(j) ==
  /\ pc[j] = "simulate"
  /\ LET used == bundle[j] \cap OnChain IN
     \E bad \in SUBSET (bundle[j] \ used) :
       /\ MayFault("simReject", bad)
       /\ Split(j, bundle[j] \ (used \cup bad), used \cup bad, used # {})
       /\ Goto(j, IF bundle[j] = used \cup bad THEN "failed" ELSE "send")
  /\ UNCHANGED <<mempoolVars, wallet, nonce, txs, attempts, available,
                 cancelVars, chainVars>>

\* unhandled_error: every userOp is rejected.
SimulationFails(j) ==
  /\ pc[j] = "simulate"
  /\ Fault("simError")
  /\ Split(j, {}, bundle[j], FALSE)
  /\ Goto(j, "failed")
  /\ UNCHANGED <<mempoolVars, wallet, nonce, txs, attempts, available,
                 cancelVars, chainVars>>

-----------------------------------------------------------------------------
(* Broadcast.                                                              *)

\* The transaction as the node takes it: a nonce that is too low is read again
\* (executor.ts:419) while the recorded one stays.
BundleTx(j) == Tx(wallet[j], latest[wallet[j]], bundle[j])

\* The first transaction of a bundle is accepted.
Send(j) ==
  /\ pc[j] = "send"
  /\ ~Replacing(j)
  /\ pending' = pending \cup {BundleTx(j)}
  /\ txs' = [txs EXCEPT ![j] = {BundleTx(j)}]
  /\ Goto(j, "mark")
  /\ UNCHANGED <<mempoolVars, bundle, rejected, aa25, wallet, nonce, attempts,
                 available, cancelVars, latest, minedOk, minedBad, foreign,
                 faults>>

\* A replacement is accepted: it is tracked at once, then the userOps its
\* simulation rejected are dropped.
SendReplacement(j) ==
  /\ pc[j] = "send"
  /\ Replacing(j)
  /\ pending' = pending \cup {BundleTx(j)}
  /\ txs' = [txs EXCEPT ![j] = @ \cup {BundleTx(j)}]
  /\ attempts' = [attempts EXCEPT ![j] =
                    IF @ < MaxStuckAttempts THEN @ + 1 ELSE @]
  /\ dropping' = dropping \cup rejected[j]
  /\ Split(j, bundle[j], {}, FALSE)
  /\ Goto(j, "tracked")
  /\ UNCHANGED <<outstanding, processing, submitted, status, wallet, nonce,
                 available, cancelVars, latest, minedOk, minedBad, foreign,
                 faults>>

\* The send fails, or the node took the transaction and the answer was lost.
\* Only a lone userOp that exceeds a transaction cap is not recoverable.
SendFails(j) ==
  /\ pc[j] = "send"
  /\ \/ /\ Fault("sendError")
        /\ UNCHANGED <<pending, bundle, rejected>>
     \/ /\ Fault("sendAmbiguous")
        /\ pending' = pending \cup {BundleTx(j)}
        /\ UNCHANGED <<bundle, rejected>>
     \/ /\ Fault("oversized")
        /\ Cardinality(bundle[j]) = 1
        /\ rejected' = [rejected EXCEPT ![j] = @ \cup bundle[j]]
        /\ bundle' = [bundle EXCEPT ![j] = {}]
        /\ UNCHANGED pending
  /\ Goto(j, "failed")
  /\ UNCHANGED <<mempoolVars, aa25, wallet, nonce, txs, attempts, available,
                 cancelVars, latest, minedOk, minedBad, foreign>>

-----------------------------------------------------------------------------
(* No bundle was sent.                                                     *)

\* Mutant: the whole bundle is requeued, not only the recoverable userOps.
RequeueEverything(j) ==
  /\ pc[j] = "failed"
  /\ Resubmit(Owned(j))
  /\ bundle' = [bundle EXCEPT ![j] = {}]
  /\ Goto(j, IF aa25[j] THEN "check" ELSE "drop")
  /\ UNCHANGED <<dropping, rejected, aa25, wallet, nonce, txs, attempts,
                 available, cancelVars, chainVars, faults>>

\* The recoverable userOps go back; the rejected ones are looked up when one of
\* them failed with AA25 or AA10.
RequeueRecoverable(j) ==
  /\ pc[j] = "failed"
  /\ Resubmit(bundle[j])
  /\ bundle' = [bundle EXCEPT ![j] = {}]
  /\ Goto(j, IF aa25[j] THEN "check" ELSE "drop")
  /\ UNCHANGED <<dropping, rejected, aa25, wallet, nonce, txs, attempts,
                 available, cancelVars, chainVars, faults>>

\* getUserOpStatus for each rejected userOp: one found on chain is included,
\* frontran when no transaction of the bundle has it.  A failed lookup counts
\* as not found.  bundle[j] keeps the confirmed userOps until they are removed.
FrontrunCheck(j) ==
  /\ pc[j] = "check"
  /\ \E missed \in SUBSET (rejected[j] \cap OnChain) :
       LET found == (rejected[j] \cap OnChain) \ missed
           own == UNION { t.ops : t \in txs[j] \cap minedOk }
           frontran == Replacing(j) /\ ~(found \subseteq own)
       IN /\ MayFault("statusError", missed)
          /\ SetStatus(found, "included")
          /\ Split(j, found, rejected[j] \ found, FALSE)
          /\ Goto(j, IF frontran THEN "cancel" ELSE "drop")
  /\ UNCHANGED <<outstanding, processing, submitted, dropping, wallet, nonce,
                 txs, attempts, available, cancelVars, chainVars>>

\* A frontran replacement cancels its transaction and ignores the outcome.
CancelFrontran(j) ==
  /\ pc[j] = "cancel"
  /\ \/ UNCHANGED pending
     \/ /\ latest[wallet[j]] <= nonce[j]
        /\ pending' = pending \cup {Tx(wallet[j], nonce[j], {})}
  /\ Goto(j, "drop")
  /\ UNCHANGED <<mempoolVars, bundle, rejected, aa25, wallet, nonce, txs,
                 attempts, available, cancelVars, latest, minedOk, minedBad,
                 foreign, faults>>

\* The rejected userOps are dropped, the confirmed ones leave their store, and
\* the wallet is freed.
DropAndFree(j) ==
  /\ pc[j] = "drop"
  /\ SetStatus(rejected[j], "rejected")
  /\ processing' = processing \ (IF Replacing(j) THEN rejected[j]
                                                 ELSE rejected[j] \cup bundle[j])
  /\ submitted' = submitted \ (IF Replacing(j) THEN rejected[j] \cup bundle[j]
                                               ELSE rejected[j])
  /\ available' = available \cup {wallet[j]}
  /\ Finish(j)
  /\ UNCHANGED <<outstanding, dropping, cancelVars, chainVars, faults>>

-----------------------------------------------------------------------------
(* A bundle was sent.                                                      *)

\* markUserOpsAsSubmitted, then the bundle is tracked and the rejected userOps
\* are dropped.  When a status write throws, the bundle is tracked all the same
\* and the rejected userOps are left where they are.
MarkSubmitted(j) ==
  /\ pc[j] = "mark"
  /\ processing' = processing \ bundle[j]
  /\ submitted' = submitted \cup bundle[j]
  /\ \/ /\ SetStatus(bundle[j], "submitted")
        /\ dropping' = dropping \cup rejected[j]
        /\ UNCHANGED faults
     \/ /\ Fault("markError")
        /\ UNCHANGED <<status, dropping>>
  /\ Split(j, bundle[j], {}, FALSE)
  /\ attempts' = [attempts EXCEPT ![j] = 1]
  /\ Goto(j, "tracked")
  /\ UNCHANGED <<outstanding, wallet, nonce, txs, available, cancelVars,
                 chainVars>>

\* The background drop of a rejected userOp.
Drop(o) ==
  /\ o \in dropping
  /\ dropping' = dropping \ {o}
  /\ DropUserOps({o})
  /\ UNCHANGED <<outstanding, jobVars, available, cancelVars, chainVars, faults>>

\* Mutant: the wallet is forgotten before it is freed.
FreeForgottenWallet(j) ==
  /\ available' = available \cup {NoWallet}
  /\ wallet' = [wallet EXCEPT ![j] = NoWallet]
  /\ submitted' = submitted \ bundle[j]

\* freeSubmittedBundle
FreeSubmittedBundle(j) ==
  /\ available' = available \cup {wallet[j]}
  /\ wallet' = [wallet EXCEPT ![j] = NoWallet]
  /\ submitted' = submitted \ bundle[j]

\* Mutant: any receipt of the bundle counts as success.
ObserveAnyReceipt(j) ==
  /\ pc[j] = "tracked"
  /\ txs[j] \cap (minedOk \cup minedBad) # {}
  /\ FreeSubmittedBundle(j)
  /\ Goto(j, "included")
  /\ UNCHANGED <<outstanding, processing, status, dropping, bundle, rejected,
                 aa25, nonce, txs, attempts, cancelVars, chainVars, faults>>

\* A receipt of any of the bundle's transactions says success.
ObserveIncluded(j) ==
  /\ pc[j] = "tracked"
  /\ txs[j] \cap minedOk # {}
  /\ FreeSubmittedBundle(j)
  /\ Goto(j, "included")
  /\ UNCHANGED <<outstanding, processing, status, dropping, bundle, rejected,
                 aa25, nonce, txs, attempts, cancelVars, chainVars, faults>>

\* ... then every userOp of the bundle is reported as included.
SettleIncluded(j) ==
  /\ pc[j] = "included"
  /\ SetStatus(bundle[j], "included")
  /\ Finish(j)
  /\ UNCHANGED <<outstanding, processing, submitted, dropping, available,
                 cancelVars, chainVars, faults>>

\* No receipt says success and one says reverted.
ObserveReverted(j) ==
  /\ pc[j] = "tracked"
  /\ txs[j] \cap minedOk = {}
  /\ txs[j] \cap minedBad # {}
  /\ FreeSubmittedBundle(j)
  /\ Goto(j, "reverted")
  /\ UNCHANGED <<outstanding, processing, status, dropping, bundle, rejected,
                 aa25, nonce, txs, attempts, cancelVars, chainVars, faults>>

\* The userOps of a reverted bundle are simulated again; the good ones are
\* resubmitted.
FilterReverted(j) ==
  /\ pc[j] = "reverted"
  /\ LET used == bundle[j] \cap OnChain IN
     \E bad \in SUBSET (bundle[j] \ used) :
       /\ MayFault("simReject", bad)
       /\ Resubmit(bundle[j] \ (used \cup bad))
       /\ Split(j, {}, used \cup bad, FALSE)
  /\ Goto(j, "revertCheck")
  /\ UNCHANGED <<dropping, wallet, nonce, txs, attempts, available, cancelVars,
                 chainVars>>

\* ... and the others are included if they are on chain and failed if not.
SettleReverted(j) ==
  /\ pc[j] = "revertCheck"
  /\ \E missed \in SUBSET (rejected[j] \cap OnChain) :
       LET found == (rejected[j] \cap OnChain) \ missed IN
       /\ MayFault("statusError", missed)
       /\ status' = [o \in Ops |-> IF o \in found THEN "included"
                                   ELSE IF o \in rejected[j] THEN "failed"
                                   ELSE status[o]]
  /\ Finish(j)
  /\ UNCHANGED <<outstanding, processing, submitted, dropping, available,
                 cancelVars, chainVars>>

-----------------------------------------------------------------------------
(* No receipt yet: potentiallyResubmitBundle.                              *)

Unresolved(j) == txs[j] \cap (minedOk \cup minedBad) = {}

\* Mutant: a stuck bundle that cannot be rotated is no longer replaced.
ReplaceUnlessStuck(j) ==
  /\ pc[j] = "tracked"
  /\ attempts[j] < MaxStuckAttempts
  /\ \/ Unresolved(j) /\ UNCHANGED faults
     \/ ~Unresolved(j) /\ Fault("receiptMiss")
  /\ Goto(j, "simulate")
  /\ UNCHANGED <<mempoolVars, bundle, rejected, aa25, wallet, nonce, txs,
                 attempts, available, cancelVars, chainVars>>

\* The gas price is too low, or the transaction is stuck and cannot be rotated.
\* A receipt may exist that the node does not serve.
ReplaceTransaction(j) ==
  /\ pc[j] = "tracked"
  /\ \/ Unresolved(j) /\ UNCHANGED faults
     \/ ~Unresolved(j) /\ Fault("receiptMiss")
  /\ Goto(j, "simulate")
  /\ UNCHANGED <<mempoolVars, bundle, rejected, aa25, wallet, nonce, txs,
                 attempts, available, cancelVars, chainVars>>

\* Mutant: cancels in flight do not count.
CanRotateCountsQuarantined ==
  Cardinality(quarantined) < Cardinality(Wallets) \div 2

\* Wallets out of the pool because of a rotation stay within half the pool.
CanRotate ==
  Cardinality(quarantined) + Cardinality(cancelsInFlight)
    < Cardinality(Wallets) \div 2

\* rotateStuckBundle: the wallet stays behind with a cancel in flight, the
\* userOps leave submitted and are bundled again on a fresh wallet.  Here, too, a
\* receipt may exist that the node does not serve; the stall pays for both.
RotateStuckBundle(j) ==
  /\ pc[j] = "tracked"
  /\ Unresolved(j) \/ "receiptMiss" \in FaultKinds
  /\ Fault("stall")
  /\ attempts[j] >= MaxStuckAttempts
  /\ CanRotate
  /\ cancelsInFlight' = cancelsInFlight \cup {wallet[j]}
  /\ stuckNonce' = [stuckNonce EXCEPT ![wallet[j]] = nonce[j]]
  /\ cancelsLeft' = [cancelsLeft EXCEPT ![wallet[j]] = MaxCancelAttempts]
  /\ submitted' = submitted \ bundle[j]
  /\ wallet' = [wallet EXCEPT ![j] = NoWallet]
  /\ nonce' = [nonce EXCEPT ![j] = 0]
  /\ txs' = [txs EXCEPT ![j] = {}]
  /\ attempts' = [attempts EXCEPT ![j] = 0]
  /\ Goto(j, "acquire")
  /\ UNCHANGED <<outstanding, processing, status, dropping, bundle, rejected,
                 aa25, available, quarantined, clearObservations, chainVars>>

\* cancelBundle broadcasts a cancel, which the node may refuse.
BroadcastCancel(w) ==
  /\ w \in cancelsInFlight
  /\ latest[w] <= stuckNonce[w]
  /\ cancelsLeft[w] > 0
  /\ cancelsLeft' = [cancelsLeft EXCEPT ![w] = @ - 1]
  /\ \/ pending' = pending \cup {Tx(w, stuckNonce[w], {})}
     \/ UNCHANGED pending
  /\ UNCHANGED <<mempoolVars, jobVars, available, cancelsInFlight, quarantined,
                 stuckNonce, clearObservations, latest, minedOk, minedBad,
                 foreign, faults>>

\* The stuck nonce is used up: the wallet is freed.
CancelConfirmed(w) ==
  /\ w \in cancelsInFlight
  /\ latest[w] > stuckNonce[w]
  /\ cancelsInFlight' = cancelsInFlight \ {w}
  /\ available' = available \cup {w}
  /\ stuckNonce' = [stuckNonce EXCEPT ![w] = 0]
  /\ cancelsLeft' = [cancelsLeft EXCEPT ![w] = 0]
  /\ UNCHANGED <<mempoolVars, jobVars, quarantined, clearObservations,
                 chainVars, faults>>

\* The last poll does not see the nonce advanced: the wallet is quarantined.
CancelTimesOut(w) ==
  /\ w \in cancelsInFlight
  /\ cancelsLeft[w] = 0
  /\ \/ latest[w] <= stuckNonce[w] /\ UNCHANGED faults
     \/ latest[w] > stuckNonce[w] /\ Fault("nonceError")
  /\ cancelsInFlight' = cancelsInFlight \ {w}
  /\ quarantined' = quarantined \cup {w}
  /\ clearObservations' = [clearObservations EXCEPT ![w] = 0]
  /\ UNCHANGED <<mempoolVars, jobVars, available, stuckNonce, cancelsLeft,
                 chainVars>>

InFlight(w) == \E t \in pending : t.executor = w

Release(w) ==
  /\ quarantined' = quarantined \ {w}
  /\ available' = available \cup {w}
  /\ clearObservations' = [clearObservations EXCEPT ![w] = 0]
  /\ stuckNonce' = [stuckNonce EXCEPT ![w] = 0]

\* Mutant: the first reading of nothing in flight releases the wallet.
ObserveClearOnce(w) == Release(w)

\* A reading of nothing in flight; the last one needed releases the wallet.
ObserveClear(w) ==
  IF clearObservations[w] + 1 >= ClearToRelease
    THEN Release(w)
    ELSE /\ clearObservations' = [clearObservations EXCEPT ![w] = @ + 1]
         /\ UNCHANGED <<quarantined, available, stuckNonce>>

\* A reading of something in flight.
ObserveInFlight(w) ==
  /\ clearObservations' = [clearObservations EXCEPT ![w] = 0]
  /\ UNCHANGED <<quarantined, available, stuckNonce>>

\* Mutant: only an advanced nonce releases the wallet.
ReconcileOnlyBuried(w) ==
  /\ w \in quarantined
  /\ \/ latest[w] > stuckNonce[w] /\ Release(w)
     \/ latest[w] <= stuckNonce[w] /\ ObserveInFlight(w)
  /\ UNCHANGED <<mempoolVars, jobVars, cancelsInFlight, cancelsLeft, chainVars,
                 faults>>

\* reconcileQuarantinedWallets: the nonce moved past the stuck one, or several
\* readings in a row saw nothing in flight.  One of them may be stale.
Reconcile(w) ==
  /\ w \in quarantined
  /\ \/ latest[w] > stuckNonce[w] /\ Release(w) /\ UNCHANGED faults
     \/ /\ latest[w] <= stuckNonce[w]
        /\ \/ ~InFlight(w) /\ ObserveClear(w) /\ UNCHANGED faults
           \/ /\ InFlight(w) /\ clearObservations[w] = 0
              /\ ObserveClear(w) /\ Fault("stalePending")
           \/ InFlight(w) /\ ObserveInFlight(w) /\ UNCHANGED faults
  /\ UNCHANGED <<mempoolVars, jobVars, cancelsInFlight, cancelsLeft, chainVars>>

-----------------------------------------------------------------------------
(* The chain and other bundlers.                                           *)

\* A transaction is mined; it reverts if one of its userOps was executed
\* before, and may revert for another reason.  Its rivals for the nonce die.  A
\* cancel leaves nothing but the used nonce.
Mine(t) ==
  /\ t \in pending
  /\ t.nonce = latest[t.executor]
  /\ latest' = [latest EXCEPT ![t.executor] = @ + 1]
  /\ pending' = { u \in pending : u.executor # t.executor \/ u.nonce > t.nonce }
  /\ \/ t.ops = {} /\ UNCHANGED <<minedOk, minedBad, faults>>
     \/ /\ t.ops # {} /\ t.ops \cap OnChain = {}
        /\ minedOk' = minedOk \cup {t}
        /\ UNCHANGED <<minedBad, faults>>
     \/ /\ t.ops \cap OnChain # {}
        /\ minedBad' = minedBad \cup {t}
        /\ UNCHANGED <<minedOk, faults>>
     \/ /\ t.ops # {} /\ t.ops \cap OnChain = {}
        /\ Fault("revert")
        /\ minedBad' = minedBad \cup {t}
        /\ UNCHANGED minedOk
  /\ UNCHANGED <<mempoolVars, jobVars, available, cancelVars, foreign>>

\* The network forgets a transaction.
Forget(t) ==
  /\ t \in pending
  /\ Fault("txDrop")
  /\ pending' = pending \ {t}
  /\ UNCHANGED <<mempoolVars, jobVars, available, cancelVars, latest, minedOk,
                 minedBad, foreign>>

\* Another bundler includes a userOp.
Frontrun(o) ==
  /\ status[o] # "none" /\ o \notin OnChain
  /\ Fault("foreign")
  /\ foreign' = foreign \cup {o}
  /\ UNCHANGED <<mempoolVars, jobVars, available, cancelVars, latest, pending,
                 minedOk, minedBad>>

-----------------------------------------------------------------------------

JobStep(j) ==
  \/ AcquisitionFails(j) \/ Preflight(j) \/ PreflightFails(j)
  \/ PreflightRequeue(j) \/ Simulate(j) \/ SimulationFails(j)
  \/ Send(j) \/ SendReplacement(j) \/ SendFails(j) \/ RequeueRecoverable(j)
  \/ FrontrunCheck(j) \/ CancelFrontran(j) \/ DropAndFree(j) \/ MarkSubmitted(j)
  \/ ObserveIncluded(j) \/ SettleIncluded(j) \/ ObserveReverted(j)
  \/ FilterReverted(j) \/ SettleReverted(j)
  \/ ReplaceTransaction(j) \/ RotateStuckBundle(j)

CancelStep(w) == BroadcastCancel(w) \/ CancelConfirmed(w) \/ CancelTimesOut(w)

Next ==
  \/ \E o \in Ops : Add(o) \/ Drop(o) \/ Frontrun(o)
  \/ \E j \in Jobs : StartBundle(j) \/ AcquireWallet(j) \/ JobStep(j)
  \/ \E w \in Wallets : CancelStep(w) \/ Reconcile(w)
  \/ \E t \in pending : Mine(t) \/ Forget(t)

Spec == Init /\ [][Next]_vars

\* A flow that awaits the network is resumed, timers fire, blocks are handled
\* and the chain includes what is pending.  A wallet that keeps coming back
\* reaches every waiter because the semaphore is first come, first served.
Fairness ==
  /\ \A o \in Ops : WF_vars(Drop(o))
  /\ \A j \in Jobs : /\ WF_vars(StartBundle(j))
                     /\ SF_vars(AcquireWallet(j))
                     /\ WF_vars(JobStep(j))
  /\ \A w \in Wallets : /\ WF_vars(CancelStep(w))
                        /\ WF_vars(Reconcile(w))
                        /\ WF_vars(\E t \in pending : t.executor = w /\ Mine(t))

FairSpec == Spec /\ Fairness

-----------------------------------------------------------------------------

Held == { wallet[j] : j \in Jobs } \ {NoWallet}

\* The pcs at which a job has a wallet.
WithWallet == {"preflight", "simulate", "send", "failed", "check", "cancel",
               "drop", "mark", "tracked"}

Pcs == WithWallet \cup {"idle", "acquire", "requeue", "included", "reverted",
                        "revertCheck"}

\* Every variable keeps its type.
TypeOK ==
  /\ outstanding \subseteq Ops /\ processing \subseteq Ops
  /\ submitted \subseteq Ops /\ dropping \subseteq Ops
  /\ status \in [Ops -> {"none", "not_submitted", "submitted", "included",
                         "rejected", "failed"}]
  /\ pc \in [Jobs -> Pcs]
  /\ bundle \in [Jobs -> SUBSET Ops]
  /\ rejected \in [Jobs -> SUBSET Ops]
  /\ aa25 \in [Jobs -> BOOLEAN]
  /\ wallet \in [Jobs -> Wallets \cup {NoWallet}]
  /\ nonce \in [Jobs -> Nat]
  /\ txs \in [Jobs -> SUBSET Transactions]
  /\ attempts \in [Jobs -> 0 .. MaxStuckAttempts]
  /\ available \subseteq Wallets
  /\ cancelsInFlight \subseteq Wallets /\ quarantined \subseteq Wallets
  /\ stuckNonce \in [Wallets -> Nat]
  /\ cancelsLeft \in [Wallets -> 0 .. MaxCancelAttempts]
  /\ clearObservations \in [Wallets -> Nat]
  /\ latest \in [Wallets -> Nat]
  /\ pending \subseteq Transactions
  /\ minedOk \subseteq Transactions /\ minedBad \subseteq Transactions
  /\ foreign \subseteq Ops
  /\ faults \in 0 .. MaxFaults

\* Every wallet is at exactly one place: in the pool, with one job, behind a
\* cancel in flight, or in quarantine.  None leaks on an error path and none is
\* handed to two bundles.
WalletsAccounted ==
  /\ available \cup Held \cup cancelsInFlight \cup quarantined = Wallets
  /\ available \cap (Held \cup cancelsInFlight \cup quarantined) = {}
  /\ Held \cap (cancelsInFlight \cup quarantined) = {}
  /\ cancelsInFlight \cap quarantined = {}
  /\ \A i, j \in Jobs : (i # j /\ wallet[i] = wallet[j]) => wallet[i] = NoWallet
  /\ \A j \in Jobs : pc[j] \in WithWallet <=> wallet[j] # NoWallet

\* Who has each wallet: a bundle, or the cancel it was left with, in quarantine
\* too.  To the sender manager these are users of its pool, which take a wallet
\* that is free, hand it over or give it back, once.
Using ==
  [u \in (Jobs \X {"bundle"}) \cup (Wallets \X {"cancel"}) |->
     IF u[2] = "bundle" THEN wallet[u[1]]
     ELSE IF u[1] \in cancelsInFlight \cup quarantined THEN u[1] ELSE NoWallet]

Pool == INSTANCE WalletPool
  WITH Users <- (Jobs \X {"bundle"}) \cup (Wallets \X {"cancel"}), SecondReleases <- FALSE, free <- available, using <- Using
UsesPool == Pool!Spec

\* Rotations, with their unsettled cancels and quarantines, never take more
\* than half of the pool, so the other half keeps bundling.
RotationsCapped ==
  Cardinality(quarantined) + Cardinality(cancelsInFlight)
    <= Cardinality(Wallets) \div 2

\* A userOp waits, is with one job, or is being dropped in the background, and
\* never two of these: no error path requeues what another flow still works on.
SingleOwner ==
  /\ \A i, j \in Jobs : i # j => Owned(i) \cap Owned(j) = {}
  /\ \A j \in Jobs : /\ bundle[j] \cap rejected[j] = {}
                     /\ Owned(j) \cap (outstanding \cup dropping) = {}
  /\ outstanding \cap dropping = {}

\* The stores keep no record of a userOp nobody works on: it would block every
\* later userOp of that sender and nonce as "already being processed".
NoStaleRecords ==
  processing \cup submitted \subseteq dropping \cup UNION { Owned(j) : j \in Jobs }

\* Where the lifecycle of a userOp stands; "orphaned" is no stage of it.
Stage(o) ==
  IF status[o] \in {"included", "rejected", "failed"} THEN status[o]
  ELSE IF o \in outstanding THEN "waiting"
  ELSE IF o \in dropping \/ \E j \in Jobs : o \in Owned(j) THEN "bundled"
  ELSE IF status[o] = "none" THEN "unknown" ELSE "orphaned"

\* Every userOp follows the abstract lifecycle through replacements, rotations,
\* reverts and failures: it is never lost between two flows, a verdict is final,
\* a settled userOp is not bundled again, and "included" is true on chain.
Lifecycle == INSTANCE UserOpLifecycle
  WITH stage <- [o \in Ops |-> Stage(o)], onChain <- OnChain
FollowsLifecycle == Lifecycle!Spec

\* A wallet that leaves a cancel or the quarantine has no transaction left at
\* the nonce it was stuck at, even if one reading of the pending nonce is stale.
ReleasedNonceIsClear ==
  [][\A w \in cancelsInFlight \cup quarantined :
       w \in available' =>
         \A t \in pending' : t.executor = w => t.nonce # stuckNonce[w]]_vars

\* Every userOp in the mempool gets a verdict once failures stop.
EveryOpSettles ==
  \A o \in Ops :
    status[o] \in {"not_submitted", "submitted"}
      ~> status[o] \in {"included", "rejected", "failed"}

\* Every wallet returns to the pool, also from a cancel or the quarantine.
WalletsReturn ==
  \A w \in Wallets : w \notin available ~> w \in available

\* executorManager.ts:1129: a wallet is freed "ONLY if the cancel confirms", so
\* that "no other instance can pop an unconfirmed nonce and collide".  The
\* cancel looks at the recorded nonce, and a send that found it too low has
\* used another one.
ConfirmedCancelLeavesNothing ==
  [][\A w \in cancelsInFlight : w \in available' => ~InFlight(w)']_vars

\* executorManager.ts:396: sendBundleToExecutor recovers its userOps "on ANY
\* unexpected throw" so that a single failure "can't orphan them".
NoOrphan == \A o \in Ops : Stage(o) # "orphaned"
=============================================================================
