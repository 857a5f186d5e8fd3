----------------------- MODULE BundleLifecycle_proofs -----------------------
(***************************************************************************)
(* Proofs about the bundle lifecycle, for any wallets, bundles and userOps, *)
(* any sequence of failures and any bound on them: no wallet leaks and no  *)
(* userOp has two owners, every userOp follows the abstract lifecycle, and a *)
(* wallet is not given out again with a transaction at its stuck nonce.    *)
(***************************************************************************)
EXTENDS BundleLifecycle, FiniteSetTheorems, TLAPS

\* The initial state has the types.
LEMMA InitTypes == Init => TypeOK
BY LifecycleAssumption DEF Init, TypeOK, Pcs, WithWallet

\* A job has a wallet exactly at the pcs where it works with one.
WalletAtWork == \A j \in Jobs : pc[j] \in WithWallet <=> wallet[j] # NoWallet

\* TypeOK is inductive relative to WalletAtWork: a transaction needs a sender.
LEMMA NextTypes ==
  ASSUME TypeOK, WalletAtWork, Next
  PROVE  TypeOK'
<1> USE LifecycleAssumption DEF TypeOK, vars, mempoolVars, jobVars, cancelVars,
        chainVars, Fault, MayFault, SetStatus, Goto
<1>1. ASSUME NEW o \in Ops, Add(o) PROVE TypeOK'
  BY <1>1 DEF Add
<1>2. ASSUME NEW o \in Ops, Drop(o) PROVE TypeOK'
  BY <1>2 DEF Drop, DropUserOps
<1>3. ASSUME NEW o \in Ops, Frontrun(o) PROVE TypeOK'
  BY <1>3 DEF Frontrun
<1>4. ASSUME NEW j \in Jobs, StartBundle(j) PROVE TypeOK'
  BY <1>4 DEF StartBundle, Pcs
<1>5. ASSUME NEW j \in Jobs, AcquireWallet(j) PROVE TypeOK'
  BY <1>5 DEF AcquireWallet, Pcs, WithWallet
<1>6. ASSUME NEW j \in Jobs, JobStep(j) PROVE TypeOK'
  <2> USE DEF Pcs, WithWallet
  <2>1. CASE AcquisitionFails(j)
    BY <2>1 DEF AcquisitionFails, Resubmit, Finish
  <2>2. CASE Preflight(j)
    BY <2>2 DEF Preflight, WalletAtWork
  <2>3. CASE PreflightFails(j)
    BY <2>3 DEF PreflightFails, WalletAtWork
  <2>4. CASE PreflightRequeue(j)
    BY <2>4 DEF PreflightRequeue, Resubmit, Finish
  <2>5. CASE Simulate(j)
    BY <2>5 DEF Simulate, Split
  <2>6. CASE SimulationFails(j)
    BY <2>6 DEF SimulationFails, Split
  <2>7. CASE Send(j)
    BY <2>7 DEF Send, BundleTx, Tx, Transactions, WalletAtWork
  <2>8. CASE SendReplacement(j)
    BY <2>8 DEF SendReplacement, BundleTx, Tx, Transactions, WalletAtWork, Split
  <2>9. CASE SendFails(j)
    BY <2>9 DEF SendFails, BundleTx, Tx, Transactions, WalletAtWork
  <2>10. CASE RequeueRecoverable(j)
    BY <2>10 DEF RequeueRecoverable, Resubmit
  <2>11. CASE FrontrunCheck(j)
    BY <2>11 DEF FrontrunCheck, Split
  <2>12. CASE CancelFrontran(j)
    BY <2>12 DEF CancelFrontran, Tx, Transactions, WalletAtWork
  <2>13. CASE DropAndFree(j)
    BY <2>13 DEF DropAndFree, Finish, WalletAtWork
  <2>14. CASE MarkSubmitted(j)
    BY <2>14 DEF MarkSubmitted, Split
  <2>15. CASE ObserveIncluded(j)
    BY <2>15 DEF ObserveIncluded, FreeSubmittedBundle, WalletAtWork
  <2>16. CASE SettleIncluded(j)
    BY <2>16 DEF SettleIncluded, Finish
  <2>17. CASE ObserveReverted(j)
    BY <2>17 DEF ObserveReverted, FreeSubmittedBundle, WalletAtWork
  <2>18. CASE FilterReverted(j)
    BY <2>18 DEF FilterReverted, Resubmit, Split
  <2>19. CASE SettleReverted(j)
    BY <2>19 DEF SettleReverted, Finish
  <2>20. CASE ReplaceTransaction(j)
    BY <2>20 DEF ReplaceTransaction
  <2>21. CASE RotateStuckBundle(j)
    BY <2>21 DEF RotateStuckBundle, WalletAtWork
  <2>22. QED
    BY <1>6, <2>1, <2>2, <2>3, <2>4, <2>5, <2>6, <2>7, <2>8, <2>9, <2>10, <2>11,
       <2>12, <2>13, <2>14, <2>15, <2>16, <2>17, <2>18, <2>19, <2>20, <2>21
       DEF JobStep
<1>7. ASSUME NEW w \in Wallets, CancelStep(w) PROVE TypeOK'
  <2>1. CASE BroadcastCancel(w)
    BY <2>1 DEF BroadcastCancel, Tx, Transactions
  <2>2. CASE CancelConfirmed(w)
    BY <2>2 DEF CancelConfirmed
  <2>3. CASE CancelTimesOut(w)
    BY <2>3 DEF CancelTimesOut
  <2>4. QED
    BY <1>7, <2>1, <2>2, <2>3 DEF CancelStep
<1>8. ASSUME NEW w \in Wallets, Reconcile(w) PROVE TypeOK'
  BY <1>8 DEF Reconcile, Release, ObserveClear, ObserveInFlight
<1>9. ASSUME NEW t \in pending, Mine(t) PROVE TypeOK'
  BY <1>9 DEF Mine, Transactions
<1>10. ASSUME NEW t \in pending, Forget(t) PROVE TypeOK'
  BY <1>10 DEF Forget
<1>11. QED
  BY <1>1, <1>2, <1>3, <1>4, <1>5, <1>6, <1>7, <1>8, <1>9, <1>10 DEF Next

-----------------------------------------------------------------------------
(* The wallets.  Each action does one of five things to them.              *)

\* The wallets stay where they are.
KeepsWallets ==
  /\ UNCHANGED <<wallet, available, cancelsInFlight, quarantined>>
  /\ \A j \in Jobs : pc'[j] \in WithWallet <=> pc[j] \in WithWallet

\* Job j takes w from the pool.
TakesWallet(j, w) ==
  /\ pc[j] \notin WithWallet /\ pc'[j] \in WithWallet
  /\ \A i \in Jobs \ {j} : pc'[i] = pc[i]
  /\ w \in available
  /\ wallet' = [wallet EXCEPT ![j] = w]
  /\ available' = available \ {w}
  /\ UNCHANGED <<cancelsInFlight, quarantined>>

\* Job j gives its wallet back.
FreesWallet(j) ==
  /\ pc[j] \in WithWallet /\ pc'[j] \notin WithWallet
  /\ \A i \in Jobs \ {j} : pc'[i] = pc[i]
  /\ wallet' = [wallet EXCEPT ![j] = NoWallet]
  /\ available' = available \cup {wallet[j]}
  /\ UNCHANGED <<cancelsInFlight, quarantined>>

\* Job j leaves its wallet behind with a cancel.
LeavesWallet(j) ==
  /\ pc[j] \in WithWallet /\ pc'[j] \notin WithWallet
  /\ \A i \in Jobs \ {j} : pc'[i] = pc[i]
  /\ CanRotate
  /\ wallet' = [wallet EXCEPT ![j] = NoWallet]
  /\ cancelsInFlight' = cancelsInFlight \cup {wallet[j]}
  /\ UNCHANGED <<available, quarantined>>

\* A cancelled wallet is freed or quarantined, a quarantined one released.
SettlesWallet(w) ==
  /\ UNCHANGED <<pc, wallet>>
  /\ \/ /\ w \in cancelsInFlight
        /\ cancelsInFlight' = cancelsInFlight \ {w}
        /\ \/ available' = available \cup {w} /\ UNCHANGED quarantined
           \/ quarantined' = quarantined \cup {w} /\ UNCHANGED available
     \/ /\ w \in quarantined
        /\ quarantined' = quarantined \ {w}
        /\ available' = available \cup {w}
        /\ UNCHANGED cancelsInFlight

\* Every action is one of these five things to the wallets.
LEMMA NextWallets ==
  ASSUME TypeOK, WalletAtWork, Next
  PROVE  \/ KeepsWallets
         \/ \E j \in Jobs : \/ \E w \in Wallets : TakesWallet(j, w)
                           \/ FreesWallet(j)
                           \/ LeavesWallet(j)
         \/ \E w \in Wallets : SettlesWallet(w)
<1> USE DEF vars, mempoolVars, jobVars, cancelVars, chainVars, Goto
<1>1. ASSUME NEW o \in Ops, Add(o) \/ Drop(o) \/ Frontrun(o) PROVE KeepsWallets
  BY <1>1 DEF Add, Drop, Frontrun, KeepsWallets
<1>2. ASSUME NEW j \in Jobs, StartBundle(j) PROVE KeepsWallets
  BY <1>2 DEF StartBundle, KeepsWallets, WithWallet, TypeOK
<1>3. ASSUME NEW j \in Jobs, AcquireWallet(j)
      PROVE  \E w \in Wallets : TakesWallet(j, w)
  BY <1>3 DEF AcquireWallet, TakesWallet, WithWallet, TypeOK
<1>4. ASSUME NEW j \in Jobs, JobStep(j)
      PROVE  KeepsWallets \/ FreesWallet(j) \/ LeavesWallet(j)
  <2> USE DEF WithWallet, TypeOK
  <2>1. CASE AcquisitionFails(j) \/ PreflightRequeue(j)
    BY <2>1 DEF AcquisitionFails, PreflightRequeue, Finish, KeepsWallets,
                WalletAtWork
  <2>2. CASE SettleIncluded(j) \/ SettleReverted(j)
    BY <2>2 DEF SettleIncluded, SettleReverted, Finish, KeepsWallets,
                WalletAtWork
  <2>3. CASE PreflightFails(j)
    BY <2>3 DEF PreflightFails, FreesWallet
  <2>4. CASE DropAndFree(j)
    BY <2>4 DEF DropAndFree, Finish, FreesWallet
  <2>5. CASE ObserveIncluded(j) \/ ObserveReverted(j)
    BY <2>5 DEF ObserveIncluded, ObserveReverted, FreeSubmittedBundle,
                FreesWallet
  <2>6. CASE RotateStuckBundle(j)
    BY <2>6 DEF RotateStuckBundle, LeavesWallet
  <2>7. CASE Preflight(j) \/ Simulate(j) \/ SimulationFails(j)
    BY <2>7 DEF Preflight, Simulate, SimulationFails, KeepsWallets
  <2>8. CASE Send(j) \/ SendReplacement(j) \/ SendFails(j)
    BY <2>8 DEF Send, SendReplacement, SendFails, KeepsWallets
  <2>9. CASE RequeueRecoverable(j) \/ CancelFrontran(j)
    BY <2>9 DEF RequeueRecoverable, CancelFrontran, KeepsWallets
  <2>10. CASE FrontrunCheck(j)
    BY <2>10 DEF FrontrunCheck, KeepsWallets
  <2>11. CASE MarkSubmitted(j) \/ FilterReverted(j) \/ ReplaceTransaction(j)
    BY <2>11 DEF MarkSubmitted, FilterReverted, ReplaceTransaction, KeepsWallets
  <2>12. QED
    BY <1>4, <2>1, <2>2, <2>3, <2>4, <2>5, <2>6, <2>7, <2>8, <2>9, <2>10, <2>11
       DEF JobStep
<1>5. ASSUME NEW w \in Wallets, CancelStep(w)
      PROVE  KeepsWallets \/ SettlesWallet(w)
  BY <1>5 DEF CancelStep, BroadcastCancel, CancelConfirmed, CancelTimesOut,
              KeepsWallets, SettlesWallet
<1>6. ASSUME NEW w \in Wallets, Reconcile(w)
      PROVE  KeepsWallets \/ SettlesWallet(w)
  BY <1>6 DEF Reconcile, Release, ObserveClear, ObserveInFlight, KeepsWallets,
              SettlesWallet
<1>7. ASSUME NEW t \in pending, Mine(t) \/ Forget(t) PROVE KeepsWallets
  BY <1>7 DEF Mine, Forget, KeepsWallets
<1>8. QED
  BY <1>1, <1>2, <1>3, <1>4, <1>5, <1>6, <1>7 DEF Next

\* Each of the five keeps every wallet at one place.
LEMMA StepKeepsAccount ==
  ASSUME TypeOK, WalletsAccounted, Next
  PROVE  WalletsAccounted'
<1> USE LifecycleAssumption DEF TypeOK, WalletsAccounted, Held
<1>1. WalletAtWork
  BY DEF WalletAtWork
<1>2. CASE KeepsWallets
  BY <1>2 DEF KeepsWallets
<1>3. ASSUME NEW j \in Jobs, NEW w \in Wallets, TakesWallet(j, w)
      PROVE  WalletsAccounted'
  BY <1>3 DEF TakesWallet
<1>4. ASSUME NEW j \in Jobs, FreesWallet(j) PROVE WalletsAccounted'
  BY <1>4 DEF FreesWallet
<1>5. ASSUME NEW j \in Jobs, LeavesWallet(j) PROVE WalletsAccounted'
  BY <1>5 DEF LeavesWallet
<1>6. ASSUME NEW w \in Wallets, SettlesWallet(w) PROVE WalletsAccounted'
  BY <1>6 DEF SettlesWallet
<1>7. QED
  BY <1>1, <1>2, <1>3, <1>4, <1>5, <1>6, NextWallets

\* A rotation is the only one that adds to the wallets out of work, and it asks
\* for room under the cap first.
LEMMA StepKeepsCap ==
  ASSUME TypeOK, WalletAtWork, RotationsCapped, Next
  PROVE  RotationsCapped'
<1>1. IsFiniteSet(quarantined) /\ IsFiniteSet(cancelsInFlight)
  BY LifecycleAssumption, FS_Subset DEF TypeOK
<1>2. /\ Cardinality(quarantined) \in Nat /\ Cardinality(cancelsInFlight) \in Nat
      /\ Cardinality(Wallets) \in Nat
  BY <1>1, LifecycleAssumption, FS_CardinalityType
<1>3. Cardinality(Wallets) \div 2 \in Int
  BY <1>2
<1>4. CASE KeepsWallets
  BY <1>4 DEF KeepsWallets, RotationsCapped
<1>5. ASSUME NEW j \in Jobs,
             FreesWallet(j) \/ \E w \in Wallets : TakesWallet(j, w)
      PROVE  RotationsCapped'
  BY <1>5 DEF TakesWallet, FreesWallet, RotationsCapped
<1>6. ASSUME NEW j \in Jobs, LeavesWallet(j) PROVE RotationsCapped'
  <2>1. cancelsInFlight' = cancelsInFlight \cup {wallet[j]}
    BY <1>6 DEF LeavesWallet
  <2>2. /\ Cardinality(cancelsInFlight') <= Cardinality(cancelsInFlight) + 1
        /\ Cardinality(cancelsInFlight') \in Nat
    <3> DEFINE w == wallet[j]
    <3> HIDE DEF w
    <3>1. Cardinality(cancelsInFlight \cup {w}) =
            IF w \in cancelsInFlight THEN Cardinality(cancelsInFlight)
                                     ELSE Cardinality(cancelsInFlight) + 1
      BY <1>1, FS_AddElement
    <3>2. QED
      BY <1>2, <2>1, <3>1 DEF w
  <2>3. QED
    BY <1>2, <1>3, <1>6, <2>2 DEF LeavesWallet, RotationsCapped, CanRotate
<1>7. ASSUME NEW w \in Wallets, SettlesWallet(w) PROVE RotationsCapped'
  <2>1. CASE w \in cancelsInFlight /\ cancelsInFlight' = cancelsInFlight \ {w}
             /\ quarantined' \in {quarantined, quarantined \cup {w}}
    <3>1. Cardinality(cancelsInFlight') = Cardinality(cancelsInFlight) - 1
      BY <1>1, <2>1, FS_RemoveElement
    <3>2. /\ Cardinality(quarantined') <= Cardinality(quarantined) + 1
          /\ Cardinality(quarantined') \in Nat
      BY <1>1, <1>2, <2>1, FS_AddElement
    <3>3. QED
      BY <1>2, <1>3, <3>1, <3>2 DEF RotationsCapped
  <2>2. CASE w \in quarantined /\ quarantined' = quarantined \ {w}
             /\ UNCHANGED cancelsInFlight
    <3>1. Cardinality(quarantined') = Cardinality(quarantined) - 1
      BY <1>1, <2>2, FS_RemoveElement
    <3>2. QED
      BY <1>2, <1>3, <2>2, <3>1 DEF RotationsCapped
  <2>3. QED
    BY <1>7, <2>1, <2>2 DEF SettlesWallet
<1>8. QED
  BY <1>4, <1>5, <1>6, <1>7, NextWallets

-----------------------------------------------------------------------------
(* The inductive invariant of the wallets: a transaction has a sender      *)
(* because a job that sends has a wallet.                                  *)
WalletInv == TypeOK /\ WalletsAccounted /\ RotationsCapped

\* At start every wallet is free.
LEMMA WalletInvInit == Init => WalletInv
<1> SUFFICES ASSUME Init PROVE WalletsAccounted /\ RotationsCapped
  BY InitTypes DEF WalletInv
<1>1. WalletsAccounted
  BY LifecycleAssumption DEF Init, WalletsAccounted, Held, WithWallet
<1>2. Cardinality(Wallets) \div 2 >= 0
  BY LifecycleAssumption, FS_CardinalityType
<1>3. RotationsCapped
  BY <1>2, FS_EmptySet DEF Init, RotationsCapped
<1>4. QED
  BY <1>1, <1>3

\* The three together are inductive.
LEMMA WalletInvNext == WalletInv /\ [Next]_vars => WalletInv'
<1> SUFFICES ASSUME WalletInv, [Next]_vars PROVE WalletInv'
  OBVIOUS
<1>1. CASE Next
  <2>1. WalletAtWork
    BY DEF WalletInv, WalletsAccounted, WalletAtWork
  <2>2. QED
    BY <1>1, <2>1, NextTypes, StepKeepsAccount, StepKeepsCap DEF WalletInv
<1>2. CASE UNCHANGED vars
  BY <1>2 DEF vars, mempoolVars, jobVars, cancelVars, chainVars, WalletInv,
              TypeOK, WalletsAccounted, Held, RotationsCapped
<1>3. QED
  BY <1>1, <1>2

\* So they hold throughout.
LEMMA WalletInvHolds == Spec => []WalletInv
BY WalletInvInit, WalletInvNext, PTL DEF Spec

\* Every variable of the lifecycle keeps its type; in particular a transaction
\* always has one of the wallets as its sender.
THEOREM LifecycleTypes == Spec => []TypeOK
<1>1. WalletInv => TypeOK
  BY DEF WalletInv
<1>2. QED
  BY <1>1, WalletInvHolds, PTL

\* Acquisition, failure branches, receipts, rotation, cancels and the quarantine
\* hand wallets on without losing one and without sharing one.
THEOREM WalletsNeverLeak == Spec => []WalletsAccounted
<1>1. WalletInv => WalletsAccounted
  BY DEF WalletInv
<1>2. QED
  BY <1>1, WalletInvHolds, PTL

\* The rotation check in potentiallyResubmitBundle keeps half of the pool out of
\* cancels and quarantine at all times, not only when it is made.
THEOREM RotationsStayCapped == Spec => []RotationsCapped
<1>1. WalletInv => RotationsCapped
  BY DEF WalletInv
<1>2. QED
  BY <1>1, WalletInvHolds, PTL

-----------------------------------------------------------------------------
(* The lifecycle is a user of the pool.                                    *)

Users == (Jobs \X {"bundle"}) \cup (Wallets \X {"cancel"})

\* Who has each wallet.
LEMMA UsingIs ==
  /\ DOMAIN Using = Users
  /\ \A j \in Jobs : <<j, "bundle">> \in Users /\ Using[<<j, "bundle">>] = wallet[j]
  /\ \A w \in Wallets :
       /\ <<w, "cancel">> \in Users
       /\ Using[<<w, "cancel">>] = IF w \in cancelsInFlight \cup quarantined THEN w ELSE NoWallet
  /\ \A u \in Users : \/ \E j \in Jobs : u = <<j, "bundle">>
                      \/ \E w \in Wallets : u = <<w, "cancel">>
BY DEF Using, Users

\* So it is after a step.
LEMMA UsingIsThen ==
  /\ DOMAIN Using' = Users
  /\ \A j \in Jobs : Using'[<<j, "bundle">>] = wallet'[j]
  /\ \A w \in Wallets :
       Using'[<<w, "cancel">>] = IF w \in cancelsInFlight' \cup quarantined' THEN w ELSE NoWallet
  /\ Using' = [u \in Users |-> Using'[u]]
BY DEF Using, Users

\* What a step does to the wallets it does to the pool: a bundle takes a wallet,
\* gives it back or hands it over to its cancel, and this gives it back.
LEMMA NextPool ==
  ASSUME WalletInv, [Next]_vars
  PROVE  [Pool!Next]_<<available, Using>>
<1> USE LifecycleAssumption
<1>1. TypeOK /\ WalletAtWork
  BY DEF WalletInv, WalletsAccounted, WalletAtWork
<1>2. /\ \A j \in Jobs : wallet[j] \in Wallets \cup {NoWallet}
      /\ DOMAIN wallet = Jobs
      /\ available \cap (cancelsInFlight \cup quarantined) = {}
      /\ \A j \in Jobs : wallet[j] \notin cancelsInFlight \cup quarantined
  <2>1. \A j \in Jobs : wallet[j] \in Wallets => wallet[j] \in Held
    BY DEF Held
  <2>2. QED
    BY <2>1 DEF WalletInv, WalletsAccounted, TypeOK
<1>3. ASSUME UNCHANGED <<wallet, available, cancelsInFlight \cup quarantined>>
      PROVE  UNCHANGED <<available, Using>>
  BY <1>3 DEF Using
<1>4. ASSUME NEW j \in Jobs, NEW w \in Wallets, TakesWallet(j, w) PROVE Pool!Take(<<j, "bundle">>)
  <2>1. wallet[j] = NoWallet
    BY <1>1, <1>4 DEF TakesWallet, WalletAtWork
  <2>2. Using' = [Using EXCEPT ![<<j, "bundle">>] = w]
    BY <1>2, <1>4, UsingIs, UsingIsThen DEF TakesWallet
  <2>3. QED
    BY <1>4, <2>1, <2>2, UsingIs DEF TakesWallet, Pool!Take
<1>5. ASSUME NEW j \in Jobs, FreesWallet(j) PROVE Pool!GiveBack(<<j, "bundle">>)
  <2>1. wallet[j] # NoWallet
    BY <1>1, <1>5 DEF FreesWallet, WalletAtWork
  <2>2. Using' = [Using EXCEPT ![<<j, "bundle">>] = NoWallet]
    BY <1>2, <1>5, UsingIs, UsingIsThen DEF FreesWallet
  <2>3. QED
    BY <1>5, <2>1, <2>2, UsingIs DEF FreesWallet, Pool!GiveBack
<1>6. ASSUME NEW j \in Jobs, LeavesWallet(j)
      PROVE  \E u \in Users : \E v \in Users \ {u} : Pool!HandOver(u, v)
  <2>1. wallet[j] \in Wallets /\ wallet[j] # NoWallet
    BY <1>1, <1>2, <1>6 DEF LeavesWallet, WalletAtWork
  <2>2. PICK w \in Wallets : w = wallet[j]
    BY <2>1
  <2>3. Using' = [Using EXCEPT ![<<j, "bundle">>] = NoWallet, ![<<w, "cancel">>] = w]
    BY <1>2, <1>6, <2>2, UsingIs, UsingIsThen DEF LeavesWallet
  <2>4. Using[<<j, "bundle">>] = w /\ Using[<<w, "cancel">>] = NoWallet /\ w # NoWallet
    BY <1>2, <2>1, <2>2, UsingIs
  <2>5. Pool!HandOver(<<j, "bundle">>, <<w, "cancel">>)
    BY <1>6, <2>3, <2>4 DEF LeavesWallet, Pool!HandOver
  <2>6. <<j, "bundle">> # <<w, "cancel">>
    OBVIOUS
  <2>7. QED
    BY <2>5, <2>6, UsingIs
<1>7. ASSUME NEW w \in Wallets, SettlesWallet(w)
      PROVE  Pool!GiveBack(<<w, "cancel">>) \/ UNCHANGED <<available, Using>>
  <2>1. w \in cancelsInFlight \cup quarantined /\ w # NoWallet
    BY <1>7 DEF SettlesWallet
  <2>2. CASE available' = available
    <3>1. cancelsInFlight' \cup quarantined' = cancelsInFlight \cup quarantined
      BY <1>2, <1>7, <2>1, <2>2 DEF SettlesWallet
    <3>2. QED
      BY <1>3, <1>7, <2>2, <3>1 DEF SettlesWallet
  <2>3. CASE available' # available
    <3>1. /\ available' = available \cup {w}
          /\ cancelsInFlight' \cup quarantined' = (cancelsInFlight \cup quarantined) \ {w}
      BY <1>7, <2>3 DEF SettlesWallet, WalletInv, WalletsAccounted
    <3>2. Using' = [Using EXCEPT ![<<w, "cancel">>] = NoWallet]
      BY <1>2, <1>7, <3>1, UsingIs, UsingIsThen DEF SettlesWallet
    <3>3. QED
      BY <2>1, <3>1, <3>2, UsingIs DEF Pool!GiveBack
  <2>4. QED
    BY <2>2, <2>3
<1>8. CASE Next
  <2>1. ASSUME KeepsWallets PROVE UNCHANGED <<available, Using>>
    BY <1>3, <2>1 DEF KeepsWallets
  <2>2. QED
    BY <1>1, <1>4, <1>5, <1>6, <1>7, <1>8, <2>1, NextWallets, UsingIs DEF Pool!Next, Users
<1>9. CASE UNCHANGED vars
  BY <1>3, <1>9 DEF vars, jobVars, cancelVars
<1>10. QED
  BY <1>8, <1>9

\* Bundles, cancels and the quarantine use the wallets as the pool allows, and
\* give none back twice.
THEOREM FollowsThePool == Spec => UsesPool
<1>1. Init => Pool!Init
  BY DEF Init, Pool!Init, Using
<1>2. QED
  BY <1>1, WalletInvHolds, NextPool, PTL DEF Spec, UsesPool, Pool!Spec

-----------------------------------------------------------------------------
(* The owners of a userOp.  A new userOp has none because nothing works on *)
(* a userOp the mempool has not seen.                                      *)
Unseen ==
  \A o \in Ops : status[o] = "none" =>
    /\ o \notin outstanding \cup dropping
    /\ \A j \in Jobs : o \notin Owned(j)

OwnerInv == SingleOwner /\ Unseen

\* A userOp changes hands in one step: where one flow takes it up, the other has
\* let it go.
LEMMA OwnerInvNext ==
  ASSUME TypeOK, OwnerInv, Next
  PROVE  OwnerInv'
<1> USE DEF TypeOK, OwnerInv, SingleOwner, Unseen, Owned, vars, mempoolVars,
        jobVars, cancelVars, chainVars, SetStatus, Goto
<1>1. ASSUME NEW o \in Ops, Add(o) PROVE OwnerInv'
  BY <1>1 DEF Add
<1>2. ASSUME NEW o \in Ops, Drop(o) PROVE OwnerInv'
  BY <1>2 DEF Drop, DropUserOps
<1>3. ASSUME NEW o \in Ops, Frontrun(o) PROVE OwnerInv'
  BY <1>3 DEF Frontrun
<1>4. ASSUME NEW j \in Jobs, StartBundle(j) PROVE OwnerInv'
  BY <1>4 DEF StartBundle
<1>5. ASSUME NEW j \in Jobs, AcquireWallet(j) PROVE OwnerInv'
  BY <1>5 DEF AcquireWallet
<1>6. ASSUME NEW j \in Jobs, JobStep(j) PROVE OwnerInv'
  <2>1. CASE AcquisitionFails(j) \/ PreflightRequeue(j)
    <3>1. Resubmit(bundle[j]) /\ Finish(j) /\ UNCHANGED dropping
      BY <2>1 DEF AcquisitionFails, PreflightRequeue
    <3>2. QED
      BY <3>1 DEF Resubmit, Finish
  <2>2. CASE SettleIncluded(j)
    BY <2>2 DEF SettleIncluded, Finish
  <2>3. CASE SettleReverted(j)
    BY <2>3 DEF SettleReverted, Finish
  <2>4. CASE DropAndFree(j)
    BY <2>4 DEF DropAndFree, Finish
  <2>5. CASE Preflight(j) \/ PreflightFails(j) \/ CancelFrontran(j)
    BY <2>5 DEF Preflight, PreflightFails, CancelFrontran
  <2>6. CASE Simulate(j)
    BY <2>6 DEF Simulate, Split
  <2>7. CASE SimulationFails(j)
    BY <2>7 DEF SimulationFails, Split
  <2>8. CASE Send(j) \/ ReplaceTransaction(j) \/ RotateStuckBundle(j)
    BY <2>8 DEF Send, ReplaceTransaction, RotateStuckBundle
  <2>9. CASE SendReplacement(j)
    BY <2>9 DEF SendReplacement, Split
  <2>10. CASE SendFails(j)
    BY <2>10 DEF SendFails
  <2>11. CASE RequeueRecoverable(j)
    BY <2>11 DEF RequeueRecoverable, Resubmit
  <2>12. CASE FrontrunCheck(j)
    BY <2>12 DEF FrontrunCheck, Split
  <2>13. CASE MarkSubmitted(j)
    BY <2>13 DEF MarkSubmitted, Split
  <2>14. CASE ObserveIncluded(j) \/ ObserveReverted(j)
    BY <2>14 DEF ObserveIncluded, ObserveReverted, FreeSubmittedBundle
  <2>15. CASE FilterReverted(j)
    BY <2>15 DEF FilterReverted, Resubmit, Split
  <2>16. QED
    BY <1>6, <2>1, <2>2, <2>3, <2>4, <2>5, <2>6, <2>7, <2>8, <2>9, <2>10, <2>11,
       <2>12, <2>13, <2>14, <2>15
       DEF JobStep
<1>7. ASSUME NEW w \in Wallets, CancelStep(w) \/ Reconcile(w) PROVE OwnerInv'
  BY <1>7 DEF CancelStep, BroadcastCancel, CancelConfirmed, CancelTimesOut,
              Reconcile
<1>8. ASSUME NEW t \in pending, Mine(t) \/ Forget(t) PROVE OwnerInv'
  BY <1>8 DEF Mine, Forget
<1>9. QED
  BY <1>1, <1>2, <1>3, <1>4, <1>5, <1>6, <1>7, <1>8 DEF Next

\* No error path, replacement, rotation or revert requeues a userOp another flow
\* still works on, however the flows interleave.
THEOREM OneOwner == Spec => []SingleOwner
<1>1. Init => OwnerInv
  BY DEF Init, OwnerInv, SingleOwner, Unseen, Owned
<1>2. TypeOK /\ OwnerInv /\ [Next]_vars => OwnerInv'
  <2> SUFFICES ASSUME TypeOK, OwnerInv, [Next]_vars PROVE OwnerInv'
    OBVIOUS
  <2>1. CASE Next
    BY <2>1, OwnerInvNext
  <2>2. CASE UNCHANGED vars
    BY <2>2 DEF vars, mempoolVars, jobVars, OwnerInv, SingleOwner, Unseen, Owned
  <2>3. QED
    BY <2>1, <2>2
<1>3. OwnerInv => SingleOwner
  BY DEF OwnerInv
<1>4. QED
  BY <1>1, <1>2, <1>3, LifecycleTypes, PTL DEF Spec

-----------------------------------------------------------------------------
(* The records in the stores.  Which store may have a record of a userOp   *)
(* depends on how far its job is.                                          *)

\* Before the first broadcast the records are in processing, then in submitted,
\* and a settled bundle has none.
RecordsFollowJob ==
  \A j \in Jobs :
    LET settled == pc[j] \in {"included", "reverted", "revertCheck"}
        sent == Replacing(j) /\ pc[j] # "mark" IN
    /\ settled \/ sent => Owned(j) \cap processing = {}
    /\ settled \/ ~sent => Owned(j) \cap submitted = {}

JobData ==
  \A j \in Jobs :
    /\ pc[j] \in {"idle", "acquire", "preflight", "requeue", "simulate",
                  "tracked", "included", "reverted"} => rejected[j] = {}
    /\ pc[j] \in {"idle", "acquire", "preflight", "requeue"} => txs[j] = {}
    /\ pc[j] \in {"mark", "tracked"} => txs[j] # {}
    /\ pc[j] \in {"idle", "check"} => bundle[j] = {}

\* A job keeps the data its pc promises.
LEMMA JobDataNext ==
  ASSUME TypeOK, JobData, Next
  PROVE  JobData'
<1> USE DEF TypeOK, JobData, vars, mempoolVars, jobVars, cancelVars, chainVars,
        Goto
<1>1. ASSUME NEW o \in Ops, Add(o) \/ Drop(o) \/ Frontrun(o) PROVE JobData'
  BY <1>1 DEF Add, Drop, Frontrun
<1>2. ASSUME NEW j \in Jobs, StartBundle(j) \/ AcquireWallet(j) PROVE JobData'
  BY <1>2 DEF StartBundle, AcquireWallet
<1>3. ASSUME NEW j \in Jobs, JobStep(j) PROVE JobData'
  <2>1. CASE AcquisitionFails(j) \/ PreflightRequeue(j)
    BY <2>1 DEF AcquisitionFails, PreflightRequeue, Finish
  <2>2. CASE SettleIncluded(j) \/ SettleReverted(j)
    BY <2>2 DEF SettleIncluded, SettleReverted, Finish
  <2>3. CASE DropAndFree(j)
    BY <2>3 DEF DropAndFree, Finish
  <2>4. CASE Preflight(j) \/ PreflightFails(j) \/ CancelFrontran(j)
    BY <2>4 DEF Preflight, PreflightFails, CancelFrontran
  <2>5. CASE Simulate(j)
    BY <2>5 DEF Simulate, Split
  <2>6. CASE SimulationFails(j)
    BY <2>6 DEF SimulationFails, Split
  <2>7. CASE Send(j) \/ ReplaceTransaction(j)
    <3>1. CASE Send(j)
      <4>1. txs'[j] # {}
        BY <3>1 DEF Send
      <4>2. QED
        BY <3>1, <4>1 DEF Send
    <3>2. CASE ReplaceTransaction(j)
      BY <3>2 DEF ReplaceTransaction
    <3>3. QED
      BY <2>7, <3>1, <3>2
  <2>8. CASE RotateStuckBundle(j)
    BY <2>8 DEF RotateStuckBundle
  <2>9. CASE SendReplacement(j)
    BY <2>9 DEF SendReplacement, Split
  <2>10. CASE SendFails(j)
    BY <2>10 DEF SendFails
  <2>11. CASE RequeueRecoverable(j)
    BY <2>11 DEF RequeueRecoverable
  <2>12. CASE FrontrunCheck(j)
    BY <2>12 DEF FrontrunCheck, Split
  <2>13. CASE MarkSubmitted(j)
    BY <2>13 DEF MarkSubmitted, Split
  <2>14. CASE ObserveIncluded(j) \/ ObserveReverted(j)
    BY <2>14 DEF ObserveIncluded, ObserveReverted
  <2>15. CASE FilterReverted(j)
    BY <2>15 DEF FilterReverted, Split
  <2>16. QED
    BY <1>3, <2>1, <2>2, <2>3, <2>4, <2>5, <2>6, <2>7, <2>8, <2>9, <2>10, <2>11,
       <2>12, <2>13, <2>14, <2>15
       DEF JobStep
<1>4. ASSUME NEW w \in Wallets, CancelStep(w) \/ Reconcile(w) PROVE JobData'
  BY <1>4 DEF CancelStep, BroadcastCancel, CancelConfirmed, CancelTimesOut,
              Reconcile
<1>5. ASSUME NEW t \in pending, Mine(t) \/ Forget(t) PROVE JobData'
  BY <1>5 DEF Mine, Forget
<1>6. QED
  BY <1>1, <1>2, <1>3, <1>4, <1>5 DEF Next

RecordInv == NoStaleRecords /\ RecordsFollowJob

\* The stores follow the job that has the userOps.
LEMMA RecordInvNext ==
  ASSUME "markError" \notin FaultKinds,
         TypeOK, SingleOwner, JobData, RecordInv, Next
  PROVE  RecordInv'
<1> USE DEF TypeOK, SingleOwner, JobData, RecordInv, NoStaleRecords,
        RecordsFollowJob, Replacing, Owned, vars, mempoolVars, jobVars,
        cancelVars, chainVars, Goto
<1>1. ASSUME NEW o \in Ops, Add(o) \/ Frontrun(o) PROVE RecordInv'
  BY <1>1 DEF Add, Frontrun
<1>2. ASSUME NEW o \in Ops, Drop(o) PROVE RecordInv'
  BY <1>2 DEF Drop, DropUserOps
<1>3. ASSUME NEW j \in Jobs, StartBundle(j) PROVE RecordInv'
  BY <1>3 DEF StartBundle
<1>4. ASSUME NEW j \in Jobs, AcquireWallet(j) PROVE RecordInv'
  BY <1>4 DEF AcquireWallet
<1>5. ASSUME NEW j \in Jobs, JobStep(j) PROVE RecordInv'
  <2>1. CASE AcquisitionFails(j) \/ PreflightRequeue(j)
    <3>1. Resubmit(bundle[j]) /\ Finish(j) /\ UNCHANGED dropping /\ rejected[j] = {}
      BY <2>1 DEF AcquisitionFails, PreflightRequeue
    <3>2. QED
      BY <3>1 DEF Resubmit, Finish
  <2>2. CASE SettleIncluded(j)
    BY <2>2 DEF SettleIncluded, Finish
  <2>3. CASE SettleReverted(j)
    BY <2>3 DEF SettleReverted, Finish
  <2>4. CASE DropAndFree(j)
    <3>1. /\ processing' \subseteq processing \ Owned(j)
          /\ submitted' \subseteq submitted \ Owned(j)
      BY <2>4 DEF DropAndFree
    <3>2. Finish(j) /\ UNCHANGED dropping
      BY <2>4 DEF DropAndFree
    <3>3. QED
      BY <3>1, <3>2 DEF Finish
  <2>5. CASE Preflight(j) \/ PreflightFails(j) \/ CancelFrontran(j)
    BY <2>5 DEF Preflight, PreflightFails, CancelFrontran
  <2>6. CASE Simulate(j)
    BY <2>6 DEF Simulate, Split
  <2>7. CASE SimulationFails(j)
    BY <2>7 DEF SimulationFails, Split
  <2>8. CASE Send(j) \/ ReplaceTransaction(j)
    BY <2>8 DEF Send, ReplaceTransaction
  <2>9. CASE RotateStuckBundle(j)
    BY <2>9 DEF RotateStuckBundle
  <2>10. CASE SendReplacement(j)
    BY <2>10 DEF SendReplacement, Split
  <2>11. CASE SendFails(j)
    <3>1. \A i \in Jobs : bundle'[i] \cup rejected'[i] = bundle[i] \cup rejected[i]
      BY <2>11 DEF SendFails
    <3>2. /\ UNCHANGED <<processing, submitted, dropping, txs>>
          /\ pc[j] = "send" /\ pc' = [pc EXCEPT ![j] = "failed"]
      BY <2>11 DEF SendFails
    <3>3. QED
      BY <3>1, <3>2
  <2>12. CASE RequeueRecoverable(j)
    BY <2>12 DEF RequeueRecoverable, Resubmit
  <2>13. CASE FrontrunCheck(j)
    BY <2>13 DEF FrontrunCheck, Split
  <2>14. CASE MarkSubmitted(j)
    BY <2>14 DEF MarkSubmitted, Split, Fault
  <2>15. CASE ObserveIncluded(j) \/ ObserveReverted(j)
    BY <2>15 DEF ObserveIncluded, ObserveReverted, FreeSubmittedBundle
  <2>16. CASE FilterReverted(j)
    BY <2>16 DEF FilterReverted, Resubmit, Split
  <2>17. QED
    BY <1>5, <2>1, <2>2, <2>3, <2>4, <2>5, <2>6, <2>7, <2>8, <2>9, <2>10, <2>11,
       <2>12, <2>13, <2>14, <2>15, <2>16
       DEF JobStep
<1>6. ASSUME NEW w \in Wallets, CancelStep(w) \/ Reconcile(w) PROVE RecordInv'
  BY <1>6 DEF CancelStep, BroadcastCancel, CancelConfirmed, CancelTimesOut,
              Reconcile
<1>7. ASSUME NEW t \in pending, Mine(t) \/ Forget(t) PROVE RecordInv'
  BY <1>7 DEF Mine, Forget
<1>8. QED
  BY <1>1, <1>2, <1>3, <1>4, <1>5, <1>6, <1>7 DEF Next

\* As long as the status writes of markUserOpsAsSubmitted succeed, no failure
\* leaves a record of a userOp that nobody works on in a store.
THEOREM NoRecordGoesStale ==
  ASSUME "markError" \notin FaultKinds
  PROVE  Spec => []NoStaleRecords
<1>1. Init => JobData /\ RecordInv
  BY DEF Init, JobData, RecordInv, NoStaleRecords, RecordsFollowJob, Owned
<1>2. TypeOK /\ JobData /\ [Next]_vars => JobData'
  <2> SUFFICES ASSUME TypeOK, JobData, [Next]_vars PROVE JobData'
    OBVIOUS
  <2>1. CASE UNCHANGED vars
    BY <2>1 DEF vars, jobVars, JobData
  <2>2. QED
    BY <2>1, JobDataNext
<1>3. TypeOK /\ SingleOwner /\ JobData /\ RecordInv /\ [Next]_vars => RecordInv'
  <2> SUFFICES ASSUME TypeOK, SingleOwner, JobData, RecordInv, [Next]_vars
               PROVE  RecordInv'
    OBVIOUS
  <2>1. CASE UNCHANGED vars
    BY <2>1 DEF vars, mempoolVars, jobVars, RecordInv, NoStaleRecords,
                RecordsFollowJob, Replacing, Owned
  <2>2. QED
    BY <2>1, RecordInvNext
<1>4. RecordInv => NoStaleRecords
  BY DEF RecordInv
<1>5. QED
  BY <1>1, <1>2, <1>3, <1>4, LifecycleTypes, OneOwner, PTL DEF Spec

-----------------------------------------------------------------------------
(***************************************************************************)
(* The refinement.  It needs to know where a userOp with a verdict may     *)
(* still be, that one without has a place, and that a bundle whose receipt *)
(* says success is on chain.                                               *)
(***************************************************************************)

Verdict == {"included", "rejected", "failed"}

\* A userOp with a verdict waits nowhere; a job has it only after it found it on
\* chain, and only such ones then.
SettledAreOut ==
  /\ \A o \in Ops : status[o] \in Verdict =>
       /\ o \notin outstanding \cup dropping
       /\ \A j \in Jobs : /\ o \notin rejected[j]
                          /\ o \in bundle[j] => pc[j] \in {"cancel", "drop"}
  /\ \A j \in Jobs : pc[j] \in {"cancel", "drop"} =>
       \A o \in bundle[j] : status[o] = "included"

\* A userOp without one has a place.
PendingHavePlaces ==
  \A o \in Ops : status[o] \in {"not_submitted", "submitted"} =>
    o \in outstanding \cup dropping \/ \E j \in Jobs : o \in Owned(j)

NothingToRevert == \A j \in Jobs : pc[j] = "revertCheck" => bundle[j] = {}

\* Whatever a job still carries was in each of its transactions.
TxsCoverBundle ==
  \A j \in Jobs :
    /\ pc[j] \notin {"check", "cancel", "drop"} => \A t \in txs[j] : bundle[j] \subseteq t.ops
    /\ pc[j] = "included" => bundle[j] \subseteq OnChain

StageInv == SettledAreOut /\ PendingHavePlaces /\ NothingToRevert

-----------------------------------------------------------------------------

\* What is on chain stays there.
LEMMA OnChainGrows == ASSUME Next PROVE OnChain \subseteq OnChain'
<1> USE DEF OnChain, mempoolVars, jobVars, cancelVars, chainVars
<1>1. ASSUME UNCHANGED <<foreign, minedOk>> PROVE OnChain \subseteq OnChain'
  BY <1>1
<1>2. ASSUME NEW o \in Ops, Add(o) \/ Drop(o) PROVE OnChain \subseteq OnChain'
  BY <1>1, <1>2 DEF Add, Drop
<1>3. ASSUME NEW o \in Ops, Frontrun(o) PROVE OnChain \subseteq OnChain'
  BY <1>3 DEF Frontrun
<1>4. ASSUME NEW j \in Jobs, StartBundle(j) \/ AcquireWallet(j) \/ JobStep(j)
      PROVE  OnChain \subseteq OnChain'
  BY <1>1, <1>4
     DEF StartBundle, AcquireWallet, JobStep, AcquisitionFails, Preflight, PreflightFails,
         PreflightRequeue, Simulate, SimulationFails, Send, SendReplacement, SendFails,
         RequeueRecoverable, FrontrunCheck, CancelFrontran, DropAndFree, MarkSubmitted,
         ObserveIncluded, SettleIncluded, ObserveReverted, FilterReverted, SettleReverted,
         ReplaceTransaction, RotateStuckBundle
<1>5. ASSUME NEW w \in Wallets, CancelStep(w) \/ Reconcile(w) PROVE OnChain \subseteq OnChain'
  BY <1>1, <1>5 DEF CancelStep, BroadcastCancel, CancelConfirmed, CancelTimesOut, Reconcile
<1>6. ASSUME NEW t \in pending, Mine(t) \/ Forget(t) PROVE OnChain \subseteq OnChain'
  <2>1. foreign' = foreign /\ minedOk \subseteq minedOk'
    BY <1>6 DEF Mine, Forget
  <2>2. QED
    BY <2>1
<1>7. QED
  BY <1>2, <1>3, <1>4, <1>5, <1>6 DEF Next

\* What a bundle carries only shrinks between its transactions.
LEMMA TxsCoverNext ==
  ASSUME TypeOK, JobData, TxsCoverBundle, Next
  PROVE  TxsCoverBundle'
<1> USE DEF TypeOK, JobData, TxsCoverBundle, vars, mempoolVars, jobVars, cancelVars, chainVars,
        Goto
<1>0. OnChain \subseteq OnChain'
  BY OnChainGrows
<1> HIDE DEF OnChain
<1>1. ASSUME UNCHANGED <<pc, bundle, txs>> PROVE TxsCoverBundle'
  BY <1>0, <1>1
<1>2. ASSUME NEW o \in Ops, Add(o) \/ Drop(o) \/ Frontrun(o) PROVE TxsCoverBundle'
  BY <1>1, <1>2 DEF Add, Drop, Frontrun
<1>3. ASSUME NEW j \in Jobs, StartBundle(j) \/ AcquireWallet(j) PROVE TxsCoverBundle'
  BY <1>0, <1>3 DEF StartBundle, AcquireWallet
<1>4. ASSUME NEW j \in Jobs, JobStep(j) PROVE TxsCoverBundle'
  <2>1. CASE AcquisitionFails(j) \/ PreflightRequeue(j)
    BY <1>0, <2>1 DEF AcquisitionFails, PreflightRequeue, Finish
  <2>2. CASE SettleIncluded(j) \/ SettleReverted(j)
    BY <1>0, <2>2 DEF SettleIncluded, SettleReverted, Finish
  <2>3. CASE DropAndFree(j)
    BY <1>0, <2>3 DEF DropAndFree, Finish
  <2>4. CASE Preflight(j) \/ PreflightFails(j) \/ CancelFrontran(j)
    BY <1>0, <2>4 DEF Preflight, PreflightFails, CancelFrontran
  <2>5. CASE Simulate(j)
    BY <1>0, <2>5 DEF Simulate, Split
  <2>6. CASE SimulationFails(j)
    BY <1>0, <2>6 DEF SimulationFails, Split
  <2>7. CASE Send(j)
    <3>1. txs' = [txs EXCEPT ![j] = {BundleTx(j)}] /\ BundleTx(j).ops = bundle[j]
      BY <2>7 DEF Send, BundleTx, Tx
    <3>2. pc' = [pc EXCEPT ![j] = "mark"] /\ UNCHANGED bundle
      BY <2>7 DEF Send
    <3>3. QED
      BY <1>0, <3>1, <3>2
  <2>8. CASE SendReplacement(j)
    <3>1. txs' = [txs EXCEPT ![j] = @ \cup {BundleTx(j)}] /\ BundleTx(j).ops = bundle[j]
      BY <2>8 DEF SendReplacement, BundleTx, Tx
    <3>2. /\ pc[j] = "send" /\ pc' = [pc EXCEPT ![j] = "tracked"]
          /\ bundle' = [bundle EXCEPT ![j] = bundle[j]]
      BY <2>8 DEF SendReplacement, Split
    <3>3. QED
      BY <1>0, <3>1, <3>2
  <2>9. CASE ReplaceTransaction(j) \/ RotateStuckBundle(j)
    BY <1>0, <2>9 DEF ReplaceTransaction, RotateStuckBundle
  <2>10. CASE SendFails(j)
    <3>1. /\ UNCHANGED txs /\ pc[j] = "send" /\ pc' = [pc EXCEPT ![j] = "failed"]
          /\ bundle' = bundle \/ bundle' = [bundle EXCEPT ![j] = {}]
      BY <2>10 DEF SendFails
    <3>2. QED
      BY <1>0, <3>1
  <2>11. CASE RequeueRecoverable(j)
    BY <1>0, <2>11 DEF RequeueRecoverable
  <2>12. CASE FrontrunCheck(j)
    BY <1>0, <2>12 DEF FrontrunCheck, Split
  <2>13. CASE MarkSubmitted(j)
    BY <1>0, <2>13 DEF MarkSubmitted, Split
  <2>14. CASE ObserveIncluded(j)
    <3>1. /\ pc[j] = "tracked" /\ pc' = [pc EXCEPT ![j] = "included"]
          /\ UNCHANGED <<bundle, txs>>
      BY <2>14 DEF ObserveIncluded
    <3>2. PICK t \in txs[j] : t \in minedOk
      BY <2>14 DEF ObserveIncluded
    <3>3. bundle[j] \subseteq OnChain
      BY <3>1, <3>2 DEF OnChain
    <3>4. QED
      BY <1>0, <3>1, <3>3
  <2>15. CASE ObserveReverted(j)
    BY <1>0, <2>15 DEF ObserveReverted
  <2>16. CASE FilterReverted(j)
    BY <1>0, <2>16 DEF FilterReverted, Split
  <2>17. QED
    BY <1>4, <2>1, <2>2, <2>3, <2>4, <2>5, <2>6, <2>7, <2>8, <2>9, <2>10, <2>11,
       <2>12, <2>13, <2>14, <2>15, <2>16
       DEF JobStep
<1>5. ASSUME NEW w \in Wallets, CancelStep(w) \/ Reconcile(w) PROVE TxsCoverBundle'
  BY <1>1, <1>5 DEF CancelStep, BroadcastCancel, CancelConfirmed, CancelTimesOut, Reconcile
<1>6. ASSUME NEW t \in pending, Mine(t) \/ Forget(t) PROVE TxsCoverBundle'
  BY <1>1, <1>6 DEF Mine, Forget
<1>7. QED
  BY <1>2, <1>3, <1>4, <1>5, <1>6 DEF Next

-----------------------------------------------------------------------------

\* A userOp has a place until it has a verdict, and none after it.
LEMMA StageInvNext ==
  ASSUME "markError" \notin FaultKinds,
         TypeOK, OwnerInv, JobData, StageInv, Next
  PROVE  StageInv'
<1> USE DEF TypeOK, OwnerInv, SingleOwner, Unseen, JobData, StageInv, SettledAreOut,
        PendingHavePlaces, NothingToRevert, Verdict, Owned, vars, mempoolVars, jobVars,
        cancelVars, chainVars, SetStatus, Goto
<1>1. ASSUME UNCHANGED <<outstanding, dropping, status, pc, bundle, rejected>> PROVE StageInv'
  BY <1>1
<1>2. ASSUME NEW o \in Ops, Add(o) PROVE StageInv'
  BY <1>2 DEF Add
<1>3. ASSUME NEW o \in Ops, Drop(o) PROVE StageInv'
  BY <1>3 DEF Drop, DropUserOps
<1>4. ASSUME NEW o \in Ops, Frontrun(o) PROVE StageInv'
  BY <1>1, <1>4 DEF Frontrun
<1>5. ASSUME NEW j \in Jobs, StartBundle(j) PROVE StageInv'
  BY <1>5 DEF StartBundle
<1>6. ASSUME NEW j \in Jobs, AcquireWallet(j) PROVE StageInv'
  BY <1>6 DEF AcquireWallet
<1>7. ASSUME NEW j \in Jobs, JobStep(j) PROVE StageInv'
  <2>1. CASE AcquisitionFails(j) \/ PreflightRequeue(j)
    <3>1. /\ Resubmit(bundle[j]) /\ Finish(j) /\ UNCHANGED dropping /\ rejected[j] = {}
          /\ pc[j] \in {"acquire", "requeue"}
      BY <2>1 DEF AcquisitionFails, PreflightRequeue
    <3>2. QED
      BY <3>1 DEF Resubmit, Finish
  <2>2. CASE SettleIncluded(j)
    BY <2>2 DEF SettleIncluded, Finish
  <2>3. CASE SettleReverted(j)
    BY <2>3 DEF SettleReverted, Finish
  <2>4. CASE DropAndFree(j)
    BY <2>4 DEF DropAndFree, Finish
  <2>5. CASE Preflight(j) \/ PreflightFails(j) \/ CancelFrontran(j)
    BY <2>5 DEF Preflight, PreflightFails, CancelFrontran
  <2>6. CASE Simulate(j)
    BY <2>6 DEF Simulate, Split
  <2>7. CASE SimulationFails(j)
    BY <2>7 DEF SimulationFails, Split
  <2>8. CASE Send(j) \/ ReplaceTransaction(j) \/ RotateStuckBundle(j)
    BY <2>8 DEF Send, ReplaceTransaction, RotateStuckBundle
  <2>9. CASE SendReplacement(j)
    BY <2>9 DEF SendReplacement, Split
  <2>10. CASE SendFails(j)
    BY <2>10 DEF SendFails
  <2>11. CASE RequeueRecoverable(j)
    BY <2>11 DEF RequeueRecoverable, Resubmit
  <2>12. CASE FrontrunCheck(j)
    BY <2>12 DEF FrontrunCheck, Split
  <2>13. CASE MarkSubmitted(j)
    BY <2>13 DEF MarkSubmitted, Split, Fault
  <2>14. CASE ObserveIncluded(j) \/ ObserveReverted(j)
    BY <2>14 DEF ObserveIncluded, ObserveReverted, FreeSubmittedBundle
  <2>15. CASE FilterReverted(j)
    BY <2>15 DEF FilterReverted, Resubmit, Split
  <2>16. QED
    BY <1>7, <2>1, <2>2, <2>3, <2>4, <2>5, <2>6, <2>7, <2>8, <2>9, <2>10, <2>11,
       <2>12, <2>13, <2>14, <2>15
       DEF JobStep
<1>8. ASSUME NEW w \in Wallets, CancelStep(w) \/ Reconcile(w) PROVE StageInv'
  BY <1>1, <1>8 DEF CancelStep, BroadcastCancel, CancelConfirmed, CancelTimesOut, Reconcile
<1>9. ASSUME NEW t \in pending, Mine(t) \/ Forget(t) PROVE StageInv'
  BY <1>1, <1>9 DEF Mine, Forget
<1>10. QED
  BY <1>2, <1>3, <1>4, <1>5, <1>6, <1>7, <1>8, <1>9 DEF Next

-----------------------------------------------------------------------------
(* Every step moves each userOp along an edge of the abstract lifecycle.   *)

\* The userOps some flow works on.
Worked == { o \in Ops : o \in dropping \/ \E j \in Jobs : o \in Owned(j) }

\* What a step may do to a userOp, in terms of the stores and the status.
Advances(o) ==
  \/ /\ status'[o] = status[o] \/ {status[o], status'[o]} \subseteq {"not_submitted", "submitted"}
     /\ o \in outstanding' <=> o \in outstanding
     /\ o \in Worked' <=> o \in Worked
  \/ status[o] = "none" /\ status'[o] = "not_submitted" /\ o \in outstanding'
  \/ /\ status[o] \in Verdict /\ status'[o] = status[o]
  \/ /\ o \in outstanding /\ o \notin outstanding' /\ o \in Worked' /\ status'[o] = status[o]
  \/ /\ o \in Worked /\ status[o] \notin Verdict
     /\ \/ o \in outstanding' /\ status'[o] = "not_submitted"
        \/ status'[o] \in {"rejected", "failed"}
        \/ o \in OnChain /\ status'[o] = "included"

\* Every action is one of the five things to every userOp.
LEMMA NextAdvances ==
  ASSUME "markError" \notin FaultKinds,
         TypeOK, OwnerInv, JobData, StageInv, TxsCoverBundle, Next, NEW q \in Ops
  PROVE  Advances(q)
<1> USE DEF TypeOK, OwnerInv, SingleOwner, Unseen, JobData, StageInv, SettledAreOut,
        PendingHavePlaces, NothingToRevert, Verdict, Owned, vars, mempoolVars, jobVars,
        cancelVars, chainVars, SetStatus, Goto, Advances, Worked
<1>1. ASSUME UNCHANGED <<outstanding, dropping, status, bundle, rejected>> PROVE Advances(q)
  BY <1>1
<1>2. ASSUME NEW o \in Ops, Add(o) PROVE Advances(q)
  BY <1>2 DEF Add
<1>3. ASSUME NEW o \in Ops, Drop(o) PROVE Advances(q)
  BY <1>3 DEF Drop, DropUserOps
<1>4. ASSUME NEW o \in Ops, Frontrun(o) PROVE Advances(q)
  BY <1>1, <1>4 DEF Frontrun
<1>5. ASSUME NEW j \in Jobs, StartBundle(j) PROVE Advances(q)
  BY <1>5 DEF StartBundle
<1>6. ASSUME NEW j \in Jobs, AcquireWallet(j) PROVE Advances(q)
  BY <1>1, <1>6 DEF AcquireWallet
<1>7. ASSUME NEW j \in Jobs, JobStep(j) PROVE Advances(q)
  <2>1. CASE AcquisitionFails(j) \/ PreflightRequeue(j)
    <3>1. /\ Resubmit(bundle[j]) /\ Finish(j) /\ UNCHANGED dropping /\ rejected[j] = {}
          /\ pc[j] \in {"acquire", "requeue"}
      BY <2>1 DEF AcquisitionFails, PreflightRequeue
    <3>2. QED
      BY <3>1 DEF Resubmit, Finish
  <2>2. CASE SettleIncluded(j)
    <3>1. bundle[j] \subseteq OnChain
      BY <2>2 DEF SettleIncluded, TxsCoverBundle
    <3>2. QED
      BY <2>2, <3>1 DEF SettleIncluded, Finish
  <2>3. CASE SettleReverted(j)
    BY <2>3 DEF SettleReverted, Finish
  <2>4. CASE DropAndFree(j)
    BY <2>4 DEF DropAndFree, Finish
  <2>5. CASE Preflight(j) \/ PreflightFails(j) \/ CancelFrontran(j)
    BY <1>1, <2>5 DEF Preflight, PreflightFails, CancelFrontran
  <2>6. CASE Simulate(j)
    BY <2>6 DEF Simulate, Split
  <2>7. CASE SimulationFails(j)
    BY <2>7 DEF SimulationFails, Split
  <2>8. CASE Send(j) \/ ReplaceTransaction(j) \/ RotateStuckBundle(j)
    BY <1>1, <2>8 DEF Send, ReplaceTransaction, RotateStuckBundle
  <2>9. CASE SendReplacement(j)
    BY <2>9 DEF SendReplacement, Split
  <2>10. CASE SendFails(j)
    BY <2>10 DEF SendFails
  <2>11. CASE RequeueRecoverable(j)
    BY <2>11 DEF RequeueRecoverable, Resubmit
  <2>12. CASE FrontrunCheck(j)
    BY <2>12 DEF FrontrunCheck, Split
  <2>13. CASE MarkSubmitted(j)
    BY <2>13 DEF MarkSubmitted, Split, Fault
  <2>14. CASE ObserveIncluded(j) \/ ObserveReverted(j)
    BY <1>1, <2>14 DEF ObserveIncluded, ObserveReverted, FreeSubmittedBundle
  <2>15. CASE FilterReverted(j)
    BY <2>15 DEF FilterReverted, Resubmit, Split
  <2>16. QED
    BY <1>7, <2>1, <2>2, <2>3, <2>4, <2>5, <2>6, <2>7, <2>8, <2>9, <2>10, <2>11,
       <2>12, <2>13, <2>14, <2>15
       DEF JobStep
<1>8. ASSUME NEW w \in Wallets, CancelStep(w) \/ Reconcile(w) PROVE Advances(q)
  BY <1>1, <1>8 DEF CancelStep, BroadcastCancel, CancelConfirmed, CancelTimesOut, Reconcile
<1>9. ASSUME NEW t \in pending, Mine(t) \/ Forget(t) PROVE Advances(q)
  BY <1>1, <1>9 DEF Mine, Forget
<1>10. QED
  BY <1>2, <1>3, <1>4, <1>5, <1>6, <1>7, <1>8, <1>9 DEF Next

\* With the invariants before and after, each of these is a stutter or an edge.
LEMMA AdvancesAlongEdges ==
  ASSUME TypeOK, OwnerInv, StageInv, TypeOK', OwnerInv', StageInv', NEW o \in Ops, Advances(o)
  PROVE  \/ Stage(o)' = Stage(o)
         \/ Stage(o) = "unknown" /\ Stage(o)' = "waiting"
         \/ Stage(o) = "waiting" /\ Stage(o)' = "bundled"
         \/ Stage(o) = "bundled" /\ Stage(o)' = "waiting"
         \/ Stage(o) = "bundled" /\ Stage(o)' = "included" /\ o \in OnChain
         \/ Stage(o) = "bundled" /\ Stage(o)' = "rejected"
         \/ Stage(o) = "bundled" /\ Stage(o)' = "failed"
<1> DEFINE Place == IF status[o] \in Verdict THEN status[o]
                    ELSE IF o \in outstanding THEN "waiting"
                    ELSE IF o \in Worked THEN "bundled"
                    ELSE IF status[o] = "none" THEN "unknown" ELSE "orphaned"
<1>1. Stage(o) = Place /\ Stage(o)' = Place'
  BY DEF Stage, Verdict, Worked
<1>2. /\ status[o] = "none" => o \notin outstanding \cup Worked
      /\ status[o] \in Verdict => o \notin outstanding
      /\ status[o] \in {"not_submitted", "submitted"} => o \in outstanding \cup Worked
      /\ ~(o \in outstanding /\ o \in Worked)
      /\ status[o] \in {"none", "not_submitted", "submitted"} \cup Verdict
  BY DEF TypeOK, OwnerInv, SingleOwner, Unseen, StageInv, SettledAreOut, PendingHavePlaces,
         Worked, Verdict
<1>3. /\ status'[o] = "none" => o \notin outstanding' \cup Worked'
      /\ status'[o] \in Verdict => o \notin outstanding'
      /\ status'[o] \in {"not_submitted", "submitted"} => o \in outstanding' \cup Worked'
      /\ ~(o \in outstanding' /\ o \in Worked')
      /\ status'[o] \in {"none", "not_submitted", "submitted"} \cup Verdict
  BY DEF TypeOK, OwnerInv, SingleOwner, Unseen, StageInv, SettledAreOut, PendingHavePlaces,
         Worked, Verdict
<1>4. status[o] \in Verdict => status'[o] = status[o]
  BY <1>2 DEF Advances, Verdict
<1>5. QED
  BY <1>1, <1>2, <1>3, <1>4 DEF Advances, Verdict

\* Hence every action moves the userOps along the edges of the lifecycle.
LEMMA NextMoves ==
  ASSUME "markError" \notin FaultKinds,
         TypeOK, OwnerInv, JobData, StageInv, TxsCoverBundle, TypeOK', OwnerInv', StageInv', Next
  PROVE  Lifecycle!Next
<1>1. OnChain \subseteq OnChain'
  BY OnChainGrows
<1>2. QED
  BY <1>1, NextAdvances, AdvancesAlongEdges
     DEF Lifecycle!Next, Lifecycle!Accept, Lifecycle!Bundle, Lifecycle!Requeue, Lifecycle!Include,
         Lifecycle!Reject, Lifecycle!Fail, Lifecycle!Moves

\* Neither a replacement nor a rotation, a revert, a lost answer or any other
\* failure of a dependency makes a userOp disappear between two flows, changes a
\* verdict, bundles a settled userOp again or reports one as included that is not
\* on chain, as long as the status writes of markUserOpsAsSubmitted succeed.
THEOREM UserOpsFollowLifecycle ==
  ASSUME "markError" \notin FaultKinds
  PROVE  Spec => FollowsLifecycle
<1> DEFINE Inv == OwnerInv /\ JobData /\ StageInv /\ TxsCoverBundle
<1>1. Init => Inv
  BY DEF Init, OwnerInv, SingleOwner, Unseen, Owned, JobData, StageInv, SettledAreOut,
         PendingHavePlaces, NothingToRevert, TxsCoverBundle, Verdict
<1>2. TypeOK /\ Inv /\ [Next]_vars => Inv'
  <2> SUFFICES ASSUME TypeOK, Inv, [Next]_vars PROVE Inv'
    OBVIOUS
  <2>1. CASE Next
    BY <2>1, OwnerInvNext, JobDataNext, StageInvNext, TxsCoverNext
  <2>2. CASE UNCHANGED vars
    BY <2>2 DEF vars, mempoolVars, jobVars, chainVars, OwnerInv, SingleOwner, Unseen, Owned,
                JobData, StageInv, SettledAreOut, PendingHavePlaces, NothingToRevert,
                TxsCoverBundle, OnChain
  <2>3. QED
    BY <2>1, <2>2
<1>3. Init => Lifecycle!Init
  BY DEF Init, Lifecycle!Init, Stage, Owned, OnChain
<1>4. TypeOK /\ TypeOK' /\ Inv /\ Inv' /\ [Next]_vars
        => [Lifecycle!Next]_<<[o \in Ops |-> Stage(o)], OnChain>>
  <2> SUFFICES ASSUME TypeOK, TypeOK', Inv, Inv', [Next]_vars
               PROVE  [Lifecycle!Next]_<<[o \in Ops |-> Stage(o)], OnChain>>
    OBVIOUS
  <2>1. CASE Next
    BY <2>1, NextMoves
  <2>2. CASE UNCHANGED vars
    BY <2>2 DEF vars, mempoolVars, jobVars, chainVars, Stage, Owned, OnChain
  <2>3. QED
    BY <2>1, <2>2
<1> HIDE DEF Inv
<1>5. QED
  BY <1>1, <1>2, <1>3, <1>4, LifecycleTypes, PTL DEF Spec, FollowsLifecycle, Lifecycle!Spec

-----------------------------------------------------------------------------
(* A released wallet.  A transaction that can still be mined is not below  *)
(* the next nonce of its account.                                          *)
PendingAhead == \A t \in pending : t.nonce >= latest[t.executor]

\* A transaction enters at the next nonce or above it, and the next nonce only
\* passes what it takes off.
LEMMA PendingAheadNext ==
  ASSUME TypeOK, WalletAtWork, PendingAhead, Next
  PROVE  PendingAhead'
<1> USE DEF TypeOK, PendingAhead, Transactions, mempoolVars, jobVars, cancelVars, chainVars
<1>1. ASSUME latest' = latest,
             \E S \in SUBSET Transactions :
               pending' \subseteq pending \cup S /\ \A t \in S : t.nonce >= latest[t.executor]
      PROVE  PendingAhead'
  BY <1>1
<1>2. ASSUME latest' = latest, pending' \subseteq pending PROVE PendingAhead'
  BY <1>2
<1>3. ASSUME NEW o \in Ops, Add(o) \/ Drop(o) \/ Frontrun(o) PROVE PendingAhead'
  BY <1>2, <1>3 DEF Add, Drop, Frontrun
<1>4. ASSUME NEW j \in Jobs, StartBundle(j) \/ AcquireWallet(j) PROVE PendingAhead'
  BY <1>2, <1>4 DEF StartBundle, AcquireWallet
<1>5. ASSUME NEW j \in Jobs, JobStep(j) PROVE PendingAhead'
  <2>1. CASE Send(j) \/ SendReplacement(j) \/ SendFails(j)
    <3>1. /\ BundleTx(j) \in Transactions
          /\ BundleTx(j).nonce >= latest[BundleTx(j).executor]
      <4>1. pc[j] = "send"
        BY <2>1 DEF Send, SendReplacement, SendFails
      <4>2. wallet[j] \in Wallets
        BY <4>1 DEF WalletAtWork, WithWallet
      <4>3. latest[wallet[j]] \in Nat /\ bundle[j] \subseteq Ops
        BY <4>2
      <4>4. BundleTx(j) =
              [executor |-> wallet[j], nonce |-> latest[wallet[j]], ops |-> bundle[j]]
        BY DEF BundleTx, Tx
      <4>5. QED
        BY <4>2, <4>3, <4>4
    <3>2. latest' = latest /\ pending' \subseteq pending \cup {BundleTx(j)}
      BY <2>1 DEF Send, SendReplacement, SendFails
    <3>3. QED
      BY <1>1, <3>1, <3>2
  <2>2. CASE CancelFrontran(j)
    <3>1. CASE UNCHANGED pending
      BY <1>2, <2>2, <3>1 DEF CancelFrontran
    <3>2. CASE /\ latest[wallet[j]] <= nonce[j]
               /\ pending' = pending \cup {Tx(wallet[j], nonce[j], {})}
      <4>1. wallet[j] \in Wallets
        BY <2>2 DEF CancelFrontran, WalletAtWork, WithWallet
      <4>2. Tx(wallet[j], nonce[j], {}) \in Transactions
        BY <4>1 DEF Tx
      <4>3. QED
        BY <1>1, <2>2, <3>2, <4>1, <4>2 DEF CancelFrontran, Tx
    <3>3. QED
      BY <2>2, <3>1, <3>2 DEF CancelFrontran
  <2>3. CASE UNCHANGED chainVars
    BY <1>2, <2>3
  <2>4. QED
    BY <1>5, <2>1, <2>2, <2>3
       DEF JobStep, AcquisitionFails, Preflight, PreflightFails, PreflightRequeue, Simulate,
           SimulationFails, RequeueRecoverable, FrontrunCheck, DropAndFree, MarkSubmitted,
           ObserveIncluded, SettleIncluded, ObserveReverted, FilterReverted, SettleReverted,
           ReplaceTransaction, RotateStuckBundle
<1>6. ASSUME NEW w \in Wallets, CancelStep(w) \/ Reconcile(w) PROVE PendingAhead'
  <2>1. CASE BroadcastCancel(w)
    <3>1. Tx(w, stuckNonce[w], {}) \in Transactions /\ stuckNonce[w] >= latest[w]
      BY <2>1 DEF BroadcastCancel, Tx
    <3>2. latest' = latest /\ pending' \subseteq pending \cup {Tx(w, stuckNonce[w], {})}
      BY <2>1 DEF BroadcastCancel
    <3>3. QED
      BY <1>1, <3>1, <3>2 DEF Tx
  <2>2. CASE CancelConfirmed(w) \/ CancelTimesOut(w) \/ Reconcile(w)
    BY <1>2, <2>2 DEF CancelConfirmed, CancelTimesOut, Reconcile
  <2>3. QED
    BY <1>6, <2>1, <2>2 DEF CancelStep
<1>7. ASSUME NEW t \in pending, Mine(t) PROVE PendingAhead'
  <2>1. /\ t.nonce = latest[t.executor]
        /\ latest' = [latest EXCEPT ![t.executor] = @ + 1]
        /\ pending' = { u \in pending : u.executor # t.executor \/ u.nonce > t.nonce }
    BY <1>7 DEF Mine
  <2>2. QED
    BY <2>1
<1>8. ASSUME NEW t \in pending, Forget(t) PROVE PendingAhead'
  BY <1>2, <1>8 DEF Forget
<1>9. QED
  BY <1>3, <1>4, <1>5, <1>6, <1>7, <1>8 DEF Next

\* Only a confirmed cancel and the reconciliation return such a wallet.
LEMMA ReleaseIsClear ==
  ASSUME ClearToRelease > 1, TypeOK, WalletsAccounted, PendingAhead, Next,
         NEW w \in cancelsInFlight \cup quarantined, w \in available',
         NEW t \in pending', t.executor = w
  PROVE  t.nonce # stuckNonce[w]
<1> USE DEF TypeOK, WalletsAccounted, PendingAhead, Transactions, mempoolVars, jobVars, cancelVars,
        chainVars
<1>1. w \in Wallets /\ w \notin available \cup Held
  OBVIOUS
<1>2. ASSUME available' \subseteq available PROVE FALSE
  BY <1>1, <1>2
<1>3. ASSUME NEW j \in Jobs, available' \subseteq available \cup {wallet[j]} PROVE FALSE
  BY <1>1, <1>3, LifecycleAssumption DEF Held
<1>4. ASSUME NEW o \in Ops, Add(o) \/ Drop(o) \/ Frontrun(o) PROVE FALSE
  BY <1>2, <1>4 DEF Add, Drop, Frontrun
<1>5. ASSUME NEW j \in Jobs, StartBundle(j) \/ AcquireWallet(j) PROVE FALSE
  BY <1>2, <1>5 DEF StartBundle, AcquireWallet
<1>6. ASSUME NEW j \in Jobs, JobStep(j) PROVE FALSE
  BY <1>2, <1>3, <1>6
     DEF JobStep, AcquisitionFails, Preflight, PreflightFails, PreflightRequeue, Simulate,
         SimulationFails, Send, SendReplacement, SendFails, RequeueRecoverable, FrontrunCheck,
         CancelFrontran, DropAndFree, MarkSubmitted, ObserveIncluded, SettleIncluded,
         ObserveReverted, FilterReverted, SettleReverted, ReplaceTransaction, RotateStuckBundle,
         FreeSubmittedBundle
<1>7. ASSUME NEW v \in Wallets, CancelStep(v) PROVE t.nonce # stuckNonce[w]
  <2>1. CASE BroadcastCancel(v) \/ CancelTimesOut(v)
    BY <1>2, <2>1 DEF BroadcastCancel, CancelTimesOut
  <2>2. CASE CancelConfirmed(v)
    BY <1>1, <2>2 DEF CancelConfirmed
  <2>3. QED
    BY <1>7, <2>1, <2>2 DEF CancelStep
<1>8. ASSUME NEW v \in Wallets, Reconcile(v) PROVE t.nonce # stuckNonce[w]
  <2>1. UNCHANGED pending
    BY <1>8 DEF Reconcile
  <2>2. CASE latest[v] > stuckNonce[v] /\ Release(v)
    BY <1>1, <2>1, <2>2 DEF Release
  <2>3. CASE ~InFlight(v) /\ ObserveClear(v)
    BY <1>1, <2>1, <2>3 DEF InFlight, ObserveClear, Release
  <2>4. CASE clearObservations[v] = 0 /\ ObserveClear(v)
    BY <1>2, <2>4, LifecycleAssumption DEF ObserveClear
  <2>5. CASE ObserveInFlight(v)
    BY <1>2, <2>5 DEF ObserveInFlight
  <2>6. QED
    BY <1>8, <2>2, <2>3, <2>4, <2>5 DEF Reconcile
<1>9. ASSUME NEW u \in pending, Mine(u) \/ Forget(u) PROVE FALSE
  BY <1>2, <1>9 DEF Mine, Forget
<1>10. QED
  BY <1>4, <1>5, <1>6, <1>7, <1>8, <1>9 DEF Next

\* With two readings in a row, a stale reading of the pending nonce releases no
\* wallet whose stuck transaction can still be mined: cancelBundle and
\* reconcileQuarantinedWallets hand it back only when that nonce is settled.
THEOREM ReleasedAlwaysClear ==
  ASSUME ClearToRelease > 1
  PROVE  Spec => ReleasedNonceIsClear
<1>1. Init => PendingAhead
  BY DEF Init, PendingAhead
<1>2. WalletInv /\ PendingAhead /\ [Next]_vars => PendingAhead'
  <2> SUFFICES ASSUME WalletInv, PendingAhead, [Next]_vars PROVE PendingAhead'
    OBVIOUS
  <2>1. CASE Next
    <3>1. TypeOK /\ WalletAtWork
      BY DEF WalletInv, WalletsAccounted, WalletAtWork
    <3>2. QED
      BY <2>1, <3>1, PendingAheadNext
  <2>2. CASE UNCHANGED vars
    BY <2>2 DEF vars, chainVars, PendingAhead
  <2>3. QED
    BY <2>1, <2>2
<1>3. WalletInv /\ PendingAhead /\ [Next]_vars
        => [\A w \in cancelsInFlight \cup quarantined :
              w \in available' =>
                \A t \in pending' : t.executor = w => t.nonce # stuckNonce[w]]_vars
  <2> SUFFICES ASSUME WalletInv, PendingAhead, Next,
                      NEW w \in cancelsInFlight \cup quarantined, w \in available',
                      NEW t \in pending', t.executor = w
               PROVE  t.nonce # stuckNonce[w]
    OBVIOUS
  <2>1. QED
    BY ReleaseIsClear DEF WalletInv
<1>4. QED
  BY <1>1, <1>2, <1>3, WalletInvHolds, PTL DEF Spec, ReleasedNonceIsClear
=============================================================================
