----------------------------- MODULE Instances -----------------------------
(***************************************************************************)
(* What instances of the bundler share through Redis.  With horizontal     *)
(* scaling they share the outstanding userOps, those in processing and     *)
(* submitted, the wallets and the price windows, each under keys of its    *)
(* own; without it, an instance that stops hands over to the next.  The    *)
(* five do not touch each other's keys, so a behaviour is about one of     *)
(* them.                                                                   *)
(***************************************************************************)
EXTENDS RedisOutstanding, RedisSenderManager, RedisMinMaxQueue, RedisStores, Restoration

CONSTANT Subjects

VARIABLE subject

Init ==
  /\ subject \in Subjects
  /\ OutstandingInit /\ StoresInit /\ WalletsInit /\ WindowInit
  /\ IF subject = "restart" THEN RestorationInit
     ELSE RestorationInit /\ useQueue = FALSE /\ listening = {"new"}

Next ==
  \/ /\ subject = "outstanding" /\ OutstandingNext
     /\ UNCHANGED <<subject, storeVars, walletVars, windowVars, restorationVars>>
  \/ /\ subject = "stores" /\ StoresNext
     /\ UNCHANGED <<subject, outstandingVars, walletVars, windowVars, restorationVars>>
  \/ /\ subject = "wallets" /\ WalletsNext
     /\ UNCHANGED <<subject, outstandingVars, storeVars, windowVars, restorationVars>>
  \/ /\ subject = "prices" /\ WindowNext
     /\ UNCHANGED <<subject, outstandingVars, storeVars, walletVars, restorationVars>>
  \/ /\ subject = "restart" /\ RestorationNext
     /\ UNCHANGED <<subject, outstandingVars, storeVars, walletVars, windowVars>>

vars == <<subject, outstandingVars, storeVars, walletVars, windowVars, restorationVars>>

Spec == Init /\ [][Next]_vars
=============================================================================
