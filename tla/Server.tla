------------------------------- MODULE Server -------------------------------
(***************************************************************************)
(* The parts of one server that meet the mempool and the bundle lifecycle  *)
(* through a call or a number and share no state with each other: the      *)
(* admission of an op, what a bundle bids, when bundles are looked at,     *)
(* when passes run, what clients are told, and how wallets are looked      *)
(* after.  A behaviour is about one of them; three of them have timers and *)
(* read the same clock.                                                    *)
(***************************************************************************)
EXTENDS Admission, Bidding, BlockWatch, BundlingLoop, Receipts, WalletUpkeep

CONSTANT Subjects

VARIABLE subject

\* Of a part that is not the subject one configuration is enough.
Idle(part) ==
  subject # part =>
    CASE part = "admission" -> /\ [config |-> config, userOp |-> userOp] = CHOOSE s \in Scenarios : TRUE
                               /\ reading = CHOOSE r \in config.readings : TRUE
      [] part = "bidding" -> bidder = (CHOOSE c \in Bidders : TRUE) /\ held = Null
      [] part = "blocks" -> watcher = CHOOSE w \in Watchers : TRUE
      [] part = "passes" -> bundlingMode = "manual"
      [] part = "receipts" -> cacheKind = CHOOSE k \in Caches : TRUE
      [] part = "upkeep" -> upkeep = CHOOSE u \in Upkeeps : TRUE

Init ==
  /\ subject \in Subjects
  /\ AdmissionInit /\ BiddingInit /\ WatchInit /\ LoopInit /\ ReceiptsInit /\ UpkeepInit
  /\ \A part \in Subjects : Idle(part)

Next ==
  \/ /\ subject = "admission" /\ AdmissionNext
     /\ UNCHANGED <<subject, clock, bidVars, watchVars, loopVars, receiptVars,
                    upkeepVars>>
  \/ /\ subject = "bidding" /\ BiddingNext
     /\ UNCHANGED <<subject, clock, admissionVars, watchVars, loopVars, receiptVars,
                    upkeepVars>>
  \/ /\ subject = "blocks" /\ WatchNext
     /\ UNCHANGED <<subject, admissionVars, bidVars, loopVars, receiptVars, upkeepVars>>
  \/ /\ subject = "passes" /\ LoopNext
     /\ UNCHANGED <<subject, admissionVars, bidVars, watchVars, receiptVars, upkeepVars>>
  \/ /\ subject = "receipts" /\ ReceiptsNext
     /\ UNCHANGED <<subject, admissionVars, bidVars, watchVars, loopVars, upkeepVars>>
  \/ /\ subject = "upkeep" /\ UpkeepNext
     /\ UNCHANGED <<subject, clock, admissionVars, bidVars, watchVars, loopVars, receiptVars>>

vars == <<subject, clock, admissionVars, bidVars, watchVars, loopVars, receiptVars, upkeepVars>>

Spec == Init /\ [][Next]_vars
=============================================================================
