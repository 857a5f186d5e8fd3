--------------------------- MODULE Server_proofs ----------------------------
(***************************************************************************)
(* Proofs about the parts of one server, each about the specification of   *)
(* its part: blocks are looked at in time, no pass starts after a switch   *)
(* to manual bundling, clients are told what holds, wallets are not filled *)
(* beyond their level, an op is admitted by a price, a gas limit and an    *)
(* estimate that it was given, and a replacement bids enough.  Each part   *)
(* has an inductive invariant, whose name is the part's.  The server is    *)
(* one of its parts at a time (EachIsServed).                              *)
(***************************************************************************)
EXTENDS Server, Totals_proofs

-----------------------------------------------------------------------------
(***************************************************************************)
(* When bundles are looked at.  LookedAtInTime speaks of the time that has *)
(* passed.  Inductive is what the timers make of it: one of them is on     *)
(* while the watcher is, is never missed, and is due in time counted from  *)
(* the last look, which a timer that is armed again keeps.                 *)
(***************************************************************************)

Interval == watcher.flashblocksPreconfirmationTime

WatchStates == {"new", "sent", "tracked", "settled"}

WatchTypes ==
  /\ watcher \in Watchers
  /\ clock \in Nat /\ lastReconcileAt \in Nat /\ runEnded \in Nat
  /\ lastReconcileAt <= clock /\ runEnded <= clock
  /\ bundle \in [Bundles -> WatchStates]
  /\ unWatch \in BOOLEAN
  /\ DOMAIN lookedAt = Bundles
  /\ \A b \in PendingBundles :
       lookedAt[b] \in Nat /\ lookedAt[b] <= clock /\ lastReconcileAt <= lookedAt[b]

\* The timers are on while the watcher is, one or the other, and are not missed.
TimersOn ==
  /\ pollTimer = None <=> ~(unWatch /\ Polls)
  /\ staleBlockTimer = None <=> ~(unWatch /\ ~Polls)
  /\ pollTimer # None => pollTimer \in clock .. clock + Interval
  /\ staleBlockTimer # None => staleBlockTimer \in clock .. clock + BlockTime

\* Without the watcher there are only bundles that were restored; a run has none
\* but tracked bundles.
Watched ==
  /\ ~unWatch => PendingBundles \subseteq unwatched
  /\ run # None => run \in Runs /\ run.bundles \subseteq PendingBundles

\* The timer that looks at the bundles is due in time.
DueInTime ==
  run = None /\ unWatch =>
    /\ Polls => \A b \in PendingBundles \ unwatched :
                  pollTimer <= lookedAt[b] + Interval \/ pollTimer <= runEnded + Interval
    /\ ~Polls => \/ staleBlockTimer <= lastReconcileAt + ResubmitStuckTimeout + BlockTime
                 \/ staleBlockTimer <= runEnded + BlockTime

WatchInv == WatchTypes /\ TimersOn /\ Watched /\ DueInTime

-----------------------------------------------------------------------------

\* What the configuration of a watcher is.
LEMMA WatchConstants ==
  /\ BlockTime \in Nat \ {0} /\ ResubmitStuckTimeout \in Nat /\ None \notin Nat /\ None \notin Runs
  /\ \A w \in Watchers : w.flashblocksPreconfirmationTime \in Nat
BY BlockWatchAssumption DEF BlockWatchAssumption

\* It holds at first.
LEMMA InitWatchInv == WatchInit => WatchInv
<1> SUFFICES ASSUME WatchInit PROVE WatchInv
  OBVIOUS
<1>1. PendingBundles = {}
  BY DEF WatchInit, PendingBundles
<1>2. WatchTypes
  <2>1. unWatch \in BOOLEAN
    BY DEF WatchInit
  <2>2. bundle \in [Bundles -> WatchStates] /\ DOMAIN lookedAt = Bundles
    BY DEF WatchInit, WatchStates
  <2>3. watcher \in Watchers /\ clock = 0 /\ lastReconcileAt = 0 /\ runEnded = 0
    BY DEF WatchInit
  <2>4. QED
    BY <1>1, <2>1, <2>2, <2>3 DEF WatchTypes
<1>3. TimersOn /\ Watched /\ DueInTime
  BY <1>1 DEF WatchInit, TimersOn, Watched, DueInTime
<1>4. QED
  BY <1>2, <1>3 DEF WatchInv

\* A look at the bundles, or none while another is going on.
LEMMA LooksAtBundles ==
  ASSUME WatchInv, NEW via \in {"block", "timer"}, HandleBlock(via), UNCHANGED <<clock, watcher, bundle, runEnded, unwatched>>,
         unWatch' = FALSE => pollTimer' = None /\ staleBlockTimer' = None,
         unWatch' => /\ pollTimer' = None <=> ~Polls
                     /\ staleBlockTimer' = None <=> Polls
                     /\ pollTimer' # None => pollTimer' \in clock .. clock + Interval
                     /\ staleBlockTimer' # None => staleBlockTimer' \in clock .. clock + BlockTime
  PROVE  WatchInv'
<1>1. PendingBundles' = PendingBundles /\ Interval' = Interval /\ Polls' = Polls
  BY DEF PendingBundles, Interval, Polls
<1>2. CASE run # None
  <2>1. UNCHANGED <<unWatch, lastReconcileAt, run, lookedAt>>
    BY <1>2 DEF HandleBlock
  <2>2. WatchTypes'
    BY <1>1, <2>1 DEF WatchInv, WatchTypes
  <2>3. TimersOn'
    BY <1>1, <2>1 DEF WatchInv, WatchTypes, TimersOn
  <2>4. Watched' /\ DueInTime'
    BY <1>1, <1>2, <2>1 DEF WatchInv, Watched, DueInTime
  <2>5. QED
    BY <2>2, <2>3, <2>4 DEF WatchInv
<1>3. CASE run = None
  <2>1. /\ lastReconcileAt' = clock
        /\ unWatch' = (PendingBundles # {})
        /\ run' = IF PendingBundles = {} THEN None ELSE [via |-> via, bundles |-> PendingBundles]
        /\ lookedAt' = [b \in Bundles |-> IF b \in PendingBundles THEN clock ELSE lookedAt[b]]
    BY <1>3 DEF HandleBlock
  <2>2. PendingBundles \subseteq Bundles
    BY DEF PendingBundles
  <2>3. WatchTypes'
    BY <1>1, <2>1, <2>2 DEF WatchInv, WatchTypes
  <2>4. TimersOn'
    BY <1>1, <2>1 DEF WatchInv, TimersOn
  <2>5. Watched'
    BY <1>1, <2>1, <2>2 DEF Watched, Runs
  <2>6. DueInTime'
    <3>1. CASE PendingBundles = {}
      BY <2>1, <3>1 DEF DueInTime
    <3>2. CASE PendingBundles # {}
      <4>1. run' # None \/ run' = None
        OBVIOUS
      <4>2. Polls' => \A b \in PendingBundles' \ unwatched' : pollTimer' <= lookedAt'[b] + Interval'
        <5>1. SUFFICES ASSUME Polls, NEW b \in PendingBundles PROVE pollTimer' <= lookedAt'[b] + Interval
          BY <1>1
        <5>2. unWatch'
          BY <2>1, <3>2
        <5>3. pollTimer' \in clock .. clock + Interval
          BY <5>1, <5>2
        <5>4. lookedAt'[b] = clock
          BY <2>1, <2>2
        <5>5. clock \in Nat /\ Interval \in Nat
          BY WatchConstants DEF WatchInv, WatchTypes, Interval
        <5>6. QED
          BY <5>3, <5>4, <5>5
      <4>3. ~Polls' => staleBlockTimer' <= lastReconcileAt' + ResubmitStuckTimeout + BlockTime
        <5>1. SUFFICES ASSUME ~Polls PROVE staleBlockTimer' <= clock + ResubmitStuckTimeout + BlockTime
          BY <1>1, <2>1
        <5>2. staleBlockTimer' \in clock .. clock + BlockTime /\ clock \in Nat
          BY <2>1, <3>2, <5>1 DEF WatchInv, WatchTypes
        <5>3. QED
          BY <5>2, WatchConstants
      <4>4. QED
        BY <4>2, <4>3 DEF DueInTime
    <3>3. QED
      BY <3>1, <3>2
  <2>7. QED
    BY <2>3, <2>4, <2>5, <2>6 DEF WatchInv
<1>4. QED
  BY <1>2, <1>3

\* A timer that fires is armed for another interval, or is off.
LEMMA RearmedIs ==
  ASSUME WatchTypes, NEW timer, NEW interval \in Nat, NEW on \in BOOLEAN,
         timer \in clock .. clock + interval
  PROVE  /\ ~on => Rearmed(timer, interval, on) = None
         /\ on => Rearmed(timer, interval, on) \in clock .. clock + interval
                  /\ Rearmed(timer, interval, on) # None
BY WatchConstants DEF WatchTypes, Rearmed

\* A second passes, and none of the timers that are on is missed.
LEMMA TickKeeps == ASSUME WatchInv, WatchTick PROVE WatchInv'
<1>1. /\ UNCHANGED <<watcher, bundle, unWatch, pollTimer, staleBlockTimer, lastReconcileAt, run,
                     lookedAt, runEnded, unwatched>>
      /\ clock' = clock + 1
      /\ pollTimer # None => pollTimer > clock
      /\ staleBlockTimer # None => staleBlockTimer > clock
  BY DEF WatchTick, Advance, timerVars
<1>2. PendingBundles' = PendingBundles /\ Interval' = Interval /\ Polls' = Polls
  BY <1>1 DEF PendingBundles, Interval, Polls
<1>3. clock \in Nat /\ Interval \in Nat /\ BlockTime \in Nat
  BY WatchConstants DEF WatchInv, WatchTypes, Interval
<1>4. WatchTypes'
  BY <1>1, <1>2, <1>3 DEF WatchInv, WatchTypes
<1>5. TimersOn'
  <2>1. pollTimer # None => pollTimer \in clock' .. clock' + Interval
    BY <1>1, <1>3 DEF WatchInv, TimersOn
  <2>2. staleBlockTimer # None => staleBlockTimer \in clock' .. clock' + BlockTime
    BY <1>1, <1>3 DEF WatchInv, TimersOn
  <2>3. QED
    BY <1>1, <1>2, <2>1, <2>2 DEF WatchInv, TimersOn
<1>6. Watched' /\ DueInTime'
  BY <1>1, <1>2 DEF WatchInv, Watched, DueInTime
<1>7. QED
  BY <1>4, <1>5, <1>6 DEF WatchInv

\* A block, a poll, or a check of the watchdog.
LEMMA WakesKeep == ASSUME WatchInv, NewBlock \/ Poll \/ StaleBlock PROVE WatchInv'
<1>a. UNCHANGED <<clock, watcher, bundle, runEnded, unwatched>> /\ WatchTypes /\ TimersOn
  BY DEF NewBlock, Poll, StaleBlock, WatchInv
<1>b. /\ clock \in Nat /\ Interval \in Nat /\ BlockTime \in Nat /\ None \notin Nat
      /\ unWatch \in BOOLEAN
  BY <1>a, WatchConstants DEF WatchTypes, Interval
<1>c. unWatch' \in BOOLEAN
  <2>1. ASSUME NEW via, HandleBlock(via) PROVE unWatch' \in BOOLEAN
    BY <1>b, <2>1 DEF HandleBlock
  <2>2. QED
    BY <1>b, <2>1 DEF NewBlock, Poll, StaleBlock
<1>1. CASE NewBlock
  <2>1. /\ unWatch /\ ~Polls /\ HandleBlock("block") /\ pollTimer' = pollTimer
        /\ staleBlockTimer' = IF unWatch' THEN staleBlockTimer ELSE None
    BY <1>1 DEF NewBlock
  <2>2. pollTimer = None /\ staleBlockTimer # None /\ staleBlockTimer \in clock .. clock + BlockTime
    BY <1>a, <2>1 DEF TimersOn
  <2>3. QED
    BY <1>a, <1>c, <2>1, <2>2, LooksAtBundles
<1>2. CASE Poll
  <2>1. /\ pollTimer = clock /\ HandleBlock("timer") /\ staleBlockTimer' = staleBlockTimer
        /\ pollTimer' = Rearmed(pollTimer, Interval, unWatch')
    BY <1>2 DEF Poll, Interval
  <2>2. pollTimer # None /\ Polls /\ unWatch /\ staleBlockTimer = None
    BY <1>a, <1>b, <2>1 DEF TimersOn
  <2>3. /\ ~unWatch' => pollTimer' = None
        /\ unWatch' => pollTimer' \in clock .. clock + Interval /\ pollTimer' # None
    <3>1. PICK on \in BOOLEAN : on = unWatch'
      BY <1>c
    <3>2. pollTimer \in clock .. clock + Interval
      BY <1>b, <2>1
    <3>3. /\ ~on => Rearmed(pollTimer, Interval, on) = None
          /\ on => /\ Rearmed(pollTimer, Interval, on) \in clock .. clock + Interval
                   /\ Rearmed(pollTimer, Interval, on) # None
      BY <1>b, <2>1, <3>2 DEF Rearmed
    <3>4. QED
      BY <2>1, <3>1, <3>3
  <2>4. QED
    BY <1>a, <1>c, <2>1, <2>2, <2>3, LooksAtBundles
<1>3. CASE StaleBlock
  <2>1. /\ staleBlockTimer = clock /\ pollTimer' = pollTimer
        /\ staleBlockTimer' = Rearmed(staleBlockTimer, BlockTime, unWatch')
    BY <1>3 DEF StaleBlock
  <2>2. staleBlockTimer # None /\ ~Polls /\ unWatch /\ pollTimer = None
    BY <1>a, <1>b, <2>1 DEF TimersOn
  <2>3. /\ ~unWatch' => staleBlockTimer' = None
        /\ unWatch' => staleBlockTimer' \in clock .. clock + BlockTime /\ staleBlockTimer' # None
    <3>1. PICK on \in BOOLEAN : on = unWatch'
      BY <1>c
    <3>2. staleBlockTimer \in clock .. clock + BlockTime
      BY <1>b, <2>1
    <3>3. /\ ~on => Rearmed(staleBlockTimer, BlockTime, on) = None
          /\ on => /\ Rearmed(staleBlockTimer, BlockTime, on) \in clock .. clock + BlockTime
                   /\ Rearmed(staleBlockTimer, BlockTime, on) # None
      BY <1>b, <2>1, <3>2 DEF Rearmed
    <3>4. QED
      BY <2>1, <3>1, <3>3
  <2>4. CASE HandleBlock("timer")
    BY <1>a, <1>c, <2>1, <2>2, <2>3, <2>4, LooksAtBundles
  <2>5. PendingBundles' = PendingBundles /\ Interval' = Interval /\ Polls' = Polls
    BY <1>a DEF PendingBundles, Interval, Polls
  <2>6. CASE clock - lastReconcileAt < ResubmitStuckTimeout /\ UNCHANGED <<unWatch, lastReconcileAt, run, lookedAt>>
    <3>1. WatchTypes'
      BY <1>a, <2>5, <2>6 DEF WatchTypes
    <3>2. TimersOn'
      BY <1>a, <2>1, <2>2, <2>3, <2>5, <2>6 DEF TimersOn
    <3>3. Watched'
      BY <1>a, <2>5, <2>6 DEF WatchInv, Watched
    <3>4. staleBlockTimer' <= lastReconcileAt + ResubmitStuckTimeout + BlockTime
      <4>1. staleBlockTimer' \in clock .. clock + BlockTime /\ lastReconcileAt \in Nat
        BY <1>a, <2>2, <2>3, <2>6 DEF WatchTypes
      <4>2. QED
        BY ONLY <1>b, <2>6, <4>1, WatchConstants
    <3>5. DueInTime'
      BY <2>2, <2>5, <2>6, <3>4 DEF DueInTime
    <3>6. QED
      BY <3>1, <3>2, <3>3, <3>5 DEF WatchInv
  <2>7. CASE PendingBundles = {} /\ unWatch' = FALSE /\ UNCHANGED <<lastReconcileAt, run, lookedAt>>
    <3>1. WatchTypes'
      BY <1>a, <2>5, <2>7 DEF WatchTypes
    <3>2. TimersOn'
      BY <1>a, <2>1, <2>2, <2>3, <2>5, <2>7 DEF TimersOn
    <3>3. Watched' /\ DueInTime'
      BY <2>5, <2>7 DEF WatchInv, Watched, DueInTime
    <3>4. QED
      BY <3>1, <3>2, <3>3 DEF WatchInv
  <2>8. QED
    BY <1>3, <2>4, <2>6, <2>7 DEF StaleBlock
<1>4. QED
  BY <1>1, <1>2, <1>3

\* A run goes on and ends.
LEMMA RunsKeep ==
  ASSUME WatchInv, \/ EndRun \/ FailRun
                   \/ \E b \in Bundles : Settle(b) \/ NotMined(b)
  PROVE  WatchInv'
<1>a. /\ UNCHANGED <<clock, watcher, unWatch, pollTimer, staleBlockTimer, lastReconcileAt, lookedAt, unwatched>>
      /\ WatchTypes /\ TimersOn /\ run # None
  BY DEF EndRun, FailRun, Settle, NotMined, Leaves, timerVars, WatchInv
<1>b. clock \in Nat /\ Interval \in Nat /\ BlockTime \in Nat
  BY <1>a, WatchConstants DEF WatchTypes, Interval
<1>c. Interval' = Interval /\ Polls' = Polls
  BY <1>a DEF Interval, Polls
<1>1. CASE EndRun \/ FailRun
  <2>1. run' = None /\ runEnded' = clock /\ bundle' = bundle
    BY <1>1 DEF EndRun, FailRun
  <2>2. PendingBundles' = PendingBundles
    BY <2>1 DEF PendingBundles
  <2>3. WatchTypes'
    BY <1>a, <2>1, <2>2 DEF WatchTypes
  <2>4. TimersOn' /\ Watched'
    BY <1>a, <1>c, <2>1, <2>2 DEF WatchInv, TimersOn, Watched
  <2>5. DueInTime'
    <3>1. SUFFICES ASSUME unWatch
                   PROVE  /\ Polls => pollTimer <= clock + Interval
                          /\ ~Polls => staleBlockTimer <= clock + BlockTime
      BY <1>a, <1>c, <2>1, <2>2 DEF DueInTime
    <3>2. QED
      BY <1>a, <1>b, <3>1 DEF TimersOn
  <2>6. QED
    BY <2>3, <2>4, <2>5 DEF WatchInv
<1>2. ASSUME NEW b \in Bundles, Settle(b) \/ NotMined(b) PROVE WatchInv'
  <2>1. PICK where \in WatchStates :
          /\ run' = [run EXCEPT !.bundles = @ \ {b}] /\ b \in run.bundles
          /\ bundle' = [bundle EXCEPT ![b] = where] /\ UNCHANGED runEnded
    BY <1>2 DEF Settle, NotMined, Leaves, WatchStates
  <2>2. run \in Runs /\ run.bundles \subseteq PendingBundles
    BY <1>a DEF WatchInv, Watched
  <2>3. run' \in Runs /\ run'.bundles = run.bundles \ {b}
    BY <2>1, <2>2 DEF Runs
  <2>4. PendingBundles' \subseteq PendingBundles /\ PendingBundles \ {b} \subseteq PendingBundles'
    BY <1>a, <2>1, <2>2 DEF PendingBundles, WatchTypes
  <2>5. WatchTypes'
    BY <1>a, <2>1, <2>4 DEF WatchTypes
  <2>6. run' # None
    BY <2>3, WatchConstants
  <2>7. TimersOn' /\ Watched'
    BY <1>a, <1>c, <2>2, <2>3, <2>4 DEF WatchInv, TimersOn, Watched
  <2>8. DueInTime'
    BY <2>6 DEF DueInTime
  <2>9. QED
    BY <2>5, <2>7, <2>8 DEF WatchInv
<1>3. QED
  BY <1>1, <1>2

\* A bundle goes its way, without the watcher.
LEMMA SendsKeep ==
  ASSUME WatchInv, NEW b \in Bundles, Broadcast(b) \/ SettleSyncReceipt(b) \/ Restore(b)
  PROVE  WatchInv'
<1>a. /\ UNCHANGED <<clock, watcher, unWatch, pollTimer, staleBlockTimer, lastReconcileAt, run, runEnded>>
      /\ WatchTypes /\ TimersOn
  BY DEF Broadcast, SettleSyncReceipt, Restore, timerVars, WatchInv
<1>b. clock \in Nat /\ Interval \in Nat /\ BlockTime \in Nat
  BY <1>a, WatchConstants DEF WatchTypes, Interval
<1>c. Interval' = Interval /\ Polls' = Polls
  BY <1>a DEF Interval, Polls
<1>1. CASE Broadcast(b) \/ SettleSyncReceipt(b)
  <2>1. /\ bundle[b] \in {"new", "sent"} /\ UNCHANGED <<lookedAt, unwatched>>
        /\ \E where \in {"sent", "settled"} : bundle' = [bundle EXCEPT ![b] = where]
    BY <1>1 DEF Broadcast, SettleSyncReceipt
  <2>2. PendingBundles' = PendingBundles
    BY <1>a, <2>1 DEF PendingBundles, WatchTypes
  <2>3. bundle' \in [Bundles -> WatchStates]
    BY <1>a, <2>1 DEF WatchTypes, WatchStates
  <2>4. WatchTypes'
    BY <1>a, <2>1, <2>2, <2>3 DEF WatchTypes
  <2>5. TimersOn' /\ Watched' /\ DueInTime'
    BY <1>a, <1>c, <2>1, <2>2 DEF WatchInv, TimersOn, Watched, DueInTime
  <2>6. QED
    BY <2>4, <2>5 DEF WatchInv
<1>2. CASE Restore(b)
  <2>1. /\ bundle' = [bundle EXCEPT ![b] = "tracked"]
        /\ lookedAt' = [lookedAt EXCEPT ![b] = clock]
        /\ unwatched' = IF unWatch THEN unwatched ELSE unwatched \cup {b}
    BY <1>2 DEF Restore
  <2>2. PendingBundles' = PendingBundles \cup {b}
    BY <1>a, <2>1 DEF PendingBundles, WatchTypes
  <2>3. bundle' \in [Bundles -> WatchStates]
    BY <1>a, <2>1 DEF WatchTypes, WatchStates
  <2>4. WatchTypes'
    BY <1>a, <1>b, <2>1, <2>2, <2>3 DEF WatchTypes
  <2>5. TimersOn' /\ Watched'
    BY <1>a, <1>c, <2>1, <2>2 DEF WatchInv, TimersOn, Watched
  <2>6. DueInTime'
    <3>1. SUFFICES ASSUME run = None, unWatch
                   PROVE  /\ Polls => \A c \in PendingBundles' \ unwatched :
                            pollTimer <= lookedAt'[c] + Interval \/ pollTimer <= runEnded + Interval
                          /\ ~Polls => \/ staleBlockTimer <= lastReconcileAt + ResubmitStuckTimeout + BlockTime
                                       \/ staleBlockTimer <= runEnded + BlockTime
      BY <1>a, <1>c, <2>1 DEF DueInTime
    <3>2. lookedAt'[b] = clock /\ \A c \in PendingBundles \ {b} : lookedAt'[c] = lookedAt[c]
      BY <1>a, <2>1 DEF WatchTypes, PendingBundles
    <3>3. Polls => pollTimer <= clock + Interval
      BY <1>a, <1>b, <3>1 DEF TimersOn
    <3>4. QED
      BY <2>2, <3>1, <3>2, <3>3 DEF WatchInv, DueInTime
  <2>7. QED
    BY <2>4, <2>5, <2>6 DEF WatchInv
<1>3. QED
  BY <1>1, <1>2

\* A bundle is tracked, which starts the watcher if it is off.
LEMMA TrackKeeps == ASSUME WatchInv, NEW b \in Bundles, Track(b) PROVE WatchInv'
<1>a. /\ UNCHANGED <<clock, watcher, run, runEnded>> /\ WatchTypes /\ TimersOn
  BY DEF Track, WatchInv
<1>b. clock \in Nat /\ Interval \in Nat /\ BlockTime \in Nat \ {0} /\ ResubmitStuckTimeout \in Nat
      /\ None \notin Nat
  BY <1>a, WatchConstants DEF WatchTypes, Interval
<1>c. Interval' = Interval /\ Polls' = Polls
  BY <1>a DEF Interval, Polls
<1>1. /\ bundle' = [bundle EXCEPT ![b] = "tracked"]
      /\ lookedAt' = [c \in Bundles |-> IF c \in unwatched \cup {b} THEN clock ELSE lookedAt[c]]
      /\ unwatched' = {}
      /\ IF unWatch THEN UNCHANGED <<unWatch, pollTimer, staleBlockTimer, lastReconcileAt>>
         ELSE /\ unWatch' = TRUE
              /\ IF Polls
                 THEN /\ pollTimer' = clock + Interval
                      /\ UNCHANGED <<staleBlockTimer, lastReconcileAt>>
                 ELSE /\ UNCHANGED pollTimer
                      /\ IF staleBlockTimer # None THEN UNCHANGED <<staleBlockTimer, lastReconcileAt>>
                         ELSE staleBlockTimer' = clock + BlockTime /\ lastReconcileAt' = clock
  BY DEF Track, StartWatching, timerVars, Interval
<1>2. PendingBundles' = PendingBundles \cup {b}
  BY <1>a, <1>1 DEF PendingBundles, WatchTypes
<1>3. bundle' \in [Bundles -> WatchStates]
  BY <1>a, <1>1 DEF WatchTypes, WatchStates
<1>4. PendingBundles \subseteq Bundles
  BY DEF PendingBundles
<1>5. CASE unWatch
  <2>1. UNCHANGED <<unWatch, pollTimer, staleBlockTimer, lastReconcileAt>>
    BY <1>1, <1>5
  <2>2. WatchTypes'
    BY <1>a, <1>b, <1>1, <1>2, <1>3, <1>4, <2>1 DEF WatchTypes
  <2>3. TimersOn' /\ Watched'
    BY <1>a, <1>c, <1>2, <1>5, <2>1 DEF WatchInv, TimersOn, Watched
  <2>4. DueInTime'
    <3>1. SUFFICES ASSUME run = None
                   PROVE  /\ Polls => \A c \in PendingBundles' :
                            pollTimer <= lookedAt'[c] + Interval \/ pollTimer <= runEnded + Interval
                          /\ ~Polls => \/ staleBlockTimer <= lastReconcileAt + ResubmitStuckTimeout + BlockTime
                                       \/ staleBlockTimer <= runEnded + BlockTime
      BY <1>a, <1>c, <2>1 DEF DueInTime
    <3>2. \A c \in PendingBundles' :
            lookedAt'[c] = clock \/ (c \in PendingBundles \ unwatched /\ lookedAt'[c] = lookedAt[c])
      BY <1>1, <1>2, <1>4
    <3>3. Polls => pollTimer <= clock + Interval
      BY <1>a, <1>b, <1>5 DEF TimersOn
    <3>4. QED
      BY <1>5, <3>1, <3>2, <3>3 DEF WatchInv, DueInTime
  <2>5. QED
    BY <2>2, <2>3, <2>4 DEF WatchInv
<1>6. CASE ~unWatch
  <2>1. PendingBundles \subseteq unwatched /\ pollTimer = None /\ staleBlockTimer = None
    BY <1>a, <1>6 DEF WatchInv, Watched, TimersOn
  <2>2. /\ unWatch' = TRUE
        /\ Polls => pollTimer' = clock + Interval /\ staleBlockTimer' = None
                    /\ lastReconcileAt' = lastReconcileAt
        /\ ~Polls => pollTimer' = None /\ staleBlockTimer' = clock + BlockTime
                     /\ lastReconcileAt' = clock
    BY <1>1, <1>6, <2>1
  <2>3. \A c \in PendingBundles' : lookedAt'[c] = clock
    BY <1>1, <1>2, <1>4, <2>1
  <2>4. WatchTypes'
    <3>1. lastReconcileAt' \in Nat /\ lastReconcileAt' <= clock
      BY <1>a, <1>b, <2>2 DEF WatchTypes
    <3>2. unWatch' \in BOOLEAN /\ DOMAIN lookedAt' = Bundles
      BY <1>1, <2>2
    <3>3. QED
      BY <1>a, <1>b, <1>3, <2>3, <3>1, <3>2 DEF WatchTypes
  <2>5. TimersOn'
    <3>1. Polls => pollTimer' \in clock .. clock + Interval /\ pollTimer' # None
      BY ONLY <1>b, <2>2
    <3>2. ~Polls => staleBlockTimer' \in clock .. clock + BlockTime /\ staleBlockTimer' # None
      BY ONLY <1>b, <2>2
    <3>3. QED
      BY <1>a, <1>c, <2>2, <3>1, <3>2 DEF TimersOn
  <2>6. Watched'
    BY <1>a, <1>2, <2>2 DEF WatchInv, Watched
  <2>7. DueInTime'
    <3>1. Polls => \A c \in PendingBundles' : pollTimer' <= lookedAt'[c] + Interval
      BY ONLY <1>b, <2>2, <2>3
    <3>2. ~Polls => staleBlockTimer' <= lastReconcileAt' + ResubmitStuckTimeout + BlockTime
      BY ONLY <1>b, <2>2
    <3>3. QED
      BY <1>c, <3>1, <3>2 DEF DueInTime
  <2>8. QED
    BY <2>4, <2>5, <2>6, <2>7 DEF WatchInv
<1>7. QED
  BY <1>5, <1>6

\* Every step keeps it.
LEMMA NextWatchInv == WatchInv /\ [WatchNext]_<<clock, watchVars>> => WatchInv'
<1> SUFFICES ASSUME WatchInv, [WatchNext]_<<clock, watchVars>> PROVE WatchInv'
  OBVIOUS
<1>1. CASE UNCHANGED <<clock, watchVars>>
  BY <1>1 DEF watchVars, timerVars, WatchInv, WatchTypes, TimersOn, Watched, DueInTime, PendingBundles,
              Interval, Polls
<1>2. CASE WatchNext
  BY <1>2, TickKeeps, WakesKeep, RunsKeep, SendsKeep, TrackKeeps DEF WatchNext
<1>3. QED
  BY <1>1, <1>2

\* A tracked bundle is looked at within the time that a silent chain is given.
THEOREM AlwaysLookedAt == WatchSpec => []LookedAtInTime
<1>1. WatchInv => LookedAtInTime
  <2>1. SUFFICES ASSUME WatchInv, run = None, NEW b \in PendingBundles \ unwatched
                 PROVE  clock - LatestOf({lookedAt[b], runEnded})
                          <= IF Polls THEN watcher.flashblocksPreconfirmationTime
                             ELSE ResubmitStuckTimeout + BlockTime
    BY DEF LookedAtInTime
  <2>2. /\ WatchTypes /\ TimersOn /\ Watched /\ DueInTime
        /\ BlockTime \in Nat /\ ResubmitStuckTimeout \in Nat /\ Interval \in Nat
    BY <2>1, WatchConstants DEF WatchInv, WatchTypes, Interval
  <2>3. /\ unWatch /\ clock \in Nat /\ lastReconcileAt \in Nat /\ runEnded \in Nat
        /\ lookedAt[b] \in Nat /\ lastReconcileAt <= lookedAt[b]
    BY <2>1, <2>2 DEF WatchTypes, Watched
  <2>4. PICK t \in Nat : t = LatestOf({lookedAt[b], runEnded}) /\ t >= lookedAt[b] /\ t >= runEnded
    <3>1. \A x, y \in Nat : \E t \in {x, y} : \A u \in {x, y} : u <= t
      OBVIOUS
    <3>2. \E t \in {lookedAt[b], runEnded} : \A u \in {lookedAt[b], runEnded} : u <= t
      BY <2>3, <3>1
    <3>3. QED
      BY <2>3, <3>2 DEF LatestOf
  <2>5. CASE Polls
    <3>1. pollTimer \in clock .. clock + Interval
      BY <2>2, <2>3, <2>5 DEF TimersOn
    <3>2. pollTimer <= lookedAt[b] + Interval \/ pollTimer <= runEnded + Interval
      BY <2>1, <2>2, <2>3, <2>5 DEF DueInTime
    <3>3. clock - t <= Interval
      BY ONLY <2>2, <2>3, <2>4, <3>1, <3>2
    <3>4. QED
      BY <2>4, <2>5, <3>3 DEF Interval
  <2>6. CASE ~Polls
    <3>1. staleBlockTimer \in clock .. clock + BlockTime
      BY <2>2, <2>3, <2>6 DEF TimersOn
    <3>2. \/ staleBlockTimer <= lastReconcileAt + ResubmitStuckTimeout + BlockTime
          \/ staleBlockTimer <= runEnded + BlockTime
      BY <2>1, <2>2, <2>3, <2>6 DEF DueInTime
    <3>3. clock - t <= ResubmitStuckTimeout + BlockTime
      BY ONLY <2>2, <2>3, <2>4, <3>1, <3>2
    <3>4. QED
      BY <2>4, <2>6, <3>3
  <2>7. QED
    BY <2>5, <2>6
<1>2. QED
  BY <1>1, InitWatchInv, NextWatchInv, PTL DEF WatchSpec

-----------------------------------------------------------------------------
(***************************************************************************)
(* When passes run.  A loop waits for one interval at most, and the answer *)
(* comes two after the switch, so whatever waited at the switch is due     *)
(* before the answer.                                                      *)
(***************************************************************************)

LoopTypes ==
  /\ clock \in Nat
  /\ loop \in [Loops -> [doing : {"none", "pass", "waiting"}, due : Int]]
  /\ opsCount \in Seq(Nat)
  /\ modeCalls \subseteq Int

IsWaiting(l) == loop[l].doing = "waiting"

\* No loop has missed its time, and none waits longer than an interval.
DueSoon ==
  \A l \in Loops : IsWaiting(l) =>
    clock <= loop[l].due /\ loop[l].due <= clock + MaxBundleInterval

\* A call that will be answered has the mode it asked for, and what waits was
\* scheduled before it.
WaitedBefore ==
  \A due \in modeCalls :
    /\ bundlingMode = "manual" /\ clock <= due
    /\ \A l \in Loops : IsWaiting(l) => loop[l].due + MaxBundleInterval <= due

NothingWaits == quiet => bundlingMode = "manual" /\ \A l \in Loops : ~IsWaiting(l)

LoopInv == LoopTypes /\ DueSoon /\ WaitedBefore /\ NothingWaits

-----------------------------------------------------------------------------

\* What is left of the times are times.
LEMMA RecentTimes == ASSUME LoopTypes PROVE Recent(opsCount) \in Seq(Nat)
<1> DEFINE expired == { i \in DOMAIN opsCount : clock - opsCount[i] >= RpmWindow }
<1>1. opsCount \in Seq(Nat)
  BY DEF LoopTypes
<1>2. IsFiniteSet(expired)
  <2>1. DOMAIN opsCount = 1 .. Len(opsCount) /\ Len(opsCount) \in Nat
    BY <1>1
  <2>2. IsFiniteSet(1 .. Len(opsCount))
    BY <2>1, FS_Interval
  <2>3. expired \subseteq 1 .. Len(opsCount)
    BY <2>1
  <2>4. QED
    BY <2>2, <2>3, FS_Subset
<1>3. Cardinality(expired) \in Nat
  BY <1>2, FS_CardinalityType
<1> HIDE DEF expired
<1>4. SubSeq(opsCount, Cardinality(expired) + 1, Len(opsCount)) \in Seq(Nat)
  BY <1>1, <1>3
<1>5. QED
  BY <1>4 DEF Recent, expired

\* An interval is a time, and no longer than the longest.
LEMMA IntervalIsShort ==
  ASSUME NEW rpm \in Nat
  PROVE  NextInterval(rpm) \in Nat /\ NextInterval(rpm) <= MaxBundleInterval
<1>1. rpm * ScaleFactor \in Nat
  BY BundlingLoopAssumption DEF BundlingLoopAssumption
<1>2. QED
  BY <1>1, BundlingLoopAssumption DEF BundlingLoopAssumption, NextInterval

\* It holds at first.
LEMMA InitLoopInv == LoopInit => LoopInv
BY DEF LoopInit, LoopInv, LoopTypes, IsWaiting, DueSoon, WaitedBefore, NothingWaits, NoLoop, Pass

\* No step loses it.
LEMMA NextLoopInv == LoopInv /\ [LoopNext]_<<clock, loopVars>> => LoopInv'
<1> SUFFICES ASSUME LoopInv, [LoopNext]_<<clock, loopVars>> PROVE LoopInv'
  OBVIOUS
<1> USE DEF LoopInv, IsWaiting, DueSoon, WaitedBefore, NothingWaits
<1>0. MaxBundleInterval \in Nat /\ MaxBundleInterval > 0
  BY BundlingLoopAssumption DEF BundlingLoopAssumption
<1>1. CASE LoopTick
  <2>1. /\ clock' = clock + 1 /\ UNCHANGED loopVars
        /\ \A due \in modeCalls : due > clock
        /\ \A l \in Loops : IsWaiting(l) => loop[l].due > clock
    BY <1>1 DEF LoopTick, Advance, loopVars
  <2>2. QED
    BY <2>1, <1>0 DEF LoopTypes, loopVars
<1>2. CASE SetManual
  BY <1>2, <1>0 DEF SetManual, LoopTypes
<1>3. ASSUME NEW due \in modeCalls, AnswerManual(due) PROVE LoopInv'
  BY <1>3, <1>0 DEF AnswerManual, LoopTypes
<1>4. ASSUME NEW l \in Loops, BeginPass(l), clock' = clock,
             \/ UNCHANGED <<bundlingMode, modeCalls, quiet>>
             \/ modeCalls' = {} /\ ~quiet'
      PROVE LoopInv'
  <2>1. /\ loop' = [loop EXCEPT ![l] = Pass] /\ opsCount' = Recent(opsCount)
    BY <1>4 DEF BeginPass
  <2>2. LoopTypes'
    <3>1. Pass \in [doing : {"none", "pass", "waiting"}, due : Int]
      BY DEF Pass
    <3>2. loop' \in [Loops -> [doing : {"none", "pass", "waiting"}, due : Int]]
      BY <2>1, <3>1 DEF LoopTypes
    <3>3. opsCount' \in Seq(Nat)
      BY <2>1, RecentTimes
    <3>4. modeCalls' \subseteq Int /\ clock' \in Nat
      BY <1>4 DEF LoopTypes
    <3>5. QED
      BY <3>2, <3>3, <3>4 DEF LoopTypes
  <2>3. \A k \in Loops : IsWaiting(k)' => IsWaiting(k) /\ loop'[k] = loop[k]
    BY <2>1 DEF LoopTypes, Pass
  <2>4. QED
    BY <1>4, <2>2, <2>3
<1>5. ASSUME NEW l \in Loops, NextTick(l) PROVE LoopInv'
  BY <1>4, <1>5 DEF NextTick
<1>6. ASSUME NEW l \in Loops, SetAuto(l) PROVE LoopInv'
  BY <1>4, <1>6 DEF SetAuto
<1>7. ASSUME NEW l \in Loops, NEW n \in 0 .. MaxOpsOfPass, EndPass(l, n) PROVE LoopInv'
  <2> DEFINE interval == NextInterval(Len(opsCount'))
             times == [i \in 1 .. n |-> clock]
  <2>1. /\ loop' = [loop EXCEPT ![l] = IF bundlingMode = "auto"
                                       THEN [doing |-> "waiting", due |-> clock + interval]
                                       ELSE NoLoop]
        /\ opsCount' = opsCount \o times
        /\ UNCHANGED <<clock, bundlingMode, modeCalls, quiet>>
    BY <1>7 DEF EndPass
  <2>2. opsCount' \in Seq(Nat)
    <3>1. n \in Nat /\ clock \in Nat
      BY BundlingLoopAssumption DEF BundlingLoopAssumption, LoopTypes
    <3>2. times \in Seq(Nat)
      BY <3>1
    <3>3. QED
      BY <2>1, <3>2 DEF LoopTypes
  <2>3. interval \in Nat /\ interval <= MaxBundleInterval
    BY <2>2, IntervalIsShort
  <2> HIDE DEF interval, times
  <2>4. LoopTypes'
    BY <2>1, <2>2, <2>3 DEF LoopTypes, NoLoop
  <2>5. \A k \in Loops \ {l} : loop'[k] = loop[k]
    BY <2>1 DEF LoopTypes
  <2>6. CASE bundlingMode = "auto"
    <3>1. modeCalls = {} /\ ~quiet
      BY <2>6
    <3>2. loop'[l] = [doing |-> "waiting", due |-> clock + interval]
      BY <2>1, <2>6 DEF LoopTypes
    <3>3. DueSoon'
      BY <1>0, <2>1, <2>3, <2>5, <3>2 DEF LoopTypes
    <3>4. QED
      BY <2>1, <2>4, <3>1, <3>3
  <2>7. CASE bundlingMode # "auto"
    <3>1. \A k \in Loops : IsWaiting(k)' => IsWaiting(k) /\ loop'[k] = loop[k]
      BY <2>1, <2>5, <2>7 DEF LoopTypes, NoLoop
    <3>2. QED
      BY <2>1, <2>4, <3>1
  <2>8. QED
    BY <2>6, <2>7
<1>8. CASE UNCHANGED <<clock, loop, opsCount, modeCalls, bundlingMode, quiet>>
  BY <1>8 DEF LoopTypes
<1>9. ASSUME NEW l \in Loops, FailPass(l) PROVE LoopInv'
  BY <1>8, <1>9 DEF FailPass
<1>10. CASE UNCHANGED <<clock, loopVars>>
  BY <1>8, <1>10 DEF loopVars
<1>11. QED
  BY <1>1, <1>2, <1>3, <1>5, <1>6, <1>7, <1>9, <1>10 DEF LoopNext

\* Whatever the intervals are, and however many loops run: after the answer to a
\* switch to manual no loop has anything left to wait for.
THEOREM ManualStaysQuiet == LoopSpec => ManualIsQuiet
<1>1. LoopInv /\ [LoopNext]_<<clock, loopVars>> =>
        [quiet => \A l \in Loops : loop[l].doing = "waiting" => loop'[l].doing # "pass"]_loopVars
  BY DEF LoopInv, NothingWaits, IsWaiting
<1>2. QED
  BY <1>1, InitLoopInv, NextLoopInv, PTL DEF LoopSpec, ManualIsQuiet

-----------------------------------------------------------------------------
(***************************************************************************)
(* What clients are told.  A status is kept because the monitor knows every *)
(* timer that runs: a set clears those of its userOp, and those armed later *)
(* outlast it.  A receipt is stored, or lost, before "included" is told.   *)
(***************************************************************************)

\* What the argument needs of the types.
ReceiptsTypes ==
  /\ clock \in Nat
  /\ DOMAIN statusStore = Hashes /\ DOMAIN userOpTimeouts = Hashes /\ DOMAIN lastSet = Hashes
  /\ setter \in [Setters -> Hashes \cup {NoValue}]
  /\ \A t \in timers : t.hash \in Hashes /\ t.due \in Nat
  /\ receiptCache \in [Hashes -> Nat \cup {NoValue}]
  /\ cachedAt \in [Hashes -> Nat \cup {NoValue}]
  /\ \A h \in Hashes : lastSet[h] # NoValue => lastSet[h].at \in Nat /\ lastSet[h].at <= clock

\* The monitor has lost sight of no timer.
TimersAreKnown == \A t \in timers : userOpTimeouts[t.hash] = t

\* A timer leaves the status set last its time.
TimersOutlast ==
  \A t \in timers : lastSet[t.hash] # NoValue => t.due >= lastSet[t.hash].at + StatusTimeout

\* "included" follows the receipt, ...
IncludedIsSettling == \A h \in Hashes : statusStore[h] = "included" => h \in settling

\* ... which is cached unless it was lost, or its time is over.
SettlingIsCached ==
  \A h \in Hashes : (h \in settling /\ h \notin lost) =>
    /\ cachedAt[h] # NoValue
    /\ receiptCache[h] = cachedAt[h] \/ clock - cachedAt[h] >= ReceiptTtl

ReceiptsInv ==
  /\ ReceiptsTypes
  /\ TimersAreKnown /\ TimersOutlast /\ StatusIsKept
  /\ IncludedIsSettling /\ SettlingIsCached

-----------------------------------------------------------------------------

\* The parts about statuses, and those about receipts.
MonitorInv == TimersAreKnown /\ TimersOutlast /\ StatusIsKept

CacheInv == IncludedIsSettling /\ SettlingIsCached

\* It holds at first.
LEMMA InitReceiptsInv == ReceiptsInit => ReceiptsInv
BY ReceiptsAssumption
   DEF ReceiptsAssumption, ReceiptsInit, ReceiptsInv, ReceiptsTypes, TimersAreKnown, TimersOutlast,
       StatusIsKept, IncludedIsSettling, SettlingIsCached

\* A set clears the timers of its userOp, and its status is new.
LEMMA BeginSetKeeps ==
  ASSUME ReceiptsInv, NEW s \in Setters, NEW h \in Hashes, NEW status, BeginSet(s, h, status),
         UNCHANGED <<clock, cacheVars>>
  PROVE  ReceiptsTypes' /\ MonitorInv'
<1> USE DEF ReceiptsInv
<1>1. /\ timers' = Cleared(h) /\ userOpTimeouts' = userOpTimeouts
      /\ statusStore' = [statusStore EXCEPT ![h] = status]
      /\ lastSet' = [lastSet EXCEPT ![h] = [status |-> status, at |-> clock]]
      /\ setter' = [setter EXCEPT ![s] = h]
      /\ UNCHANGED <<clock, receiptCache, cachedAt>>
  BY DEF BeginSet, cacheVars
<1>2. /\ lastSet'[h] = [status |-> status, at |-> clock] /\ statusStore'[h] = status
      /\ \A g \in Hashes \ {h} : lastSet'[g] = lastSet[g] /\ statusStore'[g] = statusStore[g]
  BY <1>1 DEF ReceiptsTypes
<1>3. \A t \in timers' : t \in timers /\ t.hash \in Hashes \ {h}
  BY <1>1 DEF Cleared, TimersAreKnown, ReceiptsTypes
<1>4. ReceiptsTypes'
  BY <1>1, <1>2, <1>3 DEF ReceiptsTypes
<1>5. TimersAreKnown'
  BY <1>1, <1>3 DEF TimersAreKnown
<1>6. TimersOutlast'
  BY <1>2, <1>3 DEF TimersOutlast
<1>7. StatusIsKept'
  BY <1>1, <1>2 DEF StatusIsKept
<1>8. QED
  BY <1>4, <1>5, <1>6, <1>7 DEF MonitorInv

\* A receipt is stored, or lost; a receipt that makes room has had its time.
LEMMA CacheKeeps ==
  ASSUME ReceiptsInv, NEW h, Cache(h), UNCHANGED clock
  PROVE  /\ receiptCache' \in [Hashes -> Nat \cup {NoValue}]
         /\ cachedAt' \in [Hashes -> Nat \cup {NoValue}]
         /\ \A g \in Hashes : (g \in settling \cup {h} /\ g \notin lost') =>
              /\ cachedAt'[g] # NoValue
              /\ receiptCache'[g] = cachedAt'[g] \/ clock' - cachedAt'[g] >= ReceiptTtl
<1> USE DEF ReceiptsInv, ReceiptsTypes
<1>1. CASE /\ receiptCache' = Stored(h) /\ lost' = lost \ {h}
           /\ cachedAt' = [cachedAt EXCEPT ![h] = clock]
  <2>1. \A g \in Hashes :
          \/ receiptCache'[g] = IF g = h THEN clock ELSE receiptCache[g]
          \/ /\ g # h /\ receiptCache'[g] = NoValue
             /\ receiptCache[g] \in Nat /\ clock - receiptCache[g] > ReceiptTtl
    BY <1>1 DEF Stored
  <2>2. /\ receiptCache' \in [Hashes -> Nat \cup {NoValue}]
        /\ cachedAt' \in [Hashes -> Nat \cup {NoValue}]
    BY <1>1 DEF Stored
  <2>3. \A g \in Hashes : cachedAt'[g] = IF g = h THEN clock ELSE cachedAt[g]
    BY <1>1
  <2>4. ASSUME NEW g \in Hashes, g \in settling \cup {h}, g \notin lost'
        PROVE  /\ cachedAt'[g] # NoValue
               /\ receiptCache'[g] = cachedAt'[g] \/ clock' - cachedAt'[g] >= ReceiptTtl
    <3>1. CASE g = h
      BY <2>1, <2>3, <3>1, ReceiptsAssumption DEF ReceiptsAssumption
    <3>2. CASE g # h
      <4>1. /\ cachedAt[g] # NoValue /\ cachedAt[g] \in Nat
            /\ receiptCache[g] = cachedAt[g] \/ clock - cachedAt[g] >= ReceiptTtl
        BY <1>1, <2>4, <3>2 DEF SettlingIsCached
      <4>2. QED
        BY <2>1, <2>3, <3>2, <4>1, ReceiptsAssumption DEF ReceiptsAssumption
    <3>3. QED
      BY <3>1, <3>2
  <2>5. QED
    BY <2>2, <2>4
<1>2. CASE lost' = lost \cup {h} /\ UNCHANGED <<receiptCache, cachedAt>>
  BY <1>2 DEF SettlingIsCached
<1>3. QED
  BY <1>1, <1>2 DEF Cache

\* No step loses it.
LEMMA NextReceiptsInv == ReceiptsInv /\ [ReceiptsNext]_<<clock, receiptVars>> => ReceiptsInv'
<1> SUFFICES ASSUME ReceiptsInv, [ReceiptsNext]_<<clock, receiptVars>> PROVE ReceiptsInv'
  OBVIOUS
<1> USE DEF ReceiptsInv
<1>a. ReceiptTtl \in Nat /\ StatusTimeout \in Nat /\ NoValue \notin Nat /\ NoValue # "included"
  BY ReceiptsAssumption DEF ReceiptsAssumption
\* What a step leaves alone when it does not touch the statuses, or the receipts.
<1>b. ASSUME UNCHANGED <<clock, monitorVars>>,
             receiptCache' \in [Hashes -> Nat \cup {NoValue}],
             cachedAt' \in [Hashes -> Nat \cup {NoValue}]
      PROVE  ReceiptsTypes' /\ MonitorInv'
  BY <1>b DEF ReceiptsTypes, MonitorInv, TimersAreKnown, TimersOutlast, StatusIsKept,
              monitorVars
<1>c. ASSUME UNCHANGED <<clock, cacheVars, settling>>
      PROVE  SettlingIsCached'
  BY <1>c DEF SettlingIsCached, cacheVars
<1>1. CASE ReceiptsTick
  <2>1. /\ clock' = clock + 1 /\ \A t \in timers : t.due > clock
        /\ UNCHANGED <<monitorVars, cacheVars, settling>>
    BY <1>1 DEF ReceiptsTick, Advance
  <2>2. ReceiptsTypes'
    BY <2>1 DEF ReceiptsTypes, monitorVars, cacheVars
  <2>3. MonitorInv'
    BY <2>1, <1>a
       DEF MonitorInv, TimersAreKnown, TimersOutlast, StatusIsKept, ReceiptsTypes, monitorVars
  <2>4. SettlingIsCached'
    BY <2>1, <1>a DEF SettlingIsCached, ReceiptsTypes, cacheVars
  <2>5. IncludedIsSettling'
    BY <2>1 DEF IncludedIsSettling, monitorVars
  <2>6. QED
    BY <2>2, <2>3, <2>4, <2>5 DEF MonitorInv
<1>2. ASSUME NEW h \in Hashes, CacheIncluded(h) PROVE ReceiptsInv'
  <2>1. Cache(h) /\ settling' = settling \cup {h} /\ UNCHANGED <<clock, monitorVars>>
    BY <1>2 DEF CacheIncluded
  <2>2. SettlingIsCached'
    BY <2>1, CacheKeeps DEF SettlingIsCached
  <2>3. IncludedIsSettling'
    BY <2>1 DEF IncludedIsSettling, monitorVars
  <2>4. ReceiptsTypes' /\ MonitorInv'
    BY <2>1, <1>b, CacheKeeps
  <2>5. QED
    BY <2>2, <2>3, <2>4 DEF MonitorInv
<1>3. ASSUME NEW l \in Lookups, GotReceipt(l) PROVE ReceiptsInv'
  <2>1. Cache(lookup[l].hash) /\ UNCHANGED <<clock, monitorVars, settling>>
    BY <1>3 DEF GotReceipt, lookedUp
  <2>2. SettlingIsCached'
    BY <2>1, CacheKeeps DEF SettlingIsCached
  <2>3. IncludedIsSettling'
    BY <2>1 DEF IncludedIsSettling, monitorVars
  <2>4. ReceiptsTypes' /\ MonitorInv'
    BY <2>1, <1>b, CacheKeeps
  <2>5. QED
    BY <2>2, <2>3, <2>4 DEF MonitorInv
<1>4. ASSUME NEW s \in Setters, NEW h \in Hashes, SetStatus(s, h) PROVE ReceiptsInv'
  <2>1. BeginSet(s, h, "submitted") /\ UNCHANGED <<clock, cacheVars, settling>>
    BY <1>4 DEF SetStatus
  <2>2. IncludedIsSettling'
    BY <2>1 DEF IncludedIsSettling, BeginSet, ReceiptsTypes
  <2>3. QED
    BY <2>1, <2>2, <1>c, BeginSetKeeps DEF MonitorInv
<1>5. ASSUME NEW s \in Setters, NEW h \in Hashes, SetIncluded(s, h) PROVE ReceiptsInv'
  <2>1. /\ BeginSet(s, h, "included") /\ h \in settling
        /\ UNCHANGED <<clock, cacheVars, settling>>
    BY <1>5 DEF SetIncluded, MayBeIncluded
  <2>2. IncludedIsSettling'
    BY <2>1 DEF IncludedIsSettling, BeginSet, ReceiptsTypes
  <2>3. QED
    BY <2>1, <2>2, <1>c, BeginSetKeeps DEF MonitorInv
<1>6. ASSUME NEW s \in Setters, EndSet(s) PROVE ReceiptsInv'
  <2> DEFINE h == setter[s]
             timer == [hash |-> h, due |-> clock + StatusTimeout, by |-> s]
  <2>1. /\ timers' = Cleared(h) \cup {timer}
        /\ userOpTimeouts' = [userOpTimeouts EXCEPT ![h] = timer]
        /\ setter' = [setter EXCEPT ![s] = NoValue]
        /\ UNCHANGED <<clock, statusStore, lastSet, cacheVars, settling>>
    BY <1>6 DEF EndSet, ClearedAgain
  <2>2. h \in Hashes
    BY <1>6 DEF EndSet, ReceiptsTypes
  <2>3. timer.hash = h /\ timer.due = clock + StatusTimeout
    OBVIOUS
  <2> HIDE DEF h, timer
  <2>4. \A t \in Cleared(h) : t \in timers /\ t.hash \in Hashes \ {h}
    BY DEF Cleared, TimersAreKnown, ReceiptsTypes
  <2>5. /\ userOpTimeouts'[h] = timer
        /\ \A g \in Hashes \ {h} : userOpTimeouts'[g] = userOpTimeouts[g]
    BY <2>1, <2>2 DEF ReceiptsTypes
  <2>6. ReceiptsTypes'
    BY <1>a, <2>1, <2>2, <2>3, <2>4 DEF ReceiptsTypes, cacheVars
  <2>7. TimersAreKnown'
    BY <2>1, <2>3, <2>4, <2>5 DEF TimersAreKnown
  <2>8. TimersOutlast'
    BY <1>a, <2>1, <2>2, <2>3, <2>4 DEF TimersOutlast, ReceiptsTypes
  <2>9. StatusIsKept' /\ IncludedIsSettling'
    BY <2>1 DEF StatusIsKept, IncludedIsSettling
  <2>10. QED
    BY <1>c, <2>1, <2>6, <2>7, <2>8, <2>9
<1>7. ASSUME NEW t \in timers, Forget(t) PROVE ReceiptsInv'
  <2>1. /\ t.due = clock /\ timers' = timers \ {t} /\ t.hash \in Hashes
        /\ statusStore' = [statusStore EXCEPT ![t.hash] = NoValue]
        /\ userOpTimeouts' = [userOpTimeouts EXCEPT ![t.hash] = NoValue]
        /\ UNCHANGED <<clock, setter, lastSet, cacheVars, settling>>
    BY <1>7 DEF Forget, ReceiptsTypes
  <2>2. \A u \in timers' : u \in timers /\ u.hash \in Hashes \ {t.hash}
    BY <2>1 DEF TimersAreKnown, ReceiptsTypes
  <2>3. ReceiptsTypes'
    BY <2>1 DEF ReceiptsTypes, cacheVars
  <2>4. TimersAreKnown' /\ TimersOutlast'
    BY <2>1, <2>2 DEF TimersAreKnown, TimersOutlast, ReceiptsTypes
  <2>5. lastSet[t.hash] # NoValue => clock - lastSet[t.hash].at >= StatusTimeout
    BY <1>a, <2>1 DEF TimersOutlast, ReceiptsTypes
  <2>6. StatusIsKept'
    BY <1>a, <2>1, <2>5 DEF StatusIsKept, ReceiptsTypes
  <2>7. IncludedIsSettling'
    BY <1>a, <2>1 DEF IncludedIsSettling, ReceiptsTypes
  <2>8. QED
    BY <1>c, <2>1, <2>3, <2>4, <2>6, <2>7
<1>8. CASE UNCHANGED <<lookedUp, cacheVars>>
  <2>1. UNCHANGED <<clock, monitorVars, cacheVars, settling>>
    BY <1>8 DEF lookedUp
  <2>2. ReceiptsTypes' /\ MonitorInv'
    BY <2>1, <1>b DEF cacheVars, ReceiptsTypes
  <2>3. IncludedIsSettling'
    BY <2>1 DEF IncludedIsSettling, monitorVars
  <2>4. QED
    BY <2>1, <2>2, <2>3, <1>c DEF MonitorInv
<1>9. ASSUME NEW l \in Lookups,
             \/ NoLogs(l) \/ GotLogs(l) \/ NotFound(l) \/ \E h \in Hashes : AskReceipt(l, h)
      PROVE  ReceiptsInv'
  BY <1>8, <1>9 DEF NoLogs, GotLogs, NotFound, AskReceipt
<1>10. CASE UNCHANGED <<clock, receiptVars>>
  BY <1>8, <1>10 DEF receiptVars, lookedUp
<1>11. QED
  BY <1>1, <1>2, <1>3, <1>4, <1>5, <1>6, <1>7, <1>9, <1>10 DEF ReceiptsNext

\* The invariant, always.
LEMMA AlwaysReceiptsInv == ReceiptsSpec => []ReceiptsInv
BY InitReceiptsInv, NextReceiptsInv, PTL DEF ReceiptsSpec

\* Of overlapping sets the last one's status stays for its whole time: no timer
\* of an earlier one deletes it.
THEOREM StatusAlwaysKept == ReceiptsSpec => []StatusIsKept
<1>1. ReceiptsInv => StatusIsKept
  BY DEF ReceiptsInv
<1>2. QED
  BY <1>1, AlwaysReceiptsInv, PTL

\* Whoever reads "included" finds the receipt in the cache, in either kind of it,
\* unless it was lost or is too old.
THEOREM IncludedAlwaysHasReceipt == ReceiptsSpec => []IncludedHasReceipt
<1>1. ReceiptsInv => IncludedHasReceipt
  BY ReceiptsAssumption
     DEF ReceiptsAssumption, ReceiptsInv, ReceiptsTypes, IncludedIsSettling, SettlingIsCached,
         IncludedHasReceipt, IsCached
<1>2. QED
  BY <1>1, AlwaysReceiptsInv, PTL

-----------------------------------------------------------------------------
(***************************************************************************)
(* How wallets are looked after.  RefillsFitNeed is not inductive: what is *)
(* still to come counts as well.  Of a wallet that is not crossed at most  *)
(* one gift is to come, from a refill or from a pending transfer, and the  *)
(* wallet has room for it.                                                 *)
(***************************************************************************)

\* What some signers are to be given.
Gifts == UNION { [S -> Int] : S \in SUBSET Signers }

Txs == [kind : {"bundle", "flush", "transfer"}, gives : Gifts]

\* A gift to s that a refill has still to send, or that is pending.
AskedBy(s) == { r \in Refills : s \in DOMAIN refill[r].missing }

PaidBy(s) == { i \in DOMAIN pooled[Utility] : s \in DOMAIN pooled[Utility][i].gives }

\* What the argument needs of the types; the balance of the utility wallet is of
\* no account.
UpkeepTypes ==
  /\ DOMAIN balance = Accounts
  /\ \A s \in Signers : balance[s] \in Int
  /\ earned \in [Signers -> Nat]
  /\ pooled \in [Accounts -> Seq(Txs)]
  /\ DOMAIN refill = Refills
  /\ \A r \in Refills : /\ {"phase", "unread", "missing", "nonce"} \subseteq DOMAIN refill[r]
                        /\ refill[r].missing \in Gifts

OneToCome(s) ==
  /\ \A r, q \in AskedBy(s) : r = q
  /\ \A i, j \in PaidBy(s) : i = j
  /\ AskedBy(s) = {} \/ PaidBy(s) = {}

HasRoom(s) ==
  /\ balance[s] <= Level + earned[s]
  /\ \A r \in AskedBy(s) : balance[s] + refill[r].missing[s] <= Level + earned[s]
  /\ \A i \in PaidBy(s) : balance[s] + pooled[Utility][i].gives[s] <= Level + earned[s]

UpkeepInv ==
  /\ UpkeepTypes
  /\ \A s \in Signers \ crossed : OneToCome(s) /\ HasRoom(s)

-----------------------------------------------------------------------------

\* The level is a number, and a wallet below the minimum is below it.
LEMMA LevelCovers == Level \in Int /\ MinExecutorBalance \in Int /\ MinExecutorBalance <= Level
BY WalletUpkeepAssumption DEF WalletUpkeepAssumption, Level

\* Nobody's gift, the empty one, is a gift.
LEMMA NobodyIsGift == Nobody \in Gifts /\ DOMAIN Nobody = {}
<1>1. Nobody \in [{} -> Int]
  BY DEF Nobody
<1>2. QED
  BY <1>1 DEF Gifts, Nobody

\* What is left of a gift, or a part of it, is a gift.
LEMMA PartIsGift ==
  ASSUME NEW gift \in Gifts, NEW part \in SUBSET DOMAIN gift
  PROVE  /\ Restrict(gift, part) \in Gifts
         /\ DOMAIN Restrict(gift, part) = part
         /\ \A s \in part : Restrict(gift, part)[s] = gift[s]
<1>1. PICK S \in SUBSET Signers : gift \in [S -> Int]
  BY DEF Gifts
<1>2. Restrict(gift, part) \in [part -> Int] /\ part \in SUBSET Signers
  BY <1>1 DEF Restrict
<1>3. QED
  BY <1>2 DEF Gifts, Restrict

\* A gift has a number for each of its signers.
LEMMA GiftValues ==
  ASSUME NEW gift \in Gifts, NEW s \in DOMAIN gift
  PROVE  s \in Signers /\ gift[s] \in Int
BY DEF Gifts

\* A pending transaction is a transaction.
LEMMA PooledTxs ==
  ASSUME UpkeepTypes, NEW i \in DOMAIN pooled[Utility]
  PROVE  pooled[Utility][i].gives \in Gifts
<1>1. pooled[Utility] \in Seq(Txs)
  BY DEF UpkeepTypes, Accounts
<1>2. pooled[Utility][i] \in Txs
  BY <1>1
<1>3. QED
  BY <1>2 DEF Txs

\* Nothing changes for a wallet when its balance, its history and what is to come
\* for it stay as they were.
LEMMA SameStays ==
  ASSUME NEW s \in Signers, OneToCome(s), HasRoom(s),
         balance'[s] = balance[s], earned'[s] = earned[s],
         AskedBy(s)' = AskedBy(s), PaidBy(s)' = PaidBy(s),
         \A r \in AskedBy(s) : refill'[r].missing[s] = refill[r].missing[s],
         \A i \in PaidBy(s) : pooled'[Utility][i].gives[s] = pooled[Utility][i].gives[s]
  PROVE  OneToCome(s)' /\ HasRoom(s)'
<1>1. OneToCome(s)'
  BY DEF OneToCome
<1>2. HasRoom(s)'
  BY DEF HasRoom
<1>3. QED
  BY <1>1, <1>2

\* The same for all of them, when an action touches none of it.
LEMMA QuietStep ==
  ASSUME UpkeepInv, UpkeepTypes', UNCHANGED <<balance, earned, crossed>>,
         pooled'[Utility] = pooled[Utility],
         \A r \in Refills : refill'[r].missing = refill[r].missing
  PROVE  UpkeepInv'
<1> SUFFICES ASSUME NEW s \in Signers \ crossed
             PROVE  OneToCome(s)' /\ HasRoom(s)'
  BY DEF UpkeepInv
<1>1. AskedBy(s)' = AskedBy(s) /\ PaidBy(s)' = PaidBy(s)
  BY DEF AskedBy, PaidBy
<1>2. OneToCome(s) /\ HasRoom(s)
  BY DEF UpkeepInv
<1>3. QED
  BY <1>1, <1>2, SameStays DEF AskedBy, PaidBy

\* A refill that ends asks for nothing more.
LEMMA EndKeeps ==
  ASSUME UpkeepInv, NEW r \in Refills, EndRefill(r), UNCHANGED <<balance, earned, crossed, pooled>>
  PROVE  UpkeepInv'
<1>1. /\ DOMAIN refill' = Refills
      /\ refill'[r] = NoRefill
      /\ \A q \in Refills \ {r} : refill'[q] = refill[q]
  BY DEF EndRefill, UpkeepInv, UpkeepTypes
<1>2. UpkeepTypes'
  BY <1>1, NobodyIsGift DEF UpkeepInv, UpkeepTypes, NoRefill
<1> SUFFICES ASSUME NEW s \in Signers \ crossed
             PROVE  OneToCome(s)' /\ HasRoom(s)'
  BY <1>2 DEF UpkeepInv
<1>3. OneToCome(s) /\ HasRoom(s)
  BY DEF UpkeepInv
<1>4. PaidBy(s)' = PaidBy(s)
  BY DEF PaidBy
<1>5. AskedBy(s)' \subseteq AskedBy(s) \ {r}
  BY <1>1, NobodyIsGift DEF AskedBy, NoRefill
<1>6. OneToCome(s)'
  BY <1>3, <1>4, <1>5 DEF OneToCome
<1>7. \A q \in AskedBy(s)' : refill'[q] = refill[q]
  BY <1>1, <1>5 DEF AskedBy
<1>8. HasRoom(s)'
  BY <1>3, <1>4, <1>5, <1>7 DEF HasRoom
<1>9. QED
  BY <1>6, <1>8

\* A refill that goes on without touching what it asks for.
LEMMA GoOnKeeps ==
  ASSUME UpkeepInv, NEW r \in Refills, NEW next,
         refill' = [refill EXCEPT ![r] = next],
         {"phase", "unread", "missing", "nonce"} \subseteq DOMAIN next,
         next.missing = refill[r].missing,
         UNCHANGED <<balance, earned, crossed, pooled>>
  PROVE  UpkeepInv'
<1>1. /\ DOMAIN refill' = Refills
      /\ refill'[r] = next
      /\ \A q \in Refills \ {r} : refill'[q] = refill[q]
  BY DEF UpkeepInv, UpkeepTypes
<1>2. UpkeepTypes'
  BY <1>1 DEF UpkeepInv, UpkeepTypes
<1>3. QED
  BY <1>1, <1>2, QuietStep

-----------------------------------------------------------------------------

\* At first nothing is to come.
LEMMA InitUpkeepInv == UpkeepInit => UpkeepInv
<1> SUFFICES ASSUME UpkeepInit PROVE UpkeepInv
  OBVIOUS
<1> USE WalletUpkeepAssumption DEF WalletUpkeepAssumption
<1>1. /\ balance \in [Accounts -> Nat]
      /\ upkeep.backlog \in [Accounts -> Nat]
      /\ \A s \in Signers : balance[s] <= Level
  BY DEF UpkeepInit
<1>2. Tx("bundle", Nobody) \in Txs /\ Tx("bundle", Nobody).gives = Nobody
  BY NobodyIsGift DEF Txs, Tx
<1>3. \A a \in Accounts : /\ pooled[a] \in Seq(Txs)
                          /\ \A i \in DOMAIN pooled[a] : pooled[a][i].gives = Nobody
  <2> SUFFICES ASSUME NEW a \in Accounts
               PROVE  /\ pooled[a] \in Seq(Txs)
                      /\ \A i \in DOMAIN pooled[a] : pooled[a][i].gives = Nobody
    OBVIOUS
  <2>1. pooled[a] = [i \in 1..upkeep.backlog[a] |-> Tx("bundle", Nobody)]
    BY DEF UpkeepInit
  <2>2. upkeep.backlog[a] \in Nat
    BY <1>1
  <2>3. QED
    BY <1>2, <2>1, <2>2
<1>4. UpkeepTypes
  <2>1. DOMAIN balance = Accounts /\ \A s \in Signers : balance[s] \in Int
    BY <1>1 DEF Accounts
  <2>2. earned \in [Signers -> Nat]
    BY DEF UpkeepInit
  <2>3. pooled \in [Accounts -> Seq(Txs)]
    BY <1>3 DEF UpkeepInit
  <2>4. DOMAIN refill = Refills /\ \A r \in Refills : refill[r] = NoRefill
    BY DEF UpkeepInit
  <2>5. {"phase", "unread", "missing", "nonce"} \subseteq DOMAIN NoRefill
        /\ NoRefill.missing = Nobody
    BY DEF NoRefill
  <2>6. QED
    BY <2>1, <2>2, <2>3, <2>4, <2>5, NobodyIsGift DEF UpkeepTypes
<1>5. ASSUME NEW s \in Signers PROVE OneToCome(s) /\ HasRoom(s)
  <2>1. AskedBy(s) = {}
    BY NobodyIsGift DEF AskedBy, UpkeepInit, NoRefill
  <2>2. PaidBy(s) = {}
    BY <1>3, NobodyIsGift DEF PaidBy, Accounts
  <2>3. earned[s] = 0
    BY DEF UpkeepInit
  <2>4. QED
    BY <1>1, <2>1, <2>2, <2>3, LevelCovers DEF OneToCome, HasRoom, Accounts
<1>6. QED
  BY <1>4, <1>5 DEF UpkeepInv

-----------------------------------------------------------------------------

\* A signer's own transactions: its balance moves, and its history with it.
LEMMA MineOfSignerKeeps ==
  ASSUME UpkeepInv, NEW t \in Signers, NEW result \in {-1, 1}, MineOfSigner(t, result)
  PROVE  UpkeepInv'
<1>1. t # Utility /\ t \in Accounts /\ Utility \in Accounts
  BY WalletUpkeepAssumption DEF WalletUpkeepAssumption, Accounts
<1>2. /\ pooled' = [pooled EXCEPT ![t] = Tail(@)]
      /\ pooled[t] # <<>>
      /\ UNCHANGED <<refill, crossed>>
  BY DEF MineOfSigner, Mined, refillVars
<1>3. pooled'[Utility] = pooled[Utility]
  BY <1>1, <1>2 DEF UpkeepInv, UpkeepTypes
<1>4. balance' = [balance EXCEPT ![t] = @ + result]
  BY DEF MineOfSigner
<1>5. /\ earned' \in [Signers -> Nat]
      /\ \A s \in Signers \ {t} : earned'[s] = earned[s]
      /\ earned'[t] \in Nat /\ earned[t] \in Nat
      /\ result > 0 => earned'[t] = earned[t] + result
      /\ ~(result > 0) => earned'[t] = earned[t]
  <2>1. earned \in [Signers -> Nat]
    BY DEF UpkeepInv, UpkeepTypes
  <2>2. CASE result > 0
    <3>1. earned' = [earned EXCEPT ![t] = @ + result]
      BY <2>2 DEF MineOfSigner
    <3>2. QED
      BY <2>1, <2>2, <3>1
  <2>3. CASE ~(result > 0)
    BY <2>1, <2>3 DEF MineOfSigner
  <2>4. QED
    BY <2>2, <2>3
<1>6. pooled' \in [Accounts -> Seq(Txs)]
  <2>1. pooled[t] \in Seq(Txs)
    BY <1>1 DEF UpkeepInv, UpkeepTypes
  <2>2. Tail(pooled[t]) \in Seq(Txs)
    BY <1>2, <2>1
  <2>3. QED
    BY <1>2, <2>2 DEF UpkeepInv, UpkeepTypes
<1>7. /\ DOMAIN balance' = Accounts
      /\ balance'[t] = balance[t] + result /\ balance[t] \in Int
      /\ \A s \in Signers \ {t} : balance'[s] = balance[s] /\ balance[s] \in Int
  BY <1>1, <1>4 DEF UpkeepInv, UpkeepTypes, Accounts
<1>8. UpkeepTypes'
  BY <1>2, <1>5, <1>6, <1>7 DEF UpkeepInv, UpkeepTypes
<1> SUFFICES ASSUME NEW s \in Signers \ crossed
             PROVE  OneToCome(s)' /\ HasRoom(s)'
  BY <1>2, <1>8 DEF UpkeepInv
<1>9. OneToCome(s) /\ HasRoom(s)
  BY DEF UpkeepInv
<1>10. AskedBy(s)' = AskedBy(s) /\ PaidBy(s)' = PaidBy(s)
  BY <1>2, <1>3 DEF AskedBy, PaidBy
<1>11. CASE s # t
  BY <1>2, <1>3, <1>5, <1>7, <1>9, <1>10, <1>11, SameStays
<1>12. CASE s = t
  <2>1. OneToCome(s)'
    BY <1>9, <1>10 DEF OneToCome
  <2>2. \A r \in AskedBy(s) : refill[r].missing[s] \in Int
    BY GiftValues DEF AskedBy, UpkeepInv, UpkeepTypes
  <2>3. \A i \in PaidBy(s) : pooled[Utility][i].gives[s] \in Int
    BY GiftValues, PooledTxs DEF PaidBy, UpkeepInv
  <2>4. /\ balance'[s] \in Int /\ balance[s] \in Int
        /\ earned'[s] - balance'[s] >= earned[s] - balance[s]
    BY <1>5, <1>7, <1>12
  <2>5. balance'[s] <= Level + earned'[s]
    BY <1>5, <1>9, <1>12, <2>4, LevelCovers DEF HasRoom
  <2>6. \A r \in AskedBy(s)' : balance'[s] + refill'[r].missing[s] <= Level + earned'[s]
    <3> SUFFICES ASSUME NEW r \in AskedBy(s)
                 PROVE  balance'[s] + refill[r].missing[s] <= Level + earned'[s]
      BY <1>2, <1>10
    <3>1. balance[s] + refill[r].missing[s] <= Level + earned[s]
      BY <1>9 DEF HasRoom
    <3>2. refill[r].missing[s] \in Int /\ earned[s] \in Int /\ earned'[s] \in Int
      BY <1>5, <1>12, <2>2
    <3>3. QED
      BY <2>4, <3>1, <3>2, LevelCovers
  <2>7. \A i \in PaidBy(s)' : balance'[s] + pooled'[Utility][i].gives[s] <= Level + earned'[s]
    BY <1>3, <1>5, <1>9, <1>10, <1>12, <2>3, <2>4, LevelCovers DEF HasRoom
  <2>8. QED
    BY <2>1, <2>5, <2>6, <2>7 DEF HasRoom
<1>13. QED
  BY <1>11, <1>12

\* A transfer is mined: the gift that was to come has come.
LEMMA MineOfUtilityKeeps ==
  ASSUME UpkeepInv, MineOfUtility
  PROVE  UpkeepInv'
<1> DEFINE pool == pooled[Utility]
           gives == Head(pool).gives
<1>1. Utility \in Accounts /\ Utility \notin Signers /\ Signers \subseteq Accounts
  BY WalletUpkeepAssumption DEF WalletUpkeepAssumption, Accounts
<1>2. /\ pool \in Seq(Txs) /\ pool # <<>>
      /\ pooled' = [pooled EXCEPT ![Utility] = Tail(@)]
      /\ UNCHANGED <<refill, crossed, earned>>
  BY <1>1 DEF MineOfUtility, Mined, refillVars, UpkeepInv, UpkeepTypes
<1>3. pooled'[Utility] = Tail(pool) /\ Tail(pool) \in Seq(Txs)
  BY <1>1, <1>2 DEF UpkeepInv, UpkeepTypes
<1>4. /\ 1 \in DOMAIN pool /\ Head(pool) = pool[1]
      /\ \A i \in DOMAIN Tail(pool) : /\ i + 1 \in DOMAIN pool /\ i + 1 # 1
                                      /\ Tail(pool)[i] = pool[i + 1]
      /\ \A i, j \in DOMAIN Tail(pool) : i + 1 = j + 1 => i = j
  BY <1>2
<1>5. gives \in Gifts
  BY <1>4, PooledTxs DEF UpkeepInv
<1>6. /\ DOMAIN balance' = Accounts
      /\ \A s \in Signers : balance'[s] = IF s \in DOMAIN gives THEN balance[s] + gives[s]
                                          ELSE balance[s]
  BY <1>1 DEF MineOfUtility
<1>7. UpkeepTypes'
  <2>1. \A s \in Signers : balance'[s] \in Int
    BY <1>5, <1>6, GiftValues DEF UpkeepInv, UpkeepTypes
  <2>2. pooled' \in [Accounts -> Seq(Txs)]
    BY <1>2, <1>3 DEF UpkeepInv, UpkeepTypes
  <2>3. QED
    BY <1>2, <1>6, <2>1, <2>2 DEF UpkeepInv, UpkeepTypes
<1> SUFFICES ASSUME NEW s \in Signers \ crossed
             PROVE  OneToCome(s)' /\ HasRoom(s)'
  BY <1>2, <1>7 DEF UpkeepInv
<1>8. OneToCome(s) /\ HasRoom(s)
  BY DEF UpkeepInv
<1>9. AskedBy(s)' = AskedBy(s)
  BY <1>2 DEF AskedBy
<1>10. \A i \in PaidBy(s)' : i \in DOMAIN Tail(pool) /\ i + 1 \in PaidBy(s)
  BY <1>3, <1>4 DEF PaidBy
<1>11. CASE s \in DOMAIN gives
  <2>1. 1 \in PaidBy(s)
    BY <1>4, <1>11 DEF PaidBy
  <2>2. PaidBy(s)' = {} /\ AskedBy(s) = {}
    BY <1>4, <1>8, <1>10, <2>1 DEF OneToCome
  <2>3. balance'[s] <= Level + earned'[s]
    BY <1>2, <1>4, <1>6, <1>8, <1>11, <2>1 DEF HasRoom
  <2>4. QED
    BY <1>9, <2>2, <2>3 DEF OneToCome, HasRoom
<1>12. CASE s \notin DOMAIN gives
  <2>1. balance'[s] = balance[s]
    BY <1>6, <1>12
  <2>2. OneToCome(s)'
    BY <1>4, <1>8, <1>9, <1>10 DEF OneToCome
  <2>3. \A i \in PaidBy(s)' : pooled'[Utility][i].gives[s] = pooled[Utility][i + 1].gives[s]
    BY <1>3, <1>4, <1>10
  <2>4. HasRoom(s)'
    BY <1>2, <1>8, <1>9, <1>10, <2>1, <2>3 DEF HasRoom
  <2>5. QED
    BY <2>2, <2>4
<1>13. QED
  BY <1>11, <1>12

\* What is replaced by an empty transaction is not to come any more.
LEMMA FlushNonceKeeps ==
  ASSUME UpkeepInv, NEW a \in Accounts, FlushNonce(a)
  PROVE  UpkeepInv'
<1> DEFINE i == flush[a].next - confirmed[a] + 1
           empty == Tx("flush", Nobody)
<1>1. /\ i \in DOMAIN pooled[a]
      /\ pooled' = [pooled EXCEPT ![a] = [@ EXCEPT ![i] = empty]]
      /\ UNCHANGED <<balance, refill, crossed, earned>>
  BY DEF FlushNonce, flushed, refillVars
<1>2. empty \in Txs /\ DOMAIN empty.gives = {}
  BY NobodyIsGift DEF Txs, Tx
<1>3. pooled[a] \in Seq(Txs) /\ Utility \in Accounts
  BY DEF UpkeepInv, UpkeepTypes, Accounts
<1>4. [pooled[a] EXCEPT ![i] = empty] \in Seq(Txs)
  BY <1>1, <1>2, <1>3
<1>5. UpkeepTypes'
  <2>1. pooled' \in [Accounts -> Seq(Txs)]
    BY <1>1, <1>4 DEF UpkeepInv, UpkeepTypes
  <2>2. QED
    BY <1>1, <2>1 DEF UpkeepInv, UpkeepTypes
<1>6. /\ DOMAIN pooled'[Utility] = DOMAIN pooled[Utility]
      /\ \A j \in DOMAIN pooled[Utility] :
           pooled'[Utility][j] = pooled[Utility][j] \/ pooled'[Utility][j] = empty
  <2>1. CASE a # Utility
    BY <1>1, <1>3, <2>1 DEF UpkeepInv, UpkeepTypes
  <2>2. CASE a = Utility
    <3>1. pooled'[Utility] = [pooled[Utility] EXCEPT ![i] = empty]
      BY <1>1, <1>3, <2>2 DEF UpkeepInv, UpkeepTypes
    <3>2. QED
      BY <3>1
  <2>3. QED
    BY <2>1, <2>2
<1> SUFFICES ASSUME NEW s \in Signers \ crossed
             PROVE  OneToCome(s)' /\ HasRoom(s)'
  BY <1>1, <1>5 DEF UpkeepInv
<1>7. OneToCome(s) /\ HasRoom(s)
  BY DEF UpkeepInv
<1>8. AskedBy(s)' = AskedBy(s)
  BY <1>1 DEF AskedBy
<1>9. \A j \in PaidBy(s)' : j \in PaidBy(s) /\ pooled'[Utility][j] = pooled[Utility][j]
  BY <1>2, <1>6 DEF PaidBy
<1>10. QED
  BY <1>1, <1>7, <1>8, <1>9 DEF OneToCome, HasRoom

\* A refill asks for what a wallet lacks; the history of the wallet starts afresh.
LEMMA ReadWalletKeeps ==
  ASSUME UpkeepInv, NEW r \in Refills, NEW t \in Signers, ReadWallet(r, t)
  PROVE  UpkeepInv'
<1> DEFINE low == balance[t] < MinExecutorBalance
           wants == refill[r].missing
           more == [w \in DOMAIN wants \cup {t} |-> IF w = t THEN Missing(balance[t]) ELSE wants[w]]
<1>1. /\ UNCHANGED <<balance, pooled>>
      /\ crossed' = IF low /\ Expected(t) THEN crossed \cup {t} ELSE crossed
      /\ earned' = IF low THEN [earned EXCEPT ![t] = 0] ELSE earned
  BY DEF ReadWallet, refilled
<1>2. /\ DOMAIN refill' = Refills
      /\ \A q \in Refills \ {r} : refill'[q] = refill[q]
      /\ DOMAIN refill'[r] = DOMAIN refill[r]
      /\ refill'[r].missing = IF low THEN more ELSE wants
  BY DEF ReadWallet, UpkeepInv, UpkeepTypes
<1>3. wants \in Gifts /\ balance[t] \in Int
  BY DEF UpkeepInv, UpkeepTypes
<1>4. more \in Gifts
  <2>1. DOMAIN wants \cup {t} \in SUBSET Signers
    BY <1>3, GiftValues
  <2>2. more \in [DOMAIN wants \cup {t} -> Int]
    BY <1>3, GiftValues, LevelCovers DEF Missing
  <2>3. QED
    BY <2>1, <2>2 DEF Gifts
<1>5. UpkeepTypes'
  <2>1. earned' \in [Signers -> Nat]
    BY <1>1 DEF UpkeepInv, UpkeepTypes
  <2>2. QED
    BY <1>1, <1>2, <1>3, <1>4, <2>1 DEF UpkeepInv, UpkeepTypes
<1> SUFFICES ASSUME NEW s \in Signers, s \notin crossed'
             PROVE  OneToCome(s)' /\ HasRoom(s)'
  BY <1>5 DEF UpkeepInv
<1>6. OneToCome(s) /\ HasRoom(s)
  BY <1>1 DEF UpkeepInv
<1>7. PaidBy(s)' = PaidBy(s)
  BY <1>1 DEF PaidBy
<1>8. CASE s # t \/ ~low
  <2>1. AskedBy(s)' = AskedBy(s)
    BY <1>2, <1>8 DEF AskedBy
  <2>2. \A q \in AskedBy(s) : refill'[q].missing[s] = refill[q].missing[s]
    BY <1>2, <1>8 DEF AskedBy
  <2>3. earned'[s] = earned[s]
    BY <1>1, <1>8 DEF UpkeepInv, UpkeepTypes
  <2>4. QED
    BY <1>1, <1>6, <1>7, <2>1, <2>2, <2>3, SameStays
<1>9. CASE s = t /\ low
  <2>1. ~Expected(s)
    BY <1>1, <1>9
  <2>2. AskedBy(s) = {} /\ PaidBy(s) = {}
    BY <2>1 DEF Expected, AskedBy, PaidBy
  <2>3. AskedBy(s)' \subseteq {r}
    BY <1>2, <2>2 DEF AskedBy
  <2>4. refill'[r].missing[s] = Level - balance[s]
    BY <1>2, <1>9 DEF Missing
  <2>5. earned'[s] = 0
    BY <1>1, <1>9 DEF UpkeepInv, UpkeepTypes
  <2>6. balance'[s] = balance[s] /\ balance[s] <= Level /\ balance[s] \in Int
    BY <1>1, <1>3, <1>9, LevelCovers
  <2>7. OneToCome(s)'
    BY <1>7, <2>2, <2>3 DEF OneToCome
  <2>8. HasRoom(s)'
    BY <1>7, <2>2, <2>3, <2>4, <2>5, <2>6, LevelCovers DEF HasRoom
  <2>9. QED
    BY <2>7, <2>8
<1>10. QED
  BY <1>8, <1>9

\* What a refill sends is to come from the pool, and no longer from the refill.
LEMMA SendRefillKeeps ==
  ASSUME UpkeepInv, NEW r \in Refills, SendRefill(r)
  PROVE  UpkeepInv'
<1> DEFINE wants == refill[r].missing
           pool == pooled[Utility]
<1> DEFINE chosen == IF upkeep.refillHelperContract THEN {DOMAIN wants} ELSE { {s} : s \in DOMAIN wants }
<1>0. chosen \subseteq SUBSET DOMAIN wants
  OBVIOUS
<1>1. PICK paid \in chosen :
        /\ pooled' = [pooled EXCEPT ![Utility] = Append(@, Tx("transfer", Restrict(wants, paid)))]
        /\ refill' = [refill EXCEPT ![r].phase = "waiting", ![r].nonce = PendingNonce(Utility),
                                    ![r].missing = Restrict(@, DOMAIN @ \ paid)]
        /\ UNCHANGED <<balance, earned, crossed>>
  BY DEF SendRefill, refilled
<1> HIDE DEF chosen
<1>a. paid \in SUBSET DOMAIN wants
  BY <1>0
<1> DEFINE given == Restrict(wants, paid)
           rest == Restrict(wants, DOMAIN wants \ paid)
           tx == Tx("transfer", given)
<1>2. wants \in Gifts
  BY DEF UpkeepInv, UpkeepTypes
<1>3. /\ given \in Gifts /\ DOMAIN given = paid /\ \A s \in paid : given[s] = wants[s]
      /\ rest \in Gifts /\ DOMAIN rest = DOMAIN wants \ paid
      /\ \A s \in DOMAIN wants \ paid : rest[s] = wants[s]
  BY <1>a, <1>2, PartIsGift
<1>4. /\ DOMAIN refill' = Refills
      /\ \A q \in Refills \ {r} : refill'[q] = refill[q]
      /\ DOMAIN refill'[r] = DOMAIN refill[r]
      /\ refill'[r].missing = rest
  BY <1>1 DEF UpkeepInv, UpkeepTypes
<1>5. pool \in Seq(Txs) /\ tx \in Txs /\ tx.gives = given /\ Utility \in Accounts
  BY <1>3 DEF UpkeepInv, UpkeepTypes, Accounts, Txs, Tx
<1>6. pooled'[Utility] = Append(pool, tx) /\ Append(pool, tx) \in Seq(Txs)
  BY <1>1, <1>5 DEF UpkeepInv, UpkeepTypes
<1>7. /\ DOMAIN pooled'[Utility] = DOMAIN pool \cup {Len(pool) + 1}
      /\ \A i \in DOMAIN pool : pooled'[Utility][i] = pool[i]
      /\ pooled'[Utility][Len(pool) + 1] = tx
  BY <1>5, <1>6
<1>8. UpkeepTypes'
  <2>1. pooled' \in [Accounts -> Seq(Txs)]
    BY <1>1, <1>6 DEF UpkeepInv, UpkeepTypes
  <2>2. QED
    BY <1>1, <1>3, <1>4, <2>1 DEF UpkeepInv, UpkeepTypes
<1> SUFFICES ASSUME NEW s \in Signers \ crossed
             PROVE  OneToCome(s)' /\ HasRoom(s)'
  BY <1>1, <1>8 DEF UpkeepInv
<1>9. OneToCome(s) /\ HasRoom(s)
  BY DEF UpkeepInv
<1>10. CASE s \in paid
  <2>1. AskedBy(s) = {r} /\ PaidBy(s) = {}
    BY <1>a, <1>9, <1>10 DEF OneToCome, AskedBy
  <2>2. AskedBy(s)' = {}
    BY <1>3, <1>4, <1>10, <2>1 DEF AskedBy
  <2>3. PaidBy(s)' \subseteq {Len(pool) + 1}
    BY <1>7, <2>1 DEF PaidBy
  <2>4. balance[s] + tx.gives[s] <= Level + earned[s]
    BY <1>3, <1>5, <1>9, <1>10, <2>1 DEF HasRoom
  <2>5. QED
    BY <1>1, <1>7, <1>9, <2>2, <2>3, <2>4 DEF OneToCome, HasRoom
<1>11. CASE s \notin paid
  <2>1. AskedBy(s)' = AskedBy(s)
    BY <1>3, <1>4, <1>11 DEF AskedBy
  <2>2. PaidBy(s)' = PaidBy(s)
    BY <1>3, <1>5, <1>7, <1>11 DEF PaidBy
  <2>3. \A q \in AskedBy(s) : refill'[q].missing[s] = refill[q].missing[s]
    BY <1>3, <1>4, <1>11 DEF AskedBy
  <2>4. \A i \in PaidBy(s) : pooled'[Utility][i].gives[s] = pooled[Utility][i].gives[s]
    BY <1>7 DEF PaidBy
  <2>5. QED
    BY <1>1, <1>9, <2>1, <2>2, <2>3, <2>4, SameStays
<1>12. QED
  BY <1>10, <1>11

-----------------------------------------------------------------------------

\* No step loses it.
LEMMA NextUpkeepInv == UpkeepInv /\ [UpkeepNext]_upkeepVars => UpkeepInv'
<1> SUFFICES ASSUME UpkeepInv, [UpkeepNext]_upkeepVars PROVE UpkeepInv'
  OBVIOUS
<1>1. ASSUME NEW s \in Signers, SendBundle(s) PROVE UpkeepInv'
  <2>1. /\ pooled' = [pooled EXCEPT ![s] = Append(@, Tx("bundle", Nobody))]
        /\ UNCHANGED <<balance, refill, crossed, earned>>
    BY <1>1 DEF SendBundle, refillVars
  <2>2. s # Utility /\ s \in Accounts /\ Utility \in Accounts
    BY WalletUpkeepAssumption DEF WalletUpkeepAssumption, Accounts
  <2>3. Tx("bundle", Nobody) \in Txs
    BY NobodyIsGift DEF Txs, Tx
  <2>4. Append(pooled[s], Tx("bundle", Nobody)) \in Seq(Txs)
    BY <2>2, <2>3 DEF UpkeepInv, UpkeepTypes
  <2>5. pooled' \in [Accounts -> Seq(Txs)] /\ pooled'[Utility] = pooled[Utility]
    BY <2>1, <2>2, <2>4 DEF UpkeepInv, UpkeepTypes
  <2>6. UpkeepTypes'
    BY <2>1, <2>5 DEF UpkeepInv, UpkeepTypes
  <2>7. QED
    BY <2>1, <2>5, <2>6, QuietStep
<1>2. ASSUME NEW s \in Signers, NEW result \in {-1, 1}, MineOfSigner(s, result) PROVE UpkeepInv'
  BY <1>2, MineOfSignerKeeps
<1>3. CASE MineOfUtility
  BY <1>3, MineOfUtilityKeeps
<1>4. ASSUME UNCHANGED <<balance, earned, crossed, pooled, refill>> PROVE UpkeepInv'
  <2>1. UpkeepTypes'
    BY <1>4 DEF UpkeepInv, UpkeepTypes
  <2>2. QED
    BY <1>4, <2>1, QuietStep
<1>5. CASE BeginFlush
  BY <1>4, <1>5 DEF BeginFlush, flushed, refillVars
<1>6. ASSUME NEW a \in Accounts, ReadLatest(a) \/ ReadPending(a) \/ FailRead(a) \/ RefuseFlush(a)
      PROVE UpkeepInv'
  BY <1>4, <1>6 DEF ReadLatest, ReadPending, FailRead, RefuseFlush, flushed, refillVars
<1>7. ASSUME NEW a \in Accounts, FlushNonce(a) PROVE UpkeepInv'
  BY <1>7, FlushNonceKeeps
<1>8. ASSUME NEW r \in Refills, BeginRefill(r) PROVE UpkeepInv'
  <2> DEFINE next == [refill[r] EXCEPT !.phase = "utility"]
  <2>1. refill' = [refill EXCEPT ![r] = next] /\ UNCHANGED <<balance, earned, crossed, pooled>>
    BY <1>8 DEF BeginRefill, refilled
  <2>2. {"phase", "unread", "missing", "nonce"} \subseteq DOMAIN next /\ next.missing = refill[r].missing
    BY DEF UpkeepInv, UpkeepTypes
  <2>3. QED
    BY <2>1, <2>2, GoOnKeeps
<1>9. ASSUME NEW r \in Refills, ReadUtility(r) PROVE UpkeepInv'
  <2> DEFINE next == [refill[r] EXCEPT !.phase = "wallets", !.utility = balance[Utility],
                                       !.unread = Signers]
  <2>1. refill' = [refill EXCEPT ![r] = next] /\ UNCHANGED <<balance, earned, crossed, pooled>>
    BY <1>9 DEF ReadUtility, refilled
  <2>2. {"phase", "unread", "missing", "nonce"} \subseteq DOMAIN next /\ next.missing = refill[r].missing
    BY DEF UpkeepInv, UpkeepTypes
  <2>3. QED
    BY <2>1, <2>2, GoOnKeeps
<1>10. ASSUME NEW r \in Refills, Decide(r) \/ GotRefill(r) \/ FailRefill(r) PROVE UpkeepInv'
  <2> DEFINE next == [refill[r] EXCEPT !.phase = "sending"]
  <2>1. /\ EndRefill(r) \/ refill' = [refill EXCEPT ![r] = next]
        /\ UNCHANGED <<balance, earned, crossed, pooled>>
    BY <1>10 DEF Decide, GotRefill, FailRefill, refilled
  <2>2. {"phase", "unread", "missing", "nonce"} \subseteq DOMAIN next /\ next.missing = refill[r].missing
    BY DEF UpkeepInv, UpkeepTypes
  <2>3. QED
    BY <2>1, <2>2, GoOnKeeps, EndKeeps
<1>11. ASSUME NEW r \in Refills, SendRefill(r) PROVE UpkeepInv'
  BY <1>11, SendRefillKeeps
<1>12. ASSUME NEW r \in Refills, NEW s \in Signers, ReadWallet(r, s) PROVE UpkeepInv'
  BY <1>12, ReadWalletKeeps
<1>13. CASE UNCHANGED upkeepVars
  BY <1>4, <1>13 DEF upkeepVars, refillVars
<1>14. QED
  BY <1>1, <1>2, <1>3, <1>5, <1>6, <1>7, <1>8, <1>9, <1>10, <1>11, <1>12, <1>13 DEF UpkeepNext

\* Refills bring a wallet to its level and no further, for any wallets, minimum,
\* configurations and number of refills that overlap or are given up.
THEOREM RefillsAlwaysFit == UpkeepSpec => []RefillsFitNeed
<1>1. UpkeepInv => RefillsFitNeed
  BY DEF UpkeepInv, HasRoom, RefillsFitNeed
<1>2. QED
  BY <1>1, InitUpkeepInv, NextUpkeepInv, PTL DEF UpkeepSpec

-----------------------------------------------------------------------------
(***************************************************************************)
(* The windows of admission.  A deque holds, in the order of their saves,  *)
(* values that no later one undercuts (or exceeds).  Inductive is that     *)
(* each recent value is covered by an entry that is as recent and at least *)
(* as extreme; the front is then the extreme of all.  The two deques of a  *)
(* window are the same with the order reversed, so rank is the identity    *)
(* for the one and the negation for the other.                             *)
(***************************************************************************)

Entries == [value : Int, timestamp : Int]

Ranks == [Int -> Int]

\* The entries are of S, in the order of their saves and of their ranks.
Monotone(d, S, rank) ==
  /\ d \in Seq(Entries)
  /\ \A i \in DOMAIN d : d[i] \in S
  /\ \A i, j \in DOMAIN d : i < j =>
       rank[d[i].value] < rank[d[j].value] /\ d[i].timestamp <= d[j].timestamp

\* Every save of S since `since' has an entry at least as extreme and as recent.
Covering(d, S, rank, since) ==
  \A s \in S : s.timestamp >= since =>
    \E i \in DOMAIN d : rank[d[i].value] <= rank[s.value] /\ d[i].timestamp >= s.timestamp

Since(d, since) == \A i \in DOMAIN d : d[i].timestamp >= since

\* The numbers the updates of a deque choose exist.
LEMMA LeastSuch ==
  ASSUME NEW n \in Nat, NEW T \in SUBSET (0 .. n), n \in T
  PROVE  \E m \in T : \A k \in T : m <= k
BY LeastElement

\* An expired prefix.
ExpiredPrefix(d, limit, n) ==
  /\ n \in 0 .. Len(d)
  /\ \A i \in 1 .. n : d[i].timestamp < limit
  /\ n < Len(d) => d[n + 1].timestamp >= limit

\* Every deque has an expired prefix.
LEMMA ExpiredExists ==
  ASSUME NEW d \in Seq(Entries), NEW limit \in Int
  PROVE  \E n : ExpiredPrefix(d, limit, n)
<1> DEFINE T == { n \in 0 .. Len(d) : n < Len(d) => d[n + 1].timestamp >= limit }
<1>1. Len(d) \in Nat /\ DOMAIN d = 1 .. Len(d)
  BY LenProperties
<1>2. PICK n \in T : \A k \in T : n <= k
  <2>1. Len(d) \in T
    BY <1>1
  <2>2. QED
    BY <1>1, <2>1, LeastSuch
<1>3. ASSUME NEW i \in 1 .. n PROVE d[i].timestamp < limit
  <2>0. n \in 0 .. Len(d) /\ (i - 1 \in T => n <= i - 1)
    BY <1>2
  <2>1. i - 1 \in 0 .. Len(d) /\ i - 1 \notin T /\ i \in DOMAIN d
    BY <1>1, <2>0
  <2>2. d[(i - 1) + 1].timestamp < limit
    <3>1. d[i] \in Entries /\ (i - 1) + 1 = i
      BY <2>1
    <3>2. d[i].timestamp \in Int
      BY <3>1 DEF Entries
    <3>3. QED
      BY <2>1, <3>1, <3>2, <1>1
  <2>3. QED
    BY <2>2
<1>4. QED
  BY <1>2, <1>3 DEF ExpiredPrefix

\* What a value leaves of a deque.
KeptPrefix(d, rank, value, n) ==
  /\ n \in 0 .. Len(d)
  /\ n = 0 \/ rank[d[n].value] < rank[value]
  /\ \A i \in n + 1 .. Len(d) : rank[d[i].value] >= rank[value]

\* Every deque has a prefix that a value leaves.
LEMMA KeptExists ==
  ASSUME NEW d \in Seq(Entries), NEW rank \in Ranks, NEW value \in Int
  PROVE  \E n : KeptPrefix(d, rank, value, n)
<1> DEFINE T == { n \in 0 .. Len(d) : \A i \in n + 1 .. Len(d) : rank[d[i].value] >= rank[value] }
<1>1. Len(d) \in Nat /\ DOMAIN d = 1 .. Len(d)
  BY LenProperties
<1>2. PICK n \in T : \A k \in T : n <= k
  <2>1. Len(d) \in T
    BY <1>1
  <2>2. QED
    BY <1>1, <2>1, LeastSuch
<1>3. ASSUME n # 0 PROVE rank[d[n].value] < rank[value]
  <2>0. n \in 0 .. Len(d) /\ (n - 1 \in T => n <= n - 1)
    BY <1>2
  <2>1. n - 1 \in 0 .. Len(d) /\ n - 1 \notin T /\ n \in DOMAIN d
    BY <1>1, <2>0, <1>3
  <2>2. PICK i \in (n - 1) + 1 .. Len(d) : ~(rank[d[i].value] >= rank[value])
    BY <2>1
  <2>3. i = n
    BY <2>2, <2>1, <1>1, <1>2
  <2>4. d[n] \in Entries
    BY <2>1
  <2>5. rank[d[n].value] \in Int /\ rank[value] \in Int
    BY <2>4 DEF Entries, Ranks
  <2>6. QED
    BY <2>2, <2>3, <2>5
<1>4. QED
  BY <1>2, <1>3 DEF KeptPrefix


\* What is left of a deque when a prefix is dropped.
LEMMA SuffixIs ==
  ASSUME NEW d \in Seq(Entries), NEW n \in 0 .. Len(d)
  PROVE  /\ Suffix(d, n) = [i \in 1 .. Len(d) - n |-> d[n + i]]
         /\ Suffix(d, n) \in Seq(Entries) /\ Len(Suffix(d, n)) = Len(d) - n
<1> DEFINE f == Suffix(d, n)
<1>1. Len(d) \in Nat /\ DOMAIN d = 1 .. Len(d)
  BY LenProperties
<1>2. f = [i \in 1 .. Len(d) - n |-> d[n + i]]
  <2>1. f = [i \in 1 .. (Len(d) - (n + 1)) + 1 |-> d[i + (n + 1) - 1]]
    BY DEF Suffix
  <2>2. (Len(d) - (n + 1)) + 1 = Len(d) - n /\ \A i \in 1 .. Len(d) - n : i + (n + 1) - 1 = n + i
    BY <1>1
  <2>3. QED
    BY <2>1, <2>2
<1>3. Len(d) - n \in Nat /\ \A i \in 1 .. Len(d) - n : d[n + i] \in Entries
  BY <1>1
<1>4. QED
  BY <1>2, <1>3, LenProperties

Followed(f, m, e) == Append(Prefix(f, m), e)

CutAfter(r, f, m, e) ==
  /\ r \in Seq(Entries) /\ Len(r) = m + 1 /\ DOMAIN r = 1 .. m + 1
  /\ \A i \in 1 .. m : r[i] = f[i]
  /\ r[m + 1] = e

\* What the rest becomes when it is cut after m entries and followed by one more.
LEMMA CutAndFollowed ==
  ASSUME NEW f \in Seq(Entries), NEW m \in 0 .. Len(f), NEW e \in Entries
  PROVE  CutAfter(Followed(f, m, e), f, m, e)
<1> DEFINE r == Followed(f, m, e)
<1> DEFINE p == Prefix(f, m)
<1>1. Len(f) \in Nat /\ DOMAIN f = 1 .. Len(f)
  BY LenProperties
<1>2. p = [i \in 1 .. m |-> f[i]]
  <2>1. p = [i \in 1 .. (m - 1) + 1 |-> f[i + 1 - 1]]
    BY DEF Prefix
  <2>2. (m - 1) + 1 = m /\ \A i \in 1 .. m : i + 1 - 1 = i
    BY <1>1
  <2>3. QED
    BY <2>1, <2>2
<1>3. p \in Seq(Entries) /\ Len(p) = m
  <2>1. m \in Nat /\ \A i \in 1 .. m : f[i] \in Entries
    BY <1>1
  <2>2. QED
    BY <1>2, <2>1, LenProperties
<1> HIDE DEF p
<1>4. /\ Append(p, e) \in Seq(Entries) /\ Len(Append(p, e)) = m + 1
      /\ \A i \in 1 .. m : Append(p, e)[i] = p[i]
      /\ Append(p, e)[m + 1] = e
  BY <1>3, AppendProperties
<1>5. r = Append(p, e)
  BY DEF p, Followed
<1> HIDE DEF r
<1>6. DOMAIN r = 1 .. m + 1
  BY <1>4, <1>5, LenProperties
<1>7. CutAfter(r, f, m, e)
  BY <1>2, <1>4, <1>5, <1>6 DEF CutAfter
<1>8. QED
  BY <1>7 DEF r

\* A save keeps a deque monotone and covering, and drops what is expired.
LEMMA DequeSaves ==
  ASSUME NEW S \in SUBSET Entries, NEW rank \in Ranks, NEW d, Monotone(d, S, rank),
         NEW since \in Int, Covering(d, S, rank, since),
         NEW limit \in Int, since <= limit,
         NEW e \in Entries, limit <= e.timestamp, \A s \in S : s.timestamp <= e.timestamp,
         NEW n, ExpiredPrefix(d, limit, n), NEW m, KeptPrefix(Suffix(d, n), rank, e.value, m)
  PROVE  LET r == Followed(Suffix(d, n), m, e)
         IN  /\ Monotone(r, S \cup {e}, rank) /\ Covering(r, S \cup {e}, rank, limit)
             /\ Since(r, limit) /\ r # <<>>
<1>0. d \in Seq(Entries) /\ n \in 0 .. Len(d) /\ Len(d) \in Nat /\ DOMAIN d = 1 .. Len(d)
  BY LenProperties DEF Monotone, ExpiredPrefix
<1>a. PICK f \in Seq(Entries) : /\ f = Suffix(d, n) /\ Len(f) = Len(d) - n
                                /\ \A i \in 1 .. Len(d) - n : f[i] = d[n + i]
  <2>1. Len(d) - n \in Nat
    BY <1>0
  <2>2. QED
    BY ONLY <1>0, <2>1, SuffixIs
<1>1. m \in 0 .. Len(d) - n
  BY <1>a DEF KeptPrefix
<1>2. PICK r : r = Followed(f, m, e)
  OBVIOUS
<1>3. /\ r \in Seq(Entries) /\ Len(r) = m + 1 /\ DOMAIN r = 1 .. m + 1
      /\ \A i \in 1 .. m : r[i] = d[n + i] /\ n + i \in DOMAIN d
      /\ r[m + 1] = e
  <2>1. \A i \in 1 .. m : n + i \in DOMAIN d /\ i \in 1 .. Len(d) - n
    BY <1>0, <1>1
  <2>2. /\ r \in Seq(Entries) /\ Len(r) = m + 1 /\ DOMAIN r = 1 .. m + 1
        /\ \A i \in 1 .. m : r[i] = f[i]
        /\ r[m + 1] = e
    <3>1. m \in 0 .. Len(f)
      BY <1>a, <1>1
    <3>2. CutAfter(Followed(f, m, e), f, m, e)
      BY ONLY <3>1, CutAndFollowed, f \in Seq(Entries), e \in Entries
    <3>3. CutAfter(r, f, m, e)
      BY ONLY <1>2, <3>2
    <3>4. QED
      BY <3>3 DEF CutAfter
  <2>3. QED
    BY <1>a, <2>1, <2>2
<1>4. /\ m = 0 \/ rank[d[n + m].value] < rank[e.value]
      /\ \A i \in m + 1 .. Len(d) - n : rank[d[n + i].value] >= rank[e.value]
  <2>1. KeptPrefix(f, rank, e.value, m)
    BY <1>a
  <2>2. /\ m = 0 \/ rank[f[m].value] < rank[e.value]
        /\ \A i \in m + 1 .. Len(d) - n : rank[f[i].value] >= rank[e.value]
    BY <1>a, <2>1 DEF KeptPrefix
  <2>3. /\ m # 0 => m \in 1 .. Len(d) - n
        /\ \A i \in m + 1 .. Len(d) - n : i \in 1 .. Len(d) - n
    BY <1>0, <1>1
  <2>4. QED
    BY <1>a, <2>2, <2>3
<1>5. /\ \A i \in DOMAIN d : /\ d[i] \in S /\ d[i].timestamp \in Int /\ d[i].value \in Int
                             /\ rank[d[i].value] \in Int
      /\ rank[e.value] \in Int /\ e.value \in Int /\ e.timestamp \in Int
      /\ \A i, j \in DOMAIN d : i < j =>
           rank[d[i].value] < rank[d[j].value] /\ d[i].timestamp <= d[j].timestamp
  BY <1>0 DEF Monotone, Entries, Ranks
<1>6. ASSUME NEW i \in DOMAIN r, NEW j \in DOMAIN r, i < j
      PROVE  rank[r[i].value] < rank[r[j].value] /\ r[i].timestamp <= r[j].timestamp
  <2>1. i \in 1 .. m /\ n + i \in DOMAIN d /\ r[i] = d[n + i] /\ d[n + i] \in S
    BY <1>1, <1>3, <1>5, <1>6
  <2>2. CASE j = m + 1
    <3>1. n + m \in DOMAIN d /\ (n + i < n + m \/ i = m)
      BY <1>0, <1>1, <2>1, <2>2
    <3>2. rank[d[n + i].value] <= rank[d[n + m].value]
      BY <1>5, <2>1, <3>1
    <3>3. rank[d[n + m].value] < rank[e.value]
      BY <1>4, <2>1
    <3>4. QED
      BY <1>3, <1>5, <2>1, <2>2, <3>1, <3>2, <3>3
  <2>3. CASE j \in 1 .. m
    <3>1. n + j \in DOMAIN d /\ r[j] = d[n + j] /\ n + i < n + j
      BY <1>0, <1>1, <1>3, <1>6, <2>1, <2>3
    <3>2. QED
      BY <1>5, <2>1, <3>1
  <2>4. QED
    BY <1>1, <1>3, <2>2, <2>3
<1>7. Monotone(r, S \cup {e}, rank)
  <2>1. \A i \in DOMAIN r : r[i] \in S \cup {e}
    BY <1>1, <1>3, <1>5
  <2>2. QED
    BY <1>3, <1>6, <2>1 DEF Monotone
<1>8. Since(r, limit)
  <2>1. ASSUME NEW i \in 1 .. m PROVE d[n + i].timestamp >= limit
    <3>1. n < Len(d) /\ n + 1 \in DOMAIN d /\ n + i \in DOMAIN d /\ (n + 1 < n + i \/ i = 1)
      BY <1>0, <1>1
    <3>2. d[n + 1].timestamp >= limit
      BY <3>1 DEF ExpiredPrefix
    <3>3. QED
      BY <1>5, <3>1, <3>2
  <2>2. QED
    BY <1>1, <1>3, <2>1 DEF Since
<1>9. ASSUME NEW s \in S \cup {e}, s.timestamp >= limit
      PROVE  \E i \in DOMAIN r : rank[r[i].value] <= rank[s.value] /\ r[i].timestamp >= s.timestamp
  <2>0. m + 1 \in DOMAIN r /\ r[m + 1] = e
    BY <1>1, <1>3
  <2>1. CASE s = e
    BY <1>5, <2>0, <2>1
  <2>2. CASE s \in S
    <3>0. s \in Entries /\ s.timestamp \in Int /\ rank[s.value] \in Int
      BY <2>2 DEF Entries, Ranks
    <3>1. s.timestamp \in Int /\ s.timestamp >= since /\ s.timestamp <= e.timestamp
          /\ rank[s.value] \in Int
      BY <1>9, <2>2, <3>0
    <3>2. PICK k \in DOMAIN d : rank[d[k].value] <= rank[s.value] /\ d[k].timestamp >= s.timestamp
      BY <2>2, <3>1 DEF Covering
    <3>3. k > n
      <4>1. d[k].timestamp >= limit
        BY <1>5, <1>9, <3>1, <3>2
      <4>2. ~(d[k].timestamp < limit)
        BY <1>5, <4>1
      <4>3. k \notin 1 .. n
        BY <4>2 DEF ExpiredPrefix
      <4>4. QED
        BY <1>0, <4>3
    <3>4. CASE k - n <= m
      <4>1. k - n \in 1 .. m /\ r[k - n] = d[k] /\ k - n \in DOMAIN r
        <5>1. k - n \in 1 .. m /\ n + (k - n) = k
          BY <1>0, <1>1, <3>3, <3>4
        <5>2. r[k - n] = d[n + (k - n)]
          BY <1>3, <5>1
        <5>3. QED
          BY <1>1, <1>3, <5>1, <5>2
      <4>2. QED
        BY <3>2, <4>1
    <3>5. CASE k - n > m
      <4>1. k - n \in m + 1 .. Len(d) - n /\ n + (k - n) = k
        BY <1>0, <1>1, <3>3, <3>5
      <4>2. rank[d[n + (k - n)].value] >= rank[e.value]
        BY <1>4, <4>1
      <4>3. rank[e.value] <= rank[s.value]
        BY <1>5, <3>1, <3>2, <4>1, <4>2
      <4>4. QED
        BY <2>0, <3>1, <4>3
    <3>6. QED
      BY <1>0, <1>1, <3>4, <3>5
  <2>3. QED
    BY <2>1, <2>2
<1>10. Covering(r, S \cup {e}, rank, limit)
  BY <1>9 DEF Covering
<1>11. r # <<>>
  BY <1>1, <1>3
<1>12. QED
  BY <1>a, <1>2, <1>7, <1>8, <1>10, <1>11

Identity == [v \in Int |-> v]

Negation == [v \in Int |-> -v]

Entry(v, t) == [value |-> v, timestamp |-> t]

\* The deque that a save leaves.
LEMMA UpdateMinIs ==
  ASSUME NEW d \in Seq(Entries), NEW v \in Int, NEW t \in Int
  PROVE  \E n, m : /\ ExpiredPrefix(d, t - GasPriceExpiry, n)
                   /\ KeptPrefix(Suffix(d, n), Identity, v, m)
                   /\ UpdateMin(d, v, t) = Followed(Suffix(d, n), m, Entry(v, t))
<1> DEFINE n == Expired(d, t)
           f == Suffix(d, n)
           m == KeptBelow(f, v)
<1>0. t - GasPriceExpiry \in Int /\ Identity \in Ranks
  BY MinMaxQueueAssumption DEF Identity, Ranks
<1>1. ExpiredPrefix(d, t - GasPriceExpiry, n)
  BY <1>0, ExpiredExists DEF ExpiredPrefix, Expired
<1>2. f \in Seq(Entries)
  BY <1>1, SuffixIs DEF ExpiredPrefix
<1> HIDE DEF n
<1>3. KeptPrefix(f, Identity, v, m)
  <2> HIDE DEF f
  <2>1. PICK k : KeptPrefix(f, Identity, v, k)
    BY <1>0, <1>2, KeptExists
  <2>2. /\ \A i \in DOMAIN f : f[i].value \in Int /\ Identity[f[i].value] = f[i].value
        /\ Identity[v] = v /\ Len(f) \in Nat /\ DOMAIN f = 1 .. Len(f)
    <3>1. Len(f) \in Nat /\ DOMAIN f = 1 .. Len(f) /\ \A i \in DOMAIN f : f[i] \in Entries
      BY <1>2, LenProperties
    <3>2. \A i \in DOMAIN f : f[i].value \in Int
      BY <3>1 DEF Entries
    <3>3. QED
      BY <3>1, <3>2 DEF Identity
  <2>3. \A j \in 0 .. Len(f) :
          KeptPrefix(f, Identity, v, j) <=>
            /\ j = 0 \/ f[j].value < v
            /\ \A i \in j + 1 .. Len(f) : f[i].value >= v
    BY <2>2 DEF KeptPrefix
  <2>4. k \in 0 .. Len(f)
    BY <2>1 DEF KeptPrefix
  <2>5. QED
    BY <2>1, <2>3, <2>4 DEF KeptBelow
<1>4. UpdateMin(d, v, t) = Followed(f, m, Entry(v, t))
  BY DEF UpdateMin, Followed, Entry, n
<1>5. QED
  BY <1>1, <1>3, <1>4

\* The same of the other deque.
LEMMA UpdateMaxIs ==
  ASSUME NEW d \in Seq(Entries), NEW v \in Int, NEW t \in Int
  PROVE  \E n, m : /\ ExpiredPrefix(d, t - GasPriceExpiry, n)
                   /\ KeptPrefix(Suffix(d, n), Negation, v, m)
                   /\ UpdateMax(d, v, t) = Followed(Suffix(d, n), m, Entry(v, t))
<1> DEFINE n == Expired(d, t)
           f == Suffix(d, n)
           m == KeptAbove(f, v)
<1>0. t - GasPriceExpiry \in Int /\ Negation \in Ranks
  BY MinMaxQueueAssumption DEF Negation, Ranks
<1>1. ExpiredPrefix(d, t - GasPriceExpiry, n)
  BY <1>0, ExpiredExists DEF ExpiredPrefix, Expired
<1>2. f \in Seq(Entries)
  BY <1>1, SuffixIs DEF ExpiredPrefix
<1> HIDE DEF n
<1>3. KeptPrefix(f, Negation, v, m)
  <2> HIDE DEF f
  <2>1. PICK k : KeptPrefix(f, Negation, v, k)
    BY <1>0, <1>2, KeptExists
  <2>2. /\ \A i \in DOMAIN f : f[i].value \in Int /\ Negation[f[i].value] = -f[i].value
        /\ Negation[v] = -v /\ Len(f) \in Nat /\ DOMAIN f = 1 .. Len(f)
    <3>1. Len(f) \in Nat /\ DOMAIN f = 1 .. Len(f) /\ \A i \in DOMAIN f : f[i] \in Entries
      BY <1>2, LenProperties
    <3>2. \A i \in DOMAIN f : f[i].value \in Int
      BY <3>1 DEF Entries
    <3>3. QED
      BY <3>1, <3>2 DEF Negation
  <2>3. \A j \in 0 .. Len(f) :
          KeptPrefix(f, Negation, v, j) <=>
            /\ j = 0 \/ f[j].value > v
            /\ \A i \in j + 1 .. Len(f) : f[i].value <= v
    <3> SUFFICES ASSUME NEW j \in 0 .. Len(f)
                 PROVE  KeptPrefix(f, Negation, v, j) <=>
                          /\ j = 0 \/ f[j].value > v
                          /\ \A i \in j + 1 .. Len(f) : f[i].value <= v
      OBVIOUS
    <3>1. j = 0 \/ (j \in DOMAIN f /\ (Negation[f[j].value] < Negation[v] <=> f[j].value > v))
      BY <2>2
    <3>2. \A i \in j + 1 .. Len(f) : Negation[f[i].value] >= Negation[v] <=> f[i].value <= v
      BY <2>2
    <3>3. QED
      BY <3>1, <3>2 DEF KeptPrefix
  <2>4. k \in 0 .. Len(f)
    BY <2>1 DEF KeptPrefix
  <2>5. QED
    BY <2>1, <2>3, <2>4 DEF KeptAbove
<1>4. UpdateMax(d, v, t) = Followed(f, m, Entry(v, t))
  BY DEF UpdateMax, Followed, Entry, n
<1>5. QED
  BY <1>1, <1>3, <1>4

\* A deque of a window into which the values of S were saved, the last at `last'.
DequeOK(d, S, rank, last) ==
  /\ Monotone(d, S, rank) /\ Covering(d, S, rank, last - GasPriceExpiry)
  /\ Since(d, last - GasPriceExpiry) /\ d # <<>>

LastOf(S, l) == l \in S /\ \A s \in S : s.timestamp <= l.timestamp

\* A window and what was saved in it.
WindowOK(w, S) ==
  /\ S \in SUBSET Entries
  /\ S = {} => w = EmptyWindow
  /\ S # {} => \E l : /\ LastOf(S, l) /\ l.value = w.latestValue
                      /\ DequeOK(w.minDeque, S, Identity, l.timestamp)
                      /\ DequeOK(w.maxDeque, S, Negation, l.timestamp)

\* A save keeps a deque right, be it empty or not.
LEMMA DequeKept ==
  ASSUME NEW S \in SUBSET Entries, NEW rank \in Ranks, NEW d, NEW t \in Int, NEW v \in Int,
         \A s \in S : s.timestamp <= t,
         S = {} => d = <<>>,
         S # {} => \E l : LastOf(S, l) /\ DequeOK(d, S, rank, l.timestamp),
         NEW n, ExpiredPrefix(d, t - GasPriceExpiry, n), NEW m, KeptPrefix(Suffix(d, n), rank, v, m)
  PROVE  DequeOK(Followed(Suffix(d, n), m, Entry(v, t)), S \cup {Entry(v, t)}, rank, t)
<1>0. /\ GasPriceExpiry \in Nat /\ t - GasPriceExpiry \in Int /\ t - GasPriceExpiry <= t
      /\ Entry(v, t) \in Entries /\ Entry(v, t).value = v /\ Entry(v, t).timestamp = t
  BY MinMaxQueueAssumption DEF Entry, Entries
<1>1. \E since \in Int : /\ Monotone(d, S, rank) /\ Covering(d, S, rank, since)
                          /\ since <= t - GasPriceExpiry
  <2>1. CASE S = {}
    <3>1. Monotone(d, S, rank) /\ Covering(d, S, rank, t - GasPriceExpiry)
      <4>1. d = <<>> /\ d \in Seq(Entries) /\ DOMAIN d = {}
        BY <2>1
      <4>2. QED
        BY <2>1, <4>1 DEF Monotone, Covering
    <3>2. QED
      BY <1>0, <3>1
  <2>2. CASE S # {}
    <3>1. PICK l : LastOf(S, l) /\ DequeOK(d, S, rank, l.timestamp)
      BY <2>2
    <3>2. l.timestamp \in Int /\ l.timestamp <= t
      BY <3>1 DEF LastOf, Entries
    <3>3. l.timestamp - GasPriceExpiry \in Int /\ l.timestamp - GasPriceExpiry <= t - GasPriceExpiry
      BY <1>0, <3>2
    <3>4. QED
      BY <3>1, <3>3 DEF DequeOK
  <2>3. QED
    BY <2>1, <2>2
<1>2. PICK since \in Int : /\ Monotone(d, S, rank) /\ Covering(d, S, rank, since)
                           /\ since <= t - GasPriceExpiry
  BY <1>1
<1> DEFINE e == Entry(v, t)
           limit == t - GasPriceExpiry
           r == Followed(Suffix(d, n), m, e)
<1>3. e \in Entries /\ limit \in Int /\ e.value = v /\ e.timestamp = t /\ since <= limit /\ limit <= t
  BY <1>0, <1>2
<1>4. ExpiredPrefix(d, limit, n) /\ KeptPrefix(Suffix(d, n), rank, e.value, m)
  BY <1>3
<1> HIDE DEF e, limit
<1>5. \A s \in S : s.timestamp <= e.timestamp
  BY <1>3
<1>6. limit <= e.timestamp
  BY <1>3
<1>7. /\ Monotone(r, S \cup {e}, rank) /\ Covering(r, S \cup {e}, rank, limit)
      /\ Since(r, limit) /\ r # <<>>
  BY ONLY S \in SUBSET Entries, rank \in Ranks, <1>2, <1>3, <1>4, <1>5, <1>6, DequeSaves
<1>8. QED
  BY <1>7 DEF DequeOK, e, limit

\* What a save adds to the history.
Added(S, v, t) == IF v = 0 THEN S ELSE S \cup {Entry(v, t)}

\* A save keeps a window right.
LEMMA SaveKeepsWindow ==
  ASSUME NEW S, NEW w, WindowOK(w, S), NEW t \in Int, NEW v \in Int,
         \A s \in S : s.timestamp <= t
  PROVE  WindowOK(Saved(w, v, t), Added(S, v, t))
<1>1. CASE v = 0
  BY <1>1 DEF Saved, Added
<1>2. CASE v # 0
  <2> DEFINE e == Entry(v, t)
  <2>0. /\ S \in SUBSET Entries /\ e \in Entries /\ e.timestamp = t /\ e.value = v
        /\ Identity \in Ranks /\ Negation \in Ranks
    BY DEF WindowOK, Entry, Entries, Identity, Negation, Ranks
  <2>1. LastOf(S \cup {e}, e)
    BY <2>0 DEF LastOf
  <2>2. /\ w.minDeque \in Seq(Entries) /\ w.maxDeque \in Seq(Entries)
        /\ S = {} => w.minDeque = <<>> /\ w.maxDeque = <<>>
        /\ S # {} => /\ \E l : LastOf(S, l) /\ DequeOK(w.minDeque, S, Identity, l.timestamp)
                     /\ \E l : LastOf(S, l) /\ DequeOK(w.maxDeque, S, Negation, l.timestamp)
    <3>1. CASE S = {}
      <4>1. w = EmptyWindow
        BY <3>1 DEF WindowOK
      <4>2. w.minDeque = <<>> /\ w.maxDeque = <<>>
        BY <4>1 DEF EmptyWindow
      <4>3. QED
        BY ONLY <3>1, <4>2
    <3>2. CASE S # {}
      <4>1. PICK l : /\ LastOf(S, l) /\ DequeOK(w.minDeque, S, Identity, l.timestamp)
                     /\ DequeOK(w.maxDeque, S, Negation, l.timestamp)
        BY <3>2 DEF WindowOK
      <4>2. w.minDeque \in Seq(Entries) /\ w.maxDeque \in Seq(Entries)
        BY <4>1 DEF DequeOK, Monotone
      <4>3. QED
        BY <3>2, <4>1, <4>2
    <3>3. QED
      BY <3>1, <3>2
  <2>3. DequeOK(UpdateMin(w.minDeque, v, t), S \cup {e}, Identity, t)
    <3>1. PICK n, m : /\ ExpiredPrefix(w.minDeque, t - GasPriceExpiry, n)
                      /\ KeptPrefix(Suffix(w.minDeque, n), Identity, v, m)
                      /\ UpdateMin(w.minDeque, v, t) = Followed(Suffix(w.minDeque, n), m, Entry(v, t))
      BY <2>2, UpdateMinIs
    <3>2. DequeOK(Followed(Suffix(w.minDeque, n), m, Entry(v, t)), S \cup {Entry(v, t)}, Identity, t)
      BY ONLY <2>0, <2>2, <3>1, DequeKept, t \in Int, v \in Int, \A s \in S : s.timestamp <= t
    <3>3. QED
      BY <3>1, <3>2
  <2>4. DequeOK(UpdateMax(w.maxDeque, v, t), S \cup {e}, Negation, t)
    <3>1. PICK n, m : /\ ExpiredPrefix(w.maxDeque, t - GasPriceExpiry, n)
                      /\ KeptPrefix(Suffix(w.maxDeque, n), Negation, v, m)
                      /\ UpdateMax(w.maxDeque, v, t) = Followed(Suffix(w.maxDeque, n), m, Entry(v, t))
      BY <2>2, UpdateMaxIs
    <3>2. DequeOK(Followed(Suffix(w.maxDeque, n), m, Entry(v, t)), S \cup {Entry(v, t)}, Negation, t)
      BY ONLY <2>0, <2>2, <3>1, DequeKept, t \in Int, v \in Int, \A s \in S : s.timestamp <= t
    <3>3. QED
      BY <3>1, <3>2
  <2>5. Saved(w, v, t) = [minDeque |-> UpdateMin(w.minDeque, v, t),
                          maxDeque |-> UpdateMax(w.maxDeque, v, t), latestValue |-> v]
    BY <1>2 DEF Saved
  <2>6. Added(S, v, t) = S \cup {e} /\ S \cup {e} # {} /\ S \cup {e} \in SUBSET Entries
    BY <1>2, <2>0 DEF Added
  <2>7. QED
    BY <2>0, <2>1, <2>3, <2>4, <2>5, <2>6 DEF WindowOK
<1>3. QED
  BY <1>1, <1>2

\* The front of a deque is the extreme of the recent values.
LEMMA FrontIsExtreme ==
  ASSUME NEW S \in SUBSET Entries, NEW rank \in Ranks, NEW d, NEW last \in Int,
         DequeOK(d, S, rank, last)
  PROVE  /\ d[1] \in S /\ d[1].timestamp >= last - GasPriceExpiry
         /\ \A s \in S : s.timestamp >= last - GasPriceExpiry => rank[d[1].value] <= rank[s.value]
<1>1. /\ d \in Seq(Entries) /\ DOMAIN d = 1 .. Len(d) /\ Len(d) \in Nat /\ d # <<>>
      /\ \A i \in DOMAIN d : d[i] \in S /\ rank[d[i].value] \in Int
  BY LenProperties DEF DequeOK, Monotone, Entries, Ranks
<1>2. 1 \in DOMAIN d
  BY <1>1
<1>3. d[1] \in S /\ d[1].timestamp >= last - GasPriceExpiry
  BY <1>1, <1>2 DEF DequeOK, Since
<1>4. ASSUME NEW s \in S, s.timestamp >= last - GasPriceExpiry
      PROVE  rank[d[1].value] <= rank[s.value]
  <2>1. PICK i \in DOMAIN d : rank[d[i].value] <= rank[s.value]
    BY <1>4 DEF DequeOK, Covering
  <2>2. i = 1 \/ rank[d[1].value] < rank[d[i].value]
    BY <1>1, <1>2 DEF DequeOK, Monotone
  <2>3. rank[s.value] \in Int
    BY DEF Entries, Ranks
  <2>4. QED
    BY <1>1, <1>2, <2>1, <2>2, <2>3
<1>5. QED
  BY <1>3, <1>4

\* What WindowsAreExact says of one window.
ExactFrom(w, S, since) ==
  LET recent == { s.value : s \in { r \in S : r.timestamp >= since } }
  IN /\ MinValue(w) \in recent /\ \A v \in recent : MinValue(w) <= v
     /\ MaxValue(w) \in recent /\ \A v \in recent : MaxValue(w) >= v

\* The ends of a window that is as it should be are its recent minimum and maximum.
LEMMA WindowIsExact ==
  ASSUME NEW S, NEW w, WindowOK(w, S), NEW l, LastOf(S, l)
  PROVE  ExactFrom(w, S, l.timestamp - GasPriceExpiry)
<1>0. S \in SUBSET Entries /\ S # {} /\ l \in S /\ Identity \in Ranks /\ Negation \in Ranks
  BY DEF WindowOK, LastOf, Identity, Negation, Ranks
<1>1. PICK k : /\ LastOf(S, k) /\ DequeOK(w.minDeque, S, Identity, k.timestamp)
               /\ DequeOK(w.maxDeque, S, Negation, k.timestamp)
  BY <1>0 DEF WindowOK
<1>2. k.timestamp \in Int /\ k.timestamp = l.timestamp
  BY <1>0, <1>1 DEF LastOf, Entries
<1> DEFINE since == k.timestamp - GasPriceExpiry
           a == w.minDeque[1]
           z == w.maxDeque[1]
<1>3. /\ a \in S /\ a.timestamp >= since
      /\ \A s \in S : s.timestamp >= since => Identity[a.value] <= Identity[s.value]
  BY <1>0, <1>1, <1>2, FrontIsExtreme
<1>4. /\ z \in S /\ z.timestamp >= since
      /\ \A s \in S : s.timestamp >= since => Negation[z.value] <= Negation[s.value]
  BY <1>0, <1>1, <1>2, FrontIsExtreme
<1>5. MinValue(w) = a.value /\ MaxValue(w) = z.value
  BY <1>1 DEF MinValue, MaxValue, DequeOK
<1> HIDE DEF a, z, since
<1>6. ASSUME NEW s \in S, s.timestamp >= since PROVE a.value <= s.value /\ z.value >= s.value
  <2>1. a.value \in Int /\ z.value \in Int /\ s.value \in Int
    BY <1>0, <1>3, <1>4 DEF Entries
  <2>2. /\ Identity[a.value] = a.value /\ Identity[s.value] = s.value
        /\ Negation[z.value] = -z.value /\ Negation[s.value] = -s.value
    BY <2>1 DEF Identity, Negation
  <2>3. Identity[a.value] <= Identity[s.value] /\ Negation[z.value] <= Negation[s.value]
    BY <1>3, <1>4, <1>6
  <2>4. QED
    BY <2>1, <2>2, <2>3
<1>7. ExactFrom(w, S, since)
  BY <1>3, <1>4, <1>5, <1>6 DEF ExactFrom
<1>8. QED
  BY <1>2, <1>7 DEF since

-----------------------------------------------------------------------------
(* Every save is of a number, at a time that does not go back.             *)

ClientFields == {"doing", "got", "quote", "quotedAt", "pricedAt", "need", "trace", "outcome", "at"}

AdmissionTypes ==
  /\ \E s \in Scenarios : /\ config = s.config /\ userOp.txBytes = s.userOp.txBytes
                          /\ DOMAIN userOp = DOMAIN s.userOp
  /\ now \in Nat
  /\ reading \in config.readings
  /\ DOMAIN task = Tasks
  /\ \A t \in Tasks : task[t].doing # "idle" => task[t].got \in config.readings
  /\ DOMAIN client = ClientFields
  /\ client.doing # "idle" => client.got \in config.readings

Prices == [maxFeePerGas : Nat, maxPriorityFeePerGas : Nat]

\* A percentage of a number.
LEMMA ScaledIsNat == ASSUME NEW v \in Nat, NEW p \in Nat PROVE ScaleByPercent(v, p) \in Nat
<1>1. v * p \in Nat
  OBVIOUS
<1>2. \A w \in Nat : w \div 100 \in Nat
  OBVIOUS
<1>3. QED
  BY <1>1, <1>2 DEF ScaleByPercent

\* The larger of two numbers.
LEMMA MaxOfIs == ASSUME NEW a \in Int, NEW b \in Int
                 PROVE  MaxOf(a, b) \in {a, b} /\ MaxOf(a, b) >= a /\ MaxOf(a, b) >= b
BY DEF MaxOf

\* What comes of a price is a price whose fee is not below its priority fee.
LEMMA BumpedIs ==
  ASSUME NEW c, {c.floorMaxFeePerGas, c.floorMaxPriorityFeePerGas} \subseteq Nat,
         NEW p, p.maxFeePerGas \in Nat, p.maxPriorityFeePerGas \in Nat
  PROVE  /\ Bumped(c, p) \in Prices
         /\ Bumped(c, p).maxFeePerGas >= Bumped(c, p).maxPriorityFeePerGas
<1> DEFINE priority == MaxOf(p.maxPriorityFeePerGas, DefaultGasFee(c))
           maxFee == MaxOf(p.maxFeePerGas, priority)
           flooredPriority == MaxOf(c.floorMaxPriorityFeePerGas, ScaleByPercent(priority, GasPriceBump))
           flooredFee == MaxOf(c.floorMaxFeePerGas, ScaleByPercent(maxFee, GasPriceBump))
<1>1. priority \in Nat
  BY GasPricesAssumption DEF DefaultGasFee, MaxOf
<1>2. maxFee \in Nat
  BY <1>1 DEF MaxOf
<1> HIDE DEF priority, maxFee
<1>3. flooredPriority \in Nat /\ flooredFee \in Nat
  <2>1. ScaleByPercent(priority, GasPriceBump) \in Nat /\ ScaleByPercent(maxFee, GasPriceBump) \in Nat
    BY <1>1, <1>2, ScaledIsNat, GasPricesAssumption
  <2>2. QED
    BY <2>1 DEF MaxOf
<1> HIDE DEF flooredPriority, flooredFee
<1>4. MaxOf(flooredFee, flooredPriority) \in Nat
      /\ MaxOf(flooredFee, flooredPriority) >= flooredPriority
  BY <1>3 DEF MaxOf
<1>5. Bumped(c, p) = Price(MaxOf(flooredFee, flooredPriority), flooredPriority)
  BY DEF Bumped, flooredFee, flooredPriority, maxFee, priority
<1>6. QED
  BY <1>3, <1>4, <1>5 DEF Price, Prices

\* What a configuration makes of a reading is a price, if anything.
LEMMA FetchedIs ==
  ASSUME NEW s \in Scenarios, NEW n \in s.config.readings
  PROVE  LET p == InnerGetGasPrice(s.config, n)
         IN  p # Null => p \in Prices /\ p.maxFeePerGas >= p.maxPriorityFeePerGas
<1> DEFINE c == s.config
<1>0. /\ {c.floorMaxFeePerGas, c.floorMaxPriorityFeePerGas} \subseteq Nat
      /\ {n.legacyFee, n.gasPrice, n.baseFee} \subseteq Nat \cup {Null}
      /\ n.feeHistory # Null => n.feeHistory.reward \in Nat \cup {Null}
      /\ n.fees # Null => {n.fees.maxFeePerGas, n.fees.maxPriorityFeePerGas} \subseteq Nat \cup {Null}
      /\ n.station # Null => {n.station.maxFeePerGas, n.station.maxPriorityFeePerGas} \subseteq Nat
  BY ReadingsAssumption
<1>1. LegacyPrice(n) # Null => LegacyPrice(n) \in Prices
  BY <1>0 DEF LegacyPrice, OrElse, Price, Prices
<1>2. EstimatedPrice(n) # Null => EstimatedPrice(n) \in Prices
  <2>0. Null \notin Int
    BY MinMaxQueueAssumption
  <2>1. ASSUME NEW g \in Nat PROVE FallBackPriorityFee(n, g) \in Nat \cup {Null}
    BY <1>0 DEF FallBackPriorityFee, MinOf
  <2> DEFINE priority == IF n.fees # Null /\ n.fees.maxPriorityFeePerGas # Null
                         THEN n.fees.maxPriorityFeePerGas
                         ELSE FallBackPriorityFee(n, IF n.fees = Null THEN 0
                                                     ELSE OrElse(n.fees.maxFeePerGas, 0))
             maxFee == IF n.fees # Null /\ n.fees.maxFeePerGas # Null THEN n.fees.maxFeePerGas
                       ELSE IF n.gasPrice = Null \/ priority = Null THEN Null
                       ELSE n.gasPrice + priority
  <2>2. priority \in Nat \cup {Null}
    <3>1. (IF n.fees = Null THEN 0 ELSE OrElse(n.fees.maxFeePerGas, 0)) \in Nat
      BY <1>0 DEF OrElse
    <3>2. FallBackPriorityFee(n, IF n.fees = Null THEN 0 ELSE OrElse(n.fees.maxFeePerGas, 0))
            \in Nat \cup {Null}
      BY <2>1, <3>1
    <3>3. QED
      BY <1>0, <3>2
  <2> HIDE DEF priority
  <2>3. maxFee \in Nat \cup {Null}
    BY <1>0, <2>2
  <2> HIDE DEF maxFee
  <2>4. EstimatedPrice(n) = IF priority = Null \/ maxFee = Null THEN Null
                            ELSE Price(maxFee, IF priority = 0 THEN maxFee \div PriorityDivisor
                                               ELSE priority)
    BY DEF EstimatedPrice, priority, maxFee
  <2>5. \A v \in Nat : v \div PriorityDivisor \in Nat
    BY GasPricesAssumption
  <2>6. QED
    BY <2>2, <2>3, <2>4, <2>5 DEF Price, Prices
<1>3. ASSUME InnerGetGasPrice(c, n) # Null
      PROVE  \E p : /\ InnerGetGasPrice(c, n) = Bumped(c, p)
                    /\ p.maxFeePerGas \in Nat /\ p.maxPriorityFeePerGas \in Nat
  <2> DEFINE source == IF c.polygon /\ n.station # Null THEN n.station
                       ELSE IF c.legacyTransactions THEN LegacyPrice(n) ELSE EstimatedPrice(n)
  <2>1. InnerGetGasPrice(c, n) = IF source = Null THEN Null ELSE Bumped(c, source)
    BY DEF InnerGetGasPrice
  <2>2. source # Null
    BY <1>3, <2>1
  <2>3. source.maxFeePerGas \in Nat /\ source.maxPriorityFeePerGas \in Nat
    BY <1>0, <1>1, <1>2, <2>2 DEF Prices
  <2>4. QED
    BY <2>1, <2>2, <2>3
<1>4. QED
  BY <1>0, <1>3, BumpedIs

\* What is saved are numbers; of an L1 fee there is no save.
AreNat(values) == "l1Fee" \notin DOMAIN values /\ \A k \in DOMAIN values : values[k] \in Nat

PriceNames == {"maxFee", "priority"}

Unpriced(values) == PriceNames \cap DOMAIN values = {}

\* The two parts of a price are saved together, or neither is.
Priced(values) ==
  \/ Unpriced(values)
  \/ \E n \in config.readings :
       LET p == InnerGetGasPrice(config, n)
       IN /\ p # Null /\ PriceNames \subseteq DOMAIN values
          /\ values["maxFee"] = p.maxFeePerGas /\ values["priority"] = p.maxPriorityFeePerGas

Savable(values) == AreNat(values) /\ Priced(values)

\* Values put together.
LEMMA MergedSavable ==
  ASSUME NEW f, NEW g, Savable(f), Savable(g), Unpriced(f) \/ Unpriced(g)
  PROVE  Savable(Merged(f, g))
<1>1. AreNat(Merged(f, g))
  BY DEF AreNat, Merged, Savable
<1>2. DOMAIN Merged(f, g) = DOMAIN f \cup DOMAIN g
      /\ \A k \in DOMAIN f \cup DOMAIN g : Merged(f, g)[k] = IF k \in DOMAIN g THEN g[k] ELSE f[k]
  BY DEF Merged
<1> HIDE DEF Merged
<1>3. CASE Unpriced(f) /\ Unpriced(g)
  BY <1>1, <1>2, <1>3 DEF Savable, Priced, Unpriced
<1>4. CASE Unpriced(f) /\ ~Unpriced(g)
  <2>1. PICK n \in config.readings :
          /\ InnerGetGasPrice(config, n) # Null /\ PriceNames \subseteq DOMAIN g
          /\ g["maxFee"] = InnerGetGasPrice(config, n).maxFeePerGas
          /\ g["priority"] = InnerGetGasPrice(config, n).maxPriorityFeePerGas
    BY <1>4 DEF Savable, Priced
  <2>2. /\ PriceNames \subseteq DOMAIN Merged(f, g)
        /\ Merged(f, g)["maxFee"] = g["maxFee"] /\ Merged(f, g)["priority"] = g["priority"]
    BY <1>2, <2>1 DEF PriceNames
  <2>3. QED
    BY <1>1, <2>1, <2>2 DEF Savable, Priced
<1>5. CASE ~Unpriced(f) /\ Unpriced(g)
  <2>1. PICK n \in config.readings :
          /\ InnerGetGasPrice(config, n) # Null /\ PriceNames \subseteq DOMAIN f
          /\ f["maxFee"] = InnerGetGasPrice(config, n).maxFeePerGas
          /\ f["priority"] = InnerGetGasPrice(config, n).maxPriorityFeePerGas
    BY <1>5 DEF Savable, Priced
  <2>2. /\ PriceNames \subseteq DOMAIN Merged(f, g)
        /\ Merged(f, g)["maxFee"] = f["maxFee"] /\ Merged(f, g)["priority"] = f["priority"]
    BY <1>2, <1>5, <2>1 DEF PriceNames, Unpriced
  <2>3. QED
    BY <1>1, <2>1, <2>2 DEF Savable, Priced
<1>6. QED
  BY <1>3, <1>4, <1>5

\* What comes of two values without a price has none.
LEMMA MergedUnpriced ==
  ASSUME NEW f, NEW g, Unpriced(f), Unpriced(g) PROVE Unpriced(Merged(f, g))
BY DEF Unpriced, Merged

\* What a request can save are numbers.
LEMMA ValuesAreNat ==
  ASSUME AdmissionTypes, NEW n \in config.readings
  PROVE  /\ AreNat(PriceValues(InnerGetGasPrice(config, n)))
         /\ AreNat(BaseFeeValue(n)) /\ AreNat(FetchedPrice(n)) /\ AreNat(FetchedBaseFee(n))
         /\ AreNat(OracleValues(config, n, userOp)) /\ AreNat(Nothing)
<1>1. PICK s \in Scenarios : config = s.config /\ userOp.txBytes = s.userOp.txBytes
  BY DEF AdmissionTypes
<1>2. AreNat(Nothing)
  BY DEF AreNat, Nothing
<1>3. AreNat(PriceValues(InnerGetGasPrice(config, n)))
  <2>1. InnerGetGasPrice(config, n) # Null => InnerGetGasPrice(config, n) \in Prices
    BY <1>1, FetchedIs
  <2>2. QED
    BY <1>2, <2>1 DEF PriceValues, Prices, AreNat
<1>4. AreNat(BaseFeeValue(n))
  <2>1. n.baseFee \in Nat \cup {Null}
    BY <1>1, ReadingsAssumption
  <2>2. QED
    BY <1>2, <2>1 DEF BaseFeeValue, AreNat
<1>5. AreNat(FetchedPrice(n)) /\ AreNat(FetchedBaseFee(n))
  BY <1>2, <1>3, <1>4 DEF FetchedPrice, FetchedBaseFee
<1>6. AreNat(OracleValues(config, n, userOp))
  <2>1. /\ {n.l1BaseFee, n.l2BaseFee, n.tokenRatio, n.scalar, n.l1GasPrice, n.pubdata} \subseteq Nat
        /\ userOp.txBytes \in Nat
    BY <1>1, ReadingsAssumption
  <2>2. CASE config.chainType = "arbitrum"
    <3>1. OracleValues(config, n, userOp) = [l1BaseFee |-> n.l1BaseFee, l2BaseFee |-> n.l2BaseFee]
      BY <2>2 DEF OracleValues
    <3>2. QED
      BY <2>1, <3>1 DEF AreNat
  <2>3. CASE config.chainType = "mantle"
    <3>1. OracleValues(config, n, userOp) =
            [tokenRatio |-> n.tokenRatio, scalar |-> n.scalar,
             rollup |-> userOp.txBytes, l1GasPrice |-> n.l1GasPrice]
      BY <2>3 DEF OracleValues
    <3>2. QED
      BY <2>1, <3>1 DEF AreNat
  <2>4. CASE config.chainType = "abstract"
    <3>1. OracleValues(config, n, userOp) = [pubdata |-> n.pubdata]
      BY <2>4 DEF OracleValues
    <3>2. QED
      BY <2>1, <3>1 DEF AreNat
  <2>5. CASE config.chainType \notin {"arbitrum", "mantle", "abstract"}
    BY <1>2, <2>5 DEF OracleValues, Nothing
  <2>6. QED
    BY <2>2, <2>3, <2>4, <2>5
<1>7. QED
  BY <1>2, <1>3, <1>4, <1>5, <1>6


\* And of a price both parts or none.
LEMMA ValuesAreSavable ==
  ASSUME AdmissionTypes, NEW n \in config.readings
  PROVE  /\ Savable(PriceValues(InnerGetGasPrice(config, n))) /\ Savable(FetchedPrice(n))
         /\ \A values \in {BaseFeeValue(n), FetchedBaseFee(n), OracleValues(config, n, userOp), Nothing} :
              Savable(values) /\ Unpriced(values)
<1>1. Unpriced(Nothing)
  BY DEF Unpriced, Nothing
<1>2. Unpriced(BaseFeeValue(n)) /\ Unpriced(FetchedBaseFee(n))
  <2>1. Unpriced(BaseFeeValue(n))
    BY <1>1 DEF BaseFeeValue, Unpriced, PriceNames
  <2>2. QED
    BY <1>1, <2>1 DEF FetchedBaseFee
<1>3. Unpriced(OracleValues(config, n, userOp))
  BY DEF OracleValues, Unpriced, PriceNames
<1>4. Priced(PriceValues(InnerGetGasPrice(config, n)))
  <2>1. CASE InnerGetGasPrice(config, n) = Null
    BY <1>1, <2>1 DEF PriceValues, Priced
  <2>2. CASE InnerGetGasPrice(config, n) # Null
    <3> DEFINE p == InnerGetGasPrice(config, n)
    <3>1. PriceValues(p) = [maxFee |-> p.maxFeePerGas, priority |-> p.maxPriorityFeePerGas]
      BY <2>2 DEF PriceValues
    <3>2. /\ PriceNames \subseteq DOMAIN PriceValues(p)
          /\ PriceValues(p)["maxFee"] = p.maxFeePerGas
          /\ PriceValues(p)["priority"] = p.maxPriorityFeePerGas
      BY <3>1 DEF PriceNames
    <3>3. QED
      BY <2>2, <3>2 DEF Priced
  <2>3. QED
    BY <2>1, <2>2
<1>5. Priced(FetchedPrice(n))
  BY <1>1, <1>4 DEF FetchedPrice, Priced
<1>6. QED
  BY <1>1, <1>2, <1>3, <1>4, <1>5, ValuesAreNat DEF Savable, Priced

WindowsInv ==
  /\ DOMAIN windows = Windows /\ DOMAIN saves = Windows
  /\ \A k \in Windows : WindowOK(windows[k], saves[k]) /\ \A s \in saves[k] : s.timestamp <= now

\* Saves keep the windows right.
LEMMA SavesKeepWindows ==
  ASSUME WindowsInv, now \in Nat, NEW values, AreNat(values), SaveAll(values), now' = now
  PROVE  WindowsInv'
<1>1. /\ windows' = [k \in Windows |->
           IF k \in DOMAIN values THEN Saved(windows[k], values[k], now) ELSE windows[k]]
      /\ saves' = [k \in Windows |->
           IF k \in DOMAIN values THEN Added(saves[k], values[k], now) ELSE saves[k]]
  BY DEF SaveAll, Added, Entry
<1>2. ASSUME NEW k \in Windows
      PROVE  WindowOK(windows[k], saves[k])' /\ \A s \in saves'[k] : s.timestamp <= now
  <2>0. WindowOK(windows[k], saves[k]) /\ \A s \in saves[k] : s.timestamp <= now
    BY DEF WindowsInv
  <2>1. CASE k \in DOMAIN values
    <3>0. values[k] \in Int
      BY <2>1 DEF AreNat
    <3>1. windows'[k] = Saved(windows[k], values[k], now) /\ saves'[k] = Added(saves[k], values[k], now)
      BY <1>1, <2>1
    <3>2. WindowOK(Saved(windows[k], values[k], now), Added(saves[k], values[k], now))
      BY <2>0, <3>0, SaveKeepsWindow
    <3>3. \A s \in Added(saves[k], values[k], now) : s.timestamp <= now
      BY <2>0 DEF Added, Entry
    <3>4. QED
      BY <3>1, <3>2, <3>3 DEF WindowOK, EmptyWindow
  <2>2. CASE k \notin DOMAIN values
    BY <1>1, <2>0, <2>2 DEF WindowOK, EmptyWindow
  <2>3. QED
    BY <2>1, <2>2
<1>3. QED
  BY <1>1, <1>2 DEF WindowsInv

\* A step saves numbers, or leaves the windows alone.
LEMMA StepSaves ==
  ASSUME AdmissionTypes, AdmissionNext
  PROVE  \/ UNCHANGED serverVars /\ now' \in {now, now + 1}
         \/ now' = now /\ \E values : Savable(values) /\ SaveAll(values)
<1>1. CASE Tick \/ NodeChanges \/ AskPrice \/ AskEstimate \/ Send
  BY <1>1 DEF Tick, NodeChanges, AskPrice, AskEstimate, Send, Ask, serverVars
<1>2. ASSUME NEW t \in Tasks, StartRefresh(t) \/ StartOther(t)
      PROVE  UNCHANGED serverVars /\ now' = now
  BY <1>2 DEF StartRefresh, StartOther, serverVars
<1>3. ASSUME NEW t \in Tasks, BaseFeeArrives(t) \/ PriceArrives(t) \/ OtherArrives(t)
      PROVE  now' = now /\ \E values : Savable(values) /\ SaveAll(values)
  <2>1. task[t].got \in config.readings
    BY <1>3 DEF AdmissionTypes, BaseFeeArrives, PriceArrives, OtherArrives
  <2>2. CASE BaseFeeArrives(t)
    BY <2>1, <2>2, ValuesAreSavable DEF BaseFeeArrives
  <2>3. CASE PriceArrives(t)
    BY <2>1, <2>3, ValuesAreSavable DEF PriceArrives
  <2>4. CASE OtherArrives(t)
    <3>1. Savable(Merged(Merged(OracleValues(config, task[t].got, userOp), FetchedPrice(task[t].got)),
                        FetchedBaseFee(task[t].got)))
      BY <2>1, ValuesAreSavable, MergedSavable, MergedUnpriced
    <3>2. QED
      BY <2>4, <3>1 DEF OtherArrives
  <2>5. QED
    BY <1>3, <2>2, <2>3, <2>4
<1>4. CASE Quoted
  <2>1. Savable(FetchedPrice(client.got))
    BY <1>4, ValuesAreSavable DEF AdmissionTypes, Quoted
  <2>2. QED
    BY <1>4, <2>1 DEF Quoted
<1>5. ASSUME NEW need \in config.needs, NEW perCall \in config.perCall, Estimated(need, perCall)
      PROVE  now' = now /\ \E values : Savable(values) /\ SaveAll(values)
  <2>1. client.got \in config.readings
    BY <1>5 DEF AdmissionTypes, Estimated
  <2>2. Savable(Merged(Merged(OracleValues(config, client.got, userOp), FetchedPrice(client.got)),
                      FetchedBaseFee(client.got)))
    BY <2>1, ValuesAreSavable, MergedSavable, MergedUnpriced
  <2>3. QED
    BY <1>5, <2>2 DEF Estimated
<1>6. ASSUME NEW trace, Answered(trace)
      PROVE  now' = now /\ \E values : Savable(values) /\ SaveAll(values)
  <2> DEFINE oracle == IF config.chainType = "arbitrum"
                       THEN OracleValues(config, client.got, userOp) ELSE Nothing
             price == IF NeedsLive THEN FetchedPrice(client.got) ELSE Nothing
             baseFee == IF config.chainType = "abstract" THEN FetchedBaseFee(client.got) ELSE Nothing
             values == IF SkipsPricing THEN Nothing ELSE Merged(oracle, Merged(price, baseFee))
  <2>1. client.got \in config.readings
    BY <1>6 DEF AdmissionTypes, Answered
  <2>2. Savable(oracle) /\ Savable(price) /\ Savable(baseFee) /\ Savable(Nothing)
        /\ Unpriced(oracle) /\ Unpriced(baseFee)
    BY <2>1, ValuesAreSavable
  <2>3. SaveAll(values) /\ now' = now
    BY <1>6 DEF Answered
  <2> HIDE DEF oracle, price, baseFee
  <2>4. Savable(values)
    BY <2>2, MergedSavable, MergedUnpriced
  <2>5. QED
    BY <2>3, <2>4
<1>7. QED
  BY <1>1, <1>2, <1>3, <1>4, <1>5, <1>6 DEF AdmissionNext

\* The types hold at first, and each step keeps them.
LEMMA AdmissionTypesInit == AdmissionInit => AdmissionTypes
<1> SUFFICES ASSUME AdmissionInit PROVE AdmissionTypes
  OBVIOUS
<1>1. DOMAIN client = ClientFields /\ client.doing = "idle"
  BY DEF AdmissionInit, NewClient, ClientFields
<1>2. DOMAIN task = Tasks /\ \A t \in Tasks : task[t].doing = "idle"
  BY DEF AdmissionInit, NoTask
<1>3. QED
  BY <1>1, <1>2 DEF AdmissionInit, AdmissionTypes

\* Each step of admission keeps the types.
LEMMA AdmissionTypesNext ==
  ASSUME AdmissionTypes, AdmissionNext PROVE AdmissionTypes'
<1>0. PICK s \in Scenarios : /\ config = s.config /\ userOp.txBytes = s.userOp.txBytes
                             /\ DOMAIN userOp = DOMAIN s.userOp
  BY DEF AdmissionTypes
<1>1. "txBytes" \in DOMAIN userOp
  BY <1>0, ReadingsAssumption
<1>2. config' = config
  BY DEF AdmissionNext, Tick, NodeChanges, StartRefresh, BaseFeeArrives, PriceArrives, StartOther,
         OtherArrives, AskPrice, Ask, Quoted, AskEstimate, Estimated, Send, Answered
<1>3. userOp'.txBytes = userOp.txBytes /\ DOMAIN userOp' = DOMAIN userOp
  <2>1. CASE UNCHANGED userOp
    BY <2>1
  <2>2. CASE Quoted
    BY <1>1, <2>2 DEF Quoted
  <2>3. ASSUME NEW need, NEW perCall, Estimated(need, perCall)
        PROVE  userOp'.txBytes = userOp.txBytes /\ DOMAIN userOp' = DOMAIN userOp
    <3>1. \/ UNCHANGED userOp
          \/ \E final, pvg : userOp' = [WithLimits(userOp, final) EXCEPT !.preVerificationGas = pvg]
      BY <2>3 DEF Estimated
    <3>2. ASSUME NEW final
          PROVE  WithLimits(userOp, final).txBytes = userOp.txBytes
                 /\ DOMAIN WithLimits(userOp, final) = DOMAIN userOp
      BY <1>1 DEF WithLimits
    <3>3. QED
      BY <1>1, <3>1, <3>2
  <2>4. QED
    BY <2>1, <2>2, <2>3 DEF AdmissionNext, Tick, NodeChanges, StartRefresh, BaseFeeArrives,
       PriceArrives, StartOther, OtherArrives, AskPrice, Ask, AskEstimate, Send, Answered
<1>4. now' \in Nat
  <2>1. now' \in {now, now + 1}
    BY StepSaves
  <2>2. QED
    BY <2>1 DEF AdmissionTypes
<1>5. reading' \in config.readings
  BY DEF AdmissionTypes, AdmissionNext, Tick, NodeChanges, StartRefresh, BaseFeeArrives,
         PriceArrives, StartOther, OtherArrives, AskPrice, Ask, Quoted, AskEstimate, Estimated,
         Send, Answered
<1>6. DOMAIN task' = Tasks /\ \A t \in Tasks : task'[t].doing # "idle" => task'[t].got \in config.readings
  <2>1. CASE UNCHANGED task
    BY <2>1 DEF AdmissionTypes
  <2>2. ASSUME NEW t \in Tasks, NEW new, task' = [task EXCEPT ![t] = new],
               new.doing # "idle" => new.got \in config.readings
        PROVE  DOMAIN task' = Tasks
               /\ \A u \in Tasks : task'[u].doing # "idle" => task'[u].got \in config.readings
    BY <2>2 DEF AdmissionTypes
  <2>3. NoTask.doing = "idle"
    BY DEF NoTask
  <2>4. reading \in config.readings
    BY DEF AdmissionTypes
  <2>5. ASSUME NEW t \in Tasks, StartRefresh(t) \/ StartOther(t)
        PROVE  DOMAIN task' = Tasks
               /\ \A u \in Tasks : task'[u].doing # "idle" => task'[u].got \in config.readings
    <3>1. PICK d : task' = [task EXCEPT ![t] = [doing |-> d, got |-> reading]]
      BY <2>5 DEF StartRefresh, StartOther
    <3>2. QED
      BY <2>2, <2>4, <3>1
  <2>6. ASSUME NEW t \in Tasks, BaseFeeArrives(t) \/ PriceArrives(t) \/ OtherArrives(t)
        PROVE  DOMAIN task' = Tasks
               /\ \A u \in Tasks : task'[u].doing # "idle" => task'[u].got \in config.readings
    <3>1. \/ task' = [task EXCEPT ![t] = NoTask]
          \/ task' = [task EXCEPT ![t] = [doing |-> "price", got |-> reading]]
      BY <2>6 DEF BaseFeeArrives, PriceArrives, OtherArrives
    <3>2. QED
      BY <2>2, <2>3, <2>4, <3>1
  <2>7. QED
    BY <2>1, <2>5, <2>6 DEF AdmissionNext, Tick, NodeChanges, AskPrice, Ask, Quoted, AskEstimate,
       Estimated, Send, Answered
<1>7. DOMAIN client' = ClientFields /\ (client'.doing # "idle" => client'.got \in config.readings)
  <2>0. DOMAIN client = ClientFields /\ reading \in config.readings
        /\ {"doing", "got"} \subseteq ClientFields
    BY DEF AdmissionTypes, ClientFields
  <2>1. CASE UNCHANGED client
    BY <2>1 DEF AdmissionTypes
  <2>2. ASSUME NEW call, Ask(call)
        PROVE  DOMAIN client' = ClientFields /\ (client'.doing # "idle" => client'.got \in config.readings)
    BY <2>0, <2>2 DEF Ask
  <2>3. CASE Quoted
    BY <2>0, <2>3 DEF Quoted, Fails
  <2>4. ASSUME NEW need, NEW perCall, Estimated(need, perCall)
        PROVE  DOMAIN client' = ClientFields /\ (client'.doing # "idle" => client'.got \in config.readings)
    <3>1. \/ Fails
          \/ \E p : client' = [client EXCEPT !.doing = "idle", !.got = Null, !.need = need, !.pricedAt = p]
      BY <2>4 DEF Estimated
    <3>2. QED
      BY <2>0, <3>1 DEF Fails
  <2>5. ASSUME NEW trace, Answered(trace)
        PROVE  DOMAIN client' = ClientFields /\ (client'.doing # "idle" => client'.got \in config.readings)
    BY <2>0, <2>5 DEF Answered
  <2>6. QED
    BY <2>1, <2>2, <2>3, <2>4, <2>5 DEF AdmissionNext, Tick, NodeChanges, StartRefresh,
       BaseFeeArrives, PriceArrives, StartOther, OtherArrives, AskPrice, AskEstimate, Send
<1>8. QED
  BY <1>0, <1>2, <1>3, <1>4, <1>5, <1>6, <1>7 DEF AdmissionTypes

\* A window that has been saved in answers what its recent values are.
LEMMA ExactWhenRight == WindowsInv => WindowsAreExact
<1> SUFFICES ASSUME WindowsInv, NEW k \in Windows, saves[k] # {}
             PROVE  LET last == CHOOSE s \in saves[k] : \A r \in saves[k] : r.timestamp <= s.timestamp
                    IN  ExactFrom(windows[k], saves[k], last.timestamp - GasPriceExpiry)
  BY DEF WindowsAreExact, ExactFrom
<1> DEFINE last == CHOOSE s \in saves[k] : \A r \in saves[k] : r.timestamp <= s.timestamp
<1>1. WindowOK(windows[k], saves[k])
  BY DEF WindowsInv
<1>2. \E l : LastOf(saves[k], l)
  BY <1>1 DEF WindowOK
<1>3. LastOf(saves[k], last)
  BY <1>2 DEF LastOf
<1>4. QED
  BY <1>1, <1>3, WindowIsExact

-----------------------------------------------------------------------------
(* What an admitted op was traced to do.                                   *)

\* What an entity without stake uses outside of the accounts and the EntryPoint
\* is associated with the sender.
LEMMA UnstakedIsAssociated ==
  ASSUME NEW t, TraceAllowed(t), NEW title \in Titles, t.levels[title] # NoEntity,
         ~IsStaked(t.infos[title]),
         NEW addr \in DOMAIN t.levels[title].access, addr \notin {t.sender, EntryPoint},
         NEW slot \in t.levels[title].access[addr].reads \cup t.levels[title].access[addr].writes
  PROVE  AssociatedWith(t, slot, t.sender)
<1>1. EntityAllowed(t, title)
  BY DEF TraceAllowed
<1>2. StorageAllowed(t, title)
  BY <1>1 DEF EntityAllowed
<1>3. SlotAllowed(t, title, addr, slot)
  BY <1>2 DEF StorageAllowed
<1>4. QED
  BY <1>3 DEF SlotAllowed

\* No slot is associated with two senders.
LEMMA AssociatedWithOne ==
  ASSUME NEW s \in Scenarios, s.config.safeMode,
         NEW t \in s.config.traces, NEW u \in s.config.traces, t.sender # u.sender,
         NEW slot \in Nat, AssociatedWith(t, slot, t.sender), AssociatedWith(u, slot, u.sender)
  PROVE  FALSE
<1>0. StructSlots \in Nat \ {0}
  BY TracerRulesAssumption
<1>1. ASSUME NEW a \in s.config.traces, NEW b \in s.config.traces, a.sender # b.sender
      PROVE  /\ a.sender \in Nat
             /\ \A h \in EntitySlots(a, a.sender) :
                  /\ h \in Nat
                  /\ b.sender \notin h .. h + StructSlots - 1
                  /\ \A k \in EntitySlots(b, b.sender) : h + StructSlots <= k \/ k + StructSlots <= h
  <2>1. /\ a.sender \in Nat /\ \A h \in a.keccak : h.hash \in Nat
        /\ \A h \in a.keccak : h.prefix = a.sender =>
             /\ b.sender \notin h.hash .. h.hash + StructSlots - 1
             /\ \A k \in b.keccak : k.prefix = b.sender =>
                  h.hash + StructSlots <= k.hash \/ k.hash + StructSlots <= h.hash
    BY <1>1, TracesAssumption
  <2>2. QED
    BY <2>1 DEF EntitySlots
<1>2. ASSUME NEW a \in s.config.traces, NEW b \in s.config.traces, a.sender # b.sender,
             AssociatedWith(a, slot, a.sender), AssociatedWith(b, slot, b.sender),
             NEW h \in EntitySlots(a, a.sender), slot >= h /\ slot < h + StructSlots
      PROVE  FALSE
  <2>1. /\ h \in Nat /\ b.sender \in Nat /\ b.sender \notin h .. h + StructSlots - 1
        /\ \A k \in EntitySlots(b, b.sender) :
             k \in Nat /\ (h + StructSlots <= k \/ k + StructSlots <= h)
    BY <1>1, <1>2
  <2>2. slot # b.sender
    BY <1>0, <1>2, <2>1
  <2>3. PICK k \in EntitySlots(b, b.sender) : slot >= k /\ slot < k + StructSlots
    BY <1>2, <2>2 DEF AssociatedWith
  <2>4. QED
    BY <1>0, <1>2, <2>1, <2>3
<1>3. \/ slot = t.sender
      \/ \E h \in EntitySlots(t, t.sender) : slot >= h /\ slot < h + StructSlots
  BY DEF AssociatedWith
<1>4. \/ slot = u.sender
      \/ \E h \in EntitySlots(u, u.sender) : slot >= h /\ slot < h + StructSlots
  BY DEF AssociatedWith
<1>5. QED
  BY <1>2, <1>3, <1>4

Slots(a, T) == {a} \X T

\* A slot of an address.
LEMMA InSlots == ASSUME NEW a, NEW T, NEW x \in Slots(a, T) PROVE \E b \in T : x = <<a, b>>
<1>1. x[2] \in T /\ x[1] = a /\ x = <<x[1], x[2]>>
  BY DEF Slots
<1>2. QED
  BY <1>1

\* Two allowed traces of different senders share no such slot.
LEMMA AllowedAreApart ==
  ASSUME NEW s \in Scenarios, s.config.safeMode,
         NEW t \in s.config.traces, NEW u \in s.config.traces, t.sender # u.sender,
         TraceAllowed(t), TraceAllowed(u)
  PROVE  LET accounts == {t.sender, u.sender}
             written(a) == a.writes
             used(a) == a.reads \cup a.writes
         IN  /\ UnstakedSlots(t, accounts, used) \cap UnstakedSlots(u, accounts, written) = {}
             /\ UnstakedSlots(t, accounts, written) \cap UnstakedSlots(u, accounts, used) = {}
<1> DEFINE accounts == {t.sender, u.sender}
           written(a) == a.writes
           used(a) == a.reads \cup a.writes
<1>1. ASSUME NEW a \in s.config.traces, TraceAllowed(a), a.sender \in accounts,
             NEW x, x \in UnstakedSlots(a, accounts, used)
      PROVE  \E addr, slot : x = <<addr, slot>> /\ slot \in Nat /\ AssociatedWith(a, slot, a.sender)
  <2>1. PICK title \in Titles :
          /\ a.levels[title] # NoEntity /\ ~IsStaked(a.infos[title])
          /\ \E addr \in DOMAIN a.levels[title].access \ (accounts \cup {EntryPoint}) :
               x \in {addr} \X used(a.levels[title].access[addr])
    BY <1>1 DEF UnstakedSlots
  <2>2. PICK addr \in DOMAIN a.levels[title].access \ (accounts \cup {EntryPoint}) :
          x \in {addr} \X used(a.levels[title].access[addr])
    BY <2>1
  <2>3. PICK slot \in used(a.levels[title].access[addr]) : x = <<addr, slot>>
    BY ONLY <2>2, InSlots DEF Slots
  <2>4. slot \in Nat
    BY <1>1, <2>1, <2>2, <2>3, TracesAssumption
  <2>5. AssociatedWith(a, slot, a.sender)
    BY <1>1, <2>1, <2>2, <2>3, UnstakedIsAssociated
  <2>6. QED
    BY <2>3, <2>4, <2>5
<1>2. UnstakedSlots(t, accounts, written) \subseteq UnstakedSlots(t, accounts, used)
  BY DEF UnstakedSlots
<1>3. UnstakedSlots(u, accounts, written) \subseteq UnstakedSlots(u, accounts, used)
  BY DEF UnstakedSlots
<1>4. UnstakedSlots(t, accounts, used) \cap UnstakedSlots(u, accounts, used) = {}
  <2> SUFFICES ASSUME NEW x, x \in UnstakedSlots(t, accounts, used),
                      x \in UnstakedSlots(u, accounts, used)
               PROVE  FALSE
    OBVIOUS
  <2>1. PICK addr, slot : x = <<addr, slot>> /\ slot \in Nat /\ AssociatedWith(t, slot, t.sender)
    BY <1>1
  <2>2. PICK addr2, slot2 : x = <<addr2, slot2>> /\ slot2 \in Nat /\ AssociatedWith(u, slot2, u.sender)
    BY <1>1
  <2>3. slot2 = slot
    <3>1. <<addr, slot>> = <<addr2, slot2>>
      BY <2>1, <2>2, Zenon
    <3>2. QED
      BY ONLY <3>1
  <2>4. QED
    BY <2>1, <2>2, <2>3, AssociatedWithOne
<1>5. QED
  BY <1>2, <1>3, <1>4

\* An op is only admitted in safe mode with a trace that the rules allow.
TracedInv ==
  (client.outcome = "accepted" /\ config.safeMode) =>
    client.trace \in config.traces /\ TraceAllowed(client.trace)

\* An op whose trace is not allowed is not admitted.
LEMMA BadTraceIsRefused ==
  ASSUME NEW trace, config.safeMode, ~TraceAllowed(trace)
  PROVE  Refusal(trace) # "accepted"
<1> DEFINE overCap == config.provenGasCap # Null
                      /\ ScaleByPercent(GasFloor + (IF userOp.eip7702Auth = Null THEN 0 ELSE 40000), 105)
                           > config.provenGasCap
<1>1. CASE overCap
  BY <1>1 DEF Refusal
<1>2. CASE ~overCap /\ ~Timely
  BY <1>2, SMTT(60) DEF Refusal
<1>3. CASE ~overCap /\ Timely
  <2>1. Refusal(trace) = "opcode"
    BY <1>3 DEF Refusal
  <2>2. QED
    BY <2>1
<1>4. QED
  BY <1>1, <1>2, <1>3

\* The configuration stays as it is.
LEMMA ConfigIsFixed == AdmissionNext => config' = config
BY DEF AdmissionNext, Tick, NodeChanges, StartRefresh, BaseFeeArrives, PriceArrives, StartOther,
       OtherArrives, AskPrice, Ask, Quoted, AskEstimate, Estimated, Send, Answered

\* Only the answer to the submission is an outcome.
LEMMA OnlyAnswered ==
  ASSUME AdmissionTypes, AdmissionNext
  PROVE  \/ client'.outcome = "none"
         \/ \E trace \in config.traces :
              /\ Answered(trace) /\ client'.outcome = Refusal(trace) /\ client'.trace = trace
              /\ client'.at = now /\ client'.quote = client.quote /\ client'.quotedAt = client.quotedAt
<1>0. /\ DOMAIN client = ClientFields /\ client.outcome = "none"
      /\ {"trace", "outcome", "at", "quote", "quotedAt"} \subseteq ClientFields
  BY DEF AdmissionTypes, AdmissionNext, ClientFields
<1>2. CASE client'.outcome # "none"
  <2>1. \A call : ~Ask(call)
    BY <1>0, <1>2 DEF Ask
  <2>2. ~Quoted
    BY <1>0, <1>2 DEF Quoted, Fails
  <2>3. \A need, perCall : ~Estimated(need, perCall)
    <3>1. ASSUME NEW need, NEW perCall, Estimated(need, perCall) PROVE FALSE
      <4>1. \/ Fails
            \/ \E p : client' = [client EXCEPT !.doing = "idle", !.got = Null, !.need = need, !.pricedAt = p]
        BY <3>1 DEF Estimated
      <4>2. QED
        BY <1>0, <1>2, <4>1 DEF Fails
    <3>2. QED
      BY <3>1
  <2>4. client' # client
    BY <1>0, <1>2
  <2>5. PICK trace \in config.traces : Answered(trace)
    BY <2>1, <2>2, <2>3, <2>4 DEF AdmissionNext, Tick, NodeChanges, StartRefresh, BaseFeeArrives,
       PriceArrives, StartOther, OtherArrives, AskPrice, AskEstimate, Send
  <2>6. client' = [client EXCEPT !.doing = "idle", !.got = Null, !.trace = trace,
                                 !.outcome = Refusal(trace), !.at = now]
    BY <2>5 DEF Answered
  <2>7. /\ client'.outcome = Refusal(trace) /\ client'.trace = trace /\ client'.at = now
        /\ client'.quote = client.quote /\ client'.quotedAt = client.quotedAt
    BY <1>0, <2>6 DEF ClientFields
  <2>8. QED
    BY <2>5, <2>7
<1>3. QED
  BY <1>2

\* Each answer keeps that.
LEMMA TracedNext ==
  ASSUME AdmissionTypes, TracedInv, AdmissionNext PROVE TracedInv'
<1>1. CASE client'.outcome = "none"
  BY <1>1 DEF TracedInv
<1>2. ASSUME NEW trace \in config.traces, client'.outcome = Refusal(trace), client'.trace = trace
      PROVE  TracedInv'
  <2>1. config' = config
    BY ConfigIsFixed
  <2>2. Refusal(trace) = "accepted" /\ config.safeMode => TraceAllowed(trace)
    BY BadTraceIsRefused
  <2>3. QED
    BY <1>2, <2>1, <2>2 DEF TracedInv
<1>3. QED
  BY <1>1, <1>2, OnlyAnswered

\* In safe mode no validation of another sender's op can undo the validation of
\* an admitted one.
THEOREM AdmittedStayIndependent == AdmissionSpec => []AdmittedAreIndependent
<1> DEFINE Inv == AdmissionTypes /\ TracedInv
<1>1. AdmissionInit => Inv
  BY AdmissionTypesInit DEF AdmissionInit, TracedInv, NewClient
<1>2. Inv /\ [AdmissionNext]_admissionVars => Inv'
  <2>1. Inv /\ AdmissionNext => Inv'
    BY AdmissionTypesNext, TracedNext
  <2>2. Inv /\ UNCHANGED admissionVars => Inv'
    BY DEF admissionVars, AdmissionTypes, TracedInv
  <2>3. QED
    BY <2>1, <2>2
<1>3. Inv => AdmittedAreIndependent
  <2> SUFFICES ASSUME Inv, client.outcome = "accepted", config.safeMode,
                      NEW other \in config.traces, other.sender # client.trace.sender,
                      TraceAllowed(other)
               PROVE  LET accounts == {client.trace.sender, other.sender}
                          written(a) == a.writes
                          used(a) == a.reads \cup a.writes
                      IN  /\ UnstakedSlots(client.trace, accounts, used)
                                \cap UnstakedSlots(other, accounts, written) = {}
                          /\ UnstakedSlots(client.trace, accounts, written)
                                \cap UnstakedSlots(other, accounts, used) = {}
    BY DEF AdmittedAreIndependent
  <2>1. PICK s \in Scenarios : config = s.config
    BY DEF AdmissionTypes
  <2>2. client.trace \in config.traces /\ TraceAllowed(client.trace)
    BY DEF TracedInv
  <2>3. QED
    BY <2>1, <2>2, AllowedAreApart
<1>4. QED
  BY <1>1, <1>2, <1>3, PTL DEF AdmissionSpec

-----------------------------------------------------------------------------
(* A quote, and the saves it was taken from.                               *)

\* A price that can be quoted.
Quotable(p) ==
  /\ p \in Prices /\ p.maxFeePerGas >= p.maxPriorityFeePerGas
  /\ config.legacyTransactions => p.maxFeePerGas = p.maxPriorityFeePerGas

\* The latest values are those of one price, and a chain without fees saves none.
PriceWindows ==
  /\ (windows["maxFee"].latestValue # Null /\ windows["priority"].latestValue # Null) =>
       Quotable(Price(windows["maxFee"].latestValue, windows["priority"].latestValue))
  /\ config.isGasFreeChain => saves["maxFee"] = {} /\ saves["priority"] = {}

\* A fetched price.
LEMMA FetchedIsQuotable ==
  ASSUME AdmissionTypes, NEW n \in config.readings, InnerGetGasPrice(config, n) # Null
  PROVE  LET p == InnerGetGasPrice(config, n)
         IN  /\ Quotable(p) /\ p = Price(p.maxFeePerGas, p.maxPriorityFeePerGas)
             /\ config.isGasFreeChain => p = Price(0, 0)
             /\ ~config.isGasFreeChain => p.maxFeePerGas > 0 /\ p.maxPriorityFeePerGas > 0
<1> DEFINE p == InnerGetGasPrice(config, n)
<1>1. PICK s \in Scenarios : config = s.config
  BY DEF AdmissionTypes
<1>2. p \in Prices /\ p.maxFeePerGas >= p.maxPriorityFeePerGas
  BY <1>1, FetchedIs
<1>3. /\ IF config.isGasFreeChain THEN p = Price(0, 0)
         ELSE p.maxFeePerGas > 0 /\ p.maxPriorityFeePerGas > 0
      /\ config.legacyTransactions => p.maxFeePerGas = p.maxPriorityFeePerGas
  BY <1>1, PricesAssumption
<1> HIDE DEF p
<1>4. p = Price(p.maxFeePerGas, p.maxPriorityFeePerGas)
  BY <1>2 DEF Prices, Price
<1>5. Quotable(p)
  BY <1>2, <1>3 DEF Quotable
<1>6. QED
  BY <1>3, <1>4, <1>5 DEF p

\* Saves keep that.
LEMMA SavesKeepPriceWindows ==
  ASSUME AdmissionTypes, PriceWindows, NEW values, Savable(values), SaveAll(values), config' = config
  PROVE  PriceWindows'
<1>1. /\ windows' = [k \in Windows |->
           IF k \in DOMAIN values THEN Saved(windows[k], values[k], now) ELSE windows[k]]
      /\ saves' = [k \in Windows |->
           IF k \in DOMAIN values THEN Added(saves[k], values[k], now) ELSE saves[k]]
  BY DEF SaveAll, Added, Entry
<1>2. CASE Unpriced(values)
  <2>1. /\ windows'["maxFee"] = windows["maxFee"] /\ windows'["priority"] = windows["priority"]
        /\ saves'["maxFee"] = saves["maxFee"] /\ saves'["priority"] = saves["priority"]
    BY <1>1, <1>2 DEF Unpriced, PriceNames, Windows
  <2>2. QED
    BY <2>1 DEF PriceWindows, Quotable
<1>3. ASSUME NEW n \in config.readings, NEW p, p = InnerGetGasPrice(config, n), p # Null,
             PriceNames \subseteq DOMAIN values,
             values["maxFee"] = p.maxFeePerGas, values["priority"] = p.maxPriorityFeePerGas
      PROVE  PriceWindows'
  <2>1. /\ windows'["maxFee"] = Saved(windows["maxFee"], p.maxFeePerGas, now)
        /\ windows'["priority"] = Saved(windows["priority"], p.maxPriorityFeePerGas, now)
        /\ saves'["maxFee"] = Added(saves["maxFee"], p.maxFeePerGas, now)
        /\ saves'["priority"] = Added(saves["priority"], p.maxPriorityFeePerGas, now)
    BY <1>1, <1>3 DEF PriceNames, Windows
  <2>2. /\ Quotable(p) /\ p = Price(p.maxFeePerGas, p.maxPriorityFeePerGas)
        /\ config.isGasFreeChain => p = Price(0, 0)
        /\ ~config.isGasFreeChain => p.maxFeePerGas > 0 /\ p.maxPriorityFeePerGas > 0
    BY <1>3, FetchedIsQuotable
  <2>3. CASE config.isGasFreeChain
    <3>1. p.maxFeePerGas = 0 /\ p.maxPriorityFeePerGas = 0
      BY <2>2, <2>3 DEF Price
    <3>2. /\ windows'["maxFee"] = windows["maxFee"] /\ windows'["priority"] = windows["priority"]
          /\ saves'["maxFee"] = saves["maxFee"] /\ saves'["priority"] = saves["priority"]
      BY <2>1, <3>1 DEF Saved, Added
    <3>3. QED
      BY <3>2 DEF PriceWindows, Quotable
  <2>4. CASE ~config.isGasFreeChain
    <3>1. p.maxFeePerGas # 0 /\ p.maxPriorityFeePerGas # 0
      BY <2>2, <2>4 DEF Quotable, Prices
    <3>2. /\ windows'["maxFee"].latestValue = p.maxFeePerGas
          /\ windows'["priority"].latestValue = p.maxPriorityFeePerGas
      BY <2>1, <3>1 DEF Saved
    <3>3. QED
      BY <2>2, <2>4, <3>2 DEF PriceWindows, Quotable
  <2>5. QED
    BY <2>3, <2>4
<1>4. QED
  BY <1>2, <1>3 DEF Savable, Priced

\* Nothing that was saved is lost.
LEMMA SavesGrow ==
  ASSUME WindowsInv, NEW values, SaveAll(values), NEW k \in Windows
  PROVE  saves[k] \subseteq saves'[k]
BY DEF SaveAll, WindowsInv

\* The order of a price survives the unit of Hedera.
LEMMA DivisionKeepsOrder ==
  ASSUME NEW a \in Int, NEW b \in Int, a <= b, NEW u \in Nat \ {0} PROVE a \div u <= b \div u
<1> DEFINE q == a \div u
           r == b \div u
<1>1. q \in Int /\ r \in Int
  OBVIOUS
<1>2. u * q <= a /\ b < u * (r + 1)
  OBVIOUS
<1> HIDE DEF q, r
<1>3. SUFFICES ASSUME r + 1 <= q PROVE FALSE
  BY <1>1 DEF q, r
<1>4. u * (r + 1) <= u * q
  BY <1>1, <1>3
<1>5. QED
  BY <1>1, <1>2, <1>4

\* A quoted value, which was saved when the quote says or later.
SavedSince(S, v, t) == \E s \in S : s.value = v /\ s.timestamp >= t

QuotedAs(p) ==
  /\ Quotable(p)
  /\ client.quote = HederaPrice(config, p)
  /\ userOp.maxFeePerGas = client.quote.maxFeePerGas
  /\ userOp.maxPriorityFeePerGas = client.quote.maxPriorityFeePerGas
  /\ client.quotedAt \in Int
  /\ config.isGasFreeChain => p = Price(0, 0)
  /\ ~config.isGasFreeChain =>
       /\ SavedSince(saves["maxFee"], p.maxFeePerGas, client.quotedAt)
       /\ SavedSince(saves["priority"], p.maxPriorityFeePerGas, client.quotedAt)

QuoteInv == client.quote # Null => \E p : QuotedAs(p)

\* What is quoted stays quoted, as long as the op keeps the fees.
LEMMA QuoteKept ==
  ASSUME AdmissionTypes, WindowsInv, QuoteInv,
         client'.quote = client.quote, client'.quotedAt = client.quotedAt, config' = config,
         userOp'.maxFeePerGas = userOp.maxFeePerGas,
         userOp'.maxPriorityFeePerGas = userOp.maxPriorityFeePerGas,
         saves["maxFee"] \subseteq saves'["maxFee"], saves["priority"] \subseteq saves'["priority"]
  PROVE  QuoteInv'
<1> SUFFICES ASSUME NEW p, QuotedAs(p) PROVE QuotedAs(p)'
  BY DEF QuoteInv
<1>1. ~config.isGasFreeChain =>
        /\ SavedSince(saves'["maxFee"], p.maxFeePerGas, client.quotedAt)
        /\ SavedSince(saves'["priority"], p.maxPriorityFeePerGas, client.quotedAt)
  BY DEF QuotedAs, SavedSince
<1>2. Quotable(p)' /\ client'.quote = HederaPrice(config', p)
  BY DEF QuotedAs, Quotable
<1>3. QED
  BY <1>1, <1>2 DEF QuotedAs, SavedSince

\* The latest value of a window that has one, and its save.
LEMMA LatestWasSaved ==
  ASSUME NEW w, NEW S, WindowOK(w, S), w.latestValue # Null
  PROVE  \E l : LastOf(S, l) /\ l.value = w.latestValue
<1>1. S # {}
  BY DEF WindowOK, EmptyWindow
<1>2. QED
  BY <1>1 DEF WindowOK

\* When a window was last saved in.
LEMMA LastSaveIs ==
  ASSUME NEW k, NEW l, LastOf(saves'[k], l), \A s \in saves'[k] : s.timestamp \in Int
  PROVE  LastSave(k) = l.timestamp
<1>1. PICK H : H = saves'[k]
  OBVIOUS
<1>2. LastSave(k) = CHOOSE t \in { s.timestamp : s \in H } : \A s \in H : s.timestamp <= t
  BY <1>1 DEF LastSave
<1>3. l \in H /\ (\A s \in H : s.timestamp <= l.timestamp) /\ \A s \in H : s.timestamp \in Int
  BY <1>1 DEF LastOf
<1>4. \A t \in { s.timestamp : s \in H } : (\A s \in H : s.timestamp <= t) <=> t = l.timestamp
  BY <1>3
<1>5. l.timestamp \in { s.timestamp : s \in H }
  BY <1>3
<1>6. QED
  BY <1>2, <1>4, <1>5

\* When a quote says that its values were saved.
LEMMA OldestSaveIs ==
  ASSUME NEW a, NEW b, LastOf(saves'["maxFee"], a), LastOf(saves'["priority"], b),
         a.timestamp \in Int, b.timestamp \in Int,
         \A s \in saves'["maxFee"] \cup saves'["priority"] : s.timestamp \in Int
  PROVE  /\ OldestSave({"maxFee", "priority"}) \in Int
         /\ OldestSave({"maxFee", "priority"}) <= a.timestamp
         /\ OldestSave({"maxFee", "priority"}) <= b.timestamp
<1>1. LastSave("maxFee") = a.timestamp /\ LastSave("priority") = b.timestamp
  BY LastSaveIs
<1>2. saves'["maxFee"] # {} /\ saves'["priority"] # {}
  BY DEF LastOf
<1> DEFINE times == { LastSave(k) : k \in { j \in {"maxFee", "priority"} : saves'[j] # {} } }
<1>3. OldestSave({"maxFee", "priority"}) =
        IF times = {} THEN now ELSE CHOOSE t \in times : \A u \in times : t <= u
  BY DEF OldestSave
<1>4. times = {a.timestamp, b.timestamp}
  BY <1>1, <1>2
<1> HIDE DEF times
<1>5. \E t \in {a.timestamp, b.timestamp} : \A u \in {a.timestamp, b.timestamp} : t <= u
  BY a.timestamp <= b.timestamp \/ b.timestamp <= a.timestamp
<1>6. QED
  BY <1>3, <1>4, <1>5

\* Without saves it says now.
LEMMA OldestSaveIsNow ==
  ASSUME saves'["maxFee"] = {}, saves'["priority"] = {}
  PROVE  OldestSave({"maxFee", "priority"}) = now
BY DEF OldestSave

\* A quote is taken from the windows as they are when it is given.
LEMMA QuoteTaken ==
  ASSUME AdmissionTypes, PriceWindows, Quoted, WindowsInv', PriceWindows',
         NEW p, p = GasPrice(client.got), p # Null,
         NEW at, at = OldestSave({"maxFee", "priority"})
  PROVE  QuoteInv'
<1>0. /\ DOMAIN client = ClientFields /\ {"quote", "quotedAt"} \subseteq ClientFields
      /\ {"maxFeePerGas", "maxPriorityFeePerGas"} \subseteq DOMAIN userOp
      /\ client.got \in config.readings /\ now \in Nat
  BY ReadingsAssumption DEF AdmissionTypes, ClientFields, Quoted
<1>1. /\ client' = [client EXCEPT !.doing = "idle", !.got = Null,
                       !.quote = HederaPrice(config, p), !.quotedAt = at]
      /\ userOp' = [userOp EXCEPT
            !.maxFeePerGas = HederaPrice(config, p).maxFeePerGas,
            !.maxPriorityFeePerGas = HederaPrice(config, p).maxPriorityFeePerGas]
      /\ config' = config /\ SaveAll(FetchedPrice(client.got))
  BY DEF Quoted
<1>2. /\ client'.quote = HederaPrice(config, p) /\ client'.quotedAt = at
      /\ userOp'.maxFeePerGas = HederaPrice(config, p).maxFeePerGas
      /\ userOp'.maxPriorityFeePerGas = HederaPrice(config, p).maxPriorityFeePerGas
  BY <1>0, <1>1 DEF ClientFields
<1>3. CASE config.isGasFreeChain
  <2>1. p = Price(0, 0)
    BY <1>3 DEF GasPrice
  <2>2. Quotable(p)
    BY <2>1 DEF Quotable, Price, Prices
  <2>3. at = now
    BY <1>1, <1>3, OldestSaveIsNow DEF PriceWindows
  <2>4. QuotedAs(p)'
    BY <1>0, <1>1, <1>2, <1>3, <2>1, <2>2, <2>3 DEF QuotedAs, Quotable
  <2>5. QED
    BY <2>4 DEF QuoteInv
<1>4. CASE ~config.isGasFreeChain
  <2>1. /\ Quotable(p) /\ windows'["maxFee"].latestValue = p.maxFeePerGas
        /\ windows'["priority"].latestValue = p.maxPriorityFeePerGas
    <3>1. CASE Refreshes
      <4>1. p = LatestGasPrice(windows)
        BY <1>4, <3>1 DEF GasPrice
      <4>2. /\ windows["maxFee"].latestValue # Null /\ windows["priority"].latestValue # Null
            /\ p = Price(windows["maxFee"].latestValue, windows["priority"].latestValue)
        BY <4>1 DEF LatestGasPrice
      <4>3. FetchedPrice(client.got) = Nothing
        BY <3>1 DEF FetchedPrice
      <4>4. windows'["maxFee"] = windows["maxFee"] /\ windows'["priority"] = windows["priority"]
        BY <1>1, <4>3 DEF SaveAll, Nothing, Windows
      <4>5. QED
        BY <4>2, <4>4 DEF PriceWindows, Price
    <3>2. CASE ~Refreshes
      <4>1. p = InnerGetGasPrice(config, client.got)
        BY <1>4, <3>2 DEF GasPrice
      <4>2. FetchedPrice(client.got) = [maxFee |-> p.maxFeePerGas, priority |-> p.maxPriorityFeePerGas]
        BY <1>4, <3>2, <4>1 DEF FetchedPrice, PriceValues
      <4>3. Quotable(p) /\ p.maxFeePerGas > 0 /\ p.maxPriorityFeePerGas > 0
        BY <1>0, <1>4, <4>1, FetchedIsQuotable
      <4>4. p.maxFeePerGas # 0 /\ p.maxPriorityFeePerGas # 0
        BY <4>3 DEF Quotable, Prices
      <4>5. /\ windows'["maxFee"] = Saved(windows["maxFee"], p.maxFeePerGas, now)
            /\ windows'["priority"] = Saved(windows["priority"], p.maxPriorityFeePerGas, now)
        BY <1>1, <4>2 DEF SaveAll, Windows
      <4>6. QED
        BY <4>3, <4>4, <4>5 DEF Saved
    <3>3. QED
      BY <3>1, <3>2
  <2>2. /\ WindowOK(windows'["maxFee"], saves'["maxFee"])
        /\ WindowOK(windows'["priority"], saves'["priority"])
    BY DEF WindowsInv, Windows, WindowOK, EmptyWindow
  <2>3. p.maxFeePerGas # Null /\ p.maxPriorityFeePerGas # Null
    BY <2>1, MinMaxQueueAssumption DEF Quotable, Prices
  <2>4. PICK a : LastOf(saves'["maxFee"], a) /\ a.value = p.maxFeePerGas
    BY <2>1, <2>2, <2>3, LatestWasSaved
  <2>5. PICK b : LastOf(saves'["priority"], b) /\ b.value = p.maxPriorityFeePerGas
    BY <2>1, <2>2, <2>3, LatestWasSaved
  <2>6. \A s \in saves'["maxFee"] \cup saves'["priority"] : s.timestamp \in Int
    BY <2>2 DEF WindowOK, Entries
  <2>7. at \in Int /\ at <= a.timestamp /\ at <= b.timestamp
    <3>1. a.timestamp \in Int /\ b.timestamp \in Int
      BY <2>4, <2>5, <2>6 DEF LastOf
    <3>2. QED
      BY <2>4, <2>5, <2>6, <3>1, OldestSaveIs
  <2>8. /\ SavedSince(saves'["maxFee"], p.maxFeePerGas, at)
        /\ SavedSince(saves'["priority"], p.maxPriorityFeePerGas, at)
    BY <2>4, <2>5, <2>6, <2>7 DEF SavedSince, LastOf
  <2>9. QuotedAs(p)'
    BY <1>1, <1>2, <1>4, <2>1, <2>7, <2>8 DEF QuotedAs, Quotable, SavedSince
  <2>10. QED
    BY <2>9 DEF QuoteInv
<1>5. QED
  BY <1>3, <1>4

\* A step keeps the quote within its window, or takes a new one from it.
LEMMA QuoteNext ==
  ASSUME AdmissionTypes, WindowsInv, PriceWindows, QuoteInv, AdmissionNext, WindowsInv', PriceWindows'
  PROVE  QuoteInv'
<1>0. /\ DOMAIN client = ClientFields /\ {"quote", "quotedAt"} \subseteq ClientFields
      /\ {"maxFeePerGas", "maxPriorityFeePerGas"} \subseteq DOMAIN userOp
      /\ config' = config
  BY ReadingsAssumption, ConfigIsFixed DEF AdmissionTypes, ClientFields
<1>1. CASE Quoted /\ GasPrice(client.got) # Null
  BY <1>1, QuoteTaken
<1>2. CASE ~(Quoted /\ GasPrice(client.got) # Null)
  <2>1. client'.quote = client.quote /\ client'.quotedAt = client.quotedAt
    <3>1. CASE UNCHANGED client
      BY <3>1
    <3>2. ASSUME NEW call, Ask(call)
          PROVE  client'.quote = client.quote /\ client'.quotedAt = client.quotedAt
      BY <1>0, <3>2 DEF Ask
    <3>3. CASE Fails
      BY <1>0, <3>3 DEF Fails
    <3>4. CASE Quoted
      BY <1>2, <3>3, <3>4 DEF Quoted
    <3>5. ASSUME NEW need, NEW perCall, Estimated(need, perCall)
          PROVE  client'.quote = client.quote /\ client'.quotedAt = client.quotedAt
      <4>1. \/ Fails
            \/ \E p : client' = [client EXCEPT !.doing = "idle", !.got = Null, !.need = need, !.pricedAt = p]
        BY <3>5 DEF Estimated
      <4>2. QED
        BY <1>0, <3>3, <4>1
    <3>6. ASSUME NEW trace, Answered(trace)
          PROVE  client'.quote = client.quote /\ client'.quotedAt = client.quotedAt
      BY <1>0, <3>6 DEF Answered
    <3>7. QED
      BY <3>1, <3>2, <3>4, <3>5, <3>6 DEF AdmissionNext, Tick, NodeChanges, StartRefresh,
         BaseFeeArrives, PriceArrives, StartOther, OtherArrives, AskPrice, AskEstimate, Send
  <2>2. /\ userOp'.maxFeePerGas = userOp.maxFeePerGas
        /\ userOp'.maxPriorityFeePerGas = userOp.maxPriorityFeePerGas
    <3>1. CASE UNCHANGED userOp
      BY <3>1
    <3>2. CASE Quoted
      BY <1>2, <3>1, <3>2 DEF Quoted
    <3>3. ASSUME NEW need, NEW perCall, Estimated(need, perCall)
          PROVE  /\ userOp'.maxFeePerGas = userOp.maxFeePerGas
                 /\ userOp'.maxPriorityFeePerGas = userOp.maxPriorityFeePerGas
      <4>1. \/ UNCHANGED userOp
            \/ \E final, pvg : userOp' = [WithLimits(userOp, final) EXCEPT !.preVerificationGas = pvg]
        BY <3>3 DEF Estimated
      <4>2. ASSUME NEW final
            PROVE  /\ WithLimits(userOp, final).maxFeePerGas = userOp.maxFeePerGas
                   /\ WithLimits(userOp, final).maxPriorityFeePerGas = userOp.maxPriorityFeePerGas
                   /\ DOMAIN WithLimits(userOp, final) = DOMAIN userOp
        BY <1>0 DEF WithLimits
      <4>3. QED
        BY <1>0, <3>1, <4>1, <4>2
    <3>4. QED
      BY <3>1, <3>2, <3>3 DEF AdmissionNext, Tick, NodeChanges, StartRefresh, BaseFeeArrives,
         PriceArrives, StartOther, OtherArrives, AskPrice, Ask, AskEstimate, Send, Answered
  <2>3. saves["maxFee"] \subseteq saves'["maxFee"] /\ saves["priority"] \subseteq saves'["priority"]
    BY StepSaves, SavesGrow DEF serverVars, Windows
  <2>4. QED
    BY <1>0, <2>1, <2>2, <2>3, QuoteKept
<1>3. QED
  BY <1>1, <1>2

\* The unit of Hedera keeps what parts of a price are at least.
LEMMA HederaKeepsOrder ==
  ASSUME NEW a \in Int, NEW b \in Int, NEW p \in Prices, a <= p.maxFeePerGas, b <= p.maxPriorityFeePerGas
  PROVE  /\ HederaPrice(config, Price(a, b)).maxFeePerGas <= HederaPrice(config, p).maxFeePerGas
         /\ HederaPrice(config, Price(a, b)).maxPriorityFeePerGas
              <= HederaPrice(config, p).maxPriorityFeePerGas
<1>1. p.maxFeePerGas \in Int /\ p.maxPriorityFeePerGas \in Int
  BY DEF Prices
<1>2. HederaUnit \in Nat \ {0}
  BY GasPricesAssumption
<1>3. /\ a \div HederaUnit <= p.maxFeePerGas \div HederaUnit
      /\ b \div HederaUnit <= p.maxPriorityFeePerGas \div HederaUnit
  BY <1>1, <1>2, DivisionKeepsOrder
<1>4. QED
  BY <1>1, <1>3 DEF HederaPrice, Price

\* A recent save is within what its window answers.
LEMMA RecentIsWithin ==
  ASSUME NEW w, NEW S, WindowOK(w, S), NEW v \in Int, NEW t \in Int, SavedSince(S, v, t),
         NEW u \in Int, \A s \in S : s.timestamp <= u, u - t <= GasPriceExpiry
  PROVE  /\ MinValue(w) \in Int /\ MinValue(w) <= v
         /\ MaxValue(w) \in Int /\ v <= MaxValue(w)
<1>1. PICK s \in S : s.value = v /\ s.timestamp >= t
  BY DEF SavedSince
<1>2. PICK l : LastOf(S, l)
  BY <1>1 DEF WindowOK
<1>3. ExactFrom(w, S, l.timestamp - GasPriceExpiry)
  BY <1>2, WindowIsExact
<1>4. S \in SUBSET Entries /\ GasPriceExpiry \in Nat
  BY MinMaxQueueAssumption DEF WindowOK
<1>5. s.timestamp \in Int /\ l.timestamp \in Int /\ l.timestamp <= u
  BY <1>1, <1>2, <1>4 DEF LastOf, Entries
<1>6. s.timestamp >= l.timestamp - GasPriceExpiry
  BY <1>1, <1>4, <1>5
<1> DEFINE recent == { r.value : r \in { q \in S : q.timestamp >= l.timestamp - GasPriceExpiry } }
<1>7. /\ MinValue(w) \in recent /\ \A x \in recent : MinValue(w) <= x
      /\ MaxValue(w) \in recent /\ \A x \in recent : MaxValue(w) >= x
  BY <1>3 DEF ExactFrom
<1>8. v \in recent /\ recent \subseteq Int
  BY <1>1, <1>4, <1>6 DEF Entries
<1> HIDE DEF recent
<1>9. QED
  BY <1>7, <1>8

\* A quoted price is enough while its values are recent.
LEMMA QuoteIsEnough ==
  ASSUME AdmissionTypes, QuoteInv, NEW p, QuotedAs(p), WindowsInv', PriceWindows',
         saves["maxFee"] \subseteq saves'["maxFee"], saves["priority"] \subseteq saves'["priority"],
         now' = now, config' = config, now - client.quotedAt <= GasPriceExpiry
  PROVE  PriceEnough
<1> DEFINE live == OrElse(GasPrice(client.got), Price(0, 0))
           a == IF MinValue(windows'["maxFee"]) = Null THEN live.maxFeePerGas
                ELSE MinValue(windows'["maxFee"])
           b == IF MinValue(windows'["priority"]) = Null THEN live.maxPriorityFeePerGas
                ELSE MinValue(windows'["priority"])
<1>0. /\ p \in Prices /\ p.maxFeePerGas \in Nat /\ p.maxPriorityFeePerGas \in Nat
      /\ now \in Nat /\ client.quotedAt \in Int
  BY DEF QuotedAs, Quotable, Prices, AdmissionTypes
<1>1. /\ WindowOK(windows'["maxFee"], saves'["maxFee"])
      /\ WindowOK(windows'["priority"], saves'["priority"])
      /\ \A s \in saves'["maxFee"] \cup saves'["priority"] : s.timestamp <= now
  BY DEF WindowsInv, Windows, WindowOK, EmptyWindow
<1>2. a \in Int /\ b \in Int /\ a <= p.maxFeePerGas /\ b <= p.maxPriorityFeePerGas
  <2>1. CASE config.isGasFreeChain
    <3>1. live = Price(0, 0)
      BY <2>1 DEF GasPrice, OrElse
    <3>2. windows'["maxFee"] = EmptyWindow /\ windows'["priority"] = EmptyWindow
      BY <1>1, <2>1 DEF PriceWindows, WindowOK
    <3>3. a = 0 /\ b = 0
      BY <3>1, <3>2 DEF EmptyWindow, MinValue, Price
    <3>4. QED
      BY <1>0, <3>3
  <2>2. CASE ~config.isGasFreeChain
    <3>1. /\ SavedSince(saves'["maxFee"], p.maxFeePerGas, client.quotedAt)
          /\ SavedSince(saves'["priority"], p.maxPriorityFeePerGas, client.quotedAt)
      BY <2>2 DEF QuotedAs, SavedSince
    <3>2. MinValue(windows'["maxFee"]) \in Int /\ MinValue(windows'["maxFee"]) <= p.maxFeePerGas
      BY <1>0, <1>1, <3>1, RecentIsWithin
    <3>3. /\ MinValue(windows'["priority"]) \in Int
          /\ MinValue(windows'["priority"]) <= p.maxPriorityFeePerGas
      BY <1>0, <1>1, <3>1, RecentIsWithin
    <3>4. a = MinValue(windows'["maxFee"]) /\ b = MinValue(windows'["priority"])
      BY <3>2, <3>3, MinMaxQueueAssumption
    <3>5. QED
      BY <3>2, <3>3, <3>4
  <2>3. QED
    BY <2>1, <2>2
<1>3. LowestValidGasPrices(config, windows', live) = HederaPrice(config, Price(a, b))
  BY DEF LowestValidGasPrices
<1> HIDE DEF a, b, live
<1>4. /\ HederaPrice(config, Price(a, b)).maxFeePerGas <= HederaPrice(config, p).maxFeePerGas
      /\ HederaPrice(config, Price(a, b)).maxPriorityFeePerGas
           <= HederaPrice(config, p).maxPriorityFeePerGas
  BY <1>0, <1>2, HederaKeepsOrder
<1>5. /\ HederaPrice(config, Price(a, b)).maxFeePerGas \in Int
      /\ HederaPrice(config, Price(a, b)).maxPriorityFeePerGas \in Int
      /\ HederaPrice(config, p).maxFeePerGas \in Int
      /\ HederaPrice(config, p).maxPriorityFeePerGas \in Int
  BY <1>0, <1>2, GasPricesAssumption DEF HederaPrice, Price
<1>6. /\ userOp.maxFeePerGas = HederaPrice(config, p).maxFeePerGas
      /\ userOp.maxPriorityFeePerGas = HederaPrice(config, p).maxPriorityFeePerGas
  BY DEF QuotedAs
<1>7. QED
  BY <1>3, <1>4, <1>5, <1>6 DEF PriceEnough, live

\* Why an op is refused for its fees.
LEMMA FeesRefused ==
  ASSUME NEW trace, Refusal(trace) \in {"fees", "legacyFees"}
  PROVE  \/ ~PriceEnough
         \/ config.legacyTransactions /\ userOp.maxFeePerGas # userOp.maxPriorityFeePerGas
<1> DEFINE overCap == config.provenGasCap # Null
                      /\ ScaleByPercent(GasFloor + (IF userOp.eip7702Auth = Null THEN 0 ELSE 40000), 105)
                           > config.provenGasCap
           badTrace == config.safeMode /\ ~TraceAllowed(trace)
           noPrice == ~SkipsPricing /\ NeedsLive /\ GasPrice(client.got) = Null
           twoFees == config.legacyTransactions /\ userOp.maxFeePerGas # userOp.maxPriorityFeePerGas
           tooLow == ~SkipsPricing /\ ~config.safeMode /\ ~PriceEnough
           refusal(rest) == IF overCap THEN "gasCap" ELSE IF ~Timely THEN "validity"
                            ELSE IF badTrace THEN "opcode" ELSE IF noPrice THEN "error"
                            ELSE IF ~AuthValid(TRUE) THEN "auth" ELSE IF twoFees THEN "legacyFees"
                            ELSE IF tooLow THEN "fees" ELSE rest
           rest == IF \/ userOp.verificationGasLimit < 10000
                      \/ ~userOp.boost /\ userOp.preVerificationGas = 0
                      \/ GasFloor > MaxGasPerBundle THEN "limits"
                   ELSE IF ~SkipsPricing /\ RequiredPvg = Null THEN "error"
                   ELSE IF ~SkipsPricing /\ RequiredPvg > userOp.preVerificationGas THEN "pvg"
                   ELSE "accepted"
<1>1. Refusal(trace) = refusal(rest)
  BY DEF Refusal
<1>2. rest \in {"limits", "error", "pvg", "accepted"}
  OBVIOUS
<1> HIDE DEF rest, overCap, badTrace, noPrice
<1>3. twoFees \/ tooLow
  BY <1>1, <1>2
<1>4. QED
  BY <1>3

\* The answer to a submission keeps QuoteStaysValid.
LEMMA ValidNext ==
  ASSUME AdmissionTypes, WindowsInv, PriceWindows, QuoteInv, AdmissionNext, WindowsInv', PriceWindows'
  PROVE  QuoteStaysValid'
<1>1. CASE client'.outcome = "none"
  BY <1>1 DEF QuoteStaysValid
<1>2. ASSUME NEW trace \in config.traces, Answered(trace), client'.outcome = Refusal(trace),
             client'.at = now, client'.quote = client.quote, client'.quotedAt = client.quotedAt
      PROVE  QuoteStaysValid'
  <2> SUFFICES ASSUME client.quote # Null, Refusal(trace) \in {"fees", "legacyFees"},
                      ~(now - client.quotedAt > GasPriceExpiry)
               PROVE  FALSE
    BY <1>2 DEF QuoteStaysValid
  <2>1. PICK p : QuotedAs(p)
    BY DEF QuoteInv
  <2>2. now \in Int /\ client.quotedAt \in Int /\ GasPriceExpiry \in Int
    BY <2>1, MinMaxQueueAssumption DEF QuotedAs, AdmissionTypes
  <2>3. now - client.quotedAt <= GasPriceExpiry
    BY <2>2
  <2>4. PriceEnough
    <3>1. saves["maxFee"] \subseteq saves'["maxFee"] /\ saves["priority"] \subseteq saves'["priority"]
      BY StepSaves, SavesGrow DEF serverVars, Windows
    <3>2. now' = now /\ config' = config
      BY <1>2 DEF Answered
    <3>3. QED
      BY <2>1, <2>3, <3>1, <3>2, QuoteIsEnough
  <2>5. config.legacyTransactions => userOp.maxFeePerGas = userOp.maxPriorityFeePerGas
    BY <2>1 DEF QuotedAs, Quotable, HederaPrice, Price
  <2>6. QED
    BY <2>4, <2>5, FeesRefused
<1>3. QED
  BY <1>1, <1>2, OnlyAnswered

AdmissionInv == AdmissionTypes /\ WindowsInv /\ PriceWindows /\ QuoteInv /\ QuoteStaysValid

\* The invariant holds before the first price is read.
LEMMA AdmissionInvInit == AdmissionInit => AdmissionInv
<1> SUFFICES ASSUME AdmissionInit PROVE AdmissionInv
  OBVIOUS
<1>1. \A k \in Windows : windows[k] = EmptyWindow /\ saves[k] = {}
  BY DEF AdmissionInit
<1>2. WindowsInv
  BY <1>1 DEF AdmissionInit, WindowsInv, WindowOK
<1>3. PriceWindows
  BY <1>1 DEF PriceWindows, Windows, EmptyWindow
<1>4. client.quote = Null
  BY DEF AdmissionInit, NewClient
<1>5. QED
  BY <1>2, <1>3, <1>4, AdmissionTypesInit DEF AdmissionInv, QuoteInv, QuoteStaysValid

\* Each step keeps the invariant: it saves one value, takes one quote or does neither.
LEMMA AdmissionInvNext == AdmissionInv /\ [AdmissionNext]_admissionVars => AdmissionInv'
<1> SUFFICES ASSUME AdmissionInv, [AdmissionNext]_admissionVars PROVE AdmissionInv'
  OBVIOUS
<1>0. AdmissionTypes /\ WindowsInv /\ PriceWindows /\ QuoteInv /\ QuoteStaysValid
  BY DEF AdmissionInv
<1>1. CASE AdmissionNext
  <2>1. AdmissionTypes'
    BY <1>0, <1>1, AdmissionTypesNext
  <2>2. config' = config
    BY <1>1, ConfigIsFixed
  <2>3. WindowsInv' /\ PriceWindows'
    <3>1. CASE UNCHANGED serverVars /\ now' \in {now, now + 1}
      <4>1. \A k \in Windows : \A s \in saves[k] : s.timestamp \in Int
        BY <1>0 DEF WindowsInv, WindowOK, Entries
      <4>2. \A k \in Windows : \A s \in saves[k] : s.timestamp <= now'
        BY <1>0, <3>1, <4>1 DEF WindowsInv, AdmissionTypes
      <4>3. windows' = windows /\ saves' = saves
        BY <3>1 DEF serverVars
      <4>4. \A k \in Windows : WindowOK(windows[k], saves[k])
        BY <1>0 DEF WindowsInv
      <4>5. WindowsInv'
        BY <1>0, <4>2, <4>3, <4>4 DEF WindowsInv, WindowOK, EmptyWindow
      <4>6. PriceWindows'
        BY <1>0, <2>2, <4>3 DEF PriceWindows, Quotable
      <4>7. QED
        BY <4>5, <4>6
    <3>2. ASSUME now' = now, NEW values, Savable(values), SaveAll(values)
          PROVE  WindowsInv' /\ PriceWindows'
      <4>1. WindowsInv'
        BY <1>0, <3>2, SavesKeepWindows DEF AdmissionTypes, Savable
      <4>2. PriceWindows'
        BY <1>0, <2>2, <3>2, SavesKeepPriceWindows
      <4>3. QED
        BY <4>1, <4>2
    <3>3. QED
      BY <1>0, <1>1, <3>1, <3>2, StepSaves
  <2>4. QuoteInv'
    BY <1>0, <1>1, <2>3, QuoteNext
  <2>5. QuoteStaysValid'
    BY <1>0, <1>1, <2>3, ValidNext
  <2>6. QED
    BY <2>1, <2>3, <2>4, <2>5 DEF AdmissionInv
<1>2. CASE UNCHANGED admissionVars
  <2>1. /\ config' = config /\ userOp' = userOp /\ now' = now /\ reading' = reading
        /\ task' = task /\ client' = client /\ windows' = windows /\ saves' = saves
    BY <1>2 DEF admissionVars
  <2>2. AdmissionTypes'
    BY <1>0, <2>1 DEF AdmissionTypes
  <2>3. \A k \in Windows : WindowOK(windows[k], saves[k]) /\ \A s \in saves[k] : s.timestamp <= now
    BY <1>0 DEF WindowsInv
  <2>4. WindowsInv'
    BY <1>0, <2>1, <2>3 DEF WindowsInv, WindowOK, EmptyWindow
  <2>5. PriceWindows' /\ QuoteStaysValid'
    BY <1>0, <2>1 DEF PriceWindows, Quotable, QuoteStaysValid
  <2>6. QuoteInv'
    BY <1>0, <2>1, QuoteKept
  <2>7. QED
    BY <2>2, <2>4, <2>5, <2>6 DEF AdmissionInv
<1>3. QED
  BY <1>1, <1>2

\* So it always holds.
LEMMA AdmissionInvHolds == AdmissionSpec => []AdmissionInv
BY AdmissionInvInit, AdmissionInvNext, PTL DEF AdmissionSpec

\* However refreshes, slow answers and clients interleave, a window answers the
\* smallest and the largest recent value.
THEOREM WindowsAlwaysExact == AdmissionSpec => []WindowsAreExact
<1>1. AdmissionInv => WindowsAreExact
  BY ExactWhenRight DEF AdmissionInv
<1>2. QED
  BY <1>1, AdmissionInvHolds, PTL

\* A quoted price is not refused while the values it was taken from are recent.
THEOREM QuoteAlwaysStaysValid == AdmissionSpec => []QuoteStaysValid
<1>1. AdmissionInv => QuoteStaysValid
  BY DEF AdmissionInv
<1>2. QED
  BY <1>1, AdmissionInvHolds, PTL

\* A quote pays at least its priority fee.
THEOREM QuoteIsAlwaysOrdered == AdmissionSpec => []QuoteIsOrdered
<1>1. AdmissionInv => QuoteIsOrdered
  <2> SUFFICES ASSUME AdmissionInv, client.quote # Null
               PROVE  client.quote.maxFeePerGas >= client.quote.maxPriorityFeePerGas
    BY DEF QuoteIsOrdered
  <2>1. PICK p : QuotedAs(p)
    BY DEF AdmissionInv, QuoteInv
  <2>2. /\ p \in Prices /\ p.maxFeePerGas \in Int /\ p.maxPriorityFeePerGas \in Int
        /\ p.maxPriorityFeePerGas <= p.maxFeePerGas
        /\ client.quote = HederaPrice(config, p) /\ HederaUnit \in Nat \ {0}
    BY <2>1, GasPricesAssumption DEF QuotedAs, Quotable, Prices
  <2>3. p.maxPriorityFeePerGas \div HederaUnit <= p.maxFeePerGas \div HederaUnit
    BY <2>2, DivisionKeepsOrder
  <2>4. p.maxPriorityFeePerGas \div HederaUnit \in Int /\ p.maxFeePerGas \div HederaUnit \in Int
    BY <2>2
  <2>5. QED
    BY <2>2, <2>3, <2>4 DEF HederaPrice, Price
<1>2. QED
  BY <1>1, AdmissionInvHolds, PTL

-----------------------------------------------------------------------------
(* The search of a gas limit.  Each iteration, and each restart, comes     *)
(* closer to its end, so there is a function that the recursion defines.   *)

SearchEnds(s) == \/ s.retryCount > BinarySearchMaxRetries
                 \/ s.maxGas - s.minGas < BinarySearchToleranceDelta

SearchAnswer(s) == IF s.retryCount > BinarySearchMaxRetries THEN Null ELSE s.optimalGas

SearchStep(s, need, perCall) == IF s.left = 0 THEN Restarted(s, perCall) ELSE Halved(s, need)

SearchRank(s, perCall) ==
  IF s.retryCount > BinarySearchMaxRetries THEN 0
  ELSE (BinarySearchMaxRetries + 1 - s.retryCount) * (perCall + 1) + s.left

\* A step stays within the states of the search, and comes closer to its end.
LEMMA SearchStepIs ==
  ASSUME NEW s \in SearchStates, ~SearchEnds(s), NEW need \in Nat, NEW perCall \in Nat
  PROVE  /\ SearchStep(s, need, perCall) \in SearchStates
         /\ SearchRank(SearchStep(s, need, perCall), perCall) < SearchRank(s, perCall)
<1> DEFINE M == BinarySearchMaxRetries
           P == perCall + 1
           r == s.retryCount
           k == M + 1 - r
<1>0. /\ s.minGas \in Nat /\ s.maxGas \in Nat /\ s.optimalGas \in Nat /\ s.left \in Nat
      /\ s.retryCount \in Nat /\ s.retryCount <= M /\ M \in Nat /\ P \in Nat /\ k \in Nat \ {0}
      /\ s.maxGas - s.minGas >= 2
  BY GasEstimationAssumption DEF SearchStates, SearchEnds
<1>1. SearchRank(s, perCall) = k * P + s.left /\ k * P \in Nat
  BY <1>0 DEF SearchRank
<1>2. CASE s.left = 0
  <2> DEFINE t == [s EXCEPT !.maxGas = s.optimalGas, !.left = perCall, !.retryCount = r + 1]
  <2>1. SearchStep(s, need, perCall) = t
    BY <1>2 DEF SearchStep, Restarted
  <2>2. /\ t \in SearchStates /\ t.retryCount = r + 1 /\ t.left = perCall
    <3>1. r + 1 \in Nat /\ s \in [minGas : Nat, maxGas : Nat, optimalGas : Nat, left : Nat, retryCount : Nat]
      BY <1>0 DEF SearchStates
    <3>2. QED
      BY ONLY <1>0, <3>1, perCall \in Nat DEF SearchStates
  <2> HIDE DEF t
  <2>3. CASE r + 1 > M
    <3>1. SearchRank(t, perCall) = 0
      BY <2>2, <2>3 DEF SearchRank
    <3>2. k * P > 0
      BY <1>0
    <3>3. QED
      BY <1>0, <1>1, <1>2, <2>1, <2>2, <3>1, <3>2
  <2>4. CASE ~(r + 1 > M)
    <3>1. SearchRank(t, perCall) = (M + 1 - (r + 1)) * P + perCall
      BY <2>2, <2>4 DEF SearchRank
    <3>2. M + 1 - (r + 1) = k - 1
      BY <1>0
    <3>3. (k - 1) * P = k * P - P
      BY <1>0
    <3>4. SearchRank(t, perCall) = k * P - 1
      BY <1>0, <1>1, <3>1, <3>2, <3>3
    <3>5. QED
      BY <1>1, <1>2, <2>1, <2>2, <3>4
  <2>5. QED
    BY <2>3, <2>4
<1>3. CASE s.left # 0
  <2> DEFINE midGas == (s.minGas + s.maxGas) \div 2
  <2>1. midGas \in Nat /\ midGas - 1 \in Nat /\ midGas + 1 \in Nat /\ s.left - 1 \in Nat
    BY <1>0, <1>3
  <2> HIDE DEF midGas
  <2>2. \/ SearchStep(s, need, perCall) =
             [s EXCEPT !.left = s.left - 1, !.optimalGas = midGas, !.maxGas = midGas - 1]
        \/ SearchStep(s, need, perCall) = [s EXCEPT !.left = s.left - 1, !.minGas = midGas + 1]
    <3>1. SearchStep(s, need, perCall) =
            IF midGas >= need
            THEN [[s EXCEPT !.left = s.left - 1] EXCEPT !.optimalGas = midGas, !.maxGas = midGas - 1]
            ELSE [[s EXCEPT !.left = s.left - 1] EXCEPT !.minGas = midGas + 1]
      BY <1>3 DEF SearchStep, Halved, midGas
    <3>2. QED
      BY <3>1
  <2>3. /\ SearchStep(s, need, perCall) \in SearchStates
        /\ SearchStep(s, need, perCall).retryCount = r
        /\ SearchStep(s, need, perCall).left = s.left - 1
    BY <1>0, <2>1, <2>2 DEF SearchStates
  <2>4. SearchRank(SearchStep(s, need, perCall), perCall) = k * P + (s.left - 1)
    BY <1>0, <2>3 DEF SearchRank
  <2>5. QED
    BY <1>0, <1>1, <2>3, <2>4
<1>4. QED
  BY <1>2, <1>3

\* A rank is a number.
LEMMA RankIsNat ==
  ASSUME NEW s \in SearchStates, NEW perCall \in Nat PROVE SearchRank(s, perCall) \in Nat
<1>1. s.retryCount \in Nat /\ s.left \in Nat /\ BinarySearchMaxRetries \in Nat
  BY GasEstimationAssumption DEF SearchStates
<1>2. CASE s.retryCount > BinarySearchMaxRetries
  BY <1>2 DEF SearchRank
<1>3. CASE ~(s.retryCount > BinarySearchMaxRetries)
  <2>1. BinarySearchMaxRetries + 1 - s.retryCount \in Nat /\ perCall + 1 \in Nat
    BY <1>1, <1>3
  <2>2. (BinarySearchMaxRetries + 1 - s.retryCount) * (perCall + 1) \in Nat
    BY <2>1
  <2>3. QED
    BY <1>1, <1>3, <2>2 DEF SearchRank
<1>4. QED
  BY <1>2, <1>3

IsSearch(f, need, perCall) ==
  f = [s \in SearchStates |->
        IF SearchEnds(s) THEN SearchAnswer(s) ELSE f[SearchStep(s, need, perCall)]]

\* The recursion of the search has a solution, since its range or its calls shrink.
LEMMA SearchExists ==
  ASSUME NEW need \in Nat, NEW perCall \in Nat PROVE \E f : IsSearch(f, need, perCall)
<1> DEFINE rank == [s \in SearchStates |-> SearchRank(s, perCall)]
           goes == { s \in SearchStates : ~SearchEnds(s) }
           then == [s \in SearchStates |-> IF s \in goes THEN SearchStep(s, need, perCall) ELSE s]
           ends == [s \in SearchStates |-> SearchAnswer(s)]
<1>1. rank \in [SearchStates -> Nat]
  BY RankIsNat
<1>2. then \in [SearchStates -> SearchStates]
  BY SearchStepIs
<1>3. \A s \in SearchStates : s \in goes => rank[then[s]] < rank[s]
  <2> SUFFICES ASSUME NEW s \in SearchStates, ~SearchEnds(s) PROVE rank[then[s]] < rank[s]
    OBVIOUS
  <2>1. then[s] = SearchStep(s, need, perCall) /\ then[s] \in SearchStates
    BY SearchStepIs
  <2>2. rank[then[s]] = SearchRank(SearchStep(s, need, perCall), perCall)
    BY <2>1
  <2>3. QED
    BY <2>2, SearchStepIs
<1> HIDE DEF rank
<1>4. PICK f : Recursion(f, SearchStates, goes, then, ends)
  <2> HIDE DEF goes, then, ends
  <2>1. QED
    BY ONLY <1>1, <1>2, <1>3, RecursionExists
<1>5. ASSUME NEW s \in SearchStates
      PROVE  Follow(f, s, goes, then, ends)
               = IF SearchEnds(s) THEN SearchAnswer(s) ELSE f[SearchStep(s, need, perCall)]
  BY DEF Follow
<1> HIDE DEF goes, then, ends
<1>6. f = [s \in SearchStates |->
            IF SearchEnds(s) THEN SearchAnswer(s) ELSE f[SearchStep(s, need, perCall)]]
  BY <1>4, <1>5, Zenon DEF Recursion
<1>7. QED
  BY <1>6 DEF IsSearch

SearchStart(perCall) ==
  [minGas |-> InitialMinGas, maxGas |-> InitialMinGas + BinarySearchGasAllowance,
   optimalGas |-> InitialMinGas + BinarySearchGasAllowance, left |-> perCall, retryCount |-> 0]

\* What the search answers is what a solution says of where it starts.
LEMMA SearchedIs ==
  ASSUME NEW need \in Nat, NEW perCall \in Nat
  PROVE  \E f : IsSearch(f, need, perCall) /\ Searched(need, perCall) = f[SearchStart(perCall)]
<1> DEFINE Body(f, s) ==
             IF s.retryCount > BinarySearchMaxRetries THEN Null
             ELSE IF s.maxGas - s.minGas < BinarySearchToleranceDelta THEN s.optimalGas
             ELSE IF s.left = 0 THEN f[Restarted(s, perCall)] ELSE f[Halved(s, need)]
           search == CHOOSE f : f = [s \in SearchStates |-> Body(f, s)]
<1>1. Searched(need, perCall) = search[SearchStart(perCall)]
  BY DEF Searched, SearchStart
<1>2. ASSUME NEW f, NEW s
      PROVE  Body(f, s) = IF SearchEnds(s) THEN SearchAnswer(s) ELSE f[SearchStep(s, need, perCall)]
  BY DEF SearchEnds, SearchAnswer, SearchStep
<1> HIDE DEF Body
<1>3. \A f : f = [s \in SearchStates |-> Body(f, s)] <=> IsSearch(f, need, perCall)
  BY <1>2, Zenon DEF IsSearch
<1>4. IsSearch(search, need, perCall)
  BY <1>3, SearchExists
<1> HIDE DEF search
<1>5. QED
  BY <1>1, <1>4

NeedFrom(a) == MaxOf(a, InitialMinGas)

\* What a search finds misses the need by its tolerance at most.
SearchOK(s, need) == s.minGas <= NeedFrom(need) /\ s.optimalGas <= s.maxGas + 1

\* It exceeds what was needed by its tolerance at most, however often it restarts.
LEMMA SearchedIsClose ==
  ASSUME NEW need \in Nat, NEW perCall \in Nat, Searched(need, perCall) # Null
  PROVE  /\ Searched(need, perCall) \in Nat
         /\ Searched(need, perCall) <= NeedFrom(need) + BinarySearchToleranceDelta
<1> DEFINE start == SearchStart(perCall)
           good(x) == x = Null \/ (x \in Nat /\ x <= NeedFrom(need) + BinarySearchToleranceDelta)
<1>1. PICK f : IsSearch(f, need, perCall) /\ Searched(need, perCall) = f[start]
  BY SearchedIs
<1>0. NeedFrom(need) \in Nat /\ NeedFrom(need) >= need /\ NeedFrom(need) >= InitialMinGas
      /\ BinarySearchToleranceDelta \in Nat
  BY GasEstimationAssumption DEF NeedFrom, MaxOf, InitialMinGas
<1>2. start \in SearchStates /\ SearchOK(start, need)
  BY <1>0, GasEstimationAssumption DEF SearchStart, SearchStates, SearchOK, InitialMinGas
<1>3. ASSUME NEW s \in SearchStates, SearchOK(s, need), SearchEnds(s) PROVE good(f[s])
  <2>1. f[s] = SearchAnswer(s)
    BY <1>1, <1>3 DEF IsSearch
  <2>2. /\ s.minGas \in Nat /\ s.maxGas \in Nat /\ s.optimalGas \in Nat
    BY DEF SearchStates
  <2>3. CASE s.retryCount > BinarySearchMaxRetries
    <3>1. f[s] = Null
      BY <2>1, <2>3 DEF SearchAnswer
    <3>2. QED
      BY <3>1
  <2>4. CASE ~(s.retryCount > BinarySearchMaxRetries)
    <3>1. f[s] = s.optimalGas
      BY <2>1, <2>4 DEF SearchAnswer
    <3>2. s.maxGas - s.minGas < BinarySearchToleranceDelta
      BY <1>3, <2>4 DEF SearchEnds
    <3>3. s.minGas <= NeedFrom(need) /\ s.optimalGas <= s.maxGas + 1
      BY <1>3 DEF SearchOK
    <3>4. QED
      BY <1>0, <2>2, <3>1, <3>2, <3>3
  <2>5. QED
    BY <2>3, <2>4
<1>4. ASSUME NEW s \in SearchStates, SearchOK(s, need), ~SearchEnds(s)
      PROVE  SearchOK(SearchStep(s, need, perCall), need)
  <2>0. /\ s.minGas \in Nat /\ s.maxGas \in Nat /\ s.optimalGas \in Nat /\ s.left \in Nat
        /\ s.maxGas - s.minGas >= 2
        /\ s.minGas <= NeedFrom(need) /\ s.optimalGas <= s.maxGas + 1
    BY <1>4, GasEstimationAssumption DEF SearchStates, SearchEnds, SearchOK
  <2>1. CASE s.left = 0
    <3>1. /\ SearchStep(s, need, perCall).minGas = s.minGas
          /\ SearchStep(s, need, perCall).optimalGas = s.optimalGas
          /\ SearchStep(s, need, perCall).maxGas = s.optimalGas
      BY <2>1 DEF SearchStep, Restarted, SearchStates
    <3>2. QED
      BY <2>0, <3>1 DEF SearchOK
  <2>2. CASE s.left # 0
    <3> DEFINE midGas == (s.minGas + s.maxGas) \div 2
    <3>0. midGas \in Nat
      BY <2>0
    <3>1. CASE midGas >= need
      <4>1. /\ SearchStep(s, need, perCall).minGas = s.minGas
            /\ SearchStep(s, need, perCall).optimalGas = midGas
            /\ SearchStep(s, need, perCall).maxGas = midGas - 1
        BY <2>2, <3>1 DEF SearchStep, Halved, SearchStates
      <4> HIDE DEF midGas
      <4>2. QED
        BY <2>0, <3>0, <4>1 DEF SearchOK
    <3>2. CASE ~(midGas >= need)
      <4>1. /\ SearchStep(s, need, perCall).minGas = midGas + 1
            /\ SearchStep(s, need, perCall).optimalGas = s.optimalGas
            /\ SearchStep(s, need, perCall).maxGas = s.maxGas
        BY <2>2, <3>2 DEF SearchStep, Halved, SearchStates
      <4> HIDE DEF midGas
      <4>2. midGas + 1 <= NeedFrom(need)
        BY <1>0, <3>0, <3>2
      <4>3. QED
        BY <2>0, <4>1, <4>2 DEF SearchOK
    <3>3. QED
      BY <3>1, <3>2
  <2>3. QED
    BY <2>1, <2>2
<1> DEFINE bad == { s \in SearchStates : SearchOK(s, need) /\ ~good(f[s]) }
           T == { SearchRank(s, perCall) : s \in bad }
<1>5. bad = {}
  <2> SUFFICES ASSUME bad # {} PROVE FALSE
    OBVIOUS
  <2>1. ASSUME NEW s \in bad
        PROVE  /\ ~SearchEnds(s) /\ SearchStep(s, need, perCall) \in bad
               /\ SearchRank(SearchStep(s, need, perCall), perCall) < SearchRank(s, perCall)
    <3>1. ~SearchEnds(s)
      BY <1>3
    <3>2. /\ SearchStep(s, need, perCall) \in SearchStates
          /\ SearchRank(SearchStep(s, need, perCall), perCall) < SearchRank(s, perCall)
      BY <3>1, SearchStepIs
    <3>3. f[s] = f[SearchStep(s, need, perCall)]
      BY <1>1, <3>1 DEF IsSearch
    <3>4. SearchOK(SearchStep(s, need, perCall), need)
      BY <1>4, <3>1
    <3>5. QED
      BY <3>1, <3>2, <3>3, <3>4
  <2>2. \A s \in bad : SearchRank(s, perCall) \in Nat
    BY RankIsNat
  <2> HIDE DEF bad
  <2>3. T \in SUBSET Nat /\ T # {}
    BY <2>2
  <2>4. PICK m \in T : \A j \in T : m <= j
    BY <2>3, LeastElement
  <2>5. PICK s \in bad : m = SearchRank(s, perCall)
    BY <2>4
  <2>6. SearchRank(SearchStep(s, need, perCall), perCall) \in T
    BY <2>1
  <2>7. QED
    BY <2>1, <2>2, <2>4, <2>5, <2>6
<1>6. good(f[start])
  BY <1>2, <1>5
<1>7. QED
  BY <1>1, <1>6

\* A percentage that does not exceed the whole.
LEMMA ScaledDown ==
  ASSUME NEW x \in Nat, NEW m \in Nat, m <= 100 PROVE ScaleByPercent(x, m) \in Nat /\ ScaleByPercent(x, m) <= x
<1>1. x * m \in Nat /\ x * m <= x * 100
  OBVIOUS
<1>2. \A w \in Nat : w <= x * 100 => w \div 100 \in Nat /\ w \div 100 <= x
  OBVIOUS
<1>3. QED
  BY <1>1, <1>2 DEF ScaleByPercent

\* The limit of a call that a search gives.
LEMMA CallLimitIsClose ==
  ASSUME CallGasLimitMultiplier <= 100, NEW o, o.version # "0.6",
         NEW need, {need.verification, need.paymaster, need.call} \subseteq Nat, NEW perCall \in Nat,
         NEW limits, limits = GasEstimates(o, need, perCall), limits # Null
  PROVE  limits.call \in Nat /\ limits.call <= NeedFrom(need.call) + BinarySearchToleranceDelta
<1> DEFINE gas == SearchedGas(o, need, perCall)
           c == IF o.hasCallData THEN Searched(need.call, perCall) ELSE 0
           highest == NeedFrom(need.call) + BinarySearchToleranceDelta
<1>0. NeedFrom(need.call) \in Nat /\ NeedFrom(need.call) >= InitialMinGas /\ highest \in Nat
      /\ highest >= InitialMinGas /\ InitialMinGas \in Nat
  BY GasEstimationAssumption DEF NeedFrom, MaxOf, InitialMinGas
<1>1. gas # Null
        /\ limits.call = IF o.hasCallData
                         THEN ScaleByPercent(CallGasLimit(o, gas.call), CallGasLimitMultiplier) ELSE 0
  BY DEF GasEstimates, Limits
<1>2. c # Null /\ gas.call = c
  BY <1>1 DEF SearchedGas, Limits
<1> HIDE DEF gas
<1>3. CASE ~o.hasCallData
  BY <1>0, <1>1, <1>3
<1>4. CASE o.hasCallData
  <2>1. c = Searched(need.call, perCall)
    BY <1>4
  <2>2. gas.call \in Nat /\ gas.call <= highest
    BY <1>2, <2>1, SearchedIsClose
  <2> HIDE DEF highest
  <2>3. CallGasLimit(o, gas.call) \in Nat /\ CallGasLimit(o, gas.call) <= highest
    BY <1>0, <2>2 DEF CallGasLimit, MaxOf
  <2>4. CallGasLimitMultiplier \in Nat
    BY PreVerificationGasAssumption
  <2>5. limits.call = ScaleByPercent(CallGasLimit(o, gas.call), CallGasLimitMultiplier)
    BY <1>1, <1>4
  <2>6. limits.call \in Nat /\ limits.call <= CallGasLimit(o, gas.call)
    BY <2>3, <2>4, <2>5, ScaledDown
  <2>7. limits.call \in Nat /\ limits.call <= highest
    BY <1>0, <2>3, <2>6
  <2>8. QED
    BY <2>7 DEF highest
<1>5. QED
  BY <1>3, <1>4

\* What is validated passes, and is what was estimated or twice that.
LEMMA ValidatedIs ==
  ASSUME NEW limits, NEW need, NEW final, final = ValidatedLimits(limits, need), final # Null
  PROVE  /\ limits # Null
         /\ final.verification >= need.verification /\ final.call >= need.call
         /\ final.call = limits.call \/ final.call = 2 * limits.call
         /\ final.verification = limits.verification \/ final.verification = 2 * limits.verification
<1>1. limits # Null
  BY DEF ValidatedLimits
<1>2. (final = limits \/ final = Doubled(limits, need)) /\ Passes(final, need)
  BY <1>1 DEF ValidatedLimits
<1>3. /\ Doubled(limits, need).call = 2 * limits.call
      /\ \/ Doubled(limits, need).verification = limits.verification
         \/ Doubled(limits, need).verification = 2 * limits.verification
  BY DEF Doubled, Limits
<1>4. final.verification >= need.verification /\ final.call >= need.call
  BY <1>2 DEF Passes
<1>5. QED
  BY <1>1, <1>2, <1>3, <1>4

\* Each step keeps that an estimate fits.
LEMMA FitsNext ==
  ASSUME CallGasLimitMultiplier <= 100, AdmissionTypes, EstimateFitsNeed, AdmissionNext
  PROVE  EstimateFitsNeed'
<1>0. /\ DOMAIN client = ClientFields /\ "need" \in ClientFields
      /\ {"version", "callGasLimit", "verificationGasLimit", "maxFeePerGas", "maxPriorityFeePerGas",
          "paymasterVerificationGasLimit", "preVerificationGas"} \subseteq DOMAIN userOp
  BY ReadingsAssumption DEF AdmissionTypes, ClientFields
<1>1. ASSUME client'.need = client.need, userOp'.version = userOp.version,
             userOp'.callGasLimit = userOp.callGasLimit,
             userOp'.verificationGasLimit = userOp.verificationGasLimit
      PROVE  EstimateFitsNeed'
  BY <1>1 DEF EstimateFitsNeed
<1>2. CASE UNCHANGED userOp /\ (UNCHANGED client \/ Fails \/ \E call : Ask(call))
  BY <1>0, <1>1, <1>2 DEF Fails, Ask
<1>3. CASE Quoted
  <2>1. client'.need = client.need
    BY <1>0, <1>3 DEF Quoted, Fails
  <2>2. /\ userOp'.version = userOp.version /\ userOp'.callGasLimit = userOp.callGasLimit
        /\ userOp'.verificationGasLimit = userOp.verificationGasLimit
    BY <1>0, <1>3 DEF Quoted
  <2>3. QED
    BY <1>1, <2>1, <2>2
<1>4. ASSUME NEW trace, Answered(trace) PROVE EstimateFitsNeed'
  <2>1. client'.need = client.need /\ UNCHANGED userOp
    BY <1>0, <1>4 DEF Answered
  <2>2. QED
    BY <1>1, <2>1
<1>5. ASSUME NEW need \in config.needs, NEW perCall \in config.perCall, Estimated(need, perCall)
      PROVE  EstimateFitsNeed'
  <2>1. {need.verification, need.paymaster, need.call} \subseteq Nat /\ perCall \in Nat
    BY NeedsAssumption DEF AdmissionTypes
  <2>2. CASE UNCHANGED userOp /\ Fails
    BY <1>2, <2>2
  <2>3. CASE ~(UNCHANGED userOp /\ Fails)
    <3>1. PICK limits, final, pricedAt, pvg :
            /\ limits = GasEstimates(userOp, need, perCall)
            /\ final = ValidatedLimits(limits, need) /\ final # Null
            /\ client' = [client EXCEPT !.doing = "idle", !.got = Null, !.need = need,
                                        !.pricedAt = pricedAt]
            /\ userOp' = [WithLimits(userOp, final) EXCEPT !.preVerificationGas = pvg]
      BY <1>5, <2>3 DEF Estimated
    <3>2. /\ client'.need = need /\ userOp'.version = userOp.version
          /\ userOp'.callGasLimit = final.call
          /\ userOp'.verificationGasLimit = final.verification
      BY <1>0, <3>1 DEF WithLimits
    <3>3. /\ limits # Null
          /\ final.verification >= need.verification /\ final.call >= need.call
          /\ final.call = limits.call \/ final.call = 2 * limits.call
      BY <3>1, ValidatedIs
    <3>4. CASE userOp.version = "0.6"
      BY <3>2, <3>4 DEF EstimateFitsNeed
    <3>5. CASE userOp.version # "0.6"
      <4>1. limits.call \in Nat /\ limits.call <= NeedFrom(need.call) + BinarySearchToleranceDelta
        BY <2>1, <3>1, <3>3, <3>5, CallLimitIsClose
      <4>2. NeedFrom(need.call) \in Nat /\ BinarySearchToleranceDelta \in Nat
        BY <2>1, GasEstimationAssumption DEF NeedFrom, MaxOf, InitialMinGas
      <4>3. final.call <= 2 * (NeedFrom(need.call) + BinarySearchToleranceDelta)
        BY <3>3, <4>1, <4>2
      <4>4. QED
        BY <3>2, <3>3, <4>3 DEF EstimateFitsNeed, NeedFrom
    <3>6. QED
      BY <3>4, <3>5
  <2>4. QED
    BY <2>2, <2>3
<1>6. QED
  BY <1>2, <1>3, <1>4, <1>5 DEF AdmissionNext, Tick, NodeChanges, StartRefresh, BaseFeeArrives,
     PriceArrives, StartOther, OtherArrives, AskPrice, AskEstimate, Send, Ask

\* With a multiplier of the call's limit that adds nothing, which is the
\* default, the limits of an estimate fit what the op needs.
THEOREM EstimateAlwaysFits ==
  ASSUME CallGasLimitMultiplier <= 100 PROVE AdmissionSpec => []EstimateFitsNeed
<1> DEFINE Inv == AdmissionTypes /\ EstimateFitsNeed
<1>1. AdmissionInit => Inv
  BY AdmissionTypesInit DEF AdmissionInit, EstimateFitsNeed, NewClient
<1>2. Inv /\ [AdmissionNext]_admissionVars => Inv'
  <2>1. Inv /\ AdmissionNext => Inv'
    BY AdmissionTypesNext, FitsNext
  <2>2. Inv /\ UNCHANGED admissionVars => Inv'
    BY DEF admissionVars, AdmissionTypes, EstimateFitsNeed
  <2>3. QED
    BY <2>1, <2>2
<1>3. Inv => EstimateFitsNeed
  OBVIOUS
<1>4. QED
  BY <1>1, <1>2, <1>3, PTL DEF AdmissionSpec

-----------------------------------------------------------------------------
(***************************************************************************)
(* An estimate, and the saves it was priced at.                            *)
(***************************************************************************)

\* No oracle answers a zero, which no window would keep, to a question whose
\* answer a data component is made of.
OraclesCharge ==
  \A s \in Scenarios : \A n \in s.config.readings :
    /\ s.config.chainType = "arbitrum" => n.l1BaseFee > 0 /\ n.l2BaseFee > 0
    /\ s.config.chainType = "mantle" =>
         n.tokenRatio > 0 /\ n.scalar > 0 /\ n.l1GasPrice > 0 /\ s.userOp.txBytes > 0

Positive == Nat \ {0}

\* The fields of an op that its calls give it, and those that stay.
GivenFields == {"maxFeePerGas", "maxPriorityFeePerGas", "callGasLimit", "verificationGasLimit",
                "paymasterVerificationGasLimit", "preVerificationGas"}

SizeFields == {"version", "tokens", "opWords", "callDataWords", "executesUserOp", "eip7702Auth",
               "paymasterPostOpGasLimit", "txBytes"}

\* The op has the sizes it started with, and what is saved are positive numbers.
SizesInv ==
  /\ \E s \in Scenarios : /\ config = s.config /\ DOMAIN userOp = DOMAIN s.userOp
                          /\ \A f \in SizeFields : userOp[f] = s.userOp[f]
  /\ \A k \in Windows : \A e \in saves[k] : e.value \in Positive
  /\ saves["l1Fee"] = {}

\* A value that the estimate was priced at.
PricedAt(k, v) == client.pricedAt \in Int /\ SavedSince(saves[k], v, client.pricedAt)

\* The data part of an estimate.
DataPart(l2) ==
  /\ config.chainType = "arbitrum" =>
       \E a \in Positive, b \in Positive :
         /\ l2 = (userOp.txBytes * a) \div b
         /\ PricedAt("l1BaseFee", a) /\ PricedAt("l2BaseFee", b)
  /\ config.chainType = "mantle" =>
       \E t \in Positive, s \in Positive, g \in Positive, p \in Positive :
         /\ l2 = MantleFee(t, s, userOp.txBytes, g) \div p
         /\ PricedAt("tokenRatio", t) /\ PricedAt("scalar", s) /\ PricedAt("l1GasPrice", g)
         /\ PricedAt("rollup", userOp.txBytes) /\ PricedAt("maxFee", p)
  /\ config.chainType = "etherlink" =>
       \E p \in Positive : l2 = EtherlinkComponent(userOp, p) /\ PricedAt("maxFee", p)

\* The op has an estimate: a part for the execution with limits that are not
\* more than its own, and a part for the data.
PricedAs(e, l2) ==
  /\ userOp.preVerificationGas = ScaleByPercent(e + l2, PvgMultiplier)
  /\ ExecutionComponent(config, userOp) \in Nat
  /\ ExecutionComponent(config, userOp) <= e
  /\ e >= 100
  /\ DataPart(l2)

PricedInv ==
  (client.pricedAt # Null /\ config.chainType # "abstract") =>
    /\ client.doing \in {"idle", "sending"}
    /\ \E e \in Nat, l2 \in Nat : PricedAs(e, l2)

\* A smaller share of a number.
LEMMA DivisionByMore ==
  ASSUME NEW a \in Nat, NEW b \in Positive, NEW c \in Nat, b <= c PROVE a \div c <= a \div b
<1> DEFINE q == a \div c
           r == a \div b
<1>1. q \in Nat /\ r \in Nat /\ c \in Positive
  BY DEF Positive
<1>2. c * q <= a /\ a < b * (r + 1)
  BY <1>1 DEF Positive
<1> HIDE DEF q, r
<1>3. SUFFICES ASSUME r + 1 <= q PROVE FALSE
  BY <1>1 DEF q, r
<1>4. b * (r + 1) <= b * q
  BY <1>1, <1>3 DEF Positive
<1>5. b * q <= c * q
  BY <1>1 DEF Positive
<1>6. b * (r + 1) \in Nat /\ b * q \in Nat /\ c * q \in Nat
  BY <1>1 DEF Positive
<1>7. QED
  BY <1>1, <1>2, <1>4, <1>5, <1>6

\* What fits is at most the quotient.
LEMMA FitsQuotient ==
  ASSUME NEW q \in Nat, NEW b \in Positive, NEW a \in Nat, q * b <= a PROVE q <= a \div b
<1> DEFINE r == a \div b
<1>1. r \in Nat /\ a < b * (r + 1)
  BY DEF Positive
<1> HIDE DEF r
<1>3. SUFFICES ASSUME r + 1 <= q PROVE FALSE
  BY <1>1 DEF r
<1>4. b * (r + 1) <= b * q
  BY <1>1, <1>3 DEF Positive
<1>5. b * (r + 1) \in Nat /\ b * q \in Nat /\ b * q <= a
  BY <1>1 DEF Positive
<1>6. QED
  BY <1>1, <1>4, <1>5

\* A product of no less.
LEMMA ProductsInOrder ==
  ASSUME NEW a \in Nat, NEW b \in Nat, NEW c \in Nat, NEW d \in Nat, a <= b, c <= d
  PROVE  a * c \in Nat /\ b * d \in Nat /\ a * c <= b * d
<1>1. a * c <= b * c
  OBVIOUS
<1>2. b * c <= b * d
  OBVIOUS
<1>3. a * c \in Nat /\ b * c \in Nat /\ b * d \in Nat
  OBVIOUS
<1>4. QED
  BY <1>1, <1>2, <1>3

\* The data of an op, at the least L1 fee and the highest L2 fee that are recent,
\* costs no more than at an L1 fee and an L2 fee among them.
LEMMA ArbitrumCosts ==
  ASSUME NEW size \in Nat, NEW x \in Positive, NEW y \in Positive,
         NEW a \in Positive, NEW b \in Positive,
         NEW least \in Nat, least <= a, NEW most \in Nat, b <= most
  PROVE  /\ (((size * x) \div y) * y * least) \div (x * most) \in Nat
         /\ (((size * x) \div y) * y * least) \div (x * most) <= (size * a) \div b
<1> DEFINE gas == (size * x) \div y
           have == gas * y * least
           q == have \div (x * most)
<1>1. size * x \in Nat /\ x * most \in Positive /\ size * a \in Nat /\ most \in Positive
  <2>1. most \in Positive
    BY DEF Positive
  <2>2. \A u \in Positive, v \in Positive : u * v \in Positive
    BY DEF Positive
  <2>3. \A u \in Nat, v \in Positive : u * v \in Nat
    BY DEF Positive
  <2>4. QED
    BY <2>1, <2>2, <2>3
<1>2. gas \in Nat /\ gas * y <= size * x
  <2>1. \A u \in Nat, v \in Positive : u \div v \in Nat /\ (u \div v) * v <= u
    BY DEF Positive
  <2>2. QED
    BY <1>1, <2>1
<1> HIDE DEF gas
<1>3. gas * y \in Nat /\ have \in Nat
  BY <1>2 DEF Positive
<1>4. have <= (size * x) * a
  <2>1. a \in Nat
    BY DEF Positive
  <2>2. QED
    BY <1>1, <1>2, <1>3, <2>1, ProductsInOrder
<1> HIDE DEF have
<1>5. q \in Nat /\ q * (x * most) <= have
  <2>1. \A u \in Nat, v \in Positive : u \div v \in Nat /\ (u \div v) * v <= u
    BY DEF Positive
  <2>2. QED
    BY <1>1, <1>3, <2>1
<1> HIDE DEF q
<1>6. x * (q * most) <= x * (size * a)
  <2>1. x * (q * most) = q * (x * most) /\ x * (size * a) = (size * x) * a
    BY <1>5 DEF Positive
  <2>2. q * (x * most) \in Nat /\ (size * x) * a \in Nat
    BY <1>1, <1>5 DEF Positive
  <2>3. QED
    BY <1>3, <1>4, <1>5, <2>1, <2>2
<1>7. q * most <= size * a
  <2>1. \A u \in Nat, v \in Nat : x * u <= x * v => u <= v
    BY DEF Positive
  <2>2. q * most \in Nat
    BY <1>5
  <2>3. QED
    BY <1>1, <1>6, <2>1, <2>2
<1>8. q * b <= q * most /\ q * b \in Nat /\ q * most \in Nat
  BY <1>5 DEF Positive
<1>9. q <= (size * a) \div b
  <2>1. PICK all : all = size * a
    OBVIOUS
  <2>2. all \in Nat /\ q * b <= all
    BY <1>1, <1>7, <1>8, <2>1
  <2>3. q <= all \div b
    BY <1>5, <2>2, FitsQuotient
  <2>4. QED
    BY <2>1, <2>3
<1>10. QED
  BY <1>5, <1>9 DEF q, have, gas

\* What Mantle charges for data, with least values.
LEMMA MantleCosts ==
  ASSUME NEW t \in Nat, NEW s \in Nat, NEW r \in Nat, NEW g \in Nat, NEW p \in Positive,
         NEW t2 \in Nat, NEW s2 \in Nat, NEW r2 \in Nat, NEW g2 \in Nat, NEW p2 \in Nat,
         t2 <= t, s2 <= s, r2 <= r, g2 <= g, p <= p2
  PROVE  /\ MantleFee(t2, s2, r2, g2) \div p2 \in Nat
         /\ MantleFee(t2, s2, r2, g2) \div p2 <= MantleFee(t, s, r, g) \div p
<1>1. PICK all2, all : all2 = r2 * g2 * t2 * s2 /\ all = r * g * t * s
  OBVIOUS
<1>2. all2 \in Nat /\ all \in Nat /\ all2 <= all
  <2>1. r2 * g2 \in Nat /\ r * g \in Nat /\ r2 * g2 <= r * g
    BY ProductsInOrder
  <2>2. PICK x2, x : x2 = r2 * g2 /\ x = r * g
    OBVIOUS
  <2>3. x2 * t2 \in Nat /\ x * t \in Nat /\ x2 * t2 <= x * t
    <3>1. x2 \in Nat /\ x \in Nat /\ x2 <= x
      BY <2>1, <2>2
    <3>2. QED
      BY <3>1, ProductsInOrder
  <2>4. PICK y2, y : y2 = x2 * t2 /\ y = x * t
    OBVIOUS
  <2>5. y2 * s2 \in Nat /\ y * s \in Nat /\ y2 * s2 <= y * s
    <3>1. y2 \in Nat /\ y \in Nat /\ y2 <= y
      BY <2>3, <2>4
    <3>2. QED
      BY <3>1, ProductsInOrder
  <2>6. all2 = y2 * s2 /\ all = y * s
    BY <1>1, <2>2, <2>4
  <2>7. QED
    BY <2>5, <2>6
<1>3. PICK f2, f : f2 = all2 \div MantleDivisionFactor /\ f = all \div MantleDivisionFactor
  OBVIOUS
<1>4. MantleDivisionFactor \in Nat \ {0}
  BY PreVerificationGasAssumption
<1>5. \A u \in Nat, v \in Nat \ {0} : u \div v \in Nat
  OBVIOUS
<1>6. f2 \in Nat /\ f \in Nat
  BY <1>2, <1>3, <1>4, <1>5
<1>7. f2 <= f
  BY <1>2, <1>3, <1>4, DivisionKeepsOrder
<1>8. f2 \div p2 \in Nat /\ f \div p2 \in Nat /\ f \div p \in Nat
  <2>1. p2 \in Nat \ {0} /\ p \in Nat \ {0}
    BY DEF Positive
  <2>2. QED
    BY <1>5, <1>6, <2>1
<1>9. f2 \div p2 <= f \div p2
  <2>1. p2 \in Nat \ {0}
    BY DEF Positive
  <2>2. QED
    BY <1>6, <1>7, <2>1, DivisionKeepsOrder
<1>10. f \div p2 <= f \div p
  BY <1>6, DivisionByMore
<1>11. MantleFee(t2, s2, r2, g2) = f2 /\ MantleFee(t, s, r, g) = f
  BY <1>1, <1>3 DEF MantleFee
<1>12. QED
  BY <1>8, <1>9, <1>10, <1>11

\* Higher limits take nothing more for the execution, since the gas they stand
\* for counts against the floor of the calldata.
LEMMA ExecutionInOrder ==
  ASSUME NEW c, NEW g, NEW h, \A f \in SizeFields : g[f] = h[f],
         {g.tokens, g.opWords, g.callDataWords, g.paymasterPostOpGasLimit} \subseteq Nat,
         {g.callGasLimit, g.verificationGasLimit, h.callGasLimit, h.verificationGasLimit} \subseteq Nat,
         g.callGasLimit <= h.callGasLimit, g.verificationGasLimit <= h.verificationGasLimit
  PROVE  /\ ExecutionComponent(c, g) \in Nat /\ ExecutionComponent(c, h) \in Nat
         /\ ExecutionComponent(c, h) <= ExecutionComponent(c, g)
         /\ ExecutionComponent(c, g) >= 100
<1>1. \A x \in Nat, y \in Nat, m \in Nat \ {0} : x <= y =>
        /\ UnscaleByPercent(x, m) \in Nat /\ UnscaleByPercent(y, m) \in Nat
        /\ UnscaleByPercent(x, m) <= UnscaleByPercent(y, m)
  <2> SUFFICES ASSUME NEW x \in Nat, NEW y \in Nat, NEW m \in Nat \ {0}, x <= y
               PROVE  /\ UnscaleByPercent(x, m) \in Nat /\ UnscaleByPercent(y, m) \in Nat
                      /\ UnscaleByPercent(x, m) <= UnscaleByPercent(y, m)
    OBVIOUS
  <2>1. PICK u, v : u = x * 100 /\ v = y * 100
    OBVIOUS
  <2>2. u \in Nat /\ v \in Nat /\ u <= v
    BY <2>1
  <2>3. u \div m \in Nat /\ v \div m \in Nat
    BY <2>2
  <2>4. u \div m <= v \div m
    BY <2>2, DivisionKeepsOrder
  <2>5. QED
    BY <2>1, <2>3, <2>4 DEF UnscaleByPercent
<1>2. {CallGasLimitMultiplier, VerificationGasLimitMultiplier,
       PaymasterPostOpGasLimitMultiplier} \subseteq Nat \ {0}
  BY PreVerificationGasAssumption
<1>3. /\ g.version = h.version /\ g.tokens = h.tokens /\ g.opWords = h.opWords
      /\ g.callDataWords = h.callDataWords /\ g.executesUserOp = h.executesUserOp
      /\ g.eip7702Auth = h.eip7702Auth /\ g.paymasterPostOpGasLimit = h.paymasterPostOpGasLimit
  BY DEF SizeFields
<1>4. UserOpGasUsed(g) \in Nat /\ UserOpGasUsed(h) \in Nat /\ UserOpGasUsed(g) <= UserOpGasUsed(h)
  <2> DEFINE call(o) == UnscaleByPercent(o.callGasLimit, CallGasLimitMultiplier)
             account(o) == UnscaleByPercent(o.verificationGasLimit, VerificationGasLimitMultiplier)
             postOp(o) == UnscaleByPercent(o.paymasterPostOpGasLimit, PaymasterPostOpGasLimitMultiplier)
  <2>1. /\ call(g) \in Nat /\ call(h) \in Nat /\ call(g) <= call(h)
        /\ account(g) \in Nat /\ account(h) \in Nat /\ account(g) <= account(h)
        /\ postOp(g) \in Nat /\ postOp(h) = postOp(g)
    <3>1. call(g) \in Nat /\ call(h) \in Nat /\ call(g) <= call(h)
      BY <1>1, <1>2
    <3>2. account(g) \in Nat /\ account(h) \in Nat /\ account(g) <= account(h)
      BY <1>1, <1>2
    <3>3. postOp(h) = postOp(g)
      BY <1>3
    <3>4. postOp(g) \in Nat
      <4>1. \A x \in Nat : x <= x
        OBVIOUS
      <4>2. QED
        BY <1>1, <1>2, <4>1
    <3>5. QED
      BY <3>1, <3>2, <3>3, <3>4
  <2>2. \A o : UserOpGasUsed(o) = IF o.version = "0.6" THEN (call(o) + account(o)) \div 10
                                  ELSE (call(o) + postOp(o)) \div 10
    BY DEF UserOpGasUsed
  <2> HIDE DEF call, account, postOp
  <2>3. \A x \in Nat, y \in Nat : x <= y => x \div 10 \in Nat /\ y \div 10 \in Nat /\ x \div 10 <= y \div 10
    OBVIOUS
  <2>4. CASE g.version = "0.6"
    <3>1. /\ call(g) + account(g) \in Nat /\ call(h) + account(h) \in Nat
          /\ call(g) + account(g) <= call(h) + account(h)
      BY <2>1
    <3>2. QED
      BY <1>3, <2>2, <2>3, <2>4, <3>1
  <2>5. CASE g.version # "0.6"
    <3>1. /\ call(g) + postOp(g) \in Nat /\ call(h) + postOp(h) \in Nat
          /\ call(g) + postOp(g) <= call(h) + postOp(h)
      BY <2>1
    <3>2. QED
      BY <1>3, <2>2, <2>3, <2>5, <3>1
  <2>6. QED
    BY <2>4, <2>5
<1>5. UserOpSpecificOverhead(g) \in Nat /\ UserOpSpecificOverhead(h) = UserOpSpecificOverhead(g)
  <2>1. UserOpSpecificOverhead(h) = UserOpSpecificOverhead(g)
    BY <1>3 DEF UserOpSpecificOverhead
  <2>2. UserOpSpecificOverhead(g) \in Nat
    BY DEF UserOpSpecificOverhead, PerUserOp, EIP7702AuthGas
  <2>3. QED
    BY <2>1, <2>2
<1>6. PICK fixed, less, more, tokens :
        /\ fixed = UserOpSpecificOverhead(g) /\ less = UserOpGasUsed(g) /\ more = UserOpGasUsed(h)
        /\ tokens = g.tokens
  OBVIOUS
<1>7. fixed \in Nat /\ less \in Nat /\ more \in Nat /\ less <= more /\ tokens \in Nat
  BY <1>4, <1>5, <1>6
<1>8. /\ ExecutionComponent(c, g) =
           IF c.supportsEip7623
           THEN Eip7623Cost(tokens, FixedGasOverhead + fixed + less) - less
           ELSE StandardTokenGasCost * tokens + TransactionGasStipend + FixedGasOverhead + fixed
      /\ ExecutionComponent(c, h) =
           IF c.supportsEip7623
           THEN Eip7623Cost(tokens, FixedGasOverhead + fixed + more) - more
           ELSE StandardTokenGasCost * tokens + TransactionGasStipend + FixedGasOverhead + fixed
  BY <1>3, <1>5, <1>6 DEF ExecutionComponent
<1>9. QED
  BY ONLY <1>7, <1>8 DEF Eip7623Cost, MaxOf, FixedGasOverhead, StandardTokenGasCost,
     TransactionGasStipend, FloorPerTokenGasCost

\* What a window of positive numbers answers.
LEMMA EndsArePositive ==
  ASSUME NEW w, NEW S, WindowOK(w, S), \A s \in S : s.value \in Positive
  PROVE  MinValue(w) \in Positive \cup {Null} /\ MaxValue(w) \in Positive \cup {Null}
<1>1. CASE S = {}
  BY <1>1 DEF WindowOK, EmptyWindow, MinValue, MaxValue
<1>2. CASE S # {}
  <2>1. PICK l : LastOf(S, l)
    BY <1>2 DEF WindowOK
  <2>2. ExactFrom(w, S, l.timestamp - GasPriceExpiry)
    BY <2>1, WindowIsExact
  <2>3. QED
    BY <2>2 DEF ExactFrom
<1>3. QED
  BY <1>1, <1>2


\* What a step leaves of an op.
LEMMA OpStays ==
  ASSUME AdmissionTypes, SizesInv, AdmissionNext
  PROVE  DOMAIN userOp' = DOMAIN userOp /\ \A f \in SizeFields : userOp'[f] = userOp[f]
<1>1. SizeFields \cup GivenFields \subseteq DOMAIN userOp /\ SizeFields \cap GivenFields = {}
  BY ReadingsAssumption, SizesAssumption DEF SizesInv, SizeFields, GivenFields
<1>2. CASE UNCHANGED userOp
  BY <1>2
<1>3. ASSUME NEW p, NEW q, userOp' = [userOp EXCEPT !.maxFeePerGas = p, !.maxPriorityFeePerGas = q]
      PROVE  DOMAIN userOp' = DOMAIN userOp /\ \A f \in SizeFields : userOp'[f] = userOp[f]
  BY <1>1, <1>3 DEF GivenFields
<1>4. ASSUME NEW final, NEW pvg, userOp' = [WithLimits(userOp, final) EXCEPT !.preVerificationGas = pvg]
      PROVE  DOMAIN userOp' = DOMAIN userOp /\ \A f \in SizeFields : userOp'[f] = userOp[f]
  BY <1>1, <1>4 DEF GivenFields, WithLimits
<1>5. CASE Quoted
  <2>1. UNCHANGED userOp
        \/ \E p, q : userOp' = [userOp EXCEPT !.maxFeePerGas = p, !.maxPriorityFeePerGas = q]
    BY <1>5 DEF Quoted
  <2>2. QED
    BY <1>2, <1>3, <2>1
<1>6. ASSUME NEW need, NEW perCall, Estimated(need, perCall)
      PROVE  DOMAIN userOp' = DOMAIN userOp /\ \A f \in SizeFields : userOp'[f] = userOp[f]
  <2>1. \/ UNCHANGED userOp
        \/ \E final, pvg : userOp' = [WithLimits(userOp, final) EXCEPT !.preVerificationGas = pvg]
    BY <1>6 DEF Estimated
  <2>2. QED
    BY <1>2, <1>4, <2>1
<1>7. QED
  BY <1>2, <1>5, <1>6 DEF AdmissionNext, Tick, NodeChanges, StartRefresh, BaseFeeArrives,
     PriceArrives, StartOther, OtherArrives, AskPrice, Ask, AskEstimate, Send, Answered

\* The sizes of the op stay, and positive numbers are saved.
LEMMA SizesNext ==
  ASSUME AdmissionTypes, SizesInv, AdmissionNext PROVE SizesInv'
<1>1. config' = config
  BY ConfigIsFixed
<1>2. DOMAIN userOp' = DOMAIN userOp /\ \A f \in SizeFields : userOp'[f] = userOp[f]
  BY OpStays
<1>3. (\A k \in Windows : \A e \in saves'[k] : e.value \in Positive) /\ saves'["l1Fee"] = {}
  <2>1. CASE UNCHANGED serverVars
    BY <2>1 DEF serverVars, SizesInv
  <2>2. ASSUME NEW values, Savable(values), SaveAll(values)
        PROVE  (\A k \in Windows : \A e \in saves'[k] : e.value \in Positive) /\ saves'["l1Fee"] = {}
    <3>1. saves' = [k \in Windows |->
             IF k \in DOMAIN values /\ values[k] # 0
             THEN saves[k] \cup {[value |-> values[k], timestamp |-> now]} ELSE saves[k]]
      BY <2>2 DEF SaveAll
    <3>2. "l1Fee" \notin DOMAIN values /\ \A k \in DOMAIN values : values[k] \in Nat
      BY <2>2 DEF Savable, AreNat
    <3>3. "l1Fee" \in Windows
      BY DEF Windows
    <3>4. saves'["l1Fee"] = {}
      BY <3>1, <3>2, <3>3 DEF SizesInv
    <3>5. ASSUME NEW k \in Windows, NEW e \in saves'[k] PROVE e.value \in Positive
      <4>1. CASE e \in saves[k]
        BY <4>1 DEF SizesInv
      <4>2. CASE k \in DOMAIN values /\ values[k] # 0 /\ e = [value |-> values[k], timestamp |-> now]
        BY <3>2, <4>2 DEF Positive
      <4>3. QED
        BY <3>1, <4>1, <4>2
    <3>6. QED
      BY <3>4, <3>5
  <2>3. QED
    BY <2>1, <2>2, StepSaves
<1>4. QED
  BY <1>1, <1>2, <1>3 DEF SizesInv

\* The first of the last saves of some windows.
LEMMA OldestSaveOf ==
  ASSUME NEW ks, NEW first \in ks,
         \A k \in ks : saves'[k] # {} /\ LastSave(k) \in Int /\ LastSave(first) <= LastSave(k)
  PROVE  OldestSave(ks) = LastSave(first)
<1> DEFINE times == { LastSave(k) : k \in { j \in ks : saves'[j] # {} } }
<1>1. OldestSave(ks) = IF times = {} THEN now ELSE CHOOSE t \in times : \A u \in times : t <= u
  BY DEF OldestSave
<1>2. LastSave(first) \in times
  OBVIOUS
<1>3. \A u \in times : LastSave(first) <= u /\ u \in Int
  OBVIOUS
<1> HIDE DEF times
<1>4. \A t \in times : (\A u \in times : t <= u) <=> t = LastSave(first)
  BY <1>2, <1>3
<1>5. QED
  BY <1>1, <1>2, <1>4

\* A save of this moment is the last one.
LEMMA SavedNow ==
  ASSUME WindowsInv', now \in Nat, now' = now, NEW k \in Windows, NEW v,
         [value |-> v, timestamp |-> now] \in saves'[k]
  PROVE  LastSave(k) = now /\ saves'[k] # {}
         /\ \A t \in Int : t <= now => SavedSince(saves'[k], v, t)
<1>1. WindowOK(windows'[k], saves'[k]) /\ \A s \in saves'[k] : s.timestamp <= now
  BY DEF WindowsInv, WindowOK, EmptyWindow
<1>2. \A s \in saves'[k] : s.timestamp \in Int
  BY <1>1 DEF WindowOK, Entries
<1>3. LastOf(saves'[k], [value |-> v, timestamp |-> now])
  BY <1>1 DEF LastOf
<1>4. LastSave(k) = now
  BY <1>2, <1>3, LastSaveIs
<1>5. \A t \in Int : t <= now => SavedSince(saves'[k], v, t)
  BY DEF SavedSince
<1>6. QED
  BY <1>4, <1>5

\* What an estimation saves of the oracles.
LEMMA EstimateSaves ==
  ASSUME NEW n, NEW k \in Windows, k \in DOMAIN OracleValues(config, n, userOp),
         SaveAll(Merged(Merged(OracleValues(config, n, userOp), FetchedPrice(n)), FetchedBaseFee(n))),
         NEW v, v = OracleValues(config, n, userOp)[k], v # 0
  PROVE  [value |-> v, timestamp |-> now] \in saves'[k]
<1> DEFINE o == OracleValues(config, n, userOp)
           values == Merged(Merged(o, FetchedPrice(n)), FetchedBaseFee(n))
<1>1. DOMAIN o \cap {"maxFee", "priority", "baseFee"} = {}
  BY DEF OracleValues
<1>2. /\ DOMAIN FetchedPrice(n) \subseteq {"maxFee", "priority"}
      /\ DOMAIN FetchedBaseFee(n) \subseteq {"baseFee"}
  BY DEF FetchedPrice, PriceValues, FetchedBaseFee, BaseFeeValue, Nothing
<1>3. k \in DOMAIN values /\ values[k] = v
  BY <1>1, <1>2 DEF Merged
<1> HIDE DEF values
<1>4. SaveAll(values)
  BY DEF values
<1>5. QED
  BY <1>3, <1>4 DEF SaveAll

\* The price of an estimate is the latest in the window.
LEMMA PriceIsLatest ==
  ASSUME AdmissionTypes, PriceWindows, NEW n \in config.readings, ~config.isGasFreeChain,
         SaveAll(Merged(Merged(OracleValues(config, n, userOp), FetchedPrice(n)), FetchedBaseFee(n))),
         NEW p, p = GasPrice(n), p # Null
  PROVE  Quotable(p) /\ windows'["maxFee"].latestValue = p.maxFeePerGas
<1> DEFINE o == OracleValues(config, n, userOp)
           values == Merged(Merged(o, FetchedPrice(n)), FetchedBaseFee(n))
<1>1. "maxFee" \notin DOMAIN o /\ "maxFee" \notin DOMAIN FetchedBaseFee(n)
  BY DEF OracleValues, FetchedBaseFee, BaseFeeValue, Nothing
<1>2. CASE Refreshes
  <2>1. p = LatestGasPrice(windows)
    BY <1>2 DEF GasPrice
  <2>2. /\ windows["maxFee"].latestValue # Null /\ windows["priority"].latestValue # Null
        /\ p = Price(windows["maxFee"].latestValue, windows["priority"].latestValue)
    BY <2>1 DEF LatestGasPrice
  <2>3. FetchedPrice(n) = Nothing
    BY <1>2 DEF FetchedPrice
  <2>4. "maxFee" \notin DOMAIN values
    BY <1>1, <2>3 DEF Merged, Nothing
  <2>5. windows'["maxFee"] = windows["maxFee"]
    BY <2>4 DEF SaveAll, Windows
  <2>6. QED
    BY <2>2, <2>5 DEF PriceWindows, Price
<1>3. CASE ~Refreshes
  <2>1. p = InnerGetGasPrice(config, n)
    BY <1>3 DEF GasPrice
  <2>2. FetchedPrice(n) = [maxFee |-> p.maxFeePerGas, priority |-> p.maxPriorityFeePerGas]
    BY <1>3, <2>1 DEF FetchedPrice, PriceValues
  <2>3. Quotable(p) /\ p.maxFeePerGas > 0
    BY <2>1, FetchedIsQuotable
  <2>4. p.maxFeePerGas # 0
    BY <2>3 DEF Quotable, Prices
  <2>5. "maxFee" \in DOMAIN values /\ values["maxFee"] = p.maxFeePerGas
    BY <1>1, <2>2 DEF Merged
  <2>6. windows'["maxFee"] = Saved(windows["maxFee"], p.maxFeePerGas, now)
    <3>1. SaveAll(values)
      OBVIOUS
    <3> HIDE DEF values
    <3>2. QED
      BY <2>5, <3>1 DEF SaveAll, Windows
  <2>7. QED
    BY <2>3, <2>4, <2>6 DEF Saved
<1>4. QED
  BY <1>2, <1>3

\* What is asked for is a price.
LEMMA PriceIsNat ==
  ASSUME AdmissionTypes, PriceWindows, NEW n \in config.readings
  PROVE  GasPrice(n) # Null => GasPrice(n) \in Prices
<1>1. CASE config.isGasFreeChain
  BY <1>1 DEF GasPrice, Price, Prices
<1>2. CASE ~config.isGasFreeChain /\ Refreshes
  <2>1. GasPrice(n) = LatestGasPrice(windows)
    BY <1>2 DEF GasPrice
  <2>2. QED
    BY <2>1 DEF LatestGasPrice, PriceWindows, Quotable
<1>3. CASE ~config.isGasFreeChain /\ ~Refreshes
  <2>1. GasPrice(n) = InnerGetGasPrice(config, n)
    BY <1>3 DEF GasPrice
  <2>2. QED
    BY <2>1, FetchedIsQuotable DEF Quotable
<1>4. QED
  BY <1>1, <1>2, <1>3

\* A base fee that is answered.
LEMMA BaseFeeIsNat ==
  ASSUME AdmissionTypes, WindowsInv, SizesInv, NEW n \in config.readings
  PROVE  BaseFee(n) \in Nat
<1>1. n.baseFee \in Nat \cup {Null}
  BY ReadingsAssumption DEF AdmissionTypes
<1>2. windows["baseFee"].latestValue # Null => windows["baseFee"].latestValue \in Nat
  <2>1. "baseFee" \in Windows /\ WindowOK(windows["baseFee"], saves["baseFee"])
    BY DEF WindowsInv, Windows
  <2>2. windows["baseFee"].latestValue # Null =>
          \E l : LastOf(saves["baseFee"], l) /\ l.value = windows["baseFee"].latestValue
    BY <2>1, LatestWasSaved
  <2>3. QED
    BY <2>1, <2>2 DEF LastOf, SizesInv, Positive
<1>3. QED
  BY <1>1, <1>2 DEF BaseFee, OrElse

\* The limits of an estimate.
LEMMA EstimatesAreNat ==
  ASSUME NEW o, NEW need, {need.verification, need.paymaster, need.call} \subseteq Nat,
         NEW perCall \in Nat, NEW limits, limits = GasEstimates(o, need, perCall), limits # Null
  PROVE  limits.call \in Nat /\ limits.verification \in Nat
<1> DEFINE gas == IF o.version = "0.6" THEN ReportedGas(need) ELSE SearchedGas(o, need, perCall)
<1>1. /\ gas # Null
      /\ limits.verification = ScaleByPercent(gas.verification, VerificationGasLimitMultiplier)
      /\ limits.call = IF o.hasCallData
                       THEN ScaleByPercent(CallGasLimit(o, gas.call), CallGasLimitMultiplier) ELSE 0
  BY DEF GasEstimates, Limits
<1>2. gas.verification \in Nat /\ gas.call \in Nat
  <2>1. CASE o.version = "0.6"
    <3>1. gas.verification = ScaleByPercent(need.verification, 150) /\ gas.call = need.call
      BY <2>1 DEF ReportedGas, Limits
    <3>2. QED
      BY <3>1, ScaledIsNat
  <2>2. CASE o.version # "0.6"
    <3> DEFINE v == Searched(need.verification, perCall)
               c == IF o.hasCallData THEN Searched(need.call, perCall) ELSE 0
    <3>1. v # Null /\ c # Null /\ gas.verification = v /\ gas.call = c
      BY <1>1, <2>2 DEF SearchedGas, Limits
    <3>2. v \in Nat
      BY <3>1, SearchedIsClose
    <3>3. c \in Nat
      BY <3>1, SearchedIsClose
    <3>4. QED
      BY <3>1, <3>2, <3>3
  <2>3. QED
    BY <2>1, <2>2
<1> HIDE DEF gas
<1>3. CallGasLimit(o, gas.call) \in Nat
  BY <1>2 DEF CallGasLimit, MaxOf, InitialMinGas
<1>4. VerificationGasLimitMultiplier \in Nat /\ CallGasLimitMultiplier \in Nat
  BY PreVerificationGasAssumption
<1>5. ScaleByPercent(gas.verification, VerificationGasLimitMultiplier) \in Nat
  BY <1>2, <1>4, ScaledIsNat
<1>6. ScaleByPercent(CallGasLimit(o, gas.call), CallGasLimitMultiplier) \in Nat
  BY <1>3, <1>4, ScaledIsNat
<1>7. QED
  BY <1>1, <1>5, <1>6


\* The data part of an estimate that is made is a number.
LEMMA DataPartIsNat ==
  ASSUME AdmissionTypes, WindowsInv, PriceWindows, SizesInv, OraclesCharge, NEW n \in config.readings,
         config.chainType # "abstract", NEW price, price = GasPrice(n),
         price = Null => config.chainType \notin {"op-stack", "mantle", "etherlink"},
         NEW l2, l2 = EstimatedL2Component(config, n, userOp, price, BaseFee(n)), l2 # Null
  PROVE  l2 \in Nat
<1>1. PICK s \in Scenarios : config = s.config /\ userOp.txBytes = s.userOp.txBytes
  BY DEF AdmissionTypes
<1>2. /\ {n.l1BaseFee, n.l2BaseFee, n.tokenRatio, n.scalar, n.l1GasPrice, n.l1Fee} \subseteq Nat
      /\ userOp.txBytes \in Nat
  BY <1>1, ReadingsAssumption
<1>3. \A a \in Nat, b \in Nat : Divided(a, b) # Null => Divided(a, b) \in Nat
  BY DEF Divided
<1>4. price # Null => price \in Prices
  BY PriceIsNat
<1>5. CASE config.chainType = "op-stack"
  <2>1. BaseFee(n) \in Nat
    BY BaseFeeIsNat
  <2>2. PICK fee : fee = MinOf(price.maxFeePerGas, BaseFee(n) + price.maxPriorityFeePerGas)
    OBVIOUS
  <2>3. fee \in Nat
    BY <1>4, <1>5, <2>1, <2>2 DEF MinOf, Prices
  <2>4. l2 = Divided(n.l1Fee, fee)
    BY <1>5, <2>2 DEF EstimatedL2Component, OptimismEstimate
  <2>5. QED
    BY <1>2, <1>3, <2>3, <2>4
<1>6. CASE config.chainType = "arbitrum"
  <2>1. n.l2BaseFee \in Positive
    BY <1>1, <1>2, <1>6 DEF OraclesCharge, Positive
  <2>2. PICK all : all = userOp.txBytes * n.l1BaseFee
    OBVIOUS
  <2>3. all \in Nat
    BY <1>2, <2>2
  <2>4. l2 = all \div n.l2BaseFee
    BY <1>6, <2>2 DEF EstimatedL2Component, ArbitrumEstimate, GasEstimateL1Component
  <2>5. QED
    BY <2>1, <2>3, <2>4 DEF Positive
<1>7. CASE config.chainType = "mantle"
  <2>1. PICK all : all = userOp.txBytes * n.l1GasPrice * n.tokenRatio * n.scalar
    OBVIOUS
  <2>2. all \in Nat
    <3>1. \A x \in Nat, y \in Nat : x * y \in Nat
      OBVIOUS
    <3>2. QED
      BY <1>2, <2>1, <3>1
  <2>3. all \div MantleDivisionFactor \in Nat
    BY <2>2, PreVerificationGasAssumption
  <2>4. l2 = Divided(all \div MantleDivisionFactor, price.maxFeePerGas)
    BY <1>7, <2>1 DEF EstimatedL2Component, MantleEstimate, MantleFee
  <2>5. price.maxFeePerGas \in Nat
    BY <1>4, <1>7 DEF Prices
  <2>6. QED
    BY <1>3, <2>3, <2>4, <2>5
<1>8. CASE config.chainType = "etherlink"
  <2>1. PICK all : all = (150 + userOp.txBytes) * EtherlinkRate
    OBVIOUS
  <2>2. all \in Nat
    BY <1>2, <2>1, PreVerificationGasAssumption
  <2>3. l2 = Divided(all, price.maxFeePerGas)
    BY <1>8, <2>1 DEF EstimatedL2Component, EtherlinkComponent
  <2>4. price.maxFeePerGas \in Nat
    BY <1>4, <1>8 DEF Prices
  <2>5. QED
    BY <1>3, <2>2, <2>3, <2>4
<1>9. CASE config.chainType \notin {"op-stack", "arbitrum", "mantle", "etherlink"}
  BY <1>9 DEF EstimatedL2Component
<1>10. QED
  BY <1>5, <1>6, <1>7, <1>8, <1>9

\* An estimate is priced at what it saved, or found saved last.
LEMMA DataPartIsPriced ==
  ASSUME AdmissionTypes, WindowsInv, PriceWindows, SizesInv, OraclesCharge, WindowsInv', SizesInv',
         config' = config, now' = now, userOp'.txBytes = userOp.txBytes,
         NEW n \in config.readings, config.chainType # "abstract", NEW price, price = GasPrice(n),
         price = Null => config.chainType \notin {"op-stack", "mantle", "etherlink"},
         NEW l2, l2 = EstimatedL2Component(config, n, userOp, price, BaseFee(n)), l2 # Null,
         SaveAll(Merged(Merged(OracleValues(config, n, userOp), FetchedPrice(n)), FetchedBaseFee(n))),
         client'.pricedAt = OldestSave(PricingWindows)
  PROVE  DataPart(l2)'
<1>1. PICK s \in Scenarios : config = s.config /\ userOp.txBytes = s.userOp.txBytes
  BY DEF AdmissionTypes
<1>2. /\ {n.l1BaseFee, n.l2BaseFee, n.tokenRatio, n.scalar, n.l1GasPrice} \subseteq Nat
      /\ userOp.txBytes \in Nat /\ now \in Nat
  BY <1>1, ReadingsAssumption DEF AdmissionTypes
<1>3. ASSUME NEW k \in Windows, NEW v, k \in DOMAIN OracleValues(config, n, userOp),
             v = OracleValues(config, n, userOp)[k], v # 0
      PROVE  LastSave(k) = now /\ saves'[k] # {} /\ \A t \in Int : t <= now => SavedSince(saves'[k], v, t)
  <2>1. [value |-> v, timestamp |-> now] \in saves'[k]
    BY <1>3, EstimateSaves
  <2>2. QED
    BY <1>2, <2>1, SavedNow
<1>4. ASSUME price # Null, price.maxFeePerGas # 0, ~config.isGasFreeChain
      PROVE  /\ price.maxFeePerGas \in Positive
             /\ saves'["maxFee"] # {} /\ LastSave("maxFee") \in Int /\ LastSave("maxFee") <= now
             /\ SavedSince(saves'["maxFee"], price.maxFeePerGas, LastSave("maxFee"))
  <2>1. Quotable(price) /\ windows'["maxFee"].latestValue = price.maxFeePerGas
    BY <1>4, PriceIsLatest
  <2>2. price.maxFeePerGas \in Positive
    BY <1>4, <2>1 DEF Quotable, Prices, Positive
  <2>3. WindowOK(windows'["maxFee"], saves'["maxFee"]) /\ \A e \in saves'["maxFee"] : e.timestamp <= now
    BY DEF WindowsInv, Windows, WindowOK, EmptyWindow
  <2>4. price.maxFeePerGas # Null
    BY <2>2, MinMaxQueueAssumption DEF Positive
  <2>5. PICK l : LastOf(saves'["maxFee"], l) /\ l.value = price.maxFeePerGas
    BY <2>1, <2>3, <2>4, LatestWasSaved
  <2>6. \A e \in saves'["maxFee"] : e.timestamp \in Int
    BY <2>3 DEF WindowOK, Entries
  <2>7. LastSave("maxFee") = l.timestamp
    BY <2>5, <2>6, LastSaveIs
  <2>8. QED
    BY <2>2, <2>3, <2>5, <2>6, <2>7 DEF LastOf, SavedSince
<1>5. CASE config.chainType = "arbitrum"
  <2>1. OracleValues(config, n, userOp) = [l1BaseFee |-> n.l1BaseFee, l2BaseFee |-> n.l2BaseFee]
    BY <1>5 DEF OracleValues
  <2>2. n.l1BaseFee \in Positive /\ n.l2BaseFee \in Positive
    BY <1>1, <1>2, <1>5 DEF OraclesCharge, Positive
  <2>3. {"l1BaseFee", "l2BaseFee"} \subseteq Windows
    BY DEF Windows
  <2>4. /\ LastSave("l1BaseFee") = now /\ saves'["l1BaseFee"] # {}
        /\ \A t \in Int : t <= now => SavedSince(saves'["l1BaseFee"], n.l1BaseFee, t)
    BY <1>3, <2>1, <2>2, <2>3 DEF Positive
  <2>5. /\ LastSave("l2BaseFee") = now /\ saves'["l2BaseFee"] # {}
        /\ \A t \in Int : t <= now => SavedSince(saves'["l2BaseFee"], n.l2BaseFee, t)
    BY <1>3, <2>1, <2>2, <2>3 DEF Positive
  <2>6. PricingWindows = {"l1BaseFee", "l2BaseFee"}
    BY <1>5 DEF PricingWindows
  <2>7. client'.pricedAt = now
    <3>1. \A k \in PricingWindows :
            saves'[k] # {} /\ LastSave(k) \in Int /\ LastSave("l1BaseFee") <= LastSave(k)
      BY <1>2, <2>4, <2>5, <2>6
    <3>2. OldestSave(PricingWindows) = LastSave("l1BaseFee")
      BY <2>6, <3>1, OldestSaveOf
    <3>3. QED
      BY <2>4, <3>2
  <2>8. l2 = (userOp.txBytes * n.l1BaseFee) \div n.l2BaseFee
    BY <1>5 DEF EstimatedL2Component, ArbitrumEstimate, GasEstimateL1Component
  <2>9. /\ SavedSince(saves'["l1BaseFee"], n.l1BaseFee, now)
        /\ SavedSince(saves'["l2BaseFee"], n.l2BaseFee, now) /\ now \in Int
    BY <1>2, <2>4, <2>5
  <2>10. QED
    BY <1>5, <2>2, <2>7, <2>8, <2>9 DEF DataPart, PricedAt, SavedSince
<1>6. ASSUME config.chainType \in {"mantle", "etherlink"}
      PROVE  price # Null /\ price.maxFeePerGas # 0 /\ ~config.isGasFreeChain
  <2>1. price # Null
    BY <1>6
  <2>2. price.maxFeePerGas # 0
    BY <1>6 DEF EstimatedL2Component, MantleEstimate, EtherlinkComponent, Divided
  <2>3. ~config.isGasFreeChain
    BY <2>1, <2>2 DEF GasPrice, Price
  <2>4. QED
    BY <2>1, <2>2, <2>3
<1>7. CASE config.chainType = "etherlink"
  <2>1. PricingWindows = {"maxFee"}
    BY <1>7 DEF PricingWindows
  <2>2. client'.pricedAt = LastSave("maxFee")
    <3>1. \A k \in PricingWindows :
            saves'[k] # {} /\ LastSave(k) \in Int /\ LastSave("maxFee") <= LastSave(k)
      BY <1>4, <1>6, <1>7, <2>1
    <3>2. OldestSave(PricingWindows) = LastSave("maxFee")
      BY <2>1, <3>1, OldestSaveOf
    <3>3. QED
      BY <3>2
  <2>3. l2 = EtherlinkComponent(userOp, price.maxFeePerGas)
    BY <1>7 DEF EstimatedL2Component
  <2>4. EtherlinkComponent(userOp', price.maxFeePerGas) = EtherlinkComponent(userOp, price.maxFeePerGas)
    BY DEF EtherlinkComponent
  <2>5. QED
    BY <1>4, <1>6, <1>7, <2>2, <2>3, <2>4 DEF DataPart, PricedAt, SavedSince
<1>8. CASE config.chainType = "mantle"
  <2>1. OracleValues(config, n, userOp) =
          [tokenRatio |-> n.tokenRatio, scalar |-> n.scalar,
           rollup |-> userOp.txBytes, l1GasPrice |-> n.l1GasPrice]
    BY <1>8 DEF OracleValues
  <2>2. /\ n.tokenRatio \in Positive /\ n.scalar \in Positive /\ n.l1GasPrice \in Positive
        /\ userOp.txBytes \in Positive
    BY <1>1, <1>2, <1>8 DEF OraclesCharge, Positive
  <2>3. {"tokenRatio", "scalar", "rollup", "l1GasPrice"} \subseteq Windows
    BY DEF Windows
  <2>4. /\ LastSave("tokenRatio") = now /\ saves'["tokenRatio"] # {}
        /\ \A t \in Int : t <= now => SavedSince(saves'["tokenRatio"], n.tokenRatio, t)
    BY <1>3, <2>1, <2>2, <2>3 DEF Positive
  <2>5. /\ LastSave("scalar") = now /\ saves'["scalar"] # {}
        /\ \A t \in Int : t <= now => SavedSince(saves'["scalar"], n.scalar, t)
    BY <1>3, <2>1, <2>2, <2>3 DEF Positive
  <2>6. /\ LastSave("rollup") = now /\ saves'["rollup"] # {}
        /\ \A t \in Int : t <= now => SavedSince(saves'["rollup"], userOp.txBytes, t)
    BY <1>3, <2>1, <2>2, <2>3 DEF Positive
  <2>7. /\ LastSave("l1GasPrice") = now /\ saves'["l1GasPrice"] # {}
        /\ \A t \in Int : t <= now => SavedSince(saves'["l1GasPrice"], n.l1GasPrice, t)
    BY <1>3, <2>1, <2>2, <2>3 DEF Positive
  <2>8. PricingWindows = {"tokenRatio", "scalar", "rollup", "l1GasPrice", "maxFee"}
    BY <1>8 DEF PricingWindows
  <2>9. PICK at : at = LastSave("maxFee")
    OBVIOUS
  <2>10. /\ at \in Int /\ at <= now /\ saves'["maxFee"] # {} /\ price.maxFeePerGas \in Positive
         /\ SavedSince(saves'["maxFee"], price.maxFeePerGas, at)
    BY <1>4, <1>6, <1>8, <2>9
  <2>11. client'.pricedAt = at
    <3>1. \A k \in PricingWindows : saves'[k] # {} /\ LastSave(k) \in Int /\ LastSave("maxFee") <= LastSave(k)
      BY <1>2, <2>4, <2>5, <2>6, <2>7, <2>8, <2>9, <2>10
    <3>2. OldestSave(PricingWindows) = LastSave("maxFee")
      BY <2>8, <3>1, OldestSaveOf
    <3>3. QED
      BY <2>9, <3>2
  <2>12. l2 = MantleFee(n.tokenRatio, n.scalar, userOp.txBytes, n.l1GasPrice) \div price.maxFeePerGas
    BY <1>6, <1>8 DEF EstimatedL2Component, MantleEstimate, Divided
  <2>13. /\ SavedSince(saves'["tokenRatio"], n.tokenRatio, at) /\ SavedSince(saves'["scalar"], n.scalar, at)
         /\ SavedSince(saves'["rollup"], userOp.txBytes, at)
         /\ SavedSince(saves'["l1GasPrice"], n.l1GasPrice, at)
    BY <2>4, <2>5, <2>6, <2>7, <2>10
  <2>14. QED
    BY <1>8, <2>2, <2>10, <2>11, <2>12, <2>13 DEF DataPart, PricedAt, SavedSince
<1>9. CASE config.chainType \notin {"arbitrum", "mantle", "etherlink"}
  BY <1>9 DEF DataPart
<1>10. QED
  BY <1>5, <1>7, <1>8, <1>9


\* What is answered to an estimation.
LEMMA EstimateTaken ==
  ASSUME AdmissionTypes, WindowsInv, PriceWindows, SizesInv, OraclesCharge, AdmissionNext,
         WindowsInv', SizesInv', config.chainType # "abstract",
         NEW need \in config.needs, NEW perCall \in config.perCall, Estimated(need, perCall),
         client.pricedAt = Null
  PROVE  PricedInv'
<1> DEFINE n == client.got
           price == GasPrice(n)
           l2 == IF price = Null /\ config.chainType \in {"op-stack", "mantle", "etherlink"} THEN Null
                 ELSE EstimatedL2Component(config, n, userOp, price, BaseFee(n))
           limits == GasEstimates(userOp, need, perCall)
           final == IF AuthValid(FALSE) THEN ValidatedLimits(limits, need) ELSE Null
           at == OldestSave(PricingWindows)
           e == ExecutionComponent(config, WithLimits(userOp, limits))
<1>0. /\ DOMAIN client = ClientFields /\ {"doing", "pricedAt"} \subseteq ClientFields
      /\ SizeFields \cup GivenFields \subseteq DOMAIN userOp /\ SizeFields \cap GivenFields = {}
      /\ n \in config.readings /\ config' = config /\ now' = now
      /\ {need.verification, need.paymaster, need.call} \subseteq Nat /\ perCall \in Nat
      /\ {userOp.tokens, userOp.opWords, userOp.callDataWords, userOp.paymasterPostOpGasLimit} \subseteq Nat
  <2>1. PICK s \in Scenarios : /\ config = s.config /\ DOMAIN userOp = DOMAIN s.userOp
                               /\ \A f \in SizeFields : userOp[f] = s.userOp[f]
    BY DEF SizesInv
  <2>2. {userOp.tokens, userOp.opWords, userOp.callDataWords, userOp.paymasterPostOpGasLimit} \subseteq Nat
    BY <2>1, SizesAssumption DEF SizeFields
  <2>3. {need.verification, need.paymaster, need.call} \subseteq Nat /\ perCall \in Nat
    BY <2>1, NeedsAssumption
  <2>4. SizeFields \cup GivenFields \subseteq DOMAIN userOp /\ SizeFields \cap GivenFields = {}
    BY <2>1, ReadingsAssumption, SizesAssumption DEF SizeFields, GivenFields
  <2>5. n \in config.readings /\ config' = config /\ now' = now
    BY DEF AdmissionTypes, Estimated
  <2>6. DOMAIN client = ClientFields /\ {"doing", "pricedAt"} \subseteq ClientFields
    BY DEF AdmissionTypes, ClientFields
  <2>7. QED
    BY <2>2, <2>3, <2>4, <2>5, <2>6
<1>1. CASE l2 = Null \/ final = Null
  <2>1. Fails
    BY <1>1 DEF Estimated
  <2>2. client'.pricedAt = Null
    BY <1>0, <2>1 DEF Fails
  <2>3. QED
    BY <2>2 DEF PricedInv
<1>2. CASE l2 # Null /\ final # Null
  <2>1. /\ client' = [client EXCEPT !.doing = "idle", !.got = Null, !.need = need, !.pricedAt = at]
        /\ userOp' = [WithLimits(userOp, final) EXCEPT
             !.preVerificationGas = ScaleByPercent(e + l2, PvgMultiplier)]
        /\ SaveAll(Merged(Merged(OracleValues(config, n, userOp), FetchedPrice(n)), FetchedBaseFee(n)))
    BY <1>2 DEF Estimated
  <2>2. /\ final = ValidatedLimits(limits, need) /\ final # Null
        /\ price = Null => config.chainType \notin {"op-stack", "mantle", "etherlink"}
        /\ l2 = EstimatedL2Component(config, n, userOp, price, BaseFee(n))
    BY <1>2
  <2>3. client'.doing = "idle" /\ client'.pricedAt = at
    BY <1>0, <2>1
  <2>4. /\ limits # Null
        /\ final.call = limits.call \/ final.call = 2 * limits.call
        /\ final.verification = limits.verification \/ final.verification = 2 * limits.verification
    BY <2>2, ValidatedIs
  <2>5. limits.call \in Nat /\ limits.verification \in Nat
    BY <1>0, <2>4, EstimatesAreNat
  <2>6. l2 \in Nat
    BY <1>0, <1>2, <2>2, DataPartIsNat
  <2>7. \A f \in SizeFields : userOp'[f] = userOp[f]
    BY OpStays
  <2> PICK x, d : x = e /\ d = l2
    OBVIOUS
  <2>8. DataPart(d)'
    <3>1. userOp'.txBytes = userOp.txBytes
      BY <2>7 DEF SizeFields
    <3>2. PICK m, p : m = n /\ p = price
      OBVIOUS
    <3>3. /\ m \in config.readings /\ p = GasPrice(m)
          /\ p = Null => config.chainType \notin {"op-stack", "mantle", "etherlink"}
          /\ d = EstimatedL2Component(config, m, userOp, p, BaseFee(m)) /\ d # Null
          /\ SaveAll(Merged(Merged(OracleValues(config, m, userOp), FetchedPrice(m)), FetchedBaseFee(m)))
      BY <1>0, <1>2, <2>1, <2>2, <3>2
    <3>4. client'.pricedAt = OldestSave(PricingWindows)
      BY <2>3
    <3> HIDE DEF n, price, l2, limits, final, at, e
    <3>5. QED
      BY <1>0, <3>1, <3>3, <3>4, DataPartIsPriced
  <2> DEFINE g == WithLimits(userOp, limits)
  <2>9. /\ \A f \in SizeFields : g[f] = userOp[f]
        /\ g.callGasLimit = limits.call /\ g.verificationGasLimit = limits.verification
    BY <1>0 DEF WithLimits, GivenFields
  <2>10. /\ userOp'.callGasLimit = final.call /\ userOp'.verificationGasLimit = final.verification
         /\ userOp'.preVerificationGas = ScaleByPercent(e + l2, PvgMultiplier)
    <3>1. PICK pvg : pvg = ScaleByPercent(e + l2, PvgMultiplier)
      OBVIOUS
    <3>2. userOp' = [WithLimits(userOp, final) EXCEPT !.preVerificationGas = pvg]
      BY <2>1, <3>1
    <3> HIDE DEF e, l2, final
    <3>3. /\ userOp'.callGasLimit = final.call /\ userOp'.verificationGasLimit = final.verification
          /\ userOp'.preVerificationGas = pvg
      BY <1>0, <3>2 DEF WithLimits, GivenFields
    <3>4. QED
      BY <3>1, <3>3
  <2> HIDE DEF n, price, l2, limits, final, at, g
  <2>11. /\ ExecutionComponent(config, g) \in Nat /\ ExecutionComponent(config, userOp') \in Nat
         /\ ExecutionComponent(config, userOp') <= ExecutionComponent(config, g)
         /\ ExecutionComponent(config, g) >= 100
    <3>1. PICK h : h = userOp'
      OBVIOUS
    <3>2. \A f \in SizeFields : g[f] = h[f]
      BY <2>7, <2>9, <3>1
    <3>3. {g.tokens, g.opWords, g.callDataWords, g.paymasterPostOpGasLimit} \subseteq Nat
      BY <1>0, <2>9 DEF SizeFields
    <3>4. /\ {g.callGasLimit, g.verificationGasLimit, h.callGasLimit, h.verificationGasLimit} \subseteq Nat
          /\ g.callGasLimit <= h.callGasLimit /\ g.verificationGasLimit <= h.verificationGasLimit
      BY <2>4, <2>5, <2>9, <2>10, <3>1
    <3>5. /\ ExecutionComponent(config, g) \in Nat /\ ExecutionComponent(config, h) \in Nat
          /\ ExecutionComponent(config, h) <= ExecutionComponent(config, g)
          /\ ExecutionComponent(config, g) >= 100
      BY <3>2, <3>3, <3>4, ExecutionInOrder
    <3>6. QED
      BY <3>1, <3>5
  <2>12. e = ExecutionComponent(config, g)
    BY DEF g
  <2> HIDE DEF e
  <2>13. PricedAs(x, d)'
    <3>1. /\ userOp'.preVerificationGas = ScaleByPercent(x + d, PvgMultiplier)
          /\ ExecutionComponent(config', userOp') \in Nat
          /\ ExecutionComponent(config', userOp') <= x /\ x >= 100
      BY <1>0, <2>10, <2>11, <2>12
    <3>2. QED
      BY <2>8, <3>1 DEF PricedAs
  <2>14. x \in Nat /\ d \in Nat
    BY <2>6, <2>11, <2>12
  <2>15. QED
    BY <2>3, <2>13, <2>14 DEF PricedInv
<1>3. QED
  BY <1>1, <1>2

\* An op that has an estimate keeps it.
LEMMA PricedKept ==
  ASSUME PricedInv, client.pricedAt # Null, client'.pricedAt = client.pricedAt,
         client.doing \in {"idle", "sending"} => client'.doing \in {"idle", "sending"},
         UNCHANGED <<config, userOp>>, \A k \in Windows : saves[k] \subseteq saves'[k]
  PROVE  PricedInv'
<1>1. CASE config.chainType = "abstract"
  BY <1>1 DEF PricedInv
<1>2. CASE config.chainType # "abstract"
  <2>1. PICK e \in Nat, l2 \in Nat : PricedAs(e, l2)
    BY <1>2 DEF PricedInv
  <2>2. \A k \in Windows : \A v : PricedAt(k, v) => PricedAt(k, v)'
    BY DEF PricedAt, SavedSince
  <2>3. {"l1BaseFee", "l2BaseFee", "tokenRatio", "scalar", "rollup", "l1GasPrice", "maxFee"} \subseteq Windows
    BY DEF Windows
  <2>4. DataPart(l2)'
    <3>1. DataPart(l2)
      BY <2>1 DEF PricedAs
    <3>2. config' = config /\ userOp' = userOp
      OBVIOUS
    <3>3. QED
      BY <2>2, <2>3, <3>1, <3>2 DEF DataPart
  <2>5. PricedAs(e, l2)'
    BY <2>1, <2>4 DEF PricedAs
  <2>6. QED
    BY <1>2, <2>5 DEF PricedInv
<1>3. QED
  BY <1>1, <1>2

\* Every step keeps what an op was priced at.
LEMMA PricedNext ==
  ASSUME AdmissionTypes, WindowsInv, PriceWindows, SizesInv, PricedInv, OraclesCharge, AdmissionNext,
         WindowsInv', SizesInv'
  PROVE  PricedInv'
<1>0. /\ DOMAIN client = ClientFields /\ {"doing", "pricedAt", "got", "quote", "need"} \subseteq ClientFields
      /\ config' = config /\ \A k \in Windows : saves[k] \subseteq saves'[k]
  <2>1. \A k \in Windows : saves[k] \subseteq saves'[k]
    BY StepSaves, SavesGrow DEF serverVars
  <2>2. QED
    BY <2>1, ConfigIsFixed DEF AdmissionTypes, ClientFields
<1>1. CASE config.chainType = "abstract"
  BY <1>0, <1>1 DEF PricedInv
<1>2. CASE config.chainType # "abstract" /\ client.pricedAt = Null
  <2>1. ASSUME client'.pricedAt = Null PROVE PricedInv'
    BY <2>1 DEF PricedInv
  <2>2. CASE UNCHANGED client \/ Fails \/ \E call : Ask(call)
    BY <1>0, <1>2, <2>1, <2>2 DEF Fails, Ask
  <2>3. CASE Quoted
    BY <1>0, <1>2, <2>1, <2>3 DEF Quoted, Fails
  <2>4. ASSUME NEW trace, Answered(trace) PROVE PricedInv'
    BY <1>0, <1>2, <2>1, <2>4 DEF Answered
  <2>5. ASSUME NEW need \in config.needs, NEW perCall \in config.perCall, Estimated(need, perCall)
        PROVE  PricedInv'
    BY <1>2, <2>5, EstimateTaken
  <2>6. QED
    BY <2>2, <2>3, <2>4, <2>5 DEF AdmissionNext, Tick, NodeChanges, StartRefresh, BaseFeeArrives,
       PriceArrives, StartOther, OtherArrives, AskPrice, AskEstimate, Send
<1>3. CASE config.chainType # "abstract" /\ client.pricedAt # Null
  <2>1. client.doing \in {"idle", "sending"}
    BY <1>3 DEF PricedInv
  <2>2. ~Quoted /\ ~AskPrice /\ ~AskEstimate /\ \A need, perCall : ~Estimated(need, perCall)
    BY <1>3, <2>1 DEF Quoted, AskPrice, AskEstimate, Estimated
  <2>3. UNCHANGED userOp
    BY <2>2 DEF AdmissionNext, Tick, NodeChanges, StartRefresh, BaseFeeArrives, PriceArrives,
       StartOther, OtherArrives, Send, Ask, Answered
  <2>4. client'.pricedAt = client.pricedAt /\ client'.doing \in {"idle", "sending"}
    <3>1. CASE UNCHANGED client
      BY <2>1, <3>1
    <3>2. CASE Send
      BY <1>0, <3>2 DEF Send, Ask
    <3>3. ASSUME NEW trace, Answered(trace)
          PROVE  client'.pricedAt = client.pricedAt /\ client'.doing \in {"idle", "sending"}
      BY <1>0, <3>3 DEF Answered
    <3>4. QED
      BY <2>2, <3>1, <3>2, <3>3 DEF AdmissionNext, Tick, NodeChanges, StartRefresh, BaseFeeArrives,
         PriceArrives, StartOther, OtherArrives
  <2>5. QED
    BY <1>0, <1>3, <2>3, <2>4, PricedKept
<1>4. QED
  BY <1>1, <1>2, <1>3


\* What the multiplier adds.
LEMMA PvgMargin ==
  ASSUME NEW a \in Nat, a >= 100, NEW m \in Nat, m > 100
  PROVE  ScaleByPercent(a, m) \in Nat /\ a + 1 <= ScaleByPercent(a, m)
<1>1. PICK all : all = a * m
  OBVIOUS
<1>2. all \in Nat /\ a * 101 <= all
  BY <1>1
<1>3. all \div 100 \in Nat /\ a + 1 <= all \div 100
  BY <1>2
<1>4. QED
  BY <1>1, <1>3 DEF ScaleByPercent

\* The data part that is required is not more than the one that was estimated,
\* while what it was priced at is recent; on the OP stack it is at most one.
LEMMA RequiredIsLess ==
  ASSUME AdmissionTypes, SizesInv, OraclesCharge, PriceWindows, WindowsInv, WindowsInv', SizesInv', now' = now,
         \A k \in Windows : saves[k] \subseteq saves'[k], config.chainType # "abstract",
         NEW n \in config.readings, NEW l2 \in Nat, DataPart(l2),
         client.pricedAt \in Int => now - client.pricedAt <= GasPriceExpiry,
         NEW live, live = OrElse(GasPrice(n), Price(0, 0)), NEW baseFee \in Nat,
         NEW r, r = RequiredL2Component(config, n, windows', userOp, live, baseFee), r # Null
  PROVE  r \in Nat /\ (r <= l2 \/ r <= 1)
<1>1. PICK s \in Scenarios : config = s.config /\ userOp.txBytes = s.userOp.txBytes
  BY DEF AdmissionTypes
<1>2. /\ {n.l1BaseFee, n.l2BaseFee} \subseteq Nat /\ userOp.txBytes \in Nat /\ now \in Nat
  BY <1>1, ReadingsAssumption DEF AdmissionTypes
<1>3. \A k \in Windows : /\ WindowOK(windows'[k], saves'[k])
                         /\ \A e \in saves'[k] : e.timestamp <= now
                         /\ \A e \in saves'[k] : e.value \in Positive
  BY DEF WindowsInv, SizesInv, WindowOK, EmptyWindow
<1>4. \A k \in Windows : /\ MinValue(windows'[k]) \in Positive \cup {Null}
                         /\ MaxValue(windows'[k]) \in Positive \cup {Null}
  BY <1>3, EndsArePositive
<1>5. ASSUME NEW k \in Windows, NEW v \in Positive, PricedAt(k, v)
      PROVE  /\ MinValue(windows'[k]) \in Positive /\ MinValue(windows'[k]) <= v
             /\ MaxValue(windows'[k]) \in Positive /\ v <= MaxValue(windows'[k])
             /\ MinValue(windows'[k]) # Null /\ MaxValue(windows'[k]) # Null
  <2>1. PICK t : t = client.pricedAt
    OBVIOUS
  <2>2. t \in Int /\ now - t <= GasPriceExpiry /\ SavedSince(saves'[k], v, t)
    BY <1>5, <2>1 DEF PricedAt, SavedSince
  <2>3. /\ MinValue(windows'[k]) \in Int /\ MinValue(windows'[k]) <= v
        /\ MaxValue(windows'[k]) \in Int /\ v <= MaxValue(windows'[k])
    <3>1. PICK S, w, u : S = saves'[k] /\ w = windows'[k] /\ u = now
      OBVIOUS
    <3>2. WindowOK(w, S) /\ v \in Int /\ SavedSince(S, v, t) /\ u \in Int
          /\ (\A e \in S : e.timestamp <= u) /\ u - t <= GasPriceExpiry
      BY <1>2, <1>3, <2>2, <3>1 DEF Positive
    <3>3. MinValue(w) \in Int /\ MinValue(w) <= v /\ MaxValue(w) \in Int /\ v <= MaxValue(w)
      BY <2>2, <3>2, RecentIsWithin
    <3>4. QED
      BY <3>1, <3>3
  <2>4. QED
    BY <1>4, <2>3, MinMaxQueueAssumption DEF Positive
<1>6. live \in Prices
  <2>1. GasPrice(n) # Null => GasPrice(n) \in Prices
    BY PriceIsNat
  <2>2. QED
    BY <2>1 DEF OrElse, Price, Prices
<1>7. CASE config.chainType = "op-stack"
  <2>1. "l1Fee" \in Windows /\ "maxFee" \in Windows /\ "priority" \in Windows /\ "baseFee" \in Windows
    BY DEF Windows
  <2>2. windows'["l1Fee"] = EmptyWindow
    BY <1>3, <2>1 DEF SizesInv, WindowOK
  <2>3. OrElse(MinValue(windows'["l1Fee"]), 1) = 1
    BY <2>2 DEF EmptyWindow, MinValue, OrElse
  <2>4. PICK fee : fee = MinOf(HighestMaxFeePerGas(windows', live),
                               MaxBaseFeePerGas(windows', baseFee)
                                 + HighestMaxPriorityFeePerGas(windows', live))
    OBVIOUS
  <2>5. fee \in Nat
    <3>1. HighestMaxFeePerGas(windows', live) \in Nat
      BY <1>4, <1>6, <2>1 DEF HighestMaxFeePerGas, Prices, Positive
    <3>2. MaxBaseFeePerGas(windows', baseFee) \in Nat
      BY <1>4, <2>1 DEF MaxBaseFeePerGas, Positive
    <3>3. HighestMaxPriorityFeePerGas(windows', live) \in Nat
      BY <1>4, <1>6, <2>1 DEF HighestMaxPriorityFeePerGas, Prices, Positive
    <3>4. QED
      BY <2>4, <3>1, <3>2, <3>3 DEF MinOf
  <2>6. r = Divided(1, fee)
    BY <1>7, <2>3, <2>4 DEF RequiredL2Component, OptimismRequired
  <2>7. \A x \in Nat \ {0} : 1 \div x \in Nat /\ 1 \div x <= 1
    BY DivisionByMore DEF Positive
  <2>8. fee # 0 /\ r = 1 \div fee
    BY <2>6 DEF Divided
  <2>9. QED
    BY <1>7, <2>5, <2>7, <2>8
<1>8. CASE config.chainType = "arbitrum"
  <2>1. PICK a \in Positive, b \in Positive :
          /\ l2 = (userOp.txBytes * a) \div b
          /\ PricedAt("l1BaseFee", a) /\ PricedAt("l2BaseFee", b)
    BY <1>8 DEF DataPart
  <2>2. "l1BaseFee" \in Windows /\ "l2BaseFee" \in Windows
    BY DEF Windows
  <2>3. PICK least, most : least = MinValue(windows'["l1BaseFee"]) /\ most = MaxValue(windows'["l2BaseFee"])
    OBVIOUS
  <2>4. least \in Nat /\ least <= a /\ least # Null /\ most \in Nat /\ b <= most /\ most # Null
    BY <1>5, <2>1, <2>2, <2>3 DEF Positive
  <2>5. n.l1BaseFee \in Positive /\ n.l2BaseFee \in Positive /\ n.l1BaseFee # 0
    BY <1>1, <1>2, <1>8 DEF OraclesCharge, Positive
  <2>6. PICK x, y, size : x = n.l1BaseFee /\ y = n.l2BaseFee /\ size = userOp.txBytes
    OBVIOUS
  <2>7. r = (((size * x) \div y) * y * least) \div (x * most)
    BY <1>8, <2>3, <2>4, <2>5, <2>6
    DEF RequiredL2Component, ArbitrumRequired, GasEstimateL1Component, OrElse
  <2>8. x \in Positive /\ y \in Positive /\ size \in Nat
    BY <1>2, <2>5, <2>6
  <2>9. /\ (((size * x) \div y) * y * least) \div (x * most) \in Nat
        /\ (((size * x) \div y) * y * least) \div (x * most) <= (size * a) \div b
    BY <2>4, <2>8, ArbitrumCosts
  <2>10. QED
    BY <2>1, <2>6, <2>7, <2>9
<1>9. CASE config.chainType = "mantle"
  <2>1. PICK t \in Positive, c \in Positive, g \in Positive, p \in Positive :
         /\ l2 = MantleFee(t, c, userOp.txBytes, g) \div p
         /\ PricedAt("tokenRatio", t) /\ PricedAt("scalar", c) /\ PricedAt("l1GasPrice", g)
         /\ PricedAt("rollup", userOp.txBytes) /\ PricedAt("maxFee", p)
    BY <1>9 DEF DataPart
  <2>2. userOp.txBytes \in Positive
    BY <1>1, <1>2, <1>9 DEF OraclesCharge, Positive
  <2>3. {"tokenRatio", "scalar", "rollup", "l1GasPrice", "maxFee"} \subseteq Windows
    BY DEF Windows
  <2>4. PICK size, t2, c2, g2, size2, p2 :
          /\ size = userOp.txBytes
          /\ t2 = MinValue(windows'["tokenRatio"]) /\ c2 = MinValue(windows'["scalar"])
          /\ g2 = MinValue(windows'["l1GasPrice"]) /\ size2 = MinValue(windows'["rollup"])
          /\ p2 = MaxValue(windows'["maxFee"])
    OBVIOUS
  <2>5. /\ t2 \in Nat /\ t2 <= t /\ t2 # Null
        /\ c2 \in Nat /\ c2 <= c /\ c2 # Null
        /\ g2 \in Nat /\ g2 <= g /\ g2 # Null
        /\ size2 \in Nat /\ size2 <= size /\ size2 # Null
        /\ p2 \in Nat /\ p <= p2 /\ p2 # Null
    <3>1. t2 \in Nat /\ t2 <= t /\ t2 # Null
      BY <1>5, <2>1, <2>3, <2>4 DEF Positive
    <3>2. c2 \in Nat /\ c2 <= c /\ c2 # Null
      BY <1>5, <2>1, <2>3, <2>4 DEF Positive
    <3>3. g2 \in Nat /\ g2 <= g /\ g2 # Null
      BY <1>5, <2>1, <2>3, <2>4 DEF Positive
    <3>4. size2 \in Nat /\ size2 <= size /\ size2 # Null
      BY <1>5, <2>1, <2>2, <2>3, <2>4 DEF Positive
    <3>5. p2 \in Nat /\ p <= p2 /\ p2 # Null
      BY <1>5, <2>1, <2>3, <2>4 DEF Positive
    <3>6. QED
      BY <3>1, <3>2, <3>3, <3>4, <3>5
  <2>6. p2 # 0
    BY <2>5 DEF Positive
  <2>7. r = MantleFee(t2, c2, size2, g2) \div p2
    BY <1>9, <2>4, <2>5, <2>6 DEF RequiredL2Component, MantleRequired, OrElse, Divided, HighestMaxFeePerGas
  <2>8. t \in Nat /\ c \in Nat /\ g \in Nat /\ size \in Nat
    BY <1>2, <2>4 DEF Positive
  <2>9. /\ MantleFee(t2, c2, size2, g2) \div p2 \in Nat
        /\ MantleFee(t2, c2, size2, g2) \div p2 <= MantleFee(t, c, size, g) \div p
    BY <2>5, <2>8, MantleCosts
  <2>10. QED
    BY <2>1, <2>4, <2>7, <2>9
<1>10. CASE config.chainType = "etherlink"
  <2>1. PICK p \in Positive : l2 = EtherlinkComponent(userOp, p) /\ PricedAt("maxFee", p)
    BY <1>10 DEF DataPart
  <2>2. PICK p2 : p2 = MaxValue(windows'["maxFee"])
    OBVIOUS
  <2>3. p2 \in Nat /\ p2 # Null /\ p <= p2 /\ p2 # 0 /\ p # 0
    BY <1>5, <2>1, <2>2 DEF Positive, Windows
  <2>4. PICK all : all = (150 + userOp.txBytes) * EtherlinkRate
    OBVIOUS
  <2>5. all \in Nat
    BY <1>2, <2>4, PreVerificationGasAssumption
  <2>6. r = all \div p2
    BY <1>10, <2>2, <2>3, <2>4 DEF RequiredL2Component, EtherlinkComponent, Divided, HighestMaxFeePerGas
  <2>7. l2 = all \div p
    BY <2>1, <2>3, <2>4 DEF EtherlinkComponent, Divided
  <2>8. all \div p2 <= all \div p /\ all \div p2 \in Nat
    BY <2>3, <2>5, DivisionByMore
  <2>9. QED
    BY <2>6, <2>7, <2>8
<1>11. CASE config.chainType \notin {"op-stack", "arbitrum", "mantle", "etherlink"}
  BY <1>11 DEF RequiredL2Component
<1>12. QED
  BY <1>7, <1>8, <1>9, <1>10, <1>11

\* Why an op is refused for its preVerificationGas.
LEMMA PvgRefused ==
  ASSUME NEW trace, Refusal(trace) = "pvg"
  PROVE  RequiredPvg # Null /\ RequiredPvg > userOp.preVerificationGas
<1> DEFINE overCap == config.provenGasCap # Null
                      /\ ScaleByPercent(GasFloor + (IF userOp.eip7702Auth = Null THEN 0 ELSE 40000), 105)
                           > config.provenGasCap
           badTrace == config.safeMode /\ ~TraceAllowed(trace)
           noPrice == ~SkipsPricing /\ NeedsLive /\ GasPrice(client.got) = Null
           twoFees == config.legacyTransactions /\ userOp.maxFeePerGas # userOp.maxPriorityFeePerGas
           tooLow == ~SkipsPricing /\ ~config.safeMode /\ ~PriceEnough
           limits == \/ userOp.verificationGasLimit < 10000
                     \/ ~userOp.boost /\ userOp.preVerificationGas = 0
                     \/ GasFloor > MaxGasPerBundle
           noPvg == ~SkipsPricing /\ RequiredPvg = Null
           tooLittle == ~SkipsPricing /\ RequiredPvg > userOp.preVerificationGas
<1>1. Refusal(trace) = IF overCap THEN "gasCap" ELSE IF ~Timely THEN "validity"
                       ELSE IF badTrace THEN "opcode" ELSE IF noPrice THEN "error"
                       ELSE IF ~AuthValid(TRUE) THEN "auth" ELSE IF twoFees THEN "legacyFees"
                       ELSE IF tooLow THEN "fees" ELSE IF limits THEN "limits"
                       ELSE IF noPvg THEN "error" ELSE IF tooLittle THEN "pvg" ELSE "accepted"
  BY DEF Refusal
<1> HIDE DEF overCap, badTrace, noPrice, twoFees, tooLow, limits, noPvg, tooLittle
<1>2. ~noPvg /\ tooLittle
  BY <1>1
<1>3. QED
  BY <1>2 DEF noPvg, tooLittle

\* An estimate is enough while what it was priced at is recent.
LEMMA EstimateIsEnough ==
  ASSUME AdmissionTypes, SizesInv, OraclesCharge, PriceWindows, WindowsInv, WindowsInv', SizesInv', now' = now,
         \A k \in Windows : saves[k] \subseteq saves'[k], config.chainType # "abstract",
         PvgMultiplier > 100, client.got \in config.readings,
         NEW e \in Nat, NEW l2 \in Nat, PricedAs(e, l2),
         client.pricedAt \in Int => now - client.pricedAt <= GasPriceExpiry,
         RequiredPvg # Null
  PROVE  /\ RequiredPvg \in Nat /\ userOp.preVerificationGas \in Nat
         /\ RequiredPvg <= userOp.preVerificationGas
<1>1. PICK n, live, baseFee : /\ n = client.got /\ live = OrElse(GasPrice(n), Price(0, 0))
                              /\ baseFee = BaseFee(n)
  OBVIOUS
<1>2. PICK r : r = RequiredL2Component(config, n, windows', userOp, live, baseFee)
  OBVIOUS
<1>3. r # Null /\ RequiredPvg = ExecutionComponent(config, userOp) + r
  BY <1>1, <1>2 DEF RequiredPvg
<1>4. n \in config.readings /\ baseFee \in Nat
  BY <1>1, BaseFeeIsNat
<1>5. DataPart(l2)
  BY DEF PricedAs
<1>6. r \in Nat /\ (r <= l2 \/ r <= 1)
  BY <1>1, <1>2, <1>3, <1>4, <1>5, RequiredIsLess
<1>7. PICK part, pvg : part = ExecutionComponent(config, userOp) /\ pvg = userOp.preVerificationGas
  OBVIOUS
<1>8. part \in Nat /\ part <= e /\ e >= 100 /\ pvg = ScaleByPercent(e + l2, PvgMultiplier)
  BY <1>7 DEF PricedAs
<1>9. PICK all : all = e + l2
  OBVIOUS
<1>10. all \in Nat /\ all >= 100 /\ PvgMultiplier \in Nat
  BY <1>8, <1>9, GasEstimationAssumption
<1>11. pvg \in Nat /\ all + 1 <= pvg
  BY <1>8, <1>9, <1>10, PvgMargin
<1>12. part + r <= pvg /\ part + r \in Nat
  BY <1>6, <1>8, <1>9, <1>11
<1>13. QED
  BY <1>3, <1>7, <1>11, <1>12

\* The answer to a submission keeps EstimateStaysEnough.
LEMMA EnoughNext ==
  ASSUME AdmissionTypes, SizesInv, OraclesCharge, PriceWindows, WindowsInv, PricedInv, PvgMultiplier > 100,
         AdmissionNext, WindowsInv', SizesInv'
  PROVE  EstimateStaysEnough'
<1>1. CASE client'.outcome = "none"
  BY <1>1 DEF EstimateStaysEnough
<1>2. ASSUME NEW trace \in config.traces, Answered(trace), client'.outcome = Refusal(trace),
             client'.at = now
      PROVE  EstimateStaysEnough'
  <2>1. client'.pricedAt = client.pricedAt /\ client.got \in config.readings
        /\ now' = now /\ config' = config
    BY <1>2 DEF AdmissionTypes, ClientFields, Answered
  <2> SUFFICES ASSUME client.pricedAt # Null, Refusal(trace) = "pvg", config.chainType # "abstract",
                      ~(now - client.pricedAt > GasPriceExpiry)
               PROVE  FALSE
    BY <1>2, <2>1 DEF EstimateStaysEnough
  <2>2. PICK e \in Nat, l2 \in Nat : PricedAs(e, l2)
    BY DEF PricedInv
  <2>3. client.pricedAt \in Int => now - client.pricedAt <= GasPriceExpiry
    BY MinMaxQueueAssumption DEF AdmissionTypes
  <2>4. \A k \in Windows : saves[k] \subseteq saves'[k]
    BY StepSaves, SavesGrow DEF serverVars
  <2>5. RequiredPvg # Null /\ RequiredPvg > userOp.preVerificationGas
    BY PvgRefused
  <2>6. /\ RequiredPvg \in Nat /\ userOp.preVerificationGas \in Nat
        /\ RequiredPvg <= userOp.preVerificationGas
    BY <2>1, <2>2, <2>3, <2>4, <2>5, EstimateIsEnough
  <2>7. QED
    BY <2>5, <2>6
<1>3. QED
  BY <1>1, <1>2, OnlyAnswered

\* With a multiplier that adds something, and oracles that charge something, an
\* estimate is enough until what it was priced at expires.
THEOREM EstimateAlwaysEnough ==
  ASSUME PvgMultiplier > 100, OraclesCharge PROVE AdmissionSpec => []EstimateStaysEnough
<1> DEFINE Inv == SizesInv /\ PricedInv /\ EstimateStaysEnough
<1>1. AdmissionInit => Inv
  <2> SUFFICES ASSUME AdmissionInit PROVE Inv
    OBVIOUS
  <2>1. SizesInv
    <3>1. PICK s \in Scenarios : config = s.config /\ userOp = s.userOp
      BY DEF AdmissionInit
    <3>2. "l1Fee" \in Windows /\ \A k \in Windows : saves[k] = {}
      BY DEF AdmissionInit, Windows
    <3>3. QED
      BY <3>1, <3>2 DEF SizesInv
  <2>2. client.pricedAt = Null
    BY DEF AdmissionInit, NewClient
  <2>3. QED
    BY <2>1, <2>2 DEF PricedInv, EstimateStaysEnough
<1>2. AdmissionInv /\ AdmissionInv' /\ Inv /\ [AdmissionNext]_admissionVars => Inv'
  <2> SUFFICES ASSUME AdmissionInv, AdmissionInv', Inv, [AdmissionNext]_admissionVars PROVE Inv'
    OBVIOUS
  <2>0. AdmissionTypes /\ WindowsInv /\ PriceWindows /\ WindowsInv'
    BY DEF AdmissionInv
  <2>1. CASE AdmissionNext
    <3>1. SizesInv'
      BY <2>0, <2>1, SizesNext
    <3>2. PricedInv'
      BY <2>0, <2>1, <3>1, PricedNext
    <3>3. EstimateStaysEnough'
      BY <2>0, <2>1, <3>1, EnoughNext
    <3>4. QED
      BY <3>1, <3>2, <3>3
  <2>2. CASE UNCHANGED admissionVars
    <3>1. /\ config' = config /\ userOp' = userOp /\ client' = client /\ saves' = saves
      BY <2>2 DEF admissionVars
    <3>2. SizesInv' /\ EstimateStaysEnough'
      BY <3>1 DEF SizesInv, EstimateStaysEnough
    <3>3. PricedInv'
      <4>1. CASE client.pricedAt = Null
        BY <3>1, <4>1 DEF PricedInv
      <4>2. CASE client.pricedAt # Null
        BY <3>1, <4>2, PricedKept
      <4>3. QED
        BY <4>1, <4>2
    <3>4. QED
      BY <3>2, <3>3
  <2>3. QED
    BY <2>1, <2>2
<1>3. Inv => EstimateStaysEnough
  OBVIOUS
<1>4. QED
  BY <1>1, <1>2, <1>3, AdmissionInvHolds, PTL DEF AdmissionSpec

-----------------------------------------------------------------------------
(***************************************************************************)
(* What a bundle bids.  ReplacementStands compares the last attempt of one *)
(* send with what an earlier send left at the node.  Inductive is how far  *)
(* the attempts of a send have risen above what was asked for: what the    *)
(* node holds is at most the record raised by all the retries of a send,   *)
(* and a send that is only underpriced rises just as fast from a record    *)
(* that is raised by the least bump.                                       *)
(***************************************************************************)

FeeNames == {"maxFeePerGas", "maxPriorityFeePerGas"}

Bids == [maxFeePerGas : Nat, maxPriorityFeePerGas : Nat]

\* The defaults of the options.
DefaultBids ==
  /\ ReplacementMinBump = 110
  /\ \A c \in Bidders : /\ c.transactionUnderpricedMultiplier = 150
                        /\ c.sendHandleOpsRetryCount <= 3

\* A fee after k retries that were underpriced.
Raised(fee, k) ==
  IF k = 0 THEN fee ELSE IF k = 1 THEN ScaleByPercent(fee, 150)
  ELSE ScaleByPercent(ScaleByPercent(fee, 150), 150)

\* The ceiling is reached.
Capped(fee) == bidder.maxBundlingGasPrice # Null /\ fee >= bidder.maxBundlingGasPrice

Retries == bidder.sendHandleOpsRetryCount - 1

BidInv ==
  /\ bidder \in Bidders /\ submissions \in Nat
  /\ recorded # Null =>
       /\ recorded \in Bids /\ held \in Bids
       /\ \A f \in FeeNames : held[f] <= Raised(recorded[f], Retries)
  /\ phase = "sending" =>
       /\ asked \in Bids /\ request \in Bids
       /\ tries \in 0 .. Retries
       /\ \A f \in FeeNames : request[f] <= Raised(asked[f], tries)
       /\ refusals \subseteq {"underpriced"} =>
            \A f \in FeeNames : request[f] >= Raised(asked[f], tries) \/ Capped(request[f])
       /\ recorded # Null =>
            \A f \in FeeNames : asked[f] >= ScaleByPercent(recorded[f], 110) \/ Capped(asked[f])
  /\ phase \in {"ready", "sending", "tracked", "replacing", "rotated", "freed"}
  /\ (phase = "freed" /\ refusals = {"underpriced"} /\ recorded # Null) =>
       /\ request \in Bids
       /\ \A f \in FeeNames :
            request[f] >= Raised(ScaleByPercent(recorded[f], 110), Retries) \/ Capped(request[f])

\* Retries keep the order of the fees and do not lower them.
LEMMA RaisedInOrder ==
  ASSUME NEW a \in Nat, NEW b \in Nat, a <= b, NEW k \in 0 .. 2
  PROVE  Raised(a, k) <= Raised(b, k) /\ Raised(a, k) \in Nat /\ a <= Raised(a, k)
BY DEF Raised, ScaleByPercent

\* One more retry.
LEMMA RaisedOnce ==
  ASSUME NEW a \in Nat, NEW k \in {0, 1}
  PROVE  Raised(a, k + 1) = ScaleByPercent(Raised(a, k), 150)
BY DEF Raised

\* More retries raise it more.
LEMMA RaisedMore ==
  ASSUME NEW a \in Nat, NEW k \in 0 .. 2, NEW l \in 0 .. 2, k <= l
  PROVE  Raised(a, k) <= Raised(a, l)
BY DEF Raised, ScaleByPercent

\* The bump and the retries: what the order of the two loses.
LEMMA BumpThenRaise ==
  ASSUME NEW a \in Nat, NEW k \in 0 .. 2
  PROVE  Raised(ScaleByPercent(a, 110), k) + 2 >= ScaleByPercent(Raised(a, k), 110)
BY DEF Raised, ScaleByPercent

\* The multiplier of an attempt is a number.
LEMMA MultiplierIsNat == Multiplier \in [Nat -> Nat]
<1> DEFINE step == [v \in Nat |-> (v * 120) \div 100]
           Step(f) == [n \in Nat |-> IF n = 0 THEN 100 ELSE (f[n - 1] * 120) \div 100]
<1>1. step \in [Nat -> Nat]
  OBVIOUS
<1> HIDE DEF step
<1>2. PICK f \in [Nat -> Nat] : f[0] = 100 /\ \A n \in Nat : f[n + 1] = step[f[n]]
  <2>1. PICK V, a : V = Nat /\ a = 100
    OBVIOUS
  <2>2. a \in V /\ step \in [V -> V]
    BY <1>1, <2>1
  <2>3. \E f \in [Nat -> V] : f[0] = a /\ \A n \in Nat : f[n + 1] = step[f[n]]
    BY ONLY <2>2, IterationExists
  <2>4. QED
    BY <2>1, <2>3
<1> USE DEF step
<1>3. ASSUME NEW n \in Nat PROVE f[n] = IF n = 0 THEN 100 ELSE (f[n - 1] * 120) \div 100
  <2>1. CASE n = 0
    BY <1>2, <2>1
  <2>2. CASE n # 0
    <3>1. n - 1 \in Nat /\ n - 1 + 1 = n
      BY <2>2
    <3>2. f[n] = step[f[n - 1]] /\ f[n - 1] \in Nat
      BY <1>2, <3>1
    <3>3. QED
      BY <2>2, <3>2
  <2>3. QED
    BY <2>1, <2>2
<1>4. f = Step(f)
  BY <1>3
<1>5. Multiplier = CHOOSE g : g = Step(g)
  BY DEF Multiplier
<1> HIDE DEF Step
<1>6. Multiplier = Step(Multiplier)
  BY <1>4, <1>5
<1> USE DEF Step
<1> DEFINE good == { n \in Nat : Multiplier[n] \in Nat }
<1>7. 0 \in good
  BY <1>6
<1>8. ASSUME NEW n \in Nat, n \in good PROVE n + 1 \in good
  <2>1. n + 1 \in Nat /\ n + 1 # 0 /\ n + 1 - 1 = n
    OBVIOUS
  <2>2. Multiplier[n + 1] = (Multiplier[n] * 120) \div 100
    BY <1>6, <2>1
  <2>3. QED
    BY <1>8, <2>2
<1> HIDE DEF good
<1>9. \A n \in Nat : n \in good
  BY <1>7, <1>8, InductionOnNat
<1>10. DOMAIN Multiplier = Nat
  BY <1>6
<1>11. Multiplier = [n \in Nat |-> Multiplier[n]]
  BY <1>6
<1>12. QED
  BY <1>9, <1>11 DEF good

\* What the commission is divided by is a positive number.
LEMMA PowerIsPositive == PowerOfTwo \in [Nat -> Nat \ {0}]
<1> DEFINE step == [v \in Nat \ {0} |-> 2 * v]
           Step(f) == [n \in Nat |-> IF n = 0 THEN 1 ELSE 2 * f[n - 1]]
<1>1. step \in [Nat \ {0} -> Nat \ {0}]
  OBVIOUS
<1> HIDE DEF step
<1>2. PICK f \in [Nat -> Nat \ {0}] : f[0] = 1 /\ \A n \in Nat : f[n + 1] = step[f[n]]
  <2>1. PICK V, a : V = Nat \ {0} /\ a = 1
    OBVIOUS
  <2>2. a \in V /\ step \in [V -> V]
    BY <1>1, <2>1
  <2>3. \E f \in [Nat -> V] : f[0] = a /\ \A n \in Nat : f[n + 1] = step[f[n]]
    BY ONLY <2>2, IterationExists
  <2>4. QED
    BY <2>1, <2>3
<1> USE DEF step
<1>3. ASSUME NEW n \in Nat PROVE f[n] = IF n = 0 THEN 1 ELSE 2 * f[n - 1]
  <2>1. CASE n = 0
    BY <1>2, <2>1
  <2>2. CASE n # 0
    <3>1. n - 1 \in Nat /\ n - 1 + 1 = n
      BY <2>2
    <3>2. f[n] = step[f[n - 1]] /\ f[n - 1] \in Nat \ {0}
      BY <1>2, <3>1
    <3>3. QED
      BY <2>2, <3>2
  <2>3. QED
    BY <2>1, <2>2
<1>4. f = Step(f)
  BY <1>3
<1>5. PowerOfTwo = CHOOSE g : g = Step(g)
  BY DEF PowerOfTwo
<1> HIDE DEF Step
<1>6. PowerOfTwo = Step(PowerOfTwo)
  BY <1>4, <1>5
<1> USE DEF Step
<1> DEFINE good == { n \in Nat : PowerOfTwo[n] \in Nat \ {0} }
<1>7. 0 \in good
  BY <1>6
<1>8. ASSUME NEW n \in Nat, n \in good PROVE n + 1 \in good
  <2>1. n + 1 \in Nat /\ n + 1 # 0 /\ n + 1 - 1 = n
    OBVIOUS
  <2>2. PowerOfTwo[n + 1] = 2 * PowerOfTwo[n]
    BY <1>6, <2>1
  <2>3. QED
    BY <1>8, <2>2
<1> HIDE DEF good
<1>9. \A n \in Nat : n \in good
  BY <1>7, <1>8, InductionOnNat
<1>11. PowerOfTwo = [n \in Nat |-> PowerOfTwo[n]]
  BY <1>6
<1>12. QED
  BY <1>9, <1>11 DEF good

\* The price of a bundle is made of numbers, whatever the network asks.
LEMMA BundlePriceIsBid ==
  ASSUME NEW c \in Bidders, NEW k \in Nat, NEW n \in Networks, NEW breakEven \in BreakEvenPrices
  PROVE  BundleGasPrice(c, k, n, breakEven) \in Bids
<1> DEFINE m == MinOf(Multiplier[k], c.resubmitMultiplierCeiling)
           network == IF k = 0 THEN n.price ELSE Scaled(n.price, m)
           bundling == ScaleByPercent(breakEven, 100 - (c.bundlerInitialCommission \div PowerOfTwo[k]))
<1>1. /\ {c.resubmitMultiplierCeiling, c.bundlerInitialCommission, c.arbitrumGasBidMultiplier,
          c.arbitrumPriorityFeePerGas} \subseteq Nat
      /\ n.price \in Bids /\ {n.price.maxFeePerGas, n.price.maxPriorityFeePerGas, n.baseFee, breakEven} \subseteq Nat
  BY BiddingAssumption DEF Bids
<1>2. m \in Nat
  BY <1>1, MultiplierIsNat DEF MinOf
<1>3. bundling \in Int
  <2>1. \A a \in Nat, b \in Nat \ {0} : 100 - (a \div b) \in Int
    OBVIOUS
  <2>2. PowerOfTwo[k] \in Nat \ {0}
    BY PowerIsPositive
  <2>3. 100 - (c.bundlerInitialCommission \div PowerOfTwo[k]) \in Int
    BY <1>1, <2>1, <2>2
  <2>4. \A v \in Nat, p \in Int : ScaleByPercent(v, p) \in Int
    <3>1. \A v \in Nat, p \in Int : v * p \in Int
      OBVIOUS
    <3>2. \A x \in Int : x \div 100 \in Int
      OBVIOUS
    <3>3. QED
      BY <3>1, <3>2 DEF ScaleByPercent
  <2>5. QED
    BY <1>1, <2>3, <2>4
<1>4. network.maxFeePerGas \in Nat /\ network.maxPriorityFeePerGas \in Nat
  BY <1>1, <1>2, ScaledIsNat DEF Scaled, Price
<1>5. ArbitrumGasPrice(c, k, n) \in Bids
  <2>1. 100 + 20 * k \in Nat
    OBVIOUS
  <2>2. /\ ScaleByPercent(n.baseFee, 100 + 20 * k) \in Nat
        /\ ScaleByPercent(c.arbitrumPriorityFeePerGas, 100 + 20 * k) \in Nat
    BY <1>1, <2>1, ScaledIsNat
  <2>3. \A x, y \in Nat : x * y \in Nat /\ x + y \in Nat
    OBVIOUS
  <2>4. QED
    BY <1>1, <2>2, <2>3 DEF ArbitrumGasPrice, Price, Bids, MaxOf
<1> HIDE DEF network, bundling
<1>6. \A limit \in Nat : bundling > limit => bundling \in Nat
  BY <1>3
<1>7. MaxOf(bundling, network.maxFeePerGas) \in Nat
  BY <1>3, <1>4 DEF MaxOf
<1>8. MinOf(network.maxFeePerGas, n.baseFee + network.maxPriorityFeePerGas) \in Nat
  BY <1>1, <1>4 DEF MinOf
<1>9. k = 0 \/ network = Scaled(n.price, m)
  BY DEF network
<1>10. CASE c.chainType = "arbitrum"
  BY <1>5, <1>10 DEF BundleGasPrice
<1>11. CASE c.chainType # "arbitrum" /\ c.legacyTransactions
  BY <1>7, <1>11 DEF BundleGasPrice, network, bundling, Price, Bids
<1>12. CASE /\ c.chainType # "arbitrum" /\ ~c.legacyTransactions
            /\ bundling > MinOf(network.maxFeePerGas, n.baseFee + network.maxPriorityFeePerGas)
  BY <1>6, <1>8, <1>12 DEF BundleGasPrice, network, bundling, Price, Bids
<1>13. ASSUME c.chainType # "arbitrum", ~c.legacyTransactions,
              ~(bundling > MinOf(network.maxFeePerGas, n.baseFee + network.maxPriorityFeePerGas))
       PROVE  BundleGasPrice(c, k, n, breakEven) \in Bids
  <2>1. BundleGasPrice(c, k, n, breakEven) = network
    BY <1>13 DEF BundleGasPrice, network, bundling
  <2>2. network \in Bids
    BY <1>1, <1>4 DEF network, Scaled, Price, Bids
  <2>3. QED
    BY <2>1, <2>2
<1>14. QED
  BY <1>10, <1>11, <1>12, <1>13

\* The ceiling cuts off what is above it.
LEMMA ClampedIsBid ==
  ASSUME NEW c \in Bidders, NEW p \in Bids
  PROVE  /\ Clamped(c, p) \in Bids
         /\ \A f \in FeeNames :
              Clamped(c, p)[f] = IF c.maxBundlingGasPrice = Null THEN p[f]
                                 ELSE MinOf(p[f], c.maxBundlingGasPrice)
<1>1. c.maxBundlingGasPrice # Null => c.maxBundlingGasPrice \in Nat
  BY BiddingAssumption
<1>2. CASE c.maxBundlingGasPrice = Null
  BY <1>2 DEF Clamped
<1>3. CASE c.maxBundlingGasPrice # Null
  BY <1>1, <1>3 DEF Clamped, AtMost, Price, Bids, FeeNames, MinOf
<1>4. QED
  BY <1>2, <1>3

\* A scaled bid is scaled in both fees.
LEMMA ScaledIsBid ==
  ASSUME NEW p \in Bids, NEW percent \in Nat
  PROVE  /\ Scaled(p, percent) \in Bids
         /\ \A f \in FeeNames : Scaled(p, percent)[f] = ScaleByPercent(p[f], percent)
BY ScaledIsNat DEF Scaled, Price, Bids, FeeNames

\* A replacement asks for the least bump in both fees.
LEMMA FlooredIsBid ==
  ASSUME NEW p \in Bids, NEW previous, previous # Null => previous \in Bids
  PROVE  /\ Floored(p, previous) \in Bids
         /\ previous # Null => \A f \in FeeNames :
              Floored(p, previous)[f] >= ScaleByPercent(previous[f], ReplacementMinBump)
<1>1. CASE previous = Null
  BY <1>1 DEF Floored
<1>2. CASE previous # Null
  <2>1. PICK q : q = Scaled(previous, ReplacementMinBump)
    OBVIOUS
  <2>2. q \in Bids /\ \A f \in FeeNames : q[f] = ScaleByPercent(previous[f], ReplacementMinBump)
    BY <1>2, <2>1, ScaledIsBid, BiddingAssumption
  <2>3. Floored(p, previous) = AtLeast(p, q)
    BY <1>2, <2>1 DEF Floored
  <2>4. AtLeast(p, q) \in Bids /\ \A f \in FeeNames : AtLeast(p, q)[f] >= q[f]
    BY <2>2 DEF AtLeast, Price, Bids, FeeNames, MaxOf
  <2>5. QED
    BY <2>2, <2>3, <2>4
<1>3. QED
  BY <1>1, <1>2

\* A price is asked for: at least a tenth above the record.
LEMMA BidKeeps ==
  ASSUME DefaultBids, BidInv, NEW n \in Networks, NEW breakEven \in BreakEvenPrices, Bid(n, breakEven)
  PROVE  BidInv'
<1>0. /\ bidder \in Bidders /\ submissions \in Nat
      /\ recorded # Null => recorded \in Bids
      /\ ReplacementMinBump = 110
  BY DEF BidInv, DefaultBids
<1>1. BundleGasPrice(bidder, submissions, n, breakEven) \in Bids
  BY <1>0, BundlePriceIsBid
<1>2. PICK p : p = Floored(BundleGasPrice(bidder, submissions, n, breakEven), recorded)
  OBVIOUS
<1>3. /\ p \in Bids
      /\ recorded # Null => \A f \in FeeNames : p[f] >= ScaleByPercent(recorded[f], 110)
  BY <1>0, <1>1, <1>2, FlooredIsBid
<1>4. asked' = Clamped(bidder, p)
  BY <1>2 DEF Bid
<1>5. /\ asked' \in Bids
      /\ \A f \in FeeNames : asked'[f] = IF bidder.maxBundlingGasPrice = Null THEN p[f]
                                         ELSE MinOf(p[f], bidder.maxBundlingGasPrice)
  BY <1>0, <1>3, <1>4, ClampedIsBid
<1>6. ASSUME recorded # Null, NEW f \in FeeNames
      PROVE  asked'[f] >= ScaleByPercent(recorded[f], 110) \/ Capped(asked'[f])
  <2>1. bidder.maxBundlingGasPrice # Null => bidder.maxBundlingGasPrice \in Nat
    BY <1>0, BiddingAssumption
  <2>2. p[f] \in Nat /\ p[f] >= ScaleByPercent(recorded[f], 110)
    BY <1>3, <1>6 DEF Bids, FeeNames
  <2>3. QED
    BY <1>5, <2>1, <2>2 DEF Capped, MinOf
<1>7. 0 \in 0 .. Retries /\ bidder.sendHandleOpsRetryCount \in Nat \ {0}
  BY <1>0, BiddingAssumption DEF Retries
<1>8. \A f \in FeeNames : asked'[f] \in Nat /\ Raised(asked'[f], 0) = asked'[f]
  BY <1>5 DEF Bids, FeeNames, Raised
<1>9. /\ bidder' = bidder /\ submissions' = submissions /\ recorded' = recorded /\ held' = held
      /\ request' = asked' /\ tries' = 0 /\ refusals' = {} /\ phase' = "sending"
  BY DEF Bid
<1>10. Retries' = Retries
  BY <1>9 DEF Retries
<1>11. \A f \in FeeNames : recorded # Null => asked'[f] >= ScaleByPercent(recorded[f], 110) \/ Capped(asked[f])'
  BY <1>6, <1>9 DEF Capped
<1>12. recorded # Null => /\ held \in Bids
                          /\ \A f \in FeeNames : held[f] <= Raised(recorded[f], Retries)
  BY DEF BidInv
<1>13. \A f \in FeeNames : asked'[f] <= Raised(asked'[f], 0) /\ asked'[f] >= Raised(asked'[f], 0)
  BY <1>8
<1>14. QED
  BY <1>0, <1>5, <1>7, <1>9, <1>10, <1>11, <1>12, <1>13 DEF BidInv

\* An attempt is sent: at most what the retries made of it, and no less unless
\* the ceiling cut it off.
LEMMA SentIs ==
  ASSUME DefaultBids, BidInv, phase = "sending", NEW sent, sent = Attempted(bidder, request)
  PROVE  /\ sent \in Bids
         /\ \A f \in FeeNames : sent[f] <= Raised(asked[f], tries)
         /\ refusals \subseteq {"underpriced"} =>
              \A f \in FeeNames : sent[f] >= Raised(asked[f], tries) \/ Capped(sent[f])
<1>0. /\ bidder \in Bidders /\ asked \in Bids /\ request \in Bids
      /\ \A f \in FeeNames : request[f] <= Raised(asked[f], tries)
      /\ refusals \subseteq {"underpriced"} =>
           \A f \in FeeNames : request[f] >= Raised(asked[f], tries) \/ Capped(request[f])
      /\ tries \in 0 .. 2
  <2>1. tries \in 0 .. Retries /\ bidder \in Bidders
    BY DEF BidInv
  <2>2. Retries \in Nat /\ Retries <= 2
    BY <2>1, BiddingAssumption DEF Retries, DefaultBids
  <2>3. QED
    BY <2>1, <2>2 DEF BidInv
<1>1. /\ sent \in Bids
      /\ \A f \in FeeNames : sent[f] = IF bidder.maxBundlingGasPrice = Null THEN request[f]
                                       ELSE MinOf(request[f], bidder.maxBundlingGasPrice)
  BY <1>0, ClampedIsBid DEF Attempted
<1>2. bidder.maxBundlingGasPrice # Null => bidder.maxBundlingGasPrice \in Nat
  BY <1>0, BiddingAssumption
<1>3. \A f \in FeeNames : request[f] \in Nat /\ Raised(asked[f], tries) \in Nat
  BY <1>0, RaisedInOrder DEF Bids, FeeNames
<1>4. QED
  BY <1>0, <1>1, <1>2, <1>3 DEF MinOf, Capped

\* What the node accepts replaces what it held and the record.
LEMMA AcceptKeeps ==
  ASSUME DefaultBids, BidInv, NEW baseFee, Accept(baseFee)
  PROVE  BidInv'
<1> DEFINE sent == Attempted(bidder, request)
<1>1. /\ phase = "sending" /\ held' = sent /\ recorded' = asked /\ phase' = "tracked"
      /\ submissions' = submissions + 1 /\ bidder' = bidder /\ refusals' = {}
  BY DEF Accept
<1>2. /\ sent \in Bids
      /\ \A f \in FeeNames : sent[f] <= Raised(asked[f], tries)
  BY <1>1, SentIs
<1>3. /\ bidder \in Bidders /\ submissions \in Nat /\ asked \in Bids /\ tries \in 0 .. Retries
  BY <1>1 DEF BidInv
<1>4. Retries \in 0 .. 2
  BY <1>3, BiddingAssumption DEF Retries, DefaultBids
<1>5. \A f \in FeeNames : sent[f] <= Raised(asked[f], Retries)
  <2>1. ASSUME NEW f \in FeeNames PROVE sent[f] <= Raised(asked[f], Retries)
    <3>1. asked[f] \in Nat /\ sent[f] \in Nat /\ tries \in 0 .. 2 /\ tries <= Retries
      BY <1>2, <1>3, <1>4 DEF Bids, FeeNames
    <3>2. Raised(asked[f], tries) <= Raised(asked[f], Retries)
      BY <1>4, <3>1, RaisedMore
    <3>3. Raised(asked[f], tries) \in Nat /\ Raised(asked[f], Retries) \in Nat
      BY <1>4, <3>1, RaisedInOrder
    <3>4. QED
      BY <1>2, <3>1, <3>2, <3>3
  <2>2. QED
    BY <2>1
<1>6. Retries' = Retries
  BY <1>1 DEF Retries
<1> HIDE DEF sent
<1>7. QED
  BY <1>1, <1>2, <1>3, <1>5, <1>6 DEF BidInv

\* A retry after a refusal.
LEMMA RetriedIs ==
  ASSUME NEW c \in Bidders, bidder = c, c.transactionUnderpricedMultiplier = 150,
         NEW p \in Bids, NEW why, NEW bare \in BOOLEAN
  PROVE  /\ Retried(p, why, bare) \in Bids
         /\ \A f \in FeeNames : /\ p[f] \in Nat
                                /\ p[f] <= Retried(p, why, bare)[f]
                                /\ Retried(p, why, bare)[f] <= ScaleByPercent(p[f], 150)
                                /\ why = "underpriced" =>
                                     Retried(p, why, bare)[f] = ScaleByPercent(p[f], 150)
<1>1. \A f \in FeeNames : p[f] \in Nat
  BY DEF Bids, FeeNames
<1>2. \A x \in Nat : /\ x <= ScaleByPercent(x, 125) /\ ScaleByPercent(x, 125) <= ScaleByPercent(x, 150)
                     /\ x <= ScaleByPercent(x, 150)
  BY DEF ScaleByPercent
<1>3. \A percent \in {125, 150} :
        /\ Scaled(p, percent) \in Bids
        /\ \A f \in FeeNames : Scaled(p, percent)[f] = ScaleByPercent(p[f], percent)
  BY ScaledIsBid
<1>4. \A f \in FeeNames : ScaleByPercent(p[f], 150) \in Nat /\ ScaleByPercent(p[f], 125) \in Nat
  <2>1. \A x \in Nat : ScaleByPercent(x, 150) \in Nat /\ ScaleByPercent(x, 125) \in Nat
    BY DEF ScaleByPercent
  <2>2. QED
    BY <1>1, <2>1
<1>5. CASE why = "underpriced"
  BY <1>1, <1>2, <1>3, <1>4, <1>5 DEF Retried
<1>6. CASE why # "underpriced" /\ bare
  BY <1>1, <1>2, <1>3, <1>4, <1>6 DEF Retried
<1>7. CASE why # "underpriced" /\ ~bare
  BY <1>1, <1>2, <1>3, <1>4, <1>7 DEF Retried
<1>8. QED
  BY <1>5, <1>6, <1>7

\* The node refuses an attempt: the next one is raised, or the send has failed.
LEMMA RefuseKeeps ==
  ASSUME DefaultBids, BidInv, NEW baseFee, NEW bare \in BOOLEAN, Refuse(baseFee, bare)
  PROVE  BidInv'
<1> DEFINE sent == Attempted(bidder, request)
           why == Refused(sent, baseFee)
<1>1. /\ phase = "sending" /\ why # "none" /\ tries' = tries + 1 /\ refusals' = refusals \cup {why}
      /\ bidder' = bidder /\ submissions' = submissions /\ recorded' = recorded
      /\ asked' = asked /\ held' = held
  BY DEF Refuse
<1>2. /\ sent \in Bids
      /\ \A f \in FeeNames : sent[f] <= Raised(asked[f], tries)
      /\ refusals \subseteq {"underpriced"} =>
           \A f \in FeeNames : sent[f] >= Raised(asked[f], tries) \/ Capped(sent[f])
  BY <1>1, SentIs
<1>3. /\ bidder \in Bidders /\ submissions \in Nat /\ asked \in Bids /\ tries \in 0 .. Retries
      /\ recorded # Null => /\ recorded \in Bids /\ held \in Bids
                            /\ \A f \in FeeNames : held[f] <= Raised(recorded[f], Retries)
      /\ recorded # Null =>
           \A f \in FeeNames : asked[f] >= ScaleByPercent(recorded[f], 110) \/ Capped(asked[f])
  BY <1>1 DEF BidInv
<1>4. /\ Retries \in 0 .. 2 /\ bidder.transactionUnderpricedMultiplier = 150
      /\ bidder.sendHandleOpsRetryCount = Retries + 1
  BY <1>3, BiddingAssumption DEF Retries, DefaultBids
<1>5. Retries' = Retries /\ \A f \in FeeNames : asked[f] \in Nat /\ sent[f] \in Nat
  BY <1>1, <1>2, <1>3 DEF Retries, Bids, FeeNames
<1>6. CASE tries + 1 = bidder.sendHandleOpsRetryCount
  <2>1. phase' = "freed" /\ request' = sent /\ tries = Retries
    BY <1>3, <1>4, <1>6 DEF Refuse
  <2>2. ASSUME recorded # Null, refusals' = {"underpriced"}, NEW f \in FeeNames
        PROVE  sent[f] >= Raised(ScaleByPercent(recorded[f], 110), Retries) \/ Capped(sent[f])
    <3>1. /\ refusals \subseteq {"underpriced"} /\ recorded[f] \in Nat
      BY <1>1, <1>3, <2>2 DEF Bids, FeeNames
    <3>2. ScaleByPercent(recorded[f], 110) \in Nat
      BY <3>1, ScaledIsNat
    <3>3. bidder.maxBundlingGasPrice # Null => bidder.maxBundlingGasPrice \in Nat
      BY <1>3, BiddingAssumption
    <3>4. sent[f] >= Raised(asked[f], Retries) \/ Capped(sent[f])
      BY <1>2, <2>1, <3>1
    <3>5. Raised(asked[f], Retries) \in Nat /\ asked[f] <= Raised(asked[f], Retries)
      BY <1>4, <1>5, RaisedInOrder
    <3>6. CASE asked[f] >= ScaleByPercent(recorded[f], 110)
      <4>1. /\ Raised(ScaleByPercent(recorded[f], 110), Retries) <= Raised(asked[f], Retries)
            /\ Raised(ScaleByPercent(recorded[f], 110), Retries) \in Nat
        BY <1>4, <1>5, <3>2, <3>6, RaisedInOrder
      <4>2. QED
        BY <1>5, <3>4, <3>5, <4>1
    <3>7. CASE Capped(asked[f])
      BY <1>5, <3>3, <3>4, <3>5, <3>7 DEF Capped
    <3>8. QED
      BY <1>3, <2>2, <3>6, <3>7
  <2> HIDE DEF sent, why
  <2>4. (recorded' # Null /\ refusals' = {"underpriced"}) =>
          \A f \in FeeNames :
            request'[f] >= Raised(ScaleByPercent(recorded'[f], 110), Retries') \/ Capped(request[f])'
    BY <1>1, <1>5, <2>1, <2>2 DEF Capped
  <2>5. QED
    BY <1>1, <1>2, <1>3, <1>5, <2>1, <2>4 DEF BidInv
<1>7. CASE tries + 1 # bidder.sendHandleOpsRetryCount
  <2>1. phase' = "sending" /\ request' = Retried(sent, why, bare)
    BY <1>7 DEF Refuse
  <2>2. tries \in {0, 1} /\ tries + 1 \in 0 .. Retries
    BY <1>3, <1>4, <1>7
  <2> HIDE DEF sent, why
  <2>3. /\ request' \in Bids
        /\ \A f \in FeeNames : /\ sent[f] <= request'[f] /\ request'[f] <= ScaleByPercent(sent[f], 150)
                               /\ why = "underpriced" => request'[f] = ScaleByPercent(sent[f], 150)
    BY <1>2, <1>3, <1>4, <2>1, RetriedIs
  <2>4. ASSUME NEW f \in FeeNames
        PROVE  /\ request'[f] <= Raised(asked[f], tries + 1)
               /\ refusals \cup {why} \subseteq {"underpriced"} =>
                    request'[f] >= Raised(asked[f], tries + 1) \/ Capped(request'[f])
    <3>1. /\ sent[f] \in Nat /\ asked[f] \in Nat /\ request'[f] \in Nat
          /\ sent[f] <= Raised(asked[f], tries)
      BY <1>2, <1>5, <2>3 DEF Bids, FeeNames
    <3>2. Raised(asked[f], tries) \in Nat
      BY <2>2, <3>1, RaisedInOrder
    <3>3. Raised(asked[f], tries + 1) = ScaleByPercent(Raised(asked[f], tries), 150)
      BY <2>2, <3>1, RaisedOnce
    <3>4. \A x, y \in Nat : x <= y => ScaleByPercent(x, 150) <= ScaleByPercent(y, 150)
      BY DEF ScaleByPercent
    <3>5. /\ ScaleByPercent(sent[f], 150) \in Nat
          /\ ScaleByPercent(Raised(asked[f], tries), 150) \in Nat
      BY <3>1, <3>2, ScaledIsNat
    <3>6. request'[f] <= Raised(asked[f], tries + 1)
      BY <2>3, <3>1, <3>2, <3>3, <3>4, <3>5
    <3>7. ASSUME refusals \cup {why} \subseteq {"underpriced"}
          PROVE  request'[f] >= Raised(asked[f], tries + 1) \/ Capped(request'[f])
      <4>1. refusals \subseteq {"underpriced"} /\ why = "underpriced"
        BY <3>7
      <4>2. sent[f] >= Raised(asked[f], tries) \/ Capped(sent[f])
        BY <1>2, <4>1
      <4>3. CASE sent[f] >= Raised(asked[f], tries)
        BY <2>3, <3>1, <3>2, <3>3, <3>4, <3>5, <4>1, <4>3
      <4>4. CASE Capped(sent[f])
        <5>1. bidder.maxBundlingGasPrice # Null => bidder.maxBundlingGasPrice \in Nat
          BY <1>3, BiddingAssumption
        <5>2. QED
          BY <2>3, <3>1, <4>4, <5>1 DEF Capped
      <4>5. QED
        BY <4>2, <4>3, <4>4
    <3>8. QED
      BY <3>6, <3>7
  <2>5. /\ \A f \in FeeNames : request'[f] <= Raised(asked'[f], tries')
        /\ refusals' \subseteq {"underpriced"} =>
             \A f \in FeeNames : request'[f] >= Raised(asked'[f], tries') \/ Capped(request[f])'
    BY <1>1, <2>4 DEF Capped
  <2>6. recorded' # Null =>
          \A f \in FeeNames : asked'[f] >= ScaleByPercent(recorded'[f], 110) \/ Capped(asked[f])'
    BY <1>1, <1>3 DEF Capped
  <2>7. QED
    BY <1>1, <1>3, <1>5, <2>1, <2>2, <2>3, <2>5, <2>6 DEF BidInv
<1>8. QED
  BY <1>6, <1>7

\* A look at the transaction changes no fee.
LEMMA LookKeeps ==
  ASSUME BidInv, NEW n, NEW stuck, NEW canRotate, Look(n, stuck, canRotate)
  PROVE  BidInv'
<1>1. /\ UNCHANGED <<bidder, submissions, recorded, asked, request, tries, refusals, held>>
      /\ phase' \in {"rotated", "replacing"}
  BY DEF Look
<1>2. Retries' = Retries
  BY <1>1 DEF Retries
<1>3. QED
  BY <1>1, <1>2 DEF BidInv

\* With the default options no bundle is given up because a replacement bid too
\* little, whatever the network asks and however the attempts are refused.
THEOREM ReplacementAlwaysStands ==
  ASSUME DefaultBids PROVE BiddingSpec => []ReplacementStands
<1>1. BiddingInit => BidInv
  BY DEF BiddingInit, BidInv
<1>2. BidInv /\ [BiddingNext]_bidVars => BidInv'
  <2> SUFFICES ASSUME BidInv, [BiddingNext]_bidVars PROVE BidInv'
    OBVIOUS
  <2>1. CASE UNCHANGED bidVars
    <3>1. Retries' = Retries /\ UNCHANGED <<bidder, phase, submissions, recorded, asked, request, tries, refusals, held>>
      BY <2>1 DEF bidVars, Retries
    <3>2. QED
      BY <3>1 DEF BidInv, Capped
  <2>2. ASSUME NEW n \in Networks, NEW breakEven \in BreakEvenPrices, Bid(n, breakEven) PROVE BidInv'
    BY <2>2, BidKeeps
  <2>3. ASSUME NEW n \in Networks, Accept(n.baseFee) PROVE BidInv'
    BY <2>3, AcceptKeeps
  <2>4. ASSUME NEW n \in Networks, NEW bare \in BOOLEAN, Refuse(n.baseFee, bare) PROVE BidInv'
    BY <2>4, RefuseKeeps
  <2>5. ASSUME NEW n \in Networks, NEW stuck \in BOOLEAN, NEW canRotate \in BOOLEAN,
               Look(n, stuck, canRotate)
        PROVE  BidInv'
    BY <2>5, LookKeeps
  <2>6. QED
    BY <2>1, <2>2, <2>3, <2>4, <2>5 DEF BiddingNext
<1>3. BidInv => ReplacementStands
  <2> SUFFICES ASSUME BidInv, phase = "freed", refusals = {"underpriced"}, recorded # Null,
                      NEW f \in FeeNames
               PROVE  LET least == ScaleByPercent(held[f], ReplacementMinBump)
                      IN \/ request[f] + Rounding >= least
                         \/ bidder.maxBundlingGasPrice # Null /\ least > bidder.maxBundlingGasPrice
    BY DEF ReplacementStands, FeeNames
  <2>1. /\ bidder \in Bidders /\ recorded[f] \in Nat /\ held[f] \in Nat /\ request[f] \in Nat
        /\ held[f] <= Raised(recorded[f], Retries)
        /\ \/ request[f] >= Raised(ScaleByPercent(recorded[f], 110), Retries)
           \/ Capped(request[f])
    BY DEF BidInv, Bids, FeeNames
  <2>2. Retries \in 0 .. 2 /\ ReplacementMinBump = 110
    BY <2>1, BiddingAssumption DEF Retries, DefaultBids
  <2>3. bidder.maxBundlingGasPrice # Null => bidder.maxBundlingGasPrice \in Nat
    BY <2>1, BiddingAssumption
  <2>4. PICK least : least = ScaleByPercent(held[f], 110)
    OBVIOUS
  <2>5. least \in Nat
    BY <2>1, <2>4, ScaledIsNat
  <2>6. CASE request[f] >= Raised(ScaleByPercent(recorded[f], 110), Retries)
    <3>1. Raised(recorded[f], Retries) \in Nat
      BY <2>1, <2>2, RaisedInOrder
    <3>2. /\ least <= ScaleByPercent(Raised(recorded[f], Retries), 110)
          /\ ScaleByPercent(Raised(recorded[f], Retries), 110) \in Nat
      BY <2>1, <2>4, <3>1 DEF ScaleByPercent
    <3>3. Raised(ScaleByPercent(recorded[f], 110), Retries) + 2
            >= ScaleByPercent(Raised(recorded[f], Retries), 110)
      BY <2>1, <2>2, BumpThenRaise
    <3>4. Raised(ScaleByPercent(recorded[f], 110), Retries) \in Nat
      <4>1. ScaleByPercent(recorded[f], 110) \in Nat
        BY <2>1, ScaledIsNat
      <4>2. QED
        BY <2>2, <4>1, RaisedInOrder
    <3>5. request[f] + 2 >= least
      BY <2>1, <2>5, <2>6, <3>2, <3>3, <3>4
    <3>6. QED
      BY <2>2, <2>4, <3>5 DEF Rounding
  <2>7. CASE Capped(request[f])
    BY <2>1, <2>2, <2>3, <2>4, <2>5, <2>7 DEF Capped, Rounding
  <2>8. QED
    BY <2>1, <2>6, <2>7
<1>4. QED
  BY <1>1, <1>2, <1>3, PTL DEF BiddingSpec

-----------------------------------------------------------------------------
(***************************************************************************)
(* The server.  Each part steps by its own specification, or stands still  *)
(* where it started while others do; three of them share the clock, which  *)
(* then goes on without them.                                              *)
(***************************************************************************)

IsBlocks == subject = "blocks"
IsPasses == subject = "passes"
IsReceipts == subject = "receipts"

\* A part that is not the subject has no bundle pending and no status set.
StandsStill ==
  /\ ~IsBlocks => bundle = [b \in Bundles |-> "new"]
  /\ ~IsReceipts => /\ statusStore = [h \in Hashes |-> NoValue]
                    /\ lastSet = [h \in Hashes |-> NoValue]

\* A part that is not the subject keeps what it has.
LEMMA OthersStandStill == Spec => []StandsStill
<1>1. Init => StandsStill
  BY DEF Init, WatchInit, ReceiptsInit, StandsStill
<1>2. StandsStill /\ [Next]_vars => StandsStill'
  BY DEF StandsStill, Next, vars, watchVars, receiptVars, monitorVars, IsBlocks, IsReceipts
<1>3. QED
  BY <1>1, <1>2, PTL DEF Spec

\* A behaviour of the server is one of its subject; what has no clock in common
\* with the others steps by its own specification in any case.
THEOREM EachIsServed ==
  Spec => /\ AdmissionSpec /\ BiddingSpec /\ UpkeepSpec
          /\ IsBlocks => WatchSpec
          /\ IsPasses => LoopSpec
          /\ IsReceipts => ReceiptsSpec
<1>1. Init => AdmissionInit /\ BiddingInit /\ UpkeepInit /\ WatchInit /\ LoopInit /\ ReceiptsInit
  BY DEF Init
<1>2. [Next]_vars => /\ [AdmissionNext]_admissionVars /\ [BiddingNext]_bidVars
                    /\ [UpkeepNext]_upkeepVars
  BY DEF Next, vars
<1>3. IsBlocks /\ [Next]_vars => IsBlocks' /\ [WatchNext]_<<clock, watchVars>>
  BY DEF Next, vars, IsBlocks, IsPasses, IsReceipts
<1>4. IsPasses /\ [Next]_vars => IsPasses' /\ [LoopNext]_<<clock, loopVars>>
  BY DEF Next, vars, IsBlocks, IsPasses, IsReceipts
<1>5. IsReceipts /\ [Next]_vars
        => IsReceipts' /\ [ReceiptsNext]_<<clock, receiptVars>>
  BY DEF Next, vars, IsBlocks, IsPasses, IsReceipts
<1>6. QED
  BY <1>1, <1>2, <1>3, <1>4, <1>5, PTL
  DEF Spec, AdmissionSpec, BiddingSpec, UpkeepSpec, WatchSpec, LoopSpec, ReceiptsSpec

\* So what is proved of a part holds of the server, whichever part it is about.
THEOREM ServerIsSafe ==
  Spec => /\ []WindowsAreExact /\ []QuoteStaysValid /\ []QuoteIsOrdered /\ []AdmittedAreIndependent
          /\ []RefillsFitNeed /\ []LookedAtInTime /\ ManualIsQuiet
          /\ []StatusIsKept /\ []IncludedHasReceipt
          /\ DefaultBids => []ReplacementStands
          /\ CallGasLimitMultiplier <= 100 => []EstimateFitsNeed
          /\ PvgMultiplier > 100 /\ OraclesCharge => []EstimateStaysEnough
<1>1. Spec => [](~IsBlocks => LookedAtInTime)
  <2>1. StandsStill => (~IsBlocks => LookedAtInTime)
    BY DEF StandsStill, LookedAtInTime, PendingBundles
  <2>2. QED
    BY <2>1, OthersStandStill, PTL
<1>2. Spec => [](~IsReceipts => StatusIsKept /\ IncludedHasReceipt)
  <2>1. StandsStill => (~IsReceipts => StatusIsKept /\ IncludedHasReceipt)
    BY ReceiptsAssumption DEF StandsStill, StatusIsKept, IncludedHasReceipt
  <2>2. QED
    BY <2>1, OthersStandStill, PTL
<1>3. Spec /\ ~IsPasses => ManualIsQuiet
  <2>1. ~IsPasses /\ [Next]_vars => ~IsPasses' /\ UNCHANGED loopVars
    BY DEF Next, vars, IsBlocks, IsPasses, IsReceipts
  <2>2. UNCHANGED loopVars
          => [quiet => \A l \in Loops : loop[l].doing = "waiting" => loop'[l].doing # "pass"]_loopVars
    OBVIOUS
  <2>3. QED
    BY <2>1, <2>2, PTL DEF Spec, ManualIsQuiet
<1>4. [Next]_vars => (IsBlocks <=> IsBlocks') /\ (IsReceipts <=> IsReceipts')
  BY DEF Next, vars, IsBlocks, IsPasses, IsReceipts
<1>5. DefaultBids => (BiddingSpec => []ReplacementStands)
  BY ReplacementAlwaysStands
<1>6. CallGasLimitMultiplier <= 100 => (AdmissionSpec => []EstimateFitsNeed)
  BY EstimateAlwaysFits
<1>7. PvgMultiplier > 100 /\ OraclesCharge => (AdmissionSpec => []EstimateStaysEnough)
  BY EstimateAlwaysEnough
<1>8. QED
  BY <1>1, <1>2, <1>3, <1>4, <1>5, <1>6, <1>7, EachIsServed, WindowsAlwaysExact, QuoteAlwaysStaysValid,
     QuoteIsAlwaysOrdered, AdmittedStayIndependent, RefillsAlwaysFit, AlwaysLookedAt,
     ManualStaysQuiet, StatusAlwaysKept, IncludedAlwaysHasReceipt, PTL DEF Spec
=============================================================================
