----------------------------- MODULE BlockWatch -----------------------------
(***************************************************************************)
(* When the executor manager looks at the bundles it has sent              *)
(* (src/src/executor/executorManager.ts): on every new block, on a timer   *)
(* with preconfirmations, and on the watchdog's timer when no block comes. *)
(* The watcher is started by a bundle that is tracked and stopped by a run *)
(* that finds none; runs do not overlap.  A bundle sent with               *)
(* eth_sendRawTransactionSync may be settled without being tracked.        *)
(*                                                                         *)
(* What a run finds and does with a bundle is BundleLifecycle's subject;   *)
(* here it is settled, stays, or is replaced.                              *)
(***************************************************************************)
EXTENDS Clock

CONSTANTS
  Bundles,
  Watchers,              \* configurations
  BlockTime,
  ResubmitStuckTimeout,
  ReceiptPatience,       \* 1 s, how long rpcUrlReceipt waits for rpc-url
  None,
  MaxWatchTime           \* bound

\* What set a run off, and the bundles that it has to settle.
Runs == [via : {"block", "timer"}, bundles : SUBSET Bundles]

ASSUME BlockWatchAssumption ==
  /\ BlockTime \in Nat \ {0} /\ ResubmitStuckTimeout \in Nat /\ ReceiptPatience \in Nat
  /\ MaxWatchTime \in Nat /\ None \notin Nat \cup Runs
  /\ \A w \in Watchers : /\ w.flashblocksPreconfirmationTime \in Nat
                         /\ w.sync \in BOOLEAN

VARIABLES
  watcher,          \* the configuration, fixed
  bundle,           \* where each bundle is
  deadline,         \* when a bundle with a receipt is tracked at the latest
  unWatch,          \* the watcher is on
  pollTimer,        \* when its interval fires next, with preconfirmations
  staleBlockTimer,  \* when the watchdog's does, without
  lastReconcileAt,
  run,              \* the block run in progress: the bundles it has not settled yet
  crashed,          \* an unhandled rejection has started the shutdown
  lookedAt,         \* history: when a bundle came under watch or a run with it began
  runEnded,         \* history: when the last run ended
  unwatched         \* history: restored bundles that no watcher was started for

timerVars == <<unWatch, pollTimer, staleBlockTimer>>
watchVars == <<watcher, bundle, deadline, timerVars, lastReconcileAt, run,
               crashed, lookedAt, runEnded, unwatched>>

\* trackBundle's map
PendingBundles == { b \in Bundles : bundle[b] = "tracked" }

WatchInit ==
  /\ watcher \in Watchers
  /\ clock = 0
  /\ bundle = [b \in Bundles |-> "new"]
  /\ deadline = [b \in Bundles |-> None]
  /\ unWatch = FALSE /\ pollTimer = None /\ staleBlockTimer = None
  /\ lastReconcileAt = 0 /\ run = None /\ crashed = FALSE
  /\ lookedAt = [b \in Bundles |-> None]
  /\ runEnded = 0 /\ unwatched = {}

-----------------------------------------------------------------------------
(* The watcher.                                                            *)

Polls == watcher.flashblocksPreconfirmationTime # 0

\* startWatchingBlocks and startStaleBlockWatchdog.  The watchdog's first check
\* counts from now.
StartWatching ==
  /\ unwatched' = {}
  /\ IF unWatch THEN UNCHANGED <<timerVars, lastReconcileAt>>
     ELSE /\ unWatch' = TRUE
          /\ IF Polls
             THEN /\ pollTimer' = clock + watcher.flashblocksPreconfirmationTime
                  /\ UNCHANGED <<staleBlockTimer, lastReconcileAt>>
             ELSE /\ UNCHANGED pollTimer
                  /\ IF staleBlockTimer # None THEN UNCHANGED <<staleBlockTimer, lastReconcileAt>>
                     ELSE staleBlockTimer' = clock + BlockTime /\ lastReconcileAt' = clock

\* handleBlock, up to its first await: without a bundle it stops the watcher and
\* its timers.
HandleBlock(via) ==
  IF run # None THEN UNCHANGED <<unWatch, lastReconcileAt, run, lookedAt>>
  ELSE /\ lastReconcileAt' = clock
       /\ unWatch' = (PendingBundles # {})
       /\ run' = IF PendingBundles = {} THEN None ELSE [via |-> via, bundles |-> PendingBundles]
       /\ lookedAt' = [b \in Bundles |-> IF b \in PendingBundles THEN clock ELSE lookedAt[b]]

\* The two timers, after a callback that was due or was none.
Rearmed(timer, interval, on) ==
  IF ~on THEN None ELSE IF timer = clock THEN clock + interval ELSE timer

NewBlock ==
  /\ unWatch /\ ~Polls /\ ~crashed
  /\ HandleBlock("block")
  /\ staleBlockTimer' = IF unWatch' THEN staleBlockTimer ELSE None
  /\ UNCHANGED <<clock, watcher, bundle, deadline, pollTimer, crashed, runEnded, unwatched>>

Poll ==
  /\ pollTimer = clock /\ ~crashed
  /\ HandleBlock("timer")
  /\ pollTimer' = Rearmed(pollTimer, watcher.flashblocksPreconfirmationTime, unWatch')
  /\ UNCHANGED <<clock, watcher, bundle, deadline, staleBlockTimer, crashed, runEnded, unwatched>>

\* The watchdog.  With nothing to look at it stops the watcher itself, which is
\* what handleBlock would do.
StaleBlock ==
  /\ staleBlockTimer = clock /\ ~crashed
  /\ IF clock - lastReconcileAt < ResubmitStuckTimeout
     THEN UNCHANGED <<unWatch, lastReconcileAt, run, lookedAt>>
     ELSE IF PendingBundles = {}
     THEN unWatch' = FALSE /\ UNCHANGED <<lastReconcileAt, run, lookedAt>>
     ELSE HandleBlock("timer")
  /\ staleBlockTimer' = Rearmed(staleBlockTimer, BlockTime, unWatch')
  /\ UNCHANGED <<clock, watcher, bundle, deadline, pollTimer, crashed, runEnded, unwatched>>

-----------------------------------------------------------------------------
(* A run: the bundles of its snapshot, side by side.                       *)

Leaves(b, where) ==
  /\ run # None /\ b \in run.bundles
  /\ run' = [run EXCEPT !.bundles = @ \ {b}]
  /\ bundle' = [bundle EXCEPT ![b] = where]
  /\ UNCHANGED <<clock, watcher, deadline, timerVars, lastReconcileAt, crashed, lookedAt,
                 runEnded, unwatched>>

\* It was mined, and is untracked.
Settle(b) == Leaves(b, "settled")

\* It was not found: it stays, or is untracked and replaced, which the run does
\* not wait for.
NotMined(b) == \E where \in {"tracked", "sent"} : Leaves(b, where)

\* Mutant: the run that settled the last of its bundles stops the watcher.
EndRunAndWatching ==
  /\ run # None /\ run.bundles = {}
  /\ run' = None /\ runEnded' = clock
  /\ unWatch' = FALSE /\ pollTimer' = None /\ staleBlockTimer' = None
  /\ UNCHANGED <<clock, watcher, bundle, deadline, lastReconcileAt, crashed, lookedAt, unwatched>>

EndRun ==
  /\ run # None /\ run.bundles = {}
  /\ run' = None /\ runEnded' = clock
  /\ UNCHANGED <<clock, watcher, bundle, deadline, timerVars, lastReconcileAt, crashed, lookedAt,
                 unwatched>>

\* Settling a bundle threw after it was untracked.  The timers catch that; the
\* watcher of blocks does not, and the process shuts down.
FailRun ==
  /\ run # None /\ run.bundles = {}
  /\ run' = None /\ runEnded' = clock
  /\ crashed' = (run.via = "block")
  /\ UNCHANGED <<clock, watcher, bundle, deadline, timerVars, lastReconcileAt, lookedAt, unwatched>>

-----------------------------------------------------------------------------
(* The bundles.                                                            *)

\* The transaction is out.  A synchronous send brings a receipt, unless the node
\* gave up waiting for it, and rpc-url is asked for its copy.
Broadcast(b) ==
  /\ bundle[b] = "new" /\ ~crashed
  /\ bundle' = [bundle EXCEPT ![b] = "sent"]
  /\ \/ UNCHANGED deadline
     \/ watcher.sync /\ deadline' = [deadline EXCEPT ![b] = clock + ReceiptPatience]
  /\ UNCHANGED <<clock, watcher, timerVars, lastReconcileAt, run, crashed, lookedAt, runEnded,
                 unwatched>>

\* settleSyncReceipt: settled or not, it counts as such once rpc-url has a receipt.
SettleSyncReceipt(b) ==
  /\ bundle[b] = "sent" /\ deadline[b] # None /\ ~crashed
  /\ bundle' = [bundle EXCEPT ![b] = "settled"]
  /\ deadline' = [deadline EXCEPT ![b] = None]
  /\ UNCHANGED <<clock, watcher, timerVars, lastReconcileAt, run, crashed, lookedAt, runEnded,
                 unwatched>>

\* Without a receipt, when the status writes have settled; else when rpc-url
\* does not answer in time.  A replacement is tracked again in the same way.
Track(b) ==
  /\ bundle[b] = "sent" /\ ~crashed
  /\ deadline[b] \in {None, clock}
  /\ bundle' = [bundle EXCEPT ![b] = "tracked"]
  /\ deadline' = [deadline EXCEPT ![b] = None]
  /\ lookedAt' = [c \in Bundles |-> IF c \in unwatched \cup {b} THEN clock ELSE lookedAt[c]]
  /\ StartWatching
  /\ UNCHANGED <<clock, watcher, run, crashed, runEnded>>

\* restoreShutdownState tracks the bundle of another instance, and starts nothing.
Restore(b) ==
  /\ bundle[b] = "new" /\ ~crashed
  /\ bundle' = [bundle EXCEPT ![b] = "tracked"]
  /\ lookedAt' = [lookedAt EXCEPT ![b] = clock]
  /\ unwatched' = IF unWatch THEN unwatched ELSE unwatched \cup {b}
  /\ UNCHANGED <<clock, watcher, deadline, timerVars, lastReconcileAt, run, crashed, runEnded>>

WatchTick ==
  /\ ~crashed
  /\ Advance(MaxWatchTime, FALSE, ({pollTimer, staleBlockTimer} \cup { deadline[b] : b \in Bundles }) \ {None})
  /\ UNCHANGED <<watcher, bundle, deadline, timerVars, lastReconcileAt, run, crashed, lookedAt,
                 runEnded, unwatched>>

WatchNext ==
  \/ NewBlock \/ Poll \/ StaleBlock \/ EndRun \/ FailRun \/ WatchTick
  \/ \E b \in Bundles : \/ Settle(b) \/ NotMined(b)
                       \/ Broadcast(b) \/ SettleSyncReceipt(b) \/ Track(b) \/ Restore(b)

WatchSpec == WatchInit /\ [][WatchNext]_<<clock, watchVars>>

-----------------------------------------------------------------------------

LatestOf(times) == CHOOSE t \in times : \A u \in times : u <= t

\* A tracked bundle is looked at again within the time that its configuration
\* gives a silent chain, whatever runs, settled bundles and stops of the watcher
\* came in between; but for restored bundles, which wait for the next one sent.
LookedAtInTime ==
  (~crashed /\ run = None) =>
    \A b \in PendingBundles \ unwatched :
      clock - LatestOf({lookedAt[b], runEnded})
        <= IF Polls THEN watcher.flashblocksPreconfirmationTime
           ELSE ResubmitStuckTimeout + BlockTime
=============================================================================
