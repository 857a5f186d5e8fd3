---------------------------- MODULE Restoration ----------------------------
(***************************************************************************)
(* A rolling restart of an instance that keeps its stores in memory:       *)
(* gracefulShutdown (src/src/cli/setupServer.ts), what it publishes, and   *)
(* what the instance that takes over makes of it                           *)
(* (src/src/cli/shutDown.ts).  Both instances run while they hand over,    *)
(* with the same wallets, and both may listen to the queue.                *)
(***************************************************************************)
EXTENDS Naturals, Sequences, SequencesExt, FiniteSets

CONSTANTS
  EntryPointOf,    \* op -> the EntryPoint it is for
  Executors        \* the wallets

HandedOps == DOMAIN EntryPointOf

ASSUME RestorationAssumption == IsFiniteSet(Executors)

EntryPoints == { EntryPointOf[o] : o \in HandedOps }

VARIABLES
  useQueue,      \* whether a redisEndpoint is configured
  old,           \* the stores of the old instance, and where its shutdown is
  new,           \* the stores of the new one
  pool,          \* the sender manager of the new one
  jobs,          \* the restoration queue
  listening,     \* which instances listen to the queue
  mined,         \* ops that were executed
  dropped,       \* ops whose clients were told that they are rejected
  lost,          \* history: ops in no store, or submitted in no tracked bundle, as it shut down
  misled,        \* history: ops published to nobody, to the old instance, or in a failed job
  shared,        \* history: wallets that were in use here as their bundle arrived
  relocked       \* history: wallets locked by a call that had to wait

restorationVars == <<useQueue, old, new, pool, jobs, listening, mined, dropped, lost,
                     misled, shared, relocked>>

NoStores == [outstanding |-> {}, hand |-> {}, processing |-> {}, submitted |-> {},
             sending |-> {}, bundles |-> {}]

\* The old instance with these ops and bundles in its stores, and no others.
OldInstance(at, outstanding, bundles) ==
  [at |-> at, unpublished |-> {}, snapshot |-> NoStores,
   outstanding |-> outstanding, hand |-> {}, processing |-> {}, submitted |-> {},
   sending |-> {}, bundles |-> bundles]

\* A bundle holds one op.
Bundle(o, w) == [op |-> o, executor |-> w]

RestorationInit ==
  /\ useQueue \in BOOLEAN
  /\ old = OldInstance("running", HandedOps, {})
  /\ new = NoStores
  /\ pool = [free |-> Executors, permits |-> Cardinality(Executors), waiting |-> <<>>]
  /\ jobs = <<>>
  \* The old one has stopped listening when its own restoration ended.
  /\ listening \in {{"new"}, {"old", "new"}}
  /\ mined = {} /\ dropped = {}
  /\ lost = {} /\ misled = {} /\ shared = {} /\ relocked = {}

histories == <<lost, misled, shared, relocked>>

-----------------------------------------------------------------------------
(* The old instance bundles until its process exits.                       *)

OldUses(w) == \E b \in old.bundles \cup old.sending : b.executor = w

\* A pass pops an op, validates it, and only then stores it as processing.
OldPops(o) ==
  /\ old.at # "exited" /\ o \in old.outstanding
  /\ old' = [old EXCEPT !.outstanding = @ \ {o}, !.hand = @ \cup {o}]
  /\ UNCHANGED <<useQueue, new, pool, jobs, listening, mined, dropped, histories>>

OldTakes(o) ==
  /\ old.at # "exited" /\ o \in old.hand
  /\ old' = [old EXCEPT !.hand = @ \ {o}, !.processing = @ \cup {o}]
  /\ UNCHANGED <<useQueue, new, pool, jobs, listening, mined, dropped, histories>>

\* A send broadcasts, marks its op as submitted, and tracks its bundle once the
\* status is written.
OldSends(o, w) ==
  /\ old.at # "exited" /\ o \in old.processing /\ ~OldUses(w)
  /\ \A b \in old.sending : b.op # o
  /\ old' = [old EXCEPT !.sending = @ \cup {Bundle(o, w)}]
  /\ UNCHANGED <<useQueue, new, pool, jobs, listening, mined, dropped, histories>>

OldMarks(b) ==
  /\ old.at # "exited" /\ b \in old.sending /\ b.op \in old.processing
  /\ old' = [old EXCEPT !.processing = @ \ {b.op}, !.submitted = @ \cup {b.op}]
  /\ UNCHANGED <<useQueue, new, pool, jobs, listening, mined, dropped, histories>>

OldTracks(b) ==
  /\ old.at # "exited" /\ b \in old.sending /\ b.op \notin old.processing
  /\ old' = [old EXCEPT !.sending = @ \ {b}, !.bundles = @ \cup {b}]
  /\ UNCHANGED <<useQueue, new, pool, jobs, listening, mined, dropped, histories>>

\* The chain executes an op that somebody has sent, once.
Mined(o) ==
  /\ \E b \in old.sending \cup old.bundles \cup new.bundles : b.op = o
  /\ o \notin mined
  /\ mined' = mined \cup {o}
  /\ UNCHANGED <<useQueue, old, new, pool, jobs, listening, dropped, histories>>

OldSettles(b) ==
  /\ old.at # "exited" /\ b \in old.bundles /\ b.op \in mined
  /\ old' = [old EXCEPT !.submitted = @ \ {b.op}, !.bundles = @ \ {b}]
  /\ UNCHANGED <<useQueue, new, pool, jobs, listening, mined, dropped, histories>>

-----------------------------------------------------------------------------
(* gracefulShutdown                                                        *)

\* Mutant: the ops in processing are not published.
SnapshotOfIdle ==
  [NoStores EXCEPT !.outstanding = old.outstanding, !.submitted = old.submitted,
                   !.bundles = old.bundles]

\* The three stores and the bundles, all read in one turn of the event loop.
Snapshot == [NoStores EXCEPT !.outstanding = old.outstanding, !.processing = old.processing,
                             !.submitted = old.submitted, !.bundles = old.bundles]

\* dropAllOperationsOnShutdown: every client is told, and dropUserOps removes what
\* is submitted.  A pass goes on with what it has taken, and what is outstanding
\* stays.
DropAll ==
  /\ dropped' = old.outstanding \cup old.processing \cup old.submitted
  /\ lost' = lost \cup old.hand
  /\ old' = [old EXCEPT !.at = "published", !.submitted = {}, !.snapshot = NoStores]
  /\ UNCHANGED <<useQueue, new, pool, jobs, listening, mined, misled, shared, relocked>>

\* persistShutdownState
ShutdownDrops == old.at = "running" /\ ~useQueue /\ DropAll

Shutdown ==
  /\ old.at = "running" /\ useQueue
  /\ old' = [old EXCEPT !.at = "publishing", !.snapshot = Snapshot, !.unpublished = EntryPoints]
  /\ lost' = old.hand \cup { o \in old.submitted : \A b \in old.bundles : b.op # o }
  /\ UNCHANGED <<useQueue, new, pool, jobs, listening, mined, dropped, misled, shared,
                 relocked>>

OfEntryPoint(ops, e) == { o \in ops : EntryPointOf[o] = e }

\* A message has the ops of its EntryPoint, and the bundles of all.
Message(e) ==
  LET s == old.snapshot IN
  [type |-> "MEMPOOL_DATA", bundles |-> s.bundles,
   outstanding |-> OfEntryPoint(s.outstanding \cup s.processing, e),
   submitted |-> OfEntryPoint(s.submitted, e)]

EndMessage == [type |-> "END_RESTORATION", bundles |-> {}, outstanding |-> {}, submitted |-> {}]

Publish(e) ==
  /\ old.at = "publishing" /\ e \in old.unpublished
  /\ old' = [old EXCEPT !.unpublished = @ \ {e}]
  /\ jobs' = IF Message(e) = [EndMessage EXCEPT !.type = "MEMPOOL_DATA"] THEN jobs
             ELSE Append(jobs, Message(e))
  /\ UNCHANGED <<useQueue, new, pool, listening, mined, dropped, histories>>

\* What cannot be published is given up, with a line in the log.
PublishFails(e) ==
  /\ old.at = "publishing" /\ e \in old.unpublished
  /\ old' = [old EXCEPT !.unpublished = @ \ {e}]
  /\ misled' = misled \cup Message(e).outstanding \cup Message(e).submitted
  /\ UNCHANGED <<useQueue, new, pool, jobs, listening, mined, dropped, lost, shared, relocked>>

PublishEnd ==
  /\ old.at = "publishing" /\ old.unpublished = {}
  /\ old' = [old EXCEPT !.at = "published", !.snapshot = NoStores]
  /\ jobs' = Append(jobs, EndMessage)
  /\ UNCHANGED <<useQueue, new, pool, listening, mined, dropped, histories>>

\* What is published already is dropped, too.
PublishEndFails == old.at = "publishing" /\ old.unpublished = {} /\ DropAll

\* Of the old instance only the transactions are left that it has sent.
Exit ==
  /\ old.at = "published"
  /\ old' = OldInstance("exited", {}, { b \in old.sending \cup old.bundles : b.op \notin mined })
  /\ listening' = listening \ {"old"}
  /\ UNCHANGED <<useQueue, new, pool, jobs, mined, dropped, histories>>

-----------------------------------------------------------------------------
(* The sender manager of the new instance: a semaphore and a list.         *)

\* The permit of a wallet that comes back goes to the waiting calls of lockWallet
\* in turn: each takes its own wallet if it is there, or else passes the permit on.
HandOn(p) ==
  LET hits == { k \in DOMAIN p.waiting : p.waiting[k] \in p.free }
      k == CHOOSE n \in hits : \A m \in hits : n <= m
  IN IF hits = {} THEN [p EXCEPT !.waiting = <<>>, !.permits = @ + 1]
     ELSE [p EXCEPT !.free = @ \ {p.waiting[k]},
                    !.waiting = SubSeq(p.waiting, k + 1, Len(p.waiting))]

MarkProcessed(p, w) == IF w \in p.free THEN p ELSE HandOn([p EXCEPT !.free = @ \cup {w}])

LockWallet(p, w) ==
  IF p.permits = 0 THEN [p EXCEPT !.waiting = Append(@, w)]
  ELSE IF w \notin p.free THEN p
  ELSE [p EXCEPT !.free = @ \ {w}, !.permits = @ - 1]

\* The calls for the bundles of a message, none of which is waited for.
LockAll(p, wallets) == { FoldLeft(LockWallet, p, ws) : ws \in SetToSeqs(wallets) }

-----------------------------------------------------------------------------
(* restoreShutdownState                                                    *)

\* Mutant: the wallets of restored bundles are not locked.
RestoredUnlocked(bundles) == pool' = pool

RestoredLocked(bundles) == pool' \in LockAll(pool, { b.executor : b \in bundles })

\* The new instance takes a message.  What it does not add to its stores it has
\* already.
Restore ==
  LET m == Head(jobs)
      tracked == new.bundles \cup m.bundles
  IN
  /\ "new" \in listening /\ jobs # <<>> /\ Head(jobs).type = "MEMPOOL_DATA"
  /\ new' = [new EXCEPT !.outstanding = @ \cup m.outstanding,
                        !.submitted = @ \cup m.submitted, !.bundles = tracked]
  /\ RestoredLocked(m.bundles)
  /\ shared' = shared \cup { b.executor : b \in { c \in m.bundles \ new.bundles :
                               \E d \in new.bundles : d.executor = c.executor } }
  /\ jobs' = Tail(jobs)
  /\ UNCHANGED <<useQueue, old, listening, mined, dropped, lost, misled, relocked>>

\* A message that cannot be restored fails its job, which is kept for a replay by
\* hand.
RestoreFails ==
  /\ "new" \in listening /\ jobs # <<>> /\ Head(jobs).type = "MEMPOOL_DATA"
  /\ misled' = misled \cup Head(jobs).outstanding \cup Head(jobs).submitted
  /\ jobs' = Tail(jobs)
  /\ UNCHANGED <<useQueue, old, new, pool, listening, mined, dropped, lost, shared, relocked>>

\* The old instance takes its own message, and adds what it has already.
TakeOwn ==
  /\ "old" \in listening /\ jobs # <<>> /\ Head(jobs).type = "MEMPOOL_DATA"
  /\ misled' = misled \cup Head(jobs).outstanding \cup Head(jobs).submitted
  /\ old' = [old EXCEPT !.outstanding = @ \cup Head(jobs).outstanding,
                        !.submitted = @ \cup Head(jobs).submitted,
                        !.bundles = @ \cup Head(jobs).bundles]
  /\ jobs' = Tail(jobs)
  /\ UNCHANGED <<useQueue, new, pool, listening, mined, dropped, lost, shared, relocked>>

\* END_RESTORATION, or a listener's timeout
EndRestoration(i) ==
  /\ i \in listening /\ jobs # <<>> /\ Head(jobs).type = "END_RESTORATION"
  /\ listening' = listening \ {i}
  /\ jobs' = Tail(jobs)
  /\ UNCHANGED <<useQueue, old, new, pool, mined, dropped, histories>>

ListenerTimeout(i) ==
  /\ i \in listening
  /\ listening' = listening \ {i}
  /\ UNCHANGED <<useQueue, old, new, pool, jobs, mined, dropped, histories>>

-----------------------------------------------------------------------------
(* The new instance bundles, too.                                          *)

NewSends(o, w) ==
  /\ o \in new.outstanding \ mined /\ w \in pool.free /\ pool.permits > 0
  /\ pool' = [pool EXCEPT !.free = @ \ {w}, !.permits = @ - 1]
  /\ new' = [new EXCEPT !.outstanding = @ \ {o}, !.submitted = @ \cup {o},
                        !.bundles = @ \cup {Bundle(o, w)}]
  /\ UNCHANGED <<useQueue, old, jobs, listening, mined, dropped, histories>>

\* An op that was executed already fails the simulation.
NewDrops(o) ==
  /\ o \in new.outstanding \cap mined
  /\ new' = [new EXCEPT !.outstanding = @ \ {o}]
  /\ UNCHANGED <<useQueue, old, pool, jobs, listening, mined, dropped, histories>>

\* Settling a bundle frees its wallet, whatever else was sent from it.
NewSettles(b) ==
  LET freed == MarkProcessed(pool, b.executor) IN
  /\ b \in new.bundles /\ b.op \in mined
  /\ new' = [new EXCEPT !.submitted = @ \ {b.op}, !.bundles = @ \ {b}]
  /\ pool' = freed
  /\ relocked' = relocked \cup ((pool.free \cup {b.executor}) \ freed.free)
  /\ UNCHANGED <<useQueue, old, jobs, listening, mined, dropped, lost, misled, shared>>

-----------------------------------------------------------------------------

RestorationNext ==
  \/ \E o \in HandedOps :
       \/ OldPops(o) \/ OldTakes(o) \/ Mined(o) \/ NewDrops(o)
       \/ \E w \in Executors : OldSends(o, w) \/ NewSends(o, w)
  \/ \E b \in old.sending : OldMarks(b) \/ OldTracks(b)
  \/ \E b \in old.bundles : OldSettles(b)
  \/ \E b \in new.bundles : NewSettles(b)
  \/ Shutdown \/ ShutdownDrops \/ PublishEnd \/ PublishEndFails \/ Exit
  \/ \E e \in EntryPoints : Publish(e) \/ PublishFails(e)
  \/ Restore \/ RestoreFails \/ TakeOwn
  \/ \E i \in {"old", "new"} : EndRestoration(i) \/ ListenerTimeout(i)

RestorationSpec == RestorationInit /\ [][RestorationNext]_restorationVars

-----------------------------------------------------------------------------

OpsOf(messages) == UNION { m.outstanding \cup m.submitted : m \in messages }

\* When the old instance is gone, every op it had accepted is with the new one, to
\* be bundled or in a bundle that it tracks, on its way there, executed, or reported
\* as rejected: unless it was between two stores as the shutdown read them, or
\* submitted without its bundle being tracked yet, or its message went astray.
NothingForgotten ==
  old.at = "exited" =>
    HandedOps \subseteq
      new.outstanding \cup { b.op : b \in new.bundles } \cup mined \cup dropped
      \cup lost \cup misled \cup OpsOf({ jobs[k] : k \in DOMAIN jobs })

\* In the new instance a wallet is free just when no bundle that it tracks was
\* sent from it: unless the wallet was already in use here as its bundle was
\* restored, or a lock for a second EntryPoint's message had to wait and took it
\* when its bundle was settled.
WalletsFollowBundles ==
  \A w \in Executors \ (shared \cup relocked) :
    w \in pool.free <=> \A b \in new.bundles : b.executor # w
=============================================================================
