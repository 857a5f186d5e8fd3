------------------------------ MODULE Receipts ------------------------------
(***************************************************************************)
(* What clients are told of their userOps: the status kept by the monitor  *)
(* (src/src/mempool/monitoring.ts), the receipts cached in memory or in    *)
(* Redis (src/src/receiptCache), and the lookups that go to the chain when *)
(* nothing is cached (bundleManager.ts, getUserOpReceipt).                 *)
(*                                                                         *)
(* Statuses are set by overlapping calls, some only just before another    *)
(* goes on.  A userOp is mined at any time, and what a node knows of that  *)
(* may differ from call to call.                                           *)
(***************************************************************************)
EXTENDS Clock, FiniteSets

CONSTANTS
  Hashes,           \* userOps
  Setters,          \* calls of setUserOpStatus under way
  Lookups,          \* requests of clients
  Caches,           \* kinds of receipt cache: "memory", "redis"
  StatusTimeout,    \* 1 h
  ReceiptTtl,       \* 1 min
  MaxRetries,       \* 16
  NoValue,
  MaxSets, MaxReceiptTime  \* bounds

ASSUME ReceiptsAssumption ==
  /\ StatusTimeout \in Nat /\ ReceiptTtl \in Nat /\ MaxRetries \in Nat \ {0}
  /\ MaxSets \in Nat /\ MaxReceiptTime \in Nat
  /\ NoValue \notin Nat /\ NoValue # "included"

VARIABLES
  cacheKind,       \* the configuration, fixed
  statusStore,     \* the status of each userOp
  userOpTimeouts,  \* the timer that deletes it, as far as the monitor knows
  timers,          \* the timers that run: userOp, when due, and by which set
  setter,          \* the userOp of each call in progress
  sets,            \* bound
  receiptCache,    \* when the receipt was cached
  cachedAt,        \* history: the same, which stays when the cache drops it
  settling,        \* receipts on their way to the cache, before the status
  lost,            \* history: receipts that Redis did not take
  lookup,          \* requests in progress
  lastSet          \* history: the status set last, and when

cacheVars == <<receiptCache, cachedAt, lost>>
monitorVars == <<statusStore, userOpTimeouts, timers, setter, sets, lastSet>>
receiptVars == <<cacheKind, monitorVars, cacheVars, settling,
                 lookup>>

NoLookup == [hash |-> NoValue, tries |-> 0]

ReceiptsInit ==
  /\ clock = 0 /\ cacheKind \in Caches
  /\ statusStore = [h \in Hashes |-> NoValue]
  /\ userOpTimeouts = [h \in Hashes |-> NoValue]
  /\ timers = {} /\ setter = [s \in Setters |-> NoValue] /\ sets = 0
  /\ receiptCache = [h \in Hashes |-> NoValue] /\ cachedAt = receiptCache
  /\ settling = {} /\ lost = {}
  /\ lookup = [l \in Lookups |-> NoLookup]
  /\ lastSet = [h \in Hashes |-> NoValue]

-----------------------------------------------------------------------------
(* The monitor, with its store in memory.                                  *)

Cleared(h) == { t \in timers : userOpTimeouts[h] # t }

\* setUserOpStatus, to its await.
BeginSet(s, h, status) ==
  /\ setter[s] = NoValue /\ sets < MaxSets
  /\ timers' = Cleared(h)
  /\ statusStore' = [statusStore EXCEPT ![h] = status]
  /\ lastSet' = [lastSet EXCEPT ![h] = [status |-> status, at |-> clock]]
  /\ sets' = sets + 1
  /\ setter' = [setter EXCEPT ![s] = h]
  /\ UNCHANGED userOpTimeouts

\* Mutant: the timer is cleared once, before the await.
ClearedAgainNot(h) == timers

ClearedAgain(h) == Cleared(h)

\* After the await the timer is cleared once more: another call may have set it.
EndSet(s) ==
  LET h == setter[s]
      timer == [hash |-> h, due |-> clock + StatusTimeout, by |-> s]
  IN /\ setter[s] # NoValue
     /\ timers' = ClearedAgain(h) \cup {timer}
     /\ userOpTimeouts' = [userOpTimeouts EXCEPT ![h] = timer]
     /\ setter' = [setter EXCEPT ![s] = NoValue]
     /\ UNCHANGED <<clock, cacheKind, statusStore, sets, lastSet, cacheVars, settling,
                    lookup>>

\* A timer forgets the status and whatever timer the monitor knows.  The calls
\* between clear and timer have gone on before it runs.
Forget(t) ==
  /\ t \in timers /\ t.due = clock
  /\ \A s \in Setters : setter[s] = NoValue
  /\ timers' = timers \ {t}
  /\ statusStore' = [statusStore EXCEPT ![t.hash] = NoValue]
  /\ userOpTimeouts' = [userOpTimeouts EXCEPT ![t.hash] = NoValue]
  /\ UNCHANGED <<clock, cacheKind, setter, sets, lastSet, cacheVars, settling,
                 lookup>>

\* Any status but "included", set by one flow or another.
SetStatus(s, h) ==
  /\ BeginSet(s, h, "submitted")
  /\ UNCHANGED <<clock, cacheKind, cacheVars, settling, lookup>>

-----------------------------------------------------------------------------
(* The receipt caches.                                                     *)

\* In memory an entry goes when another one is stored; Redis drops it by itself.
Stored(h) ==
  [g \in Hashes |->
     IF g = h THEN clock
     ELSE IF receiptCache[g] # NoValue /\ cacheKind = "memory" /\ clock - receiptCache[g] > ReceiptTtl
     THEN NoValue ELSE receiptCache[g]]

IsCached(h) ==
  /\ receiptCache[h] # NoValue
  /\ cacheKind = "redis" => clock - receiptCache[h] < ReceiptTtl

\* Redis may fail or time out; the cache then only logs it.
Cache(h) ==
  \/ /\ receiptCache' = Stored(h) /\ lost' = lost \ {h}
     /\ cachedAt' = [cachedAt EXCEPT ![h] = clock]
  \/ /\ cacheKind = "redis" /\ lost' = lost \cup {h}
     /\ UNCHANGED <<receiptCache, cachedAt>>

\* processIncludedBundle: first the receipt ...
CacheIncluded(h) ==
  /\ h \notin settling
  /\ Cache(h)
  /\ settling' = settling \cup {h}
  /\ UNCHANGED <<clock, cacheKind, monitorVars, lookup>>

\* Mutant: the status does not wait for the receipt.
MayBeIncludedEarly(h) == TRUE

MayBeIncluded(h) == h \in settling

\* ... then, in processIncludedUserOp, the status.
SetIncluded(s, h) ==
  /\ MayBeIncluded(h) /\ lastSet[h] # NoValue /\ lastSet[h].status # "included"
  /\ BeginSet(s, h, "included")
  /\ UNCHANGED <<clock, cacheKind, cacheVars, settling, lookup>>

-----------------------------------------------------------------------------
(* The lookups of clients.                                                 *)

lookedUp == <<clock, cacheKind, monitorVars, settling>>

\* getUserOpReceipt with something in the cache ends at once.
AskReceipt(l, h) ==
  /\ lookup[l] = NoLookup
  /\ \E hit \in IF cacheKind = "redis" THEN {IsCached(h), FALSE} ELSE {IsCached(h)} :
       ~hit /\ lookup' = [lookup EXCEPT ![l] = [hash |-> h, tries |-> 0]]
  /\ UNCHANGED <<lookedUp, cacheVars>>

\* The logs of the block range that is searched have no event of the userOp, or
\* the node that answers has not seen it yet.
NoLogs(l) ==
  /\ lookup[l] # NoLookup /\ lookup[l].tries = 0
  /\ lookup' = [lookup EXCEPT ![l] = NoLookup]
  /\ UNCHANGED <<lookedUp, cacheVars>>

\* The event is there, and the receipt of its transaction is asked for.
GotLogs(l) ==
  /\ lookup[l] # NoLookup /\ lookup[l].tries = 0
  /\ lookup' = [lookup EXCEPT ![l].tries = 1]
  /\ UNCHANGED <<lookedUp, cacheVars>>

\* The node that answers now does not know it: after some tries the call throws.
NotFound(l) ==
  /\ lookup[l].tries > 0
  /\ lookup' = [lookup EXCEPT
       ![l] = IF @.tries = MaxRetries THEN NoLookup ELSE [@ EXCEPT !.tries = @ + 1]]
  /\ UNCHANGED <<lookedUp, cacheVars>>

\* A receipt is cached before it is answered.
GotReceipt(l) ==
  /\ lookup[l].tries > 0
  /\ Cache(lookup[l].hash)
  /\ lookup' = [lookup EXCEPT ![l] = NoLookup]
  /\ UNCHANGED lookedUp

ReceiptsTick ==
  /\ Advance(MaxReceiptTime, \E s \in Setters : setter[s] # NoValue, { t.due : t \in timers })
  /\ UNCHANGED <<cacheKind, monitorVars, cacheVars, settling, lookup>>

ReceiptsNext ==
  \/ ReceiptsTick
  \/ \E h \in Hashes : CacheIncluded(h)
  \/ \E s \in Setters : EndSet(s) \/ \E h \in Hashes : SetStatus(s, h) \/ SetIncluded(s, h)
  \/ \E t \in timers : Forget(t)
  \/ \E l \in Lookups :
       \/ NoLogs(l) \/ GotLogs(l) \/ NotFound(l) \/ GotReceipt(l)
       \/ \E h \in Hashes : AskReceipt(l, h)

ReceiptsSpec == ReceiptsInit /\ [][ReceiptsNext]_<<clock, receiptVars>>

-----------------------------------------------------------------------------

\* A status is known for StatusTimeout after it was set, whatever calls for the
\* same userOp overlapped with that one or with earlier ones.
StatusIsKept ==
  \A h \in Hashes :
    (lastSet[h] # NoValue /\ clock - lastSet[h].at < StatusTimeout)
      => statusStore[h] = lastSet[h].status

\* A client that has read "included" finds the receipt without the chain, unless
\* Redis lost it or it was cached longer ago than ReceiptTtl.
IncludedHasReceipt ==
  \A h \in Hashes :
    (statusStore[h] = "included" /\ h \notin lost) =>
      \/ IsCached(h)
      \/ cachedAt[h] # NoValue /\ clock - cachedAt[h] >= ReceiptTtl
=============================================================================
