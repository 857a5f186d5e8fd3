-------------------------- MODULE RedisOutstanding --------------------------
(***************************************************************************)
(* The store of outstanding userOps that several instances share           *)
(* (src/src/store/createRedisOutstandingStore.ts): a sorted set of ops per *)
(* slot, a sorted set of ready slots, an index by hash and one of          *)
(* deployments.  Every command and every MULTI of Redis is one step; pop   *)
(* is a script, but add, remove and popConflicting read first and write    *)
(* later, and other calls get in between.                                  *)
(***************************************************************************)
EXTENDS UserOps, Integers, FiniteSets

CONSTANTS
  Callers,      \* calls under way at one time, in any of the instances
  Nothing,      \* nil
  MaxCalls      \* bound: how many calls are started

ASSUME RedisOutstandingAssumption ==
  /\ MaxCalls \in Nat /\ Nothing \notin Ops
  \* Sorted sets order members of one score by their bytes, here a number.
  /\ \A o \in Ops : UserOp[o].nonceSeq \in Nat /\ UserOp[o].bytes \in Nat
  /\ \A o, p \in Ops : UserOp[o].bytes = UserOp[p].bytes => o = p

VARIABLES
  pendingOps,        \* the ops of each slot, a sorted set by nonceSeq
  readyOpsQueue,     \* the score of each slot: the fee of its lowest op
  userOpHashLookup,  \* op -> slot
  factoryLookup,     \* sender -> the op that deploys it
  calls,             \* what each caller is doing
  popped,            \* ops that an executor has popped and not given back
  submitted,         \* ops that a client has submitted, which it does once
  started,           \* bound
  crossed,           \* history: slots where a call wrote what it had read too early
  mistaken           \* history: ops returned by popConflicting that it did not remove

queueVars == <<pendingOps, readyOpsQueue, userOpHashLookup, factoryLookup>>
outstandingVars ==
  <<queueVars, calls, popped, submitted, started, crossed, mistaken>>

Senders == { UserOp[o].sender : o \in Ops }

Idle == [at |-> "idle", op |-> Nothing, target |-> Nothing, lowest |-> FALSE,
         next |-> Nothing, fresh |-> TRUE]

OutstandingInit ==
  /\ pendingOps = [s \in Slots |-> {}]
  /\ readyOpsQueue = [s \in Slots |-> Nothing]
  /\ userOpHashLookup = [o \in Ops |-> Nothing]
  /\ factoryLookup = [s \in Senders |-> Nothing]
  /\ calls = [c \in Callers |-> Idle]
  /\ popped = {} /\ submitted = {} /\ started = 0
  /\ crossed = {} /\ mistaken = {}

\* The order of a slot's sorted set.
Precedes(o, p) ==
  \/ UserOp[o].nonceSeq < UserOp[p].nonceSeq
  \/ UserOp[o].nonceSeq = UserOp[p].nonceSeq /\ UserOp[o].bytes <= UserOp[p].bytes

First(ops) == IF ops = {} THEN Nothing ELSE CHOOSE o \in ops : \A p \in ops : Precedes(o, p)

\* The stored ops of o's nonce.
SameNonce(o) == { p \in pendingOps[SlotOf(o)] : UserOp[p].nonceSeq = UserOp[o].nonceSeq }

Fee(o) == IF o = Nothing THEN Nothing ELSE UserOp[o].maxFeePerGas

\* Caller c goes on to `at' with the fields of f; others that have read slot s
\* have read what is no longer so, when c writes it.
Goes(c, call) == calls' = [calls EXCEPT ![c] = call]

Wrote(c, call, s) ==
  calls' = [d \in Callers |->
    IF d = c THEN call
    ELSE IF calls[d].at \in {"addWrite", "removeWrite"} /\ SlotOf(calls[d].target) = s
         THEN [calls[d] EXCEPT !.fresh = FALSE] ELSE calls[d]]

Crosses(c, s) == crossed' = IF calls[c].fresh THEN crossed ELSE crossed \cup {s}

-----------------------------------------------------------------------------
(* Mempool.add of a client's op: popConflicting, then the op or, when it   *)
(* does not pay enough more, the one it would replace.                     *)

Submit(c, o) ==
  /\ calls[c].at = "idle" /\ started < MaxCalls /\ o \notin submitted
  /\ Goes(c, [Idle EXCEPT !.at = "conflict", !.op = o])
  /\ submitted' = submitted \cup {o} /\ started' = started + 1
  /\ UNCHANGED <<queueVars, popped, crossed, mistaken>>

AddsOwn(c) == Goes(c, [Idle EXCEPT !.at = "addRead", !.op = calls[c].op, !.target = calls[c].op])

Removes(c, o) == Goes(c, [calls[c] EXCEPT !.at = "removeIndex", !.target = o])

\* An op with the same nonce.
Conflict(c) ==
  LET o == calls[c].op
      same == SameNonce(o)
  IN
  /\ calls[c].at = "conflict"
  /\ IF same # {} THEN Removes(c, First(same))
     ELSE IF UserOp[o].deploys THEN Goes(c, [calls[c] EXCEPT !.at = "lookup"])
     ELSE AddsOwn(c)
  /\ UNCHANGED <<queueVars, popped, submitted, started, crossed, mistaken>>

\* Another deployment of the sender: by hash, then its slot, then its record.
Lookup(c) ==
  LET h == factoryLookup[UserOp[calls[c].op].sender] IN
  /\ calls[c].at = "lookup"
  /\ IF h = Nothing THEN AddsOwn(c)
     ELSE Goes(c, [calls[c] EXCEPT !.at = "lookupIndex", !.target = h])
  /\ UNCHANGED <<queueVars, popped, submitted, started, crossed, mistaken>>

LookupIndex(c) ==
  /\ calls[c].at = "lookupIndex"
  /\ IF userOpHashLookup[calls[c].target] = Nothing THEN AddsOwn(c)
     ELSE Goes(c, [calls[c] EXCEPT !.at = "lookupOps"])
  /\ UNCHANGED <<queueVars, popped, submitted, started, crossed, mistaken>>

LookupOps(c) ==
  /\ calls[c].at = "lookupOps"
  /\ IF calls[c].target \in pendingOps[SlotOf(calls[c].target)] THEN Removes(c, calls[c].target)
     ELSE AddsOwn(c)
  /\ UNCHANGED <<queueVars, popped, submitted, started, crossed, mistaken>>

\* hasHigherFees: ten per cent more.
Replaces(o, p) ==
  /\ UserOp[o].maxFeePerGas >= (110 * UserOp[p].maxFeePerGas) \div 100
  /\ UserOp[o].maxPriorityFeePerGas >= (110 * UserOp[p].maxPriorityFeePerGas) \div 100

\* What a caller does when its remove is over: popConflicting does not look at
\* the answer.  A call without an op of its own only drops.
AfterRemove(c) ==
  IF calls[c].op = Nothing THEN Idle
  ELSE [Idle EXCEPT !.at = "addRead", !.op = calls[c].op,
          !.target = IF Replaces(calls[c].op, calls[c].target) THEN calls[c].op
                     ELSE calls[c].target]

RemovedNothing(c) ==
  mistaken' = IF calls[c].op = Nothing THEN mistaken ELSE mistaken \cup {calls[c].target}

-----------------------------------------------------------------------------
(* remove                                                                  *)

\* removeOutstanding of an op that fails its checks.
Drop(c, o) ==
  /\ calls[c].at = "idle" /\ started < MaxCalls /\ o \in submitted
  /\ Goes(c, [Idle EXCEPT !.at = "removeIndex", !.target = o])
  /\ started' = started + 1
  /\ UNCHANGED <<queueVars, popped, submitted, crossed, mistaken>>

RemoveIndex(c) ==
  /\ calls[c].at = "removeIndex"
  /\ IF userOpHashLookup[calls[c].target] = Nothing
     THEN Goes(c, AfterRemove(c)) /\ RemovedNothing(c)
     ELSE Goes(c, [calls[c] EXCEPT !.at = "removeRead"]) /\ UNCHANGED mistaken
  /\ UNCHANGED <<queueVars, popped, submitted, started, crossed>>

RemoveRead(c) ==
  LET o == calls[c].target
      ops == pendingOps[SlotOf(o)]
  IN
  /\ calls[c].at = "removeRead"
  /\ IF o \notin ops THEN Goes(c, AfterRemove(c)) /\ RemovedNothing(c)
     ELSE /\ Goes(c, [calls[c] EXCEPT !.at = "removeWrite", !.lowest = First(ops) = o,
                        !.next = First(ops \ {o}), !.fresh = TRUE])
          /\ UNCHANGED mistaken
  /\ UNCHANGED <<queueVars, popped, submitted, started, crossed>>

\* Mutant: the slot of a removed lowest op is not ranked by the next one.
NotRankedAgain(c, s) ==
  readyOpsQueue' = IF calls[c].lowest THEN [readyOpsQueue EXCEPT ![s] = Nothing]
                   ELSE readyOpsQueue

\* The ready queue after a remove.
RankedAgain(c, s) ==
  readyOpsQueue' = IF calls[c].lowest THEN [readyOpsQueue EXCEPT ![s] = Fee(calls[c].next)]
                   ELSE readyOpsQueue

\* The transaction of remove, of whatever is still there.
RemoveWrite(c) ==
  LET o == calls[c].target
      s == SlotOf(o)
  IN
  /\ calls[c].at = "removeWrite"
  /\ pendingOps' = [pendingOps EXCEPT ![s] = @ \ {o}]
  /\ userOpHashLookup' = [userOpHashLookup EXCEPT ![o] = Nothing]
  /\ factoryLookup' = IF UserOp[o].deploys
                      THEN [factoryLookup EXCEPT ![UserOp[o].sender] = Nothing]
                      ELSE factoryLookup
  /\ RankedAgain(c, s)
  /\ Wrote(c, AfterRemove(c), s)
  /\ Crosses(c, s)
  /\ IF o \in pendingOps[s] THEN UNCHANGED mistaken ELSE RemovedNothing(c)
  /\ UNCHANGED <<popped, submitted, started>>

-----------------------------------------------------------------------------
(* add                                                                     *)

AddRead(c) ==
  LET o == calls[c].target
      first == First(pendingOps[SlotOf(o)])
  IN
  /\ calls[c].at = "addRead"
  /\ Goes(c, [calls[c] EXCEPT !.at = "addWrite", !.fresh = TRUE,
                !.lowest = first = Nothing \/ UserOp[o].nonceSeq < UserOp[first].nonceSeq])
  /\ UNCHANGED <<queueVars, popped, submitted, started, crossed, mistaken>>

AddWrite(c) ==
  LET o == calls[c].target
      s == SlotOf(o)
  IN
  /\ calls[c].at = "addWrite"
  /\ pendingOps' = [pendingOps EXCEPT ![s] = @ \cup {o}]
  /\ userOpHashLookup' = [userOpHashLookup EXCEPT ![o] = s]
  /\ factoryLookup' = IF UserOp[o].deploys THEN [factoryLookup EXCEPT ![UserOp[o].sender] = o]
                      ELSE factoryLookup
  /\ readyOpsQueue' = IF calls[c].lowest THEN [readyOpsQueue EXCEPT ![s] = Fee(o)]
                      ELSE readyOpsQueue
  /\ Wrote(c, Idle, s)
  /\ crossed' = IF calls[c].fresh /\ SameNonce(o) \ {o} = {} THEN crossed
                ELSE crossed \cup {s}
  /\ UNCHANGED <<popped, submitted, started, mistaken>>

-----------------------------------------------------------------------------
(* pop, a script, by an executor; and the executor gives an op back.       *)

\* Mutant: the record is removed by other bytes than were stored, which removes
\* nothing.
PoppedFromNothing(s, o) ==
  pendingOps' = pendingOps

PoppedFrom(s, o) ==
  pendingOps' = [pendingOps EXCEPT ![s] = @ \ {o}]

\* The best slot that has ops.  Entries of empty slots above it are dropped; of
\* those that tie with it, any.
Pop ==
  \E s \in { t \in Slots : readyOpsQueue[t] # Nothing /\ pendingOps[t] # {} } :
    LET o == First(pendingOps[s])
        stale == { t \in Slots : readyOpsQueue[t] # Nothing /\ pendingOps[t] = {} }
    IN
    /\ started < MaxCalls
    /\ \A t \in Slots \ stale : readyOpsQueue[t] # Nothing => readyOpsQueue[t] <= readyOpsQueue[s]
    /\ \E dropped \in SUBSET { t \in stale : readyOpsQueue[t] >= readyOpsQueue[s] } :
         /\ { t \in stale : readyOpsQueue[t] > readyOpsQueue[s] } \subseteq dropped
         /\ readyOpsQueue' = [t \in Slots |->
              IF t \in dropped THEN Nothing
              ELSE IF t = s THEN Fee(First(pendingOps[s] \ {o})) ELSE readyOpsQueue[t]]
    /\ PoppedFrom(s, o)
    /\ userOpHashLookup' = [userOpHashLookup EXCEPT ![o] = Nothing]
    /\ factoryLookup' = IF factoryLookup[UserOp[o].sender] = o
                        THEN [factoryLookup EXCEPT ![UserOp[o].sender] = Nothing]
                        ELSE factoryLookup
    /\ calls' = [d \in Callers |->
         IF calls[d].at \in {"addWrite", "removeWrite"} /\ SlotOf(calls[d].target) = s
         THEN [calls[d] EXCEPT !.fresh = FALSE] ELSE calls[d]]
    /\ popped' = popped \cup {o} /\ started' = started + 1
    /\ UNCHANGED <<submitted, crossed, mistaken>>

\* Nothing is ready: entries of empty slots are all dropped.
PopNothing ==
  /\ \A t \in Slots : readyOpsQueue[t] # Nothing => pendingOps[t] = {}
  /\ readyOpsQueue' = [t \in Slots |-> Nothing]
  /\ UNCHANGED <<pendingOps, userOpHashLookup, factoryLookup, calls, popped, submitted,
                 started, crossed, mistaken>>

GiveBack(c, o) ==
  /\ calls[c].at = "idle" /\ o \in popped
  /\ Goes(c, [Idle EXCEPT !.at = "addRead", !.target = o])
  /\ popped' = popped \ {o}
  /\ UNCHANGED <<queueVars, submitted, started, crossed, mistaken>>

-----------------------------------------------------------------------------

OutstandingNext ==
  \/ \E c \in Callers :
       \/ \E o \in Ops : Submit(c, o) \/ Drop(c, o) \/ GiveBack(c, o)
       \/ Conflict(c) \/ Lookup(c) \/ LookupIndex(c) \/ LookupOps(c)
       \/ RemoveIndex(c) \/ RemoveRead(c) \/ RemoveWrite(c)
       \/ AddRead(c) \/ AddWrite(c)
  \/ Pop \/ PopNothing

OutstandingSpec == OutstandingInit /\ [][OutstandingNext]_outstandingVars

-----------------------------------------------------------------------------

Outstanding == { o \in Ops : o \in pendingOps[SlotOf(o)] }

\* The indexes name exactly the ops that are stored, and each slot with ops is
\* ready with the fee of its first, however calls interleave: unless, in the slot, a
\* call wrote what another one's write had made wrong since it read, or two calls
\* that had both found no op of their nonce each put one there.
SlotsAreConsistent ==
  /\ \A o \in Ops : userOpHashLookup[o] = IF o \in Outstanding THEN SlotOf(o) ELSE Nothing
  /\ \A s \in Senders : factoryLookup[s] # Nothing =>
       factoryLookup[s] \in Outstanding /\ UserOp[factoryLookup[s]].deploys
  /\ \A s \in Slots \ crossed :
       IF pendingOps[s] = {} THEN readyOpsQueue[s] = Nothing
       ELSE readyOpsQueue[s] = Fee(First(pendingOps[s]))

\* An op that an executor has popped is not up for another one, unless
\* popConflicting had found it before it was popped and put it back.
PoppedByOne == popped \cap Outstanding \subseteq mistaken
=============================================================================
