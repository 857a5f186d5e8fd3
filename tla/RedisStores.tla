---------------------------- MODULE RedisStores ----------------------------
(***************************************************************************)
(* The processing and submitted stores that several instances share        *)
(* (src/src/store/createRedisStore.ts, called through                      *)
(* createMempoolStore.ts): an index by hash, one by sender and nonce, one  *)
(* of deployments.  addProcessing and addSubmitted do not wait for Redis;  *)
(* removals read first and delete later.  Each store of each instance has  *)
(* a connection of its own, which keeps its commands in order.             *)
(*                                                                         *)
(* The outstanding store is RedisOutstanding's subject; here a userOp that *)
(* waits in it is "outstanding".                                           *)
(***************************************************************************)
EXTENDS UserOps, Integers, FiniteSets, Sequences

CONSTANTS
  Bundlers,    \* instances
  NoOp,
  MaxSent, MaxRequeues      \* bounds

Stores == {"processing", "submitted"}

ASSUME RedisStoresAssumption == NoOp \notin Ops /\ MaxSent \in Nat /\ MaxRequeues \in Nat

VARIABLES
  hashIndex,     \* userOpHashLookup: the ops of each store
  nonceIndex,    \* senderNonceLookup: of each store, by sender and nonce
  deployIndex,   \* factoryLookup: of each store, by sender
  wire,          \* the commands that wait in each connection
  opAt,          \* where each op is, and with whom
  stopped,       \* instances that are gone
  requeues       \* bound

storeIndexes == <<hashIndex, nonceIndex, deployIndex>>
storeVars == <<storeIndexes, wire, opAt, stopped, requeues>>

NonceOf(o) == <<SlotOf(o), UserOp[o].nonceSeq>>

\* todo: stores that the op is being removed from; next: where it goes then.
At(stage) == [stage |-> stage, by |-> NoOp, todo |-> <<>>, next |-> NoOp]

StoresInit ==
  /\ hashIndex = [s \in Stores |-> {}]
  /\ nonceIndex = [s \in Stores |-> [n \in { NonceOf(o) : o \in Ops } |-> NoOp]]
  /\ deployIndex = [s \in Stores |-> [a \in { UserOp[o].sender : o \in Ops } |-> NoOp]]
  /\ wire = [i \in Bundlers |-> [s \in Stores |-> <<>>]]
  /\ opAt = [o \in Ops |-> At("new")]
  /\ stopped = {} /\ requeues = 0

-----------------------------------------------------------------------------

\* findConflicting: a deployment whose op is gone does not count.
Conflicting(s, o) ==
  \/ nonceIndex[s][NonceOf(o)] # NoOp
  \/ /\ UserOp[o].deploys /\ deployIndex[s][UserOp[o].sender] # NoOp
     /\ deployIndex[s][UserOp[o].sender] \in hashIndex[s]

\* A client's op passes isInMempool and validateSubmittedOrProcessing, and
\* replaces what conflicts with it in the outstanding store.
Accept(o) ==
  /\ opAt[o].stage = "new"
  /\ Cardinality({ p \in Ops : opAt[p].stage # "new" }) < MaxSent
  /\ \A s \in Stores : o \notin hashIndex[s] /\ ~Conflicting(s, o)
  /\ opAt' = [p \in Ops |->
       IF p = o THEN At("outstanding")
       ELSE IF opAt[p].stage = "outstanding" /\ Conflicts(o, p) THEN At("settled") ELSE opAt[p]]
  /\ UNCHANGED <<storeIndexes, wire, stopped, requeues>>

Sent(i, s, call, o) == [wire EXCEPT ![i][s] = Append(@, [call |-> call, op |-> o])]

\* An instance pops the op: addProcessing.
Take(i, o) ==
  /\ opAt[o].stage = "outstanding" /\ i \notin stopped
  /\ wire' = Sent(i, "processing", "add", o)
  /\ opAt' = [opAt EXCEPT ![o] = [At("processing") EXCEPT !.by = i]]
  /\ UNCHANGED <<storeIndexes, stopped, requeues>>

\* The op leaves the stores in todo, one after the other; each removal reads first.
LeaveStores(o, todo, next) ==
  /\ wire' = Sent(opAt[o].by, Head(todo), "get", o)
  /\ opAt' = [opAt EXCEPT ![o] = [@ EXCEPT !.stage = "leaving", !.todo = todo, !.next = next]]
  /\ UNCHANGED <<storeIndexes, stopped>>

\* markUserOpsAsSubmitted
MarkSubmitted(o) ==
  /\ opAt[o].stage = "processing"
  /\ LeaveStores(o, <<"processing">>, "submitting") /\ UNCHANGED requeues

\* ... whose addSubmitted follows the removal and is not waited for.
AddSubmitted(o) ==
  /\ opAt[o].stage = "submitting"
  /\ wire' = Sent(opAt[o].by, "submitted", "add", o)
  /\ opAt' = [opAt EXCEPT ![o].stage = "submitted"]
  /\ UNCHANGED <<storeIndexes, stopped, requeues>>

\* processIncludedUserOp
Included(o) ==
  /\ opAt[o].stage = "submitted"
  /\ LeaveStores(o, <<"submitted">>, "settled") /\ UNCHANGED requeues

\* dropUserOps, before or after the op was sent
DropOp(o) ==
  /\ opAt[o].stage \in {"processing", "submitted"}
  /\ LeaveStores(o, <<"processing", "submitted">>, "settled") /\ UNCHANGED requeues

\* resubmitUserOps
Requeue(o) ==
  /\ opAt[o].stage \in {"processing", "submitted"} /\ requeues < MaxRequeues
  /\ requeues' = requeues + 1
  /\ LeaveStores(o, <<"processing", "submitted">>, "outstanding")

-----------------------------------------------------------------------------
(* Redis executes a command.  A MULTI is one.                              *)

\* Mutant: calls share a pool of connections.
ExecutableOfPool(q) == DOMAIN q

Executable(q) == IF q = <<>> THEN {} ELSE {1}

Without(q, n) == SubSeq(q, 1, n - 1) \o SubSeq(q, n + 1, Len(q))

Execute(i, s) == \E n \in Executable(wire[i][s]) :
  LET call == wire[i][s][n].call
      o == wire[i][s][n].op
      rest == Without(wire[i][s], n)
      done == Tail(opAt[o].todo)
      value == IF call = "add" THEN o ELSE NoOp
      finds == call = "get" /\ o \in hashIndex[s]
      removed == call # "add" /\ ~finds
  IN /\ UNCHANGED <<stopped, requeues>>
     /\ IF call = "get" THEN UNCHANGED storeIndexes
        ELSE /\ hashIndex' = [hashIndex EXCEPT ![s] =
                  IF call = "add" THEN @ \cup {o} ELSE @ \ {o}]
             /\ nonceIndex' = [nonceIndex EXCEPT ![s][NonceOf(o)] = value]
             /\ deployIndex' = IF UserOp[o].deploys
                               THEN [deployIndex EXCEPT ![s][UserOp[o].sender] = value]
                               ELSE deployIndex
     /\ opAt' = IF ~removed THEN opAt
                ELSE [opAt EXCEPT ![o] =
                       IF done # <<>> THEN [@ EXCEPT !.todo = done]
                       ELSE [At(@.next) EXCEPT !.by = IF opAt[o].next = "submitting" THEN i ELSE NoOp]]
     /\ wire' = IF finds
                THEN [wire EXCEPT ![i][s] = Append(rest, [call |-> "del", op |-> o])]
                ELSE IF removed /\ done # <<>>
                THEN [[wire EXCEPT ![i][s] = rest] EXCEPT
                        ![i][Head(done)] = Append(@, [call |-> "get", op |-> o])]
                ELSE [wire EXCEPT ![i][s] = rest]

\* An instance stops, or an add that nothing waits for fails, which ends it too.
\* What it held stays in the stores: nothing else removes it.
StopBundler(i) ==
  /\ i \notin stopped
  /\ stopped' = stopped \cup {i}
  /\ opAt' = [o \in Ops |-> IF opAt[o].by = i THEN At("abandoned") ELSE opAt[o]]
  /\ wire' = [wire EXCEPT ![i] = [s \in Stores |-> <<>>]]
  /\ UNCHANGED <<storeIndexes, requeues>>

StoresNext ==
  \/ \E o \in Ops : \/ Accept(o) \/ MarkSubmitted(o) \/ AddSubmitted(o)
                    \/ Included(o) \/ DropOp(o) \/ Requeue(o)
                    \/ \E i \in Bundlers : Take(i, o)
  \/ \E i \in Bundlers : StopBundler(i) \/ \E s \in Stores : Execute(i, s)

StoresSpec == StoresInit /\ [][StoresNext]_storeVars

-----------------------------------------------------------------------------

InIndexes(o, s) ==
  o \in hashIndex[s] \/ nonceIndex[s][NonceOf(o)] = o \/ deployIndex[s][UserOp[o].sender] = o

\* A settled op, or one that waits again, has left both stores and all of their
\* indexes, though nothing waits for its adds: it would refuse its sender's nonce
\* for good.
SettledLeavesNothing ==
  \A o \in Ops : opAt[o].stage \in {"settled", "outstanding"} =>
    \A s \in Stores : ~InIndexes(o, s)
=============================================================================
