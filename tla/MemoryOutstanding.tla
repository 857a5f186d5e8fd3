------------------------- MODULE MemoryOutstanding -------------------------
(***************************************************************************)
(* The in-memory store of outstanding userOps                              *)
(* (src/src/store/createMemoryOutstandingStore.ts).  Every method runs in  *)
(* one turn of the event loop, so each is one action.  SlotQueue has the   *)
(* data structure and what the methods make of it.                         *)
(***************************************************************************)
EXTENDS SlotQueue

CONSTANT MaxAdds    \* bound: how many times a userOp is added

ASSUME OutstandingAssumption ==
  /\ MaxAdds \in Nat
  /\ NoOp \notin Ops
  /\ \A o \in Ops : UserOp[o].nonceSeq \in Nat /\ UserOp[o].maxFeePerGas \in Nat

VARIABLES
  pendingOps,     \* the backlog of each slot
  priorityQueue,  \* the ready ops
  answer,         \* the last call and the userOp it returned
  adds            \* how many adds have happened

vars == <<pendingOps, priorityQueue, answer, adds>>

Answers(c, o) == answer' = [call |-> c, op |-> o]

TheQueue == [pendingOps |-> pendingOps, priorityQueue |-> priorityQueue]

Becomes(q) == pendingOps' = q.pendingOps /\ priorityQueue' = q.priorityQueue

Init ==
  /\ pendingOps = [s \in Slots |-> <<>>]
  /\ priorityQueue = <<>>
  /\ answer = [call |-> "none", op |-> NoOp]
  /\ adds = 0

-----------------------------------------------------------------------------

Add(o) ==
  /\ adds < MaxAdds
  /\ Becomes(Added(TheQueue, o))
  /\ adds' = adds + 1
  /\ Answers("add", NoOp)

Pop ==
  /\ priorityQueue # <<>>
  /\ Becomes(Popped(TheQueue))
  /\ Answers("pop", Head(priorityQueue))
  /\ UNCHANGED adds

\* pop of an empty queue.
PopEmpty ==
  /\ priorityQueue = <<>>
  /\ Answers("pop", NoOp)
  /\ UNCHANGED <<pendingOps, priorityQueue, adds>>

Remove(o) ==
  /\ Becomes(Removed(TheQueue, o))
  /\ Answers("remove", IF IsReady(TheQueue, o) THEN o ELSE NoOp)
  /\ UNCHANGED adds

\* popConflicting: the conflicting op is passed to remove, whose result is
\* dropped, and returned.
PopConflicting(o) ==
  /\ \E p \in Conflicting(TheQueue, o) :
       /\ Becomes(Removed(TheQueue, p))
       /\ Answers("popConflicting", p)
  /\ UNCHANGED adds

\* popConflicting when nothing conflicts.
NothingConflicts(o) ==
  /\ Conflicting(TheQueue, o) = {}
  /\ Answers("popConflicting", NoOp)
  /\ UNCHANGED <<pendingOps, priorityQueue, adds>>

\* clear
Clear ==
  /\ pendingOps' = [s \in Slots |-> <<>>]
  /\ priorityQueue' = <<>>
  /\ Answers("clear", NoOp)
  /\ UNCHANGED adds

Next ==
  \/ \E o \in Ops : Add(o) \/ Remove(o) \/ PopConflicting(o) \/ NothingConflicts(o)
  \/ Pop \/ PopEmpty \/ Clear

Spec == Init /\ [][Next]_vars

-----------------------------------------------------------------------------
(* A well-behaved mempool: a sender's ops arrive in the order of their     *)
(* nonces, and a bundling pass may hand the op it just popped back.        *)

SubmitInOrder(o) ==
  /\ \A i \in DOMAIN pendingOps[SlotOf(o)] :
       UserOp[pendingOps[SlotOf(o)][i]].nonceSeq < UserOp[o].nonceSeq
  /\ Add(o)

HandBack(o) ==
  /\ answer = [call |-> "pop", op |-> o]
  /\ Add(o)

InOrderNext ==
  \/ \E o \in Ops : SubmitInOrder(o) \/ HandBack(o)
  \/ Pop

InOrderSpec == Init /\ [][InOrderNext]_vars

-----------------------------------------------------------------------------

\* Every variable keeps its type, and an op is filed under its own slot.
TypeOK ==
  /\ pendingOps \in [Slots -> Seq(Ops)]
  /\ \A s \in Slots : \A i \in DOMAIN pendingOps[s] : SlotOf(pendingOps[s][i]) = s
  /\ priorityQueue \in Seq(Ops)
  /\ answer \in [call : {"none", "add", "pop", "remove", "popConflicting", "clear"},
                 op : Ops \cup {NoOp}]
  /\ adds \in 0 .. MaxAdds

\* The two structures agree after every sequence of calls, duplicated adds
\* included: a slot with a backlog has its head, and nothing else, in the
\* priority queue, exactly once.  The three FATAL errors of pop and remove
\* (lines 162, 300 and 310) are therefore unreachable.
HeadsAreReady ==
  \A s \in Slots :
    LET entries == { i \in DOMAIN priorityQueue : SlotOf(priorityQueue[i]) = s }
    IN IF pendingOps[s] = <<>>
         THEN entries = {}
         ELSE /\ Cardinality(entries) = 1
              /\ \A i \in entries : priorityQueue[i] = Head(pendingOps[s])

\* Each call does to the backlogs what the abstract queue allows: nothing is
\* lost, duplicated or reordered, and a pop hands out a ready op with the
\* lowest fee.
Queue == INSTANCE OutstandingQueue WITH backlog <- pendingOps
ImplementsQueue == Queue!Spec

\* store/index.ts:97: popConflicting "will remove and return" the op it returns.
\* The code returns an op that waits in a backlog without removing it.
ConflictingIsRemoved ==
  [][(answer'.call = "popConflicting" /\ answer'.op # NoOp)
       => pendingOps' # pendingOps]_vars

\* mempool.test.ts:1938: only "the lowest pending nonce per sender" (and nonce
\* key) is in the priority queue.  The code queues in order of arrival, so an op
\* that is handed back stands behind the later nonces of its sender.
LowestNonceIsReady ==
  \A i \in DOMAIN priorityQueue :
    LET o == priorityQueue[i] IN
    \A k \in DOMAIN pendingOps[SlotOf(o)] :
      UserOp[o].nonceSeq <= UserOp[pendingOps[SlotOf(o)][k]].nonceSeq
=============================================================================
