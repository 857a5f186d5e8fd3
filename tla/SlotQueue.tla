----------------------------- MODULE SlotQueue -----------------------------
(***************************************************************************)
(* The data structure of the in-memory store of outstanding userOps        *)
(* (src/src/store/createMemoryOutstandingStore.ts) and what its methods    *)
(* make of it.  A queue is a record: pendingOps is the backlog of each     *)
(* slot, a slot being a sender and a nonce key, and priorityQueue holds    *)
(* what may be popped, the lowest maxFeePerGas first.                      *)
(***************************************************************************)
EXTENDS UserOps, Sequences, FiniteSets

CONSTANT NoOp    \* "undefined"

EmptyQueue(slots) == [pendingOps |-> [s \in slots |-> <<>>], priorityQueue |-> <<>>]

RemoveAt(s, i) == SubSeq(s, 1, i - 1) \o SubSeq(s, i + 1, Len(s))

FirstIndex(s, P(_)) ==
  CHOOSE i \in DOMAIN s : P(s[i]) /\ \A k \in 1 .. i - 1 : ~P(s[k])

Holds(s, o) == \E i \in DOMAIN s : s[i] = o

Queued(q, o) == Holds(q.pendingOps[SlotOf(o)], o)

IsReady(q, o) == Holds(q.priorityQueue, o)

\* The elements of a sequence.
OpsOf(s) == { s[i] : i \in DOMAIN s }

-----------------------------------------------------------------------------

\* Mutant: the sort puts the highest maxFeePerGas first.
AddToPriorityQueueDescending(pq, o) ==
  LET n == Cardinality({ i \in DOMAIN pq : UserOp[pq[i]].maxFeePerGas >= UserOp[o].maxFeePerGas })
  IN SubSeq(pq, 1, n) \o <<o>> \o SubSeq(pq, n + 1, Len(pq))

\* addToPriorityQueue: push, then a stable sort by ascending maxFeePerGas of a
\* queue that was sorted before.
AddToPriorityQueue(pq, o) ==
  LET n == Cardinality({ i \in DOMAIN pq : UserOp[pq[i]].maxFeePerGas <= UserOp[o].maxFeePerGas })
  IN SubSeq(pq, 1, n) \o <<o>> \o SubSeq(pq, n + 1, Len(pq))

\* The filter of add: the ready ops of the other slots.  It is spelled out as a
\* recursive function, of which facts can be proved.
WithoutSlot(pq, s) ==
  LET kept[i \in 0 .. Len(pq)] ==
        IF i = 0 THEN <<>>
        ELSE IF SlotOf(pq[i]) = s THEN kept[i - 1] ELSE Append(kept[i - 1], pq[i])
  IN kept[Len(pq)]

\* The next op of a backlog becomes ready.
Promote(pq, backlog) ==
  IF backlog = <<>> THEN pq ELSE AddToPriorityQueue(pq, Head(backlog))

\* add: the nonce sort runs on a copy, so the backlog stays in order of arrival.
\* The op becomes ready when the head of the backlog has its hash.
Added(q, o) ==
  LET backlog == Append(q.pendingOps[SlotOf(o)], o)
  IN [pendingOps |-> [q.pendingOps EXCEPT ![SlotOf(o)] = backlog],
      priorityQueue |-> IF Head(backlog) = o
        THEN AddToPriorityQueue(WithoutSlot(q.priorityQueue, SlotOf(o)), o)
        ELSE q.priorityQueue]

\* pop, of a queue with a ready op.
Popped(q) ==
  LET s == SlotOf(Head(q.priorityQueue))
      rest == Tail(q.pendingOps[s])
  IN [pendingOps |-> [q.pendingOps EXCEPT ![s] = rest],
      priorityQueue |-> Promote(Tail(q.priorityQueue), rest)]

\* Mutant: the successor is promoted only when the removed op was not the head.
TakenOutWrongHead(q, o) ==
  LET IsO(p) == p = o
      i == FirstIndex(q.pendingOps[SlotOf(o)], IsO)
      rest == RemoveAt(q.pendingOps[SlotOf(o)], i)
      others == RemoveAt(q.priorityQueue, FirstIndex(q.priorityQueue, IsO))
  IN [pendingOps |-> [q.pendingOps EXCEPT ![SlotOf(o)] = rest],
      priorityQueue |-> IF i = 1 THEN others ELSE Promote(others, rest)]

\* The body of remove, past its early return: the op leaves the priority queue
\* and its backlog, and the next op takes the place of a removed head.
TakenOut(q, o) ==
  LET IsO(p) == p = o
      i == FirstIndex(q.pendingOps[SlotOf(o)], IsO)
      rest == RemoveAt(q.pendingOps[SlotOf(o)], i)
      others == RemoveAt(q.priorityQueue, FirstIndex(q.priorityQueue, IsO))
  IN [pendingOps |-> [q.pendingOps EXCEPT ![SlotOf(o)] = rest],
      priorityQueue |-> IF i = 1 THEN Promote(others, rest) ELSE others]

\* remove: an op that waits behind another one is "non-existent".
Removed(q, o) == IF IsReady(q, o) THEN TakenOut(q, o) ELSE q

\* popConflicting returns the first conflicting op of some slot: of any slot,
\* the iteration order of the Map being abstracted.
Conflicting(q, o) ==
  LET Clash(p) == Conflicts(o, p)
      first(b) == b[FirstIndex(b, Clash)]
  IN { first(q.pendingOps[s]) :
         s \in { t \in DOMAIN q.pendingOps :
                   \E i \in DOMAIN q.pendingOps[t] : Clash(q.pendingOps[t][i]) } }
=============================================================================
