---------------------- MODULE MemoryOutstanding_proofs ----------------------
(***************************************************************************)
(* Proofs that the two structures of the in-memory store agree, and that   *)
(* it implements the abstract queue, for any userOps and any number of     *)
(* calls.                                                                  *)
(*                                                                         *)
(* The invariant is the one of the lemmas about the queue: the priority    *)
(* queue is sorted by fee and holds the heads of the backlogs, each once.  *)
(* That it is sorted is of no account to HeadsAreReady; it is what makes a *)
(* pop hand out the cheapest op.                                           *)
(***************************************************************************)
EXTENDS MemoryOutstanding, SlotQueue_proofs

IInv == TypeOK /\ QueueOK(TheQueue)

\* The prices are numbers.
LEMMA FeesAreNumbers == FeesAreNatural
BY OutstandingAssumption DEF FeesAreNatural

\* The types of the two structures follow from the rest.
LEMMA QueueHasTypes ==
  ASSUME QueueOK(TheQueue)
  PROVE  /\ pendingOps \in [Slots -> Seq(Ops)]
         /\ \A s \in Slots : \A i \in DOMAIN pendingOps[s] : SlotOf(pendingOps[s][i]) = s
         /\ priorityQueue \in Seq(Ops)
BY DEF TheQueue, QueueOK, Backlogs, PriorityQueue

\* The queue after a step is the one the step computed.
LEMMA BecomesIt ==
  ASSUME NEW q, Becomes(q), QueueOK(q)
  PROVE  QueueOK(TheQueue)'
<1>1. TheQueue'.pendingOps = q.pendingOps /\ TheQueue'.priorityQueue = q.priorityQueue
  BY DEF Becomes, TheQueue
<1>2. QED
  BY <1>1 DEF QueueOK

\* A store that is cleared is an empty queue.
LEMMA EmptyIsOK ==
  ASSUME pendingOps' = [s \in Slots |-> <<>>], priorityQueue' = <<>>
  PROVE  QueueOK(TheQueue)'
<1>1. TheQueue' = EmptyQueue(Slots)
  BY DEF TheQueue, EmptyQueue
<1>2. QED
  BY <1>1, EmptyQueueOK

\* The store starts empty.
LEMMA InitIInv == Init => IInv
<1> SUFFICES ASSUME Init PROVE IInv
  OBVIOUS
<1>1. TheQueue = EmptyQueue(Slots)
  BY DEF Init, TheQueue, EmptyQueue
<1>2. QueueOK(TheQueue)
  BY <1>1, EmptyQueueOK
<1>3. answer \in [call : {"none", "add", "pop", "remove", "popConflicting", "clear"},
                  op : Ops \cup {NoOp}]
  BY DEF Init
<1>4. adds \in 0 .. MaxAdds
  BY OutstandingAssumption DEF Init
<1>5. QED
  BY <1>2, <1>3, <1>4, QueueHasTypes DEF IInv, TypeOK

\* What a step does to the answer and to the count of adds.
Typed == /\ answer' \in [call : {"none", "add", "pop", "remove", "popConflicting", "clear"},
                         op : Ops \cup {NoOp}]
         /\ adds' \in 0 .. MaxAdds

\* No step loses it.
LEMMA NextIInv == IInv /\ [Next]_vars => IInv'
<1> SUFFICES ASSUME IInv, [Next]_vars PROVE QueueOK(TheQueue)' /\ Typed
  <2>1. ASSUME QueueOK(TheQueue)' PROVE /\ (pendingOps \in [Slots -> Seq(Ops)])'
                                       /\ (\A s \in Slots : \A i \in DOMAIN pendingOps[s] :
                                             SlotOf(pendingOps[s][i]) = s)'
                                       /\ (priorityQueue \in Seq(Ops))'
    BY <2>1 DEF TheQueue, QueueOK, Backlogs, PriorityQueue
  <2>2. QED
    BY <2>1 DEF IInv, TypeOK, Typed
<1>a. QueueOK(TheQueue) /\ TypeOK /\ TheQueue.priorityQueue = priorityQueue
  BY DEF IInv, TheQueue
<1>b. adds \in 0 .. MaxAdds /\ MaxAdds \in Nat
  BY <1>a, OutstandingAssumption DEF TypeOK
<1>1. CASE \E o \in Ops : Add(o)
  <2>1. PICK o \in Ops : Add(o)
    BY <1>1
  <2>2. QueueOK(Added(TheQueue, o))
    BY <1>a, FeesAreNumbers, AddedKeeps
  <2>3. QED
    BY <1>b, <2>1, <2>2, BecomesIt DEF Add, Answers, Typed
<1>2. CASE \E o \in Ops : Remove(o)
  <2>1. PICK o \in Ops : Remove(o)
    BY <1>2
  <2>2. QueueOK(Removed(TheQueue, o))
    BY <1>a, FeesAreNumbers, RemovedKeeps
  <2>3. QED
    BY <1>b, <2>1, <2>2, BecomesIt DEF Remove, Answers, Typed
<1>3. CASE \E o \in Ops : PopConflicting(o)
  <2>1. PICK o \in Ops : PopConflicting(o)
    BY <1>3
  <2>2. PICK p \in Conflicting(TheQueue, o) :
          Becomes(Removed(TheQueue, p)) /\ Answers("popConflicting", p)
    BY <2>1 DEF PopConflicting
  <2>3. QueueOK(Removed(TheQueue, p)) /\ p \in Ops
    BY <1>a, FeesAreNumbers, RemovedKeeps, ConflictingIsQueued
  <2>4. adds' = adds
    BY <2>1 DEF PopConflicting
  <2>5. QED
    BY <1>b, <2>2, <2>3, <2>4, BecomesIt DEF Answers, Typed
<1>4. CASE \E o \in Ops : NothingConflicts(o)
  BY <1>a, <1>b, <1>4 DEF NothingConflicts, Answers, Typed, TheQueue
<1>5. CASE Pop
  <2>1. QueueOK(Popped(TheQueue)) /\ Head(priorityQueue) \in Ops
    BY <1>a, <1>5, FeesAreNumbers, PoppedKeeps DEF Pop
  <2>2. QED
    BY <1>5, <1>b, <2>1, BecomesIt DEF Pop, Answers, Typed
<1>6. CASE PopEmpty
  BY <1>a, <1>b, <1>6 DEF PopEmpty, Answers, Typed, TheQueue
<1>7. CASE Clear
  BY <1>b, <1>7, EmptyIsOK DEF Clear, Answers, Typed
<1>8. CASE UNCHANGED vars
  BY <1>a, <1>b, <1>8 DEF vars, Typed, TheQueue, TypeOK
<1>9. QED
  BY <1>1, <1>2, <1>3, <1>4, <1>5, <1>6, <1>7, <1>8 DEF Next

\* So the structure is sound after any calls.
LEMMA AlwaysIInv == Spec => []IInv
BY InitIInv, NextIInv, PTL DEF Spec

\* Every variable keeps its type, whatever the calls.
THEOREM Typing == Spec => []TypeOK
<1>1. IInv => TypeOK
  BY DEF IInv
<1>2. QED
  BY <1>1, AlwaysIInv, PTL

\* pop and remove never meet one of their FATAL errors: a slot with a backlog has
\* its head, and nothing else, in the priority queue, exactly once.
THEOREM HeadsAlwaysReady == Spec => []HeadsAreReady
<1>1. IInv => HeadsAreReady
  <2> SUFFICES ASSUME IInv, NEW s \in Slots
               PROVE  LET entries == { i \in DOMAIN priorityQueue : SlotOf(priorityQueue[i]) = s }
                      IN IF pendingOps[s] = <<>>
                           THEN entries = {}
                           ELSE /\ Cardinality(entries) = 1
                                /\ \A i \in entries : priorityQueue[i] = Head(pendingOps[s])
    BY DEF HeadsAreReady
  <2> DEFINE entries == { i \in DOMAIN priorityQueue : SlotOf(priorityQueue[i]) = s }
  <2>1. /\ Backlogs(pendingOps) /\ OnePerSlot(priorityQueue)
        /\ OpsOf(priorityQueue) = Heads(pendingOps)
    BY DEF IInv, TheQueue, QueueOK, PriorityQueue
  <2>2. ASSUME NEW i \in entries
        PROVE  pendingOps[s] # <<>> /\ priorityQueue[i] = Head(pendingOps[s])
    <3>1. priorityQueue[i] \in Heads(pendingOps) /\ SlotOf(priorityQueue[i]) = s
      BY <2>1 DEF OpsOf
    <3>2. PICK t \in Slots : pendingOps[t] # <<>> /\ priorityQueue[i] = Head(pendingOps[t])
      BY <3>1 DEF Heads
    <3>3. t = s
      BY <2>1, <3>1, <3>2, HeadIsOfSlot
    <3>4. QED
      BY <3>2, <3>3
  <2>3. ASSUME pendingOps[s] # <<>> PROVE Cardinality(entries) = 1
    <3>1. Head(pendingOps[s]) \in OpsOf(priorityQueue) /\ SlotOf(Head(pendingOps[s])) = s
      BY <2>1, <2>3, HeadIsOfSlot DEF Heads
    <3>2. PICK i \in DOMAIN priorityQueue : priorityQueue[i] = Head(pendingOps[s])
      BY <3>1 DEF OpsOf
    <3>3. entries = {i}
      BY <2>1, <3>1, <3>2 DEF OnePerSlot
    <3>4. QED
      BY <3>3, FS_Singleton
  <2>4. QED
    BY <2>2, <2>3
<1>2. QED
  BY <1>1, AlwaysIInv, PTL

-----------------------------------------------------------------------------
(* The refinement.  A step of the store is the one of the abstract queue   *)
(* that has the same answer.                                               *)

\* The abstract queue's ready ops are the heads of the backlogs.
LEMMA ReadyAreHeads == Queue!Ready = Heads(pendingOps)
BY DEF Queue!Ready, Heads

\* Every call answers as the abstract queue may, or leaves the backlogs alone.
LEMMA NextRefines == IInv /\ [Next]_vars => [Queue!Next]_<<pendingOps, answer>>
<1> SUFFICES ASSUME IInv, [Next]_vars
             PROVE  Queue!Next \/ UNCHANGED <<pendingOps, answer>>
  OBVIOUS
<1>a. /\ QueueOK(TheQueue)
      /\ TheQueue.pendingOps = pendingOps /\ TheQueue.priorityQueue = priorityQueue
      /\ pendingOps \in [Slots -> Seq(Ops)]
  BY QueueHasTypes DEF IInv, TheQueue
<1>b. OpsOf(priorityQueue) = Queue!Ready
  BY <1>a, ReadyAreHeads DEF QueueOK
<1>c. ASSUME NEW o, IsReady(TheQueue, o), Becomes(Removed(TheQueue, o)),
             answer'.call \in {"remove", "popConflicting"}, answer'.op = o
      PROVE  Queue!Next
  <2>1. /\ pendingOps' = [pendingOps EXCEPT ![SlotOf(o)] = Tail(@)]
        /\ o \in Ops
    BY <1>a, <1>c, FeesAreNumbers, RemovedKeeps DEF Becomes
  <2>2. o \in Queue!Ready
    BY <1>a, <1>b, <1>c DEF IsReady, Holds, OpsOf
  <2>3. Queue!Withdraw(o)
    BY <1>c, <2>1, <2>2 DEF Queue!Withdraw
  <2>4. QED
    BY <2>1, <2>3 DEF Queue!Next
<1>d. ASSUME NEW o, ~IsReady(TheQueue, o), Becomes(Removed(TheQueue, o))
      PROVE  UNCHANGED pendingOps
  BY <1>a, <1>d, FeesAreNumbers, RemovedKeeps DEF Becomes
<1>1. CASE \E o \in Ops : Add(o)
  <2>1. PICK o \in Ops : Add(o)
    BY <1>1
  <2>2. pendingOps' = [pendingOps EXCEPT ![SlotOf(o)] = Append(@, o)]
    BY <1>a, <2>1, FeesAreNumbers, AddedKeeps DEF Add, Becomes
  <2>3. Queue!Enqueue(o)
    BY <2>1, <2>2 DEF Add, Answers, Queue!Enqueue, Queue!Answers
  <2>4. QED
    BY <2>3 DEF Queue!Next
<1>2. CASE \E o \in Ops : Remove(o)
  <2>1. PICK o \in Ops : Remove(o)
    BY <1>2
  <2>2. CASE IsReady(TheQueue, o)
    BY <1>c, <2>1, <2>2 DEF Remove, Answers
  <2>3. CASE ~IsReady(TheQueue, o)
    <3>1. UNCHANGED pendingOps /\ answer' = [call |-> "remove", op |-> NoOp]
      BY <1>d, <2>1, <2>3 DEF Remove, Answers
    <3>2. Queue!FindNothing
      BY <3>1 DEF Queue!FindNothing
    <3>3. QED
      BY <3>2 DEF Queue!Next
  <2>4. QED
    BY <2>2, <2>3
<1>3. CASE \E o \in Ops : PopConflicting(o)
  <2>1. PICK o \in Ops : PopConflicting(o)
    BY <1>3
  <2>2. PICK p \in Conflicting(TheQueue, o) :
          Becomes(Removed(TheQueue, p)) /\ Answers("popConflicting", p)
    BY <2>1 DEF PopConflicting
  <2>3. CASE IsReady(TheQueue, p)
    BY <1>c, <2>2, <2>3 DEF Answers
  <2>4. CASE ~IsReady(TheQueue, p)
    <3>1. PICK s \in Slots : \E i \in DOMAIN pendingOps[s] : pendingOps[s][i] = p
      BY <1>a, ConflictingIsQueued
    <3>2. PICK i \in DOMAIN pendingOps[s] : pendingOps[s][i] = p
      BY <3>1
    <3>3. pendingOps[s] \in Seq(Ops) /\ DOMAIN pendingOps[s] = 1 .. Len(pendingOps[s])
      BY <1>a, LenProperties
    <3>4. i # 1
      <4>1. ASSUME i = 1 PROVE FALSE
        <5>1. pendingOps[s] # <<>>
          BY <3>2
        <5>2. p = Head(pendingOps[s])
          BY <3>2, <3>3, <4>1, <5>1, TailIsRemoveAt
        <5>3. p \in OpsOf(priorityQueue)
          BY <1>b, <5>1, <5>2, ReadyAreHeads DEF Heads
        <5>4. QED
          BY <1>a, <2>4, <5>3 DEF IsReady, Holds, OpsOf
      <4>2. QED
        BY <4>1
    <3>5. p \in Queue!Queued
      <4>1. p \in Ops /\ i > 1
        BY <1>a, <3>2, <3>3, <3>4, ConflictingIsQueued
      <4>2. QED
        BY <3>2, <4>1 DEF Queue!Queued
    <3>6. Queue!Report(p)
      BY <1>d, <2>2, <2>4, <3>5 DEF Answers, Queue!Report, Queue!Answers
    <3>7. QED
      BY <1>a, <3>6, ConflictingIsQueued DEF Queue!Next
  <2>5. QED
    BY <2>3, <2>4
<1>4. CASE \E o \in Ops : NothingConflicts(o)
  <2>1. Queue!FindNothing
    BY <1>4 DEF NothingConflicts, Answers, Queue!FindNothing
  <2>2. QED
    BY <2>1 DEF Queue!Next
<1>5. CASE Pop
  <2> DEFINE o == Head(priorityQueue)
  <2>1. /\ pendingOps' = [pendingOps EXCEPT ![SlotOf(o)] = Tail(@)]
        /\ o \in Ops /\ o \in Heads(pendingOps) /\ \A x \in Heads(pendingOps) : Fee(o) <= Fee(x)
    BY <1>5, <1>a, FeesAreNumbers, PoppedKeeps DEF Pop, Becomes
  <2>2. answer' = [call |-> "pop", op |-> o]
    BY <1>5 DEF Pop, Answers
  <2> HIDE DEF o
  <2>3. Queue!TakeCheapest(o)
    BY <2>1, <2>2, ReadyAreHeads DEF Fee, Queue!TakeCheapest, Queue!Answers
  <2>4. QED
    BY <2>1, <2>3 DEF Queue!Next
<1>6. CASE PopEmpty
  <2>1. OpsOf(<<>>) = {}
    BY DEF OpsOf
  <2>2. Queue!FindNothing
    BY <1>6, <1>b, <2>1 DEF PopEmpty, Answers, Queue!FindNothing
  <2>3. QED
    BY <2>2 DEF Queue!Next
<1>7. CASE Clear
  BY <1>7 DEF Clear, Answers, Queue!Next, Queue!Clear, Queue!Answers
<1>8. CASE UNCHANGED vars
  BY <1>8 DEF vars
<1>9. QED
  BY <1>1, <1>2, <1>3, <1>4, <1>5, <1>6, <1>7, <1>8 DEF Next

\* The store implements the abstract queue: nothing is lost, duplicated or
\* reordered within a slot, and a pop hands out a ready op with the lowest fee.
THEOREM ImplementsTheQueue == Spec => ImplementsQueue
<1>1. Init => Queue!Init
  BY DEF Init, Queue!Init
<1>2. QED
  BY <1>1, NextRefines, AlwaysIInv, PTL DEF Spec, ImplementsQueue, Queue!Spec
=============================================================================
