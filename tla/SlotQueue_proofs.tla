-------------------------- MODULE SlotQueue_proofs --------------------------
(***************************************************************************)
(* What the proofs need of the queue of outstanding userOps: every method  *)
(* keeps QueueOK, that the priority queue is sorted and holds the heads of *)
(* the backlogs, each once, and does to a backlog what is said of it.      *)
(***************************************************************************)
EXTENDS SlotQueue, Totals_proofs

(* Sequences of userOps that are sorted by fee, with one op of a slot.     *)

FeesAreNatural == \A o \in Ops : UserOp[o].maxFeePerGas \in Nat

Fee(o) == UserOp[o].maxFeePerGas

\* The lowest fee first.
Sorted(pq) == \A i, j \in DOMAIN pq : i < j => Fee(pq[i]) <= Fee(pq[j])

OnePerSlot(pq) == \A i, j \in DOMAIN pq : SlotOf(pq[i]) = SlotOf(pq[j]) => i = j

PriorityQueue(pq) == pq \in Seq(Ops) /\ Sorted(pq) /\ OnePerSlot(pq)

\* A set of positions that holds with one all earlier ones is an initial segment.
LEMMA InitialSegment ==
  ASSUME NEW L \in Nat, NEW A \in SUBSET (1 .. L),
         \A i \in A : \A j \in 1 .. L : j < i => j \in A
  PROVE  Cardinality(A) \in 0 .. L /\ A = 1 .. Cardinality(A)
<1>a. \A k \in 0 .. L : Cardinality(1 .. k) = k
  BY FS_Interval
<1>1. CASE A = 1 .. L
  BY <1>1, <1>a
<1>2. CASE A # 1 .. L
  <2> DEFINE T == (1 .. L) \ A
  <2>0. T # {} /\ T \in SUBSET Nat
    <3>1. T # {}
      BY <1>2, Zenon
    <3>2. QED
      BY <3>1
  <2> HIDE DEF T
  <2>1. PICK k \in T : \A m \in T : k <= m
    BY <2>0, LeastElement
  <2>2. k \in 1 .. L /\ k \notin A /\ \A m \in 1 .. L : m \notin A => k <= m
    BY <2>1 DEF T
  <2>3. \A m \in 1 .. L : m \in A <=> m < k
    BY <2>2
  <2>4. \A m : m \in A <=> m \in 1 .. L /\ m < k
    BY <2>3
  <2>6. \A m : m \in 1 .. k - 1 <=> m \in 1 .. L /\ m < k
    BY <2>2
  <2>7. A = 1 .. k - 1
    BY <2>4, <2>6, Zenon
  <2>8. k - 1 \in 0 .. L
    BY <2>2
  <2>9. QED
    BY <1>a, <2>7, <2>8
<1>3. QED
  BY <1>1, <1>2

\* What an insertion after position n does to each position.
LEMMA Inserted ==
  ASSUME NEW pq \in Seq(Ops), NEW o \in Ops, NEW n \in 0 .. Len(pq)
  PROVE  LET r == SubSeq(pq, 1, n) \o <<o>> \o SubSeq(pq, n + 1, Len(pq))
         IN  /\ r \in Seq(Ops) /\ Len(r) = Len(pq) + 1
             /\ \A i \in 1 .. n : r[i] = pq[i]
             /\ r[n + 1] = o
             /\ \A i \in n + 2 .. Len(pq) + 1 : r[i] = pq[i - 1]
<1> DEFINE a == SubSeq(pq, 1, n)
           b == SubSeq(pq, n + 1, Len(pq))
           c == a \o <<o>>
<1>1. Len(pq) \in Nat /\ DOMAIN pq = 1 .. Len(pq) /\ \A i \in 1 .. Len(pq) : pq[i] \in Ops
  BY LenProperties, ElementOfSeq
<1>2. a \in Seq(Ops) /\ Len(a) = n /\ \A i \in 1 .. n : a[i] = pq[i]
  <2>1. \A i \in 1 .. n : pq[i] \in Ops
    BY <1>1
  <2>2. /\ a \in Seq(Ops) /\ Len(a) = IF 1 <= n THEN n - 1 + 1 ELSE 0
        /\ \A i \in 1 .. n - 1 + 1 : a[i] = pq[1 + i - 1]
    BY <2>1, SubSeqProperties
  <2>3. QED
    BY <2>2
<1>3. b \in Seq(Ops) /\ Len(b) = Len(pq) - n /\ \A i \in 1 .. Len(pq) - n : b[i] = pq[n + i]
  <2>1. (\A i \in n + 1 .. Len(pq) : pq[i] \in Ops) /\ n + 1 \in Int /\ Len(pq) \in Int
    BY <1>1
  <2>2. /\ b \in Seq(Ops) /\ Len(b) = IF n + 1 <= Len(pq) THEN Len(pq) - (n + 1) + 1 ELSE 0
        /\ \A i \in 1 .. Len(pq) - (n + 1) + 1 : b[i] = pq[(n + 1) + i - 1]
    <3> HIDE DEF b
    <3>1. QED
      BY <2>1, SubSeqProperties DEF b
  <2>3. QED
    <3> HIDE DEF b
    <3>1. \A i \in 1 .. Len(pq) - n : (n + 1) + i - 1 = n + i
      BY <1>1
    <3>2. Len(pq) - (n + 1) + 1 = Len(pq) - n
      BY <1>1
    <3>3. Len(b) = Len(pq) - n
      <4>1. CASE n + 1 <= Len(pq)
        BY <2>2, <3>2, <4>1
      <4>2. CASE ~(n + 1 <= Len(pq))
        <5>1. Len(b) = 0
          BY <2>2, <4>2
        <5>2. n \in 0 .. Len(pq) /\ Len(pq) \in Nat
          BY <1>1
        <5>3. n = Len(pq)
          BY <4>2, <5>2
        <5>4. Len(pq) - n = 0
          BY <5>2, <5>3
        <5>5. QED
          BY <5>1, <5>4
      <4>3. QED
        BY <4>1, <4>2
    <3>4. QED
      BY <2>2, <3>1, <3>2, <3>3
<1>4. <<o>> \in Seq(Ops) /\ Len(<<o>>) = 1 /\ <<o>>[1] = o
  OBVIOUS
<1> HIDE DEF a, b
<1>5. c \in Seq(Ops) /\ Len(c) = n + 1 /\ (\A i \in 1 .. n : c[i] = pq[i]) /\ c[n + 1] = o
  BY <1>2, <1>4, ConcatProperties
<1> HIDE DEF c
<1>6. /\ c \o b \in Seq(Ops) /\ Len(c \o b) = Len(pq) + 1
      /\ \A i \in 1 .. Len(pq) + 1 : (c \o b)[i] = IF i <= n + 1 THEN c[i] ELSE b[i - (n + 1)]
  BY <1>1, <1>3, <1>5, ConcatProperties
<1>7. \A i \in n + 2 .. Len(pq) + 1 : (c \o b)[i] = pq[i - 1]
  <2> SUFFICES ASSUME NEW i \in n + 2 .. Len(pq) + 1 PROVE (c \o b)[i] = pq[i - 1]
    OBVIOUS
  <2>1. i \in 1 .. Len(pq) + 1 /\ ~(i <= n + 1) /\ i - (n + 1) \in 1 .. Len(pq) - n
    BY <1>1
  <2>2. n + (i - (n + 1)) = i - 1
    OBVIOUS
  <2>3. QED
    BY <1>3, <1>6, <2>1, <2>2
<1>8. \A i \in 1 .. n : (c \o b)[i] = pq[i]
  BY <1>1, <1>5, <1>6
<1>9. (c \o b)[n + 1] = o
  BY <1>1, <1>5, <1>6
<1>10. QED
  BY <1>6, <1>7, <1>8, <1>9 DEF a, b, c

\* An op goes behind all that pay no more, so the list stays sorted.
LEMMA AddToQueueKeeps ==
  ASSUME FeesAreNatural, NEW pq, PriorityQueue(pq), NEW o \in Ops,
         \A i \in DOMAIN pq : SlotOf(pq[i]) # SlotOf(o)
  PROVE  /\ PriorityQueue(AddToPriorityQueue(pq, o))
         /\ OpsOf(AddToPriorityQueue(pq, o)) = OpsOf(pq) \cup {o}
<1> DEFINE A == { i \in DOMAIN pq : UserOp[pq[i]].maxFeePerGas <= UserOp[o].maxFeePerGas }
           n == Cardinality(A)
           r == AddToPriorityQueue(pq, o)
           L == Len(pq)
<1>1. /\ L \in Nat /\ DOMAIN pq = 1 .. L /\ pq \in Seq(Ops)
      /\ \A i \in 1 .. L : pq[i] \in Ops /\ Fee(pq[i]) \in Nat
      /\ Fee(o) \in Nat
  BY LenProperties, ElementOfSeq DEF PriorityQueue, FeesAreNatural, Fee
<1>2. n \in 0 .. L /\ A = 1 .. n
  <2>1. \A i \in A : \A j \in 1 .. L : j < i => j \in A
    BY <1>1 DEF PriorityQueue, Sorted, Fee
  <2>2. A \in SUBSET (1 .. L)
    BY <1>1
  <2> HIDE DEF A, L
  <2>3. QED
    BY <1>1, <2>1, <2>2, InitialSegment
<1>3. r = SubSeq(pq, 1, n) \o <<o>> \o SubSeq(pq, n + 1, L)
  BY DEF AddToPriorityQueue
<1>4. /\ \A i \in 1 .. n : Fee(pq[i]) <= Fee(o)
      /\ \A i \in n + 1 .. L : Fee(o) <= Fee(pq[i])
  <2>1. \A i \in 1 .. n : i \in A
    BY <1>2
  <2>2. \A i \in n + 1 .. L : i \notin A /\ i \in 1 .. L
    <3> HIDE DEF A, n
    <3>1. QED
      BY <1>1, <1>2
  <2>3. \A i \in 1 .. L : i \notin A => ~(Fee(pq[i]) <= Fee(o))
    BY <1>1 DEF Fee
  <2>4. \A i \in A : Fee(pq[i]) <= Fee(o)
    BY DEF Fee
  <2>5. \A i \in 1 .. n : Fee(pq[i]) <= Fee(o)
    BY <2>1, <2>4
  <2>6. \A i \in n + 1 .. L : Fee(o) <= Fee(pq[i])
    <3> HIDE DEF A, n, L
    <3>1. QED
      BY <1>1, <2>2, <2>3
  <2>7. QED
    BY <2>5, <2>6
<1> HIDE DEF A, n
<1>5. /\ r \in Seq(Ops) /\ Len(r) = L + 1
      /\ \A i \in 1 .. n : r[i] = pq[i]
      /\ r[n + 1] = o
      /\ \A i \in n + 2 .. L + 1 : r[i] = pq[i - 1]
  <2>1. pq \in Seq(Ops) /\ n \in 0 .. Len(pq)
    BY <1>1, <1>2
  <2> HIDE DEF r
  <2>2. QED
    BY <1>3, <2>1, Inserted
<1> HIDE DEF r, L
<1>6. DOMAIN r = 1 .. L + 1
  BY <1>5
<1>7. \A i \in 1 .. L + 1 : \/ i \in 1 .. n /\ r[i] = pq[i]
                            \/ i = n + 1 /\ r[i] = o
                            \/ i \in n + 2 .. L + 1 /\ r[i] = pq[i - 1] /\ i - 1 \in n + 1 .. L
  BY <1>1, <1>2, <1>5
<1>8. Sorted(r)
  <2> SUFFICES ASSUME NEW i \in 1 .. L + 1, NEW j \in 1 .. L + 1, i < j
               PROVE  Fee(r[i]) <= Fee(r[j])
    BY <1>6 DEF Sorted
  <2>1. \A k, l \in 1 .. L : k < l => Fee(pq[k]) <= Fee(pq[l])
    BY <1>1 DEF PriorityQueue, Sorted
  <2>2. CASE i \in 1 .. n
    BY <1>1, <1>2, <1>4, <1>7, <2>1, <2>2
  <2>3. CASE i = n + 1
    BY <1>1, <1>2, <1>4, <1>7, <2>1, <2>3
  <2>4. CASE i \in n + 2 .. L + 1
    BY <1>1, <1>2, <1>4, <1>7, <2>1, <2>4
  <2>5. QED
    BY <1>7, <2>2, <2>3, <2>4
<1>9. OnePerSlot(r)
  <2> SUFFICES ASSUME NEW i \in 1 .. L + 1, NEW j \in 1 .. L + 1, SlotOf(r[i]) = SlotOf(r[j])
               PROVE  i = j
    BY <1>6 DEF OnePerSlot
  <2>1. \A k, l \in 1 .. L : SlotOf(pq[k]) = SlotOf(pq[l]) => k = l
    BY <1>1 DEF PriorityQueue, OnePerSlot
  <2>2. \A k \in 1 .. L : SlotOf(pq[k]) # SlotOf(o)
    BY <1>1
  <2>3. CASE i \in 1 .. n
    BY <1>1, <1>2, <1>7, <2>1, <2>2, <2>3
  <2>4. CASE i = n + 1
    BY <1>1, <1>2, <1>7, <2>1, <2>2, <2>4
  <2>5. CASE i \in n + 2 .. L + 1
    BY <1>1, <1>2, <1>7, <2>1, <2>2, <2>5
  <2>6. QED
    BY <1>7, <2>3, <2>4, <2>5
<1>10. OpsOf(r) = OpsOf(pq) \cup {o}
  <2>1. \A i \in 1 .. L : \E k \in 1 .. L + 1 : r[k] = pq[i]
    <3> SUFFICES ASSUME NEW i \in 1 .. L PROVE \E k \in 1 .. L + 1 : r[k] = pq[i]
      OBVIOUS
    <3>1. CASE i <= n
      BY <1>1, <1>2, <1>5, <3>1
    <3>2. CASE i > n
      <4>1. i + 1 \in n + 2 .. L + 1 /\ (i + 1) - 1 = i
        BY <1>1, <1>2, <3>2
      <4>2. r[i + 1] = pq[i]
        BY <1>5, <4>1
      <4>3. QED
        BY <1>1, <4>1, <4>2
    <3>3. QED
      BY <1>1, <1>2, <3>1, <3>2
  <2>2. n + 1 \in 1 .. L + 1
    BY <1>1, <1>2
  <2>3. OpsOf(pq) \cup {o} \subseteq OpsOf(r)
    <3>1. \A p \in OpsOf(pq) : p \in OpsOf(r)
      BY <1>1, <1>6, <2>1 DEF OpsOf
    <3>2. o \in OpsOf(r)
      BY <1>5, <1>6, <2>2 DEF OpsOf
    <3>3. QED
      BY <3>1, <3>2
  <2>4. OpsOf(r) \subseteq OpsOf(pq) \cup {o}
    <3>1. \A i \in 1 .. L + 1 : r[i] = o \/ \E k \in 1 .. L : r[i] = pq[k]
      BY <1>1, <1>2, <1>7
    <3>2. QED
      BY <1>1, <1>6, <3>1 DEF OpsOf
  <2>5. QED
    BY <2>3, <2>4
<1>11. QED
  BY <1>5, <1>8, <1>9, <1>10 DEF r, PriorityQueue

-----------------------------------------------------------------------------

\* RemoveAt takes one element out.
LEMMA RemovedAt ==
  ASSUME NEW S, NEW s \in Seq(S), NEW i \in 1 .. Len(s)
  PROVE  LET r == RemoveAt(s, i)
         IN  /\ r \in Seq(S) /\ Len(r) = Len(s) - 1
             /\ \A k \in 1 .. i - 1 : r[k] = s[k]
             /\ \A k \in i .. Len(s) - 1 : r[k] = s[k + 1]
<1> DEFINE a == SubSeq(s, 1, i - 1)
           b == SubSeq(s, i + 1, Len(s))
<1>1. Len(s) \in Nat /\ \A k \in 1 .. Len(s) : s[k] \in S
  BY LenProperties, ElementOfSeq
<1>2. a \in Seq(S) /\ Len(a) = i - 1 /\ \A k \in 1 .. i - 1 : a[k] = s[k]
  <2>1. (\A k \in 1 .. i - 1 : s[k] \in S) /\ 1 \in Int /\ i - 1 \in Int
    BY <1>1
  <2>2. /\ a \in Seq(S) /\ Len(a) = IF 1 <= i - 1 THEN (i - 1) - 1 + 1 ELSE 0
        /\ \A k \in 1 .. (i - 1) - 1 + 1 : a[k] = s[1 + k - 1]
    <3> HIDE DEF a
    <3>1. QED
      BY <2>1, SubSeqProperties DEF a
  <2> HIDE DEF a
  <2>3. Len(a) = i - 1
    <3>1. CASE 1 <= i - 1
      BY <2>2, <3>1
    <3>2. CASE ~(1 <= i - 1)
      BY <2>2, <3>2
    <3>3. QED
      BY <3>1, <3>2
  <2>4. (i - 1) - 1 + 1 = i - 1 /\ \A k \in 1 .. i - 1 : 1 + k - 1 = k
    OBVIOUS
  <2>5. QED
    BY <2>2, <2>3, <2>4
<1>3. b \in Seq(S) /\ Len(b) = Len(s) - i /\ \A k \in 1 .. Len(s) - i : b[k] = s[i + k]
  <2>1. (\A k \in i + 1 .. Len(s) : s[k] \in S) /\ i + 1 \in Int /\ Len(s) \in Int
    BY <1>1
  <2>2. /\ b \in Seq(S) /\ Len(b) = IF i + 1 <= Len(s) THEN Len(s) - (i + 1) + 1 ELSE 0
        /\ \A k \in 1 .. Len(s) - (i + 1) + 1 : b[k] = s[(i + 1) + k - 1]
    <3> HIDE DEF b
    <3>1. QED
      BY <2>1, SubSeqProperties DEF b
  <2> HIDE DEF b
  <2>3. Len(b) = Len(s) - i
    <3>1. CASE i + 1 <= Len(s)
      BY <1>1, <2>2, <3>1
    <3>2. CASE ~(i + 1 <= Len(s))
      <4>1. Len(b) = 0
        BY <2>2, <3>2
      <4>2. Len(s) - i = 0
        BY <1>1, <3>2
      <4>3. QED
        BY <4>1, <4>2
    <3>3. QED
      BY <3>1, <3>2
  <2>4. Len(s) - (i + 1) + 1 = Len(s) - i /\ \A k \in 1 .. Len(s) - i : (i + 1) + k - 1 = i + k
    BY <1>1
  <2>5. QED
    BY <2>2, <2>3, <2>4
<1> HIDE DEF a, b
<1>4. /\ a \o b \in Seq(S) /\ Len(a \o b) = Len(s) - 1
      /\ \A k \in 1 .. Len(s) - 1 : (a \o b)[k] = IF k <= i - 1 THEN a[k] ELSE b[k - (i - 1)]
  <2>1. /\ a \o b \in Seq(S) /\ Len(a \o b) = Len(a) + Len(b)
        /\ \A k \in 1 .. Len(a) + Len(b) : (a \o b)[k] = IF k <= Len(a) THEN a[k] ELSE b[k - Len(a)]
    BY <1>2, <1>3, ConcatProperties
  <2>2. Len(a) + Len(b) = Len(s) - 1
    BY <1>1, <1>2, <1>3
  <2>3. QED
    BY <1>2, <2>1, <2>2
<1>5. \A k \in 1 .. i - 1 : (a \o b)[k] = s[k]
  BY <1>1, <1>2, <1>4
<1>6. ASSUME NEW k \in i .. Len(s) - 1 PROVE (a \o b)[k] = s[k + 1]
  <2>1. k \in 1 .. Len(s) - 1 /\ ~(k <= i - 1) /\ k - (i - 1) \in 1 .. Len(s) - i
    BY <1>1
  <2>2. i + (k - (i - 1)) = k + 1
    BY <1>1
  <2>3. QED
    BY <1>3, <1>4, <2>1, <2>2
<1>7. QED
  BY <1>4, <1>5, <1>6 DEF RemoveAt, a, b

\* A queue keeps its order when an op leaves it.
LEMMA RemoveFromQueueKeeps ==
  ASSUME NEW pq, PriorityQueue(pq), NEW i \in DOMAIN pq
  PROVE  /\ PriorityQueue(RemoveAt(pq, i))
         /\ OpsOf(RemoveAt(pq, i)) = { o \in OpsOf(pq) : SlotOf(o) # SlotOf(pq[i]) }
<1> DEFINE r == RemoveAt(pq, i)
           L == Len(pq)
<1>1. /\ L \in Nat /\ DOMAIN pq = 1 .. L /\ pq \in Seq(Ops) /\ i \in 1 .. L
      /\ \A k, l \in 1 .. L : k < l => Fee(pq[k]) <= Fee(pq[l])
      /\ \A k, l \in 1 .. L : SlotOf(pq[k]) = SlotOf(pq[l]) => k = l
  BY LenProperties DEF PriorityQueue, Sorted, OnePerSlot
<1>2. /\ r \in Seq(Ops) /\ Len(r) = L - 1
      /\ \A k \in 1 .. i - 1 : r[k] = pq[k]
      /\ \A k \in i .. L - 1 : r[k] = pq[k + 1]
  BY <1>1, RemovedAt
<1> HIDE DEF r, L
<1>3. DOMAIN r = 1 .. L - 1
  BY <1>2
<1>4. \A k \in 1 .. L - 1 : \/ k < i /\ r[k] = pq[k]
                            \/ k >= i /\ r[k] = pq[k + 1] /\ k + 1 \in 1 .. L
  BY <1>1, <1>2
<1>5. Sorted(r)
  <2> SUFFICES ASSUME NEW k \in 1 .. L - 1, NEW l \in 1 .. L - 1, k < l
               PROVE  Fee(r[k]) <= Fee(r[l])
    BY <1>3 DEF Sorted
  <2>1. CASE k < i
    BY <1>1, <1>4, <2>1
  <2>2. CASE k >= i
    BY <1>1, <1>4, <2>2
  <2>3. QED
    BY <1>1, <2>1, <2>2
<1>6. OnePerSlot(r)
  <2> SUFFICES ASSUME NEW k \in 1 .. L - 1, NEW l \in 1 .. L - 1, SlotOf(r[k]) = SlotOf(r[l])
               PROVE  k = l
    BY <1>3 DEF OnePerSlot
  <2>1. CASE k < i
    BY <1>1, <1>4, <2>1
  <2>2. CASE k >= i
    BY <1>1, <1>4, <2>2
  <2>3. QED
    BY <1>1, <2>1, <2>2
<1>7. ASSUME NEW k \in 1 .. L - 1 PROVE r[k] \in OpsOf(pq) /\ SlotOf(r[k]) # SlotOf(pq[i])
  BY <1>1, <1>4 DEF OpsOf
<1>8. ASSUME NEW k \in 1 .. L, SlotOf(pq[k]) # SlotOf(pq[i]) PROVE pq[k] \in OpsOf(r)
  <2>1. CASE k < i
    BY <1>1, <1>2, <1>3, <2>1 DEF OpsOf
  <2>2. CASE k > i
    <3>1. k - 1 \in i .. L - 1 /\ (k - 1) + 1 = k
      BY <1>1, <2>2
    <3>2. r[k - 1] = pq[k] /\ k - 1 \in 1 .. L - 1
      BY <1>1, <1>2, <3>1
    <3>3. QED
      BY <1>3, <3>2 DEF OpsOf
  <2>3. QED
    BY <1>1, <1>8, <2>1, <2>2
<1>9. OpsOf(r) = { o \in OpsOf(pq) : SlotOf(o) # SlotOf(pq[i]) }
  <2>1. \A o \in OpsOf(r) : o \in OpsOf(pq) /\ SlotOf(o) # SlotOf(pq[i])
    BY <1>3, <1>7 DEF OpsOf
  <2>2. \A o \in OpsOf(pq) : SlotOf(o) # SlotOf(pq[i]) => o \in OpsOf(r)
    <3>1. \A o \in OpsOf(pq) : \E k \in 1 .. L : o = pq[k]
      BY <1>1 DEF OpsOf
    <3>2. QED
      BY <1>8, <3>1
  <2>3. QED
    BY <2>1, <2>2
<1>10. QED
  BY <1>2, <1>5, <1>6, <1>9 DEF r, PriorityQueue

\* Tail takes the first one out.
LEMMA TailIsRemoveAt ==
  ASSUME NEW S, NEW s \in Seq(S), s # <<>>
  PROVE  Tail(s) = RemoveAt(s, 1) /\ Head(s) = s[1] /\ 1 \in DOMAIN s
<1> DEFINE r == RemoveAt(s, 1)
<1>1. Len(s) \in Nat /\ Len(s) >= 1
  BY EmptySeq
<1>2. r \in Seq(S) /\ Len(r) = Len(s) - 1 /\ \A k \in 1 .. Len(s) - 1 : r[k] = s[k + 1]
  BY <1>1, RemovedAt
<1>3. /\ Tail(s) \in Seq(S) /\ Len(Tail(s)) = Len(s) - 1
      /\ \A k \in 1 .. Len(s) - 1 : Tail(s)[k] = s[k + 1]
  BY HeadTailProperties
<1> HIDE DEF r
<1>4. Tail(s) = r
  BY <1>2, <1>3, SeqEqual
<1>5. QED
  BY <1>1, <1>4 DEF r

\* An op that costs no less than the others, of a slot of its own, goes to the end.
LEMMA AppendKeeps ==
  ASSUME NEW pq, PriorityQueue(pq), NEW o \in Ops,
         \A p \in OpsOf(pq) : Fee(p) <= Fee(o) /\ SlotOf(p) # SlotOf(o)
  PROVE  PriorityQueue(Append(pq, o)) /\ OpsOf(Append(pq, o)) = OpsOf(pq) \cup {o}
<1> DEFINE r == Append(pq, o)
           L == Len(pq)
<1>1. /\ L \in Nat /\ DOMAIN pq = 1 .. L /\ pq \in Seq(Ops)
      /\ \A k, l \in 1 .. L : k < l => Fee(pq[k]) <= Fee(pq[l])
      /\ \A k, l \in 1 .. L : SlotOf(pq[k]) = SlotOf(pq[l]) => k = l
      /\ \A k \in 1 .. L : Fee(pq[k]) <= Fee(o) /\ SlotOf(pq[k]) # SlotOf(o)
  BY LenProperties DEF PriorityQueue, Sorted, OnePerSlot, OpsOf
<1>2. /\ r \in Seq(Ops) /\ Len(r) = L + 1
      /\ \A k \in 1 .. L : r[k] = pq[k]
      /\ r[L + 1] = o
  BY <1>1, AppendProperties
<1> HIDE DEF r, L
<1>3. DOMAIN r = 1 .. L + 1 /\ \A k \in 1 .. L + 1 : k \in 1 .. L \/ k = L + 1
  BY <1>1, <1>2
<1>4. Sorted(r)
  BY <1>1, <1>2, <1>3 DEF Sorted
<1>5. OnePerSlot(r)
  BY <1>1, <1>2, <1>3 DEF OnePerSlot
<1>6. OpsOf(r) = OpsOf(pq) \cup {o}
  <2>1. \A p \in OpsOf(r) : p \in OpsOf(pq) \cup {o}
    BY <1>1, <1>2, <1>3 DEF OpsOf
  <2>2. \A k \in 1 .. L : pq[k] \in OpsOf(r)
    BY <1>1, <1>2, <1>3 DEF OpsOf
  <2>3. \A p \in OpsOf(pq) : p \in OpsOf(r)
    BY <1>1, <2>2 DEF OpsOf
  <2>4. o \in OpsOf(r)
    BY <1>1, <1>2, <1>3 DEF OpsOf
  <2>5. QED
    BY <2>1, <2>3, <2>4
<1>7. QED
  BY <1>2, <1>4, <1>5, <1>6 DEF r, PriorityQueue

\* One step of the filter.
Kept(pq, s, f, i) ==
  IF i = 0 THEN <<>> ELSE IF SlotOf(pq[i]) = s THEN f[i - 1] ELSE Append(f[i - 1], pq[i])

\* The recursion of WithoutSlot has a solution, which computes what Kept says.
LEMMA WithoutSlotUnfold ==
  ASSUME NEW pq, Len(pq) \in Nat, NEW s
  PROVE  \E f : /\ f = [i \in 0 .. Len(pq) |-> Kept(pq, s, f, i)]
                /\ WithoutSlot(pq, s) = f[Len(pq)]
<1> DEFINE L == Len(pq)
           Upto(f, n) == \A i \in 0 .. n : f[i] = Kept(pq, s, f, i)
           Good == { n \in Nat : \E f : Upto(f, n) }
<1>1. 0 \in Good
  <2> DEFINE f == [i \in {0} |-> <<>>]
  <2>1. Upto(f, 0)
    BY DEF Kept
  <2> HIDE DEF f
  <2>2. \E w : Upto(w, 0)
    BY <2>1, Zenon
  <2>3. QED
    BY <2>2
<1>2. ASSUME NEW n \in Nat, n \in Good PROVE n + 1 \in Good
  <2>1. PICK f : Upto(f, n)
    BY <1>2
  <2> DEFINE h == [i \in 0 .. n + 1 |-> Kept(pq, s, f, i)]
  <2>2. \A i \in 0 .. n : h[i] = f[i]
    BY <2>1
  <2>3. ASSUME NEW i \in 0 .. n + 1 PROVE h[i] = Kept(pq, s, h, i)
    <3>1. CASE i = 0
      BY <3>1 DEF Kept
    <3>2. CASE i # 0
      <4>1. h[i] = Kept(pq, s, f, i)
        OBVIOUS
      <4>2. h[i - 1] = f[i - 1]
        BY <2>2, <3>2
      <4> HIDE DEF h
      <4>3. QED
        BY <4>1, <4>2 DEF Kept
    <3>3. QED
      BY <3>1, <3>2
  <2>4. Upto(h, n + 1)
    BY <2>3
  <2> HIDE DEF h
  <2>5. \E w : Upto(w, n + 1)
    BY <2>4, Zenon
  <2>6. QED
    BY <2>5
<1> HIDE DEF Good
<1>3. L \in Good
  BY <1>1, <1>2, InductionOnNat
<1>4. PICK g : Upto(g, L)
  BY <1>3 DEF Good
<1> DEFINE h == [i \in 0 .. L |-> g[i]]
<1>5. ASSUME NEW i \in 0 .. L PROVE h[i] = Kept(pq, s, h, i)
  <2>1. g[i] = Kept(pq, s, g, i)
    BY <1>4
  <2>2. h[i] = g[i] /\ (i # 0 => h[i - 1] = g[i - 1])
    OBVIOUS
  <2> HIDE DEF h
  <2>3. Kept(pq, s, h, i) = Kept(pq, s, g, i)
    BY <2>2 DEF Kept
  <2>4. QED
    BY <2>1, <2>2, <2>3
<1>6. h = [i \in 0 .. L |-> Kept(pq, s, h, i)]
  BY <1>5
<1> HIDE DEF h
<1> DEFINE k == CHOOSE f : f = [i \in 0 .. L |-> Kept(pq, s, f, i)]
<1>7. k = [i \in 0 .. L |-> Kept(pq, s, k, i)]
  BY <1>6
<1>8. WithoutSlot(pq, s) = k[L]
  BY DEF WithoutSlot, Kept
<1> HIDE DEF k
<1>9. QED
  BY <1>7, <1>8

\* The filter of add keeps the order, and the ops of the other slots.
LEMMA WithoutSlotKeeps ==
  ASSUME NEW pq, PriorityQueue(pq), NEW s
  PROVE  /\ PriorityQueue(WithoutSlot(pq, s))
         /\ OpsOf(WithoutSlot(pq, s)) = { o \in OpsOf(pq) : SlotOf(o) # s }
<1> DEFINE L == Len(pq)
           Before(i) == { pq[j] : j \in { k \in 1 .. i : SlotOf(pq[k]) # s } }
<1>1. /\ L \in Nat /\ DOMAIN pq = 1 .. L /\ pq \in Seq(Ops)
      /\ \A k \in 1 .. L : pq[k] \in Ops
      /\ \A k, l \in 1 .. L : k < l => Fee(pq[k]) <= Fee(pq[l])
      /\ \A k, l \in 1 .. L : SlotOf(pq[k]) = SlotOf(pq[l]) => k = l
  BY LenProperties DEF PriorityQueue, Sorted, OnePerSlot
<1>2. PICK f : f = [i \in 0 .. L |-> Kept(pq, s, f, i)] /\ WithoutSlot(pq, s) = f[L]
  BY <1>1, WithoutSlotUnfold
<1> HIDE DEF L
<1>3. \A i \in 0 .. L : f[i] = Kept(pq, s, f, i)
  BY <1>2
<1> DEFINE Good == { n \in Nat : n <= L => PriorityQueue(f[n]) /\ OpsOf(f[n]) = Before(n) }
<1>4. 0 \in Good
  <2>1. f[0] = <<>>
    BY <1>1, <1>3 DEF Kept
  <2>2. PriorityQueue(<<>>) /\ OpsOf(<<>>) = {}
    BY DEF PriorityQueue, Sorted, OnePerSlot, OpsOf
  <2>3. Before(0) = {}
    OBVIOUS
  <2>4. QED
    BY <2>1, <2>2, <2>3
<1>5. ASSUME NEW n \in Nat, n \in Good PROVE n + 1 \in Good
  <2> SUFFICES ASSUME n + 1 <= L
               PROVE  PriorityQueue(f[n + 1]) /\ OpsOf(f[n + 1]) = Before(n + 1)
    OBVIOUS
  <2>1. PriorityQueue(f[n]) /\ OpsOf(f[n]) = Before(n)
    BY <1>1, <1>5
  <2>2. f[n + 1] = IF SlotOf(pq[n + 1]) = s THEN f[n] ELSE Append(f[n], pq[n + 1])
    <3>1. n + 1 \in 0 .. L /\ n + 1 # 0 /\ (n + 1) - 1 = n
      BY <1>1
    <3>2. QED
      BY <1>3, <3>1 DEF Kept
  <2>3. n + 1 \in 1 .. L /\ 1 .. n + 1 = (1 .. n) \cup {n + 1}
    BY <1>1
  <2>4. CASE SlotOf(pq[n + 1]) = s
    <3>1. Before(n + 1) = Before(n)
      BY <2>3, <2>4
    <3>2. QED
      BY <2>1, <2>2, <2>4, <3>1
  <2>5. CASE SlotOf(pq[n + 1]) # s
    <3>1. Before(n + 1) = Before(n) \cup {pq[n + 1]}
      BY <2>3, <2>5
    <3>2. \A p \in Before(n) : Fee(p) <= Fee(pq[n + 1]) /\ SlotOf(p) # SlotOf(pq[n + 1])
      BY <1>1, <2>3
    <3>3. pq[n + 1] \in Ops
      BY <1>1, <2>3
    <3> HIDE DEF Before
    <3>4. f[n + 1] = Append(f[n], pq[n + 1])
      BY <2>2, <2>5
    <3>5. \A p \in OpsOf(f[n]) : Fee(p) <= Fee(pq[n + 1]) /\ SlotOf(p) # SlotOf(pq[n + 1])
      BY <2>1, <3>2
    <3>6. /\ PriorityQueue(Append(f[n], pq[n + 1]))
          /\ OpsOf(Append(f[n], pq[n + 1])) = OpsOf(f[n]) \cup {pq[n + 1]}
      BY <2>1, <3>3, <3>5, AppendKeeps
    <3>7. QED
      BY <2>1, <3>1, <3>4, <3>6
  <2>6. QED
    BY <2>4, <2>5
<1>6. PriorityQueue(f[L]) /\ OpsOf(f[L]) = Before(L)
  <2> HIDE DEF Good
  <2>1. L \in Good
    BY <1>1, <1>4, <1>5, InductionOnNat
  <2>2. QED
    BY <1>1, <2>1 DEF Good
<1>7. Before(L) = { o \in OpsOf(pq) : SlotOf(o) # s }
  BY <1>1 DEF OpsOf
<1>8. QED
  BY <1>2, <1>6, <1>7

-----------------------------------------------------------------------------
(* The store: backlogs of the right slots, and a priority queue of their   *)
(* heads.                                                                  *)

Backlogs(p) ==
  /\ p \in [Slots -> Seq(Ops)]
  /\ \A s \in Slots : \A i \in DOMAIN p[s] : SlotOf(p[s][i]) = s

Heads(p) == { Head(p[s]) : s \in { t \in Slots : p[t] # <<>> } }

QueueOK(q) ==
  /\ Backlogs(q.pendingOps)
  /\ PriorityQueue(q.priorityQueue)
  /\ OpsOf(q.priorityQueue) = Heads(q.pendingOps)

\* The ops of other slots.
OfOthers(S, s) == { x \in S : SlotOf(x) # s }

\* The head of a backlog is an op of its slot.
LEMMA HeadIsOfSlot ==
  ASSUME NEW p, Backlogs(p), NEW s \in Slots, p[s] # <<>>
  PROVE  Head(p[s]) \in Ops /\ SlotOf(Head(p[s])) = s
<1>1. p[s] \in Seq(Ops)
  BY DEF Backlogs
<1>2. Head(p[s]) = p[s][1] /\ 1 \in DOMAIN p[s] /\ Head(p[s]) \in Ops
  BY <1>1, TailIsRemoveAt, HeadTailProperties
<1>3. QED
  BY <1>2 DEF Backlogs

\* Every op has its slot.
LEMMA SlotsOfOps == \A o \in Ops : SlotOf(o) \in Slots
BY DEF Slots

\* What becomes of the heads when one backlog changes.
LEMMA HeadsChange ==
  ASSUME NEW p, Backlogs(p), NEW s \in Slots, NEW b \in Seq(Ops),
         \A i \in DOMAIN b : SlotOf(b[i]) = s,
         NEW r, r = [p EXCEPT ![s] = b]
  PROVE  /\ Backlogs(r)
         /\ b = <<>> => Heads(r) = OfOthers(Heads(p), s)
         /\ b # <<>> => Heads(r) = OfOthers(Heads(p), s) \cup {Head(b)}
<1>1. r[s] = b /\ (\A t \in Slots : t # s => r[t] = p[t]) /\ r \in [Slots -> Seq(Ops)]
  BY DEF Backlogs
<1>2. Backlogs(r)
  BY <1>1 DEF Backlogs
<1>3. \A t \in Slots : p[t] # <<>> => SlotOf(Head(p[t])) = t
  BY HeadIsOfSlot
<1>4. \A o \in Heads(p) : \E t \in Slots : p[t] # <<>> /\ o = Head(p[t]) /\ SlotOf(o) = t
  BY <1>3 DEF Heads
<1>5. \A o \in Heads(r) : \E t \in Slots : r[t] # <<>> /\ o = Head(r[t])
  BY DEF Heads
<1>6. \A o \in Heads(r) : (o \in Heads(p) /\ SlotOf(o) # s) \/ (b # <<>> /\ o = Head(b))
  <2> SUFFICES ASSUME NEW o \in Heads(r)
               PROVE  (o \in Heads(p) /\ SlotOf(o) # s) \/ (b # <<>> /\ o = Head(b))
    OBVIOUS
  <2>1. PICK t \in Slots : r[t] # <<>> /\ o = Head(r[t])
    BY <1>5
  <2>2. CASE t = s
    BY <1>1, <2>1, <2>2
  <2>3. CASE t # s
    <3>1. o \in Heads(p) /\ SlotOf(o) = t
      BY <1>1, <1>3, <2>1, <2>3 DEF Heads
    <3>2. QED
      BY <2>3, <3>1
  <2>4. QED
    BY <2>2, <2>3
<1>7. \A o \in Heads(p) : SlotOf(o) # s => o \in Heads(r)
  BY <1>1, <1>4 DEF Heads
<1>8. b # <<>> => Head(b) \in Heads(r)
  BY <1>1 DEF Heads
<1>9. QED
  BY <1>2, <1>6, <1>7, <1>8 DEF OfOthers

\* The empty queue is sound.
LEMMA EmptyQueueOK == QueueOK(EmptyQueue(Slots))
<1> DEFINE p == [s \in Slots |-> <<>>]
<1>1. EmptyQueue(Slots).pendingOps = p /\ EmptyQueue(Slots).priorityQueue = <<>>
  BY DEF EmptyQueue
<1>2. Backlogs(p)
  BY DEF Backlogs
<1>3. Heads(p) = {}
  BY DEF Heads
<1>4. PriorityQueue(<<>>) /\ OpsOf(<<>>) = {}
  BY DEF PriorityQueue, Sorted, OnePerSlot, OpsOf
<1>5. QED
  BY <1>1, <1>2, <1>3, <1>4 DEF QueueOK

\* An op is added to the end of its backlog.
LEMMA AddedKeeps ==
  ASSUME FeesAreNatural, NEW q, QueueOK(q), NEW o \in Ops
  PROVE  /\ QueueOK(Added(q, o))
         /\ Added(q, o).pendingOps = [q.pendingOps EXCEPT ![SlotOf(o)] = Append(@, o)]
<1> DEFINE s == SlotOf(o)
           p == q.pendingOps
           pq == q.priorityQueue
           b == Append(p[s], o)
           r == Added(q, o)
<1>1. s \in Slots /\ p[s] \in Seq(Ops) /\ \A i \in DOMAIN p[s] : SlotOf(p[s][i]) = s
  BY SlotsOfOps DEF QueueOK, Backlogs
<1>2. /\ b \in Seq(Ops) /\ b # <<>>
      /\ Head(b) = IF p[s] = <<>> THEN o ELSE Head(p[s])
      /\ \A i \in DOMAIN b : SlotOf(b[i]) = s
  <2>1. /\ Len(b) = Len(p[s]) + 1 /\ b \in Seq(Ops) /\ b # <<>>
        /\ (\A i \in 1 .. Len(p[s]) : b[i] = p[s][i]) /\ b[Len(p[s]) + 1] = o
    BY <1>1, AppendProperties
  <2>2. DOMAIN b = 1 .. Len(p[s]) + 1 /\ DOMAIN p[s] = 1 .. Len(p[s]) /\ Len(p[s]) \in Nat
    BY <1>1, <2>1, LenProperties
  <2>3. Head(b) = IF p[s] = <<>> THEN o ELSE Head(p[s])
    BY <1>1, HeadTailAppend
  <2> HIDE DEF b, p
  <2>4. \A i \in 1 .. Len(p[s]) + 1 : i \in 1 .. Len(p[s]) \/ i = Len(p[s]) + 1
    BY <2>2
  <2>5. \A i \in DOMAIN b : SlotOf(b[i]) = s
    BY <1>1, <2>1, <2>2, <2>4
  <2>6. QED
    BY <2>1, <2>3, <2>5
<1>3. /\ r.pendingOps = [p EXCEPT ![s] = b]
      /\ r.priorityQueue = IF Head(b) = o THEN AddToPriorityQueue(WithoutSlot(pq, s), o) ELSE pq
  BY DEF Added
<1>4. Backlogs(p) /\ PriorityQueue(pq) /\ OpsOf(pq) = Heads(p)
  BY DEF QueueOK
<1> HIDE DEF b, r, p, pq
<1>5. /\ Backlogs(r.pendingOps)
      /\ Heads(r.pendingOps) = OfOthers(Heads(p), s) \cup {Head(b)}
  <2> HIDE DEF s
  <2>1. \A w : w = [p EXCEPT ![s] = b] =>
          /\ Backlogs(w)
          /\ b = <<>> => Heads(w) = OfOthers(Heads(p), s)
          /\ b # <<>> => Heads(w) = OfOthers(Heads(p), s) \cup {Head(b)}
    BY ONLY <1>1, <1>2, <1>4, HeadsChange
  <2>2. QED
    BY <1>2, <1>3, <2>1
<1>6. CASE Head(b) = o
  <2> DEFINE w == WithoutSlot(pq, s)
  <2>1. PriorityQueue(w) /\ OpsOf(w) = { x \in OpsOf(pq) : SlotOf(x) # s }
    BY <1>4, WithoutSlotKeeps
  <2>2. \A i \in DOMAIN w : SlotOf(w[i]) # SlotOf(o)
    BY <2>1 DEF OpsOf
  <2> HIDE DEF w
  <2>3. /\ PriorityQueue(AddToPriorityQueue(w, o))
        /\ OpsOf(AddToPriorityQueue(w, o)) = OpsOf(w) \cup {o}
    BY <2>1, <2>2, AddToQueueKeeps
  <2>4. QED
    BY <1>3, <1>4, <1>5, <1>6, <2>1, <2>3 DEF QueueOK, OfOthers, w, b, r, p
<1>7. CASE Head(b) # o
  <2>1. p[s] # <<>> /\ Head(b) = Head(p[s])
    BY <1>2, <1>7
  <2>2. Heads(p) = OfOthers(Heads(p), s) \cup {Head(p[s])}
    <3>1. \A x \in Heads(p) : SlotOf(x) = s => x = Head(p[s])
      BY <1>4, HeadIsOfSlot DEF Heads
    <3>2. Head(p[s]) \in Heads(p)
      BY <1>1, <2>1 DEF Heads
    <3>3. QED
      BY <3>1, <3>2 DEF OfOthers
  <2>3. QED
    BY <1>3, <1>4, <1>5, <1>7, <2>1, <2>2 DEF QueueOK, OfOthers, b, r, p
<1>8. QED
  BY <1>6, <1>7

\* The successor takes the place of a head that left.
LEMMA PromoteKeeps ==
  ASSUME FeesAreNatural, NEW q, QueueOK(q), NEW o, o \in OpsOf(q.priorityQueue),
         NEW others, PriorityQueue(others),
         OpsOf(others) = { x \in OpsOf(q.priorityQueue) : SlotOf(x) # SlotOf(o) },
         NEW r, r.pendingOps = [q.pendingOps EXCEPT ![SlotOf(o)] = Tail(@)],
         r.priorityQueue = Promote(others, Tail(q.pendingOps[SlotOf(o)]))
  PROVE  /\ QueueOK(r)
         /\ o \in Ops /\ q.pendingOps[SlotOf(o)] # <<>> /\ Head(q.pendingOps[SlotOf(o)]) = o
<1> DEFINE s == SlotOf(o)
           p == q.pendingOps
           b == Tail(p[s])
<1>1. Backlogs(p) /\ OpsOf(q.priorityQueue) = Heads(p)
  BY DEF QueueOK
<1>2. s \in Slots /\ p[s] # <<>> /\ o = Head(p[s]) /\ o \in Ops
  <2>1. PICK t \in Slots : p[t] # <<>> /\ o = Head(p[t])
    BY <1>1 DEF Heads
  <2>2. SlotOf(o) = t /\ o \in Ops
    BY <1>1, <2>1, HeadIsOfSlot
  <2>3. QED
    BY <2>1, <2>2
<1>3. p[s] \in Seq(Ops) /\ \A i \in DOMAIN p[s] : SlotOf(p[s][i]) = s
  BY <1>1, <1>2 DEF Backlogs
<1>4. b \in Seq(Ops) /\ \A i \in DOMAIN b : SlotOf(b[i]) = s
  <2>1. b \in Seq(Ops) /\ Len(b) = Len(p[s]) - 1 /\ \A i \in 1 .. Len(b) : b[i] = p[s][i + 1]
    BY <1>2, <1>3, HeadTailProperties
  <2>2. DOMAIN b = 1 .. Len(b) /\ DOMAIN p[s] = 1 .. Len(p[s]) /\ Len(p[s]) \in Nat
    BY <1>3, <2>1, LenProperties
  <2> HIDE DEF b, p
  <2>3. \A i \in 1 .. Len(b) : i + 1 \in DOMAIN p[s]
    BY <2>1, <2>2
  <2>4. QED
    BY <1>3, <2>1, <2>2, <2>3
<1>5. r.pendingOps = [p EXCEPT ![s] = b]
  OBVIOUS
<1> HIDE DEF b, p
<1>6. /\ Backlogs(r.pendingOps)
      /\ Heads(r.pendingOps) =
           OfOthers(Heads(p), s) \cup (IF b = <<>> THEN {} ELSE {Head(b)})
  <2> HIDE DEF s
  <2>1. \A w : w = [p EXCEPT ![s] = b] =>
          /\ Backlogs(w)
          /\ b = <<>> => Heads(w) = OfOthers(Heads(p), s)
          /\ b # <<>> => Heads(w) = OfOthers(Heads(p), s) \cup {Head(b)}
    BY ONLY <1>1, <1>2, <1>4, HeadsChange
  <2>2. QED
    BY <1>5, <2>1
<1>7. CASE b = <<>>
  BY <1>1, <1>2, <1>6, <1>7 DEF QueueOK, Promote, OfOthers, b, p
<1>8. CASE b # <<>>
  <2>1. Head(b) \in Ops /\ SlotOf(Head(b)) = s
    <3>1. Head(b) = b[1] /\ 1 \in DOMAIN b /\ Head(b) \in Ops
      BY <1>4, <1>8, TailIsRemoveAt, HeadTailProperties
    <3>2. QED
      BY <1>4, <3>1
  <2>2. \A i \in DOMAIN others : SlotOf(others[i]) # SlotOf(Head(b))
    BY <2>1 DEF OpsOf
  <2>3. r.priorityQueue = AddToPriorityQueue(others, Head(b))
    BY <1>8 DEF Promote, b, p
  <2>4. /\ PriorityQueue(AddToPriorityQueue(others, Head(b)))
        /\ OpsOf(AddToPriorityQueue(others, Head(b))) = OpsOf(others) \cup {Head(b)}
    BY <2>1, <2>2, AddToQueueKeeps
  <2>5. QED
    BY <1>1, <1>2, <1>6, <1>8, <2>3, <2>4 DEF QueueOK, OfOthers, b, p
<1>9. QED
  BY <1>7, <1>8

\* A pop hands out the head of a backlog, and none of the ready ops costs less.
LEMMA PoppedKeeps ==
  ASSUME FeesAreNatural, NEW q, QueueOK(q), q.priorityQueue # <<>>
  PROVE  LET o == Head(q.priorityQueue)
         IN  /\ QueueOK(Popped(q))
             /\ Popped(q).pendingOps = [q.pendingOps EXCEPT ![SlotOf(o)] = Tail(@)]
             /\ o \in Ops /\ q.pendingOps[SlotOf(o)] # <<>> /\ Head(q.pendingOps[SlotOf(o)]) = o
             /\ o \in Heads(q.pendingOps)
             /\ \A x \in Heads(q.pendingOps) : Fee(o) <= Fee(x)
<1> DEFINE pq == q.priorityQueue
           o == Head(pq)
           r == Popped(q)
<1>1. PriorityQueue(pq) /\ pq \in Seq(Ops) /\ OpsOf(pq) = Heads(q.pendingOps)
  BY DEF QueueOK, PriorityQueue
<1>2. Tail(pq) = RemoveAt(pq, 1) /\ o = pq[1] /\ 1 \in DOMAIN pq
  BY <1>1, TailIsRemoveAt
<1>3. o \in OpsOf(pq)
  BY <1>2 DEF OpsOf
<1>4. /\ PriorityQueue(Tail(pq))
      /\ OpsOf(Tail(pq)) = { x \in OpsOf(pq) : SlotOf(x) # SlotOf(o) }
  BY <1>1, <1>2, RemoveFromQueueKeeps
<1>5. /\ r.pendingOps = [q.pendingOps EXCEPT ![SlotOf(o)] = Tail(@)]
      /\ r.priorityQueue = Promote(Tail(pq), Tail(q.pendingOps[SlotOf(o)]))
  BY DEF Popped
<1> HIDE DEF r, o
<1>6. /\ QueueOK(r)
      /\ o \in Ops /\ q.pendingOps[SlotOf(o)] # <<>> /\ Head(q.pendingOps[SlotOf(o)]) = o
  BY <1>3, <1>4, <1>5, PromoteKeeps
<1>7. \A x \in OpsOf(pq) : Fee(o) <= Fee(x)
  <2> SUFFICES ASSUME NEW i \in DOMAIN pq PROVE Fee(pq[1]) <= Fee(pq[i])
    BY <1>2 DEF OpsOf
  <2>1. Len(pq) \in Nat /\ DOMAIN pq = 1 .. Len(pq) /\ pq[1] \in Ops
    BY <1>1, <1>2, LenProperties
  <2>2. CASE i = 1
    BY <2>1, <2>2 DEF FeesAreNatural, Fee
  <2>3. CASE i # 1
    BY <1>1, <1>2, <2>1, <2>3 DEF PriorityQueue, Sorted
  <2>4. QED
    BY <2>2, <2>3
<1>8. QED
  BY <1>1, <1>3, <1>5, <1>6, <1>7 DEF r, o

\* The first position of an op.
FirstOf(s, o) == CHOOSE i \in DOMAIN s : s[i] = o /\ \A k \in 1 .. i - 1 : ~(s[k] = o)

\* There is a first position when there is one.
LEMMA FirstOfHolds ==
  ASSUME NEW S, NEW s \in Seq(S), NEW o, Holds(s, o)
  PROVE  /\ FirstOf(s, o) \in DOMAIN s /\ s[FirstOf(s, o)] = o
         /\ Head(s) = o => FirstOf(s, o) = 1
<1> DEFINE T == { i \in DOMAIN s : s[i] = o }
<1>1. DOMAIN s = 1 .. Len(s) /\ Len(s) \in Nat
  BY LenProperties
<1>2. T # {} /\ T \in SUBSET Nat
  BY <1>1 DEF Holds
<1> HIDE DEF T
<1>3. PICK n \in T : \A m \in T : n <= m
  BY <1>2, LeastElement
<1>4. n \in DOMAIN s /\ s[n] = o /\ \A k \in 1 .. n - 1 : ~(s[k] = o)
  BY <1>1, <1>3 DEF T
<1> DEFINE f == FirstOf(s, o)
<1>5. f \in DOMAIN s /\ s[f] = o /\ \A k \in 1 .. f - 1 : ~(s[k] = o)
  BY <1>4 DEF FirstOf
<1> HIDE DEF f
<1>6. ASSUME Head(s) = o PROVE f = 1
  <2>1. s # <<>>
    BY <1>1, <1>5
  <2>2. s[1] = o
    BY <1>6, <2>1, TailIsRemoveAt
  <2>3. f \in Nat /\ f >= 1
    BY <1>1, <1>5
  <2>4. ~(1 \in 1 .. f - 1)
    BY <1>5, <2>2
  <2>5. QED
    BY <2>3, <2>4
<1>7. QED
  BY <1>5, <1>6 DEF f

\* A removed op was the head of its backlog; one that is not ready stays.
LEMMA RemovedKeeps ==
  ASSUME FeesAreNatural, NEW q, QueueOK(q), NEW o
  PROVE  /\ QueueOK(Removed(q, o))
         /\ ~IsReady(q, o) => Removed(q, o) = q
         /\ IsReady(q, o) =>
              /\ Removed(q, o).pendingOps = [q.pendingOps EXCEPT ![SlotOf(o)] = Tail(@)]
              /\ o \in Ops /\ q.pendingOps[SlotOf(o)] # <<>> /\ Head(q.pendingOps[SlotOf(o)]) = o
<1>1. CASE ~IsReady(q, o)
  BY <1>1 DEF Removed
<1>2. CASE IsReady(q, o)
  <2> DEFINE pq == q.priorityQueue
             s == SlotOf(o)
             b == q.pendingOps[s]
             f == FirstOf(pq, o)
             others == RemoveAt(pq, f)
             r == TakenOut(q, o)
  <2>1. PriorityQueue(pq) /\ pq \in Seq(Ops) /\ OpsOf(pq) = Heads(q.pendingOps) /\ Holds(pq, o)
    BY <1>2 DEF QueueOK, PriorityQueue, IsReady
  <2>2. f \in DOMAIN pq /\ pq[f] = o
    BY <2>1, FirstOfHolds
  <2>3. o \in OpsOf(pq)
    BY <2>2 DEF OpsOf
  <2> HIDE DEF f
  <2>4. /\ PriorityQueue(others)
        /\ OpsOf(others) = { x \in OpsOf(pq) : SlotOf(x) # SlotOf(o) }
    BY <2>1, <2>2, RemoveFromQueueKeeps
  <2>5. s \in Slots /\ b # <<>> /\ Head(b) = o /\ b \in Seq(Ops) /\ Holds(b, o)
    <3>1. PICK t \in Slots : q.pendingOps[t] # <<>> /\ o = Head(q.pendingOps[t])
      BY <2>1, <2>3 DEF Heads
    <3>2. t = s
      BY <3>1, HeadIsOfSlot DEF QueueOK
    <3>3. b \in Seq(Ops) /\ b # <<>> /\ Head(b) = o
      BY <3>1, <3>2 DEF QueueOK, Backlogs
    <3>4. 1 \in DOMAIN b /\ b[1] = o
      BY <3>3, TailIsRemoveAt
    <3>5. QED
      BY <3>1, <3>2, <3>3, <3>4 DEF Holds
  <2>6. FirstOf(b, o) = 1
    BY <2>5, FirstOfHolds
  <2>7. RemoveAt(b, 1) = Tail(b)
    BY <2>5, TailIsRemoveAt
  <2>8. /\ r.pendingOps = [q.pendingOps EXCEPT ![s] = RemoveAt(b, FirstOf(b, o))]
        /\ r.priorityQueue = IF FirstOf(b, o) = 1 THEN Promote(others, RemoveAt(b, FirstOf(b, o)))
                                                  ELSE others
    BY DEF TakenOut, FirstIndex, FirstOf, f
  <2>9. r.pendingOps = [q.pendingOps EXCEPT ![s] = Tail(b)] /\ r.priorityQueue = Promote(others, Tail(b))
    BY <2>6, <2>7, <2>8
  <2> HIDE DEF r, others
  <2>10. QueueOK(r) /\ o \in Ops
    BY <2>3, <2>4, <2>9, PromoteKeeps
  <2>11. Removed(q, o) = r
    BY <1>2 DEF Removed, r
  <2>12. QED
    BY <1>2, <2>5, <2>9, <2>10, <2>11
<1>3. QED
  BY <1>1, <1>2

\* What conflicts with an op is in the backlogs.
LEMMA ConflictingIsQueued ==
  ASSUME NEW q, QueueOK(q), NEW o, NEW x \in Conflicting(q, o)
  PROVE  x \in Ops /\ \E s \in Slots : \E i \in DOMAIN q.pendingOps[s] : q.pendingOps[s][i] = x
<1>1. /\ q.pendingOps \in [Slots -> Seq(Ops)] /\ DOMAIN q.pendingOps = Slots
      /\ \A s \in Slots : DOMAIN q.pendingOps[s] \in SUBSET Nat
  BY DEF QueueOK, Backlogs
<1> DEFINE First(b) == CHOOSE i \in DOMAIN b : Conflicts(o, b[i]) /\ \A k \in 1 .. i - 1 : ~Conflicts(o, b[k])
<1>2. PICK s \in Slots : /\ \E i \in DOMAIN q.pendingOps[s] : Conflicts(o, q.pendingOps[s][i])
                         /\ x = q.pendingOps[s][First(q.pendingOps[s])]
  BY <1>1 DEF Conflicting, FirstIndex
<1> DEFINE b == q.pendingOps[s]
           T == { i \in DOMAIN b : Conflicts(o, b[i]) }
<1>3. b \in Seq(Ops) /\ DOMAIN b = 1 .. Len(b) /\ Len(b) \in Nat
  BY <1>1, LenProperties
<1>4. T # {} /\ T \in SUBSET Nat
  BY <1>1, <1>2
<1> HIDE DEF T
<1>5. PICK n \in T : \A m \in T : n <= m
  BY <1>4, LeastElement
<1> HIDE DEF b
<1>6. n \in DOMAIN b /\ Conflicts(o, b[n]) /\ \A k \in 1 .. n - 1 : ~Conflicts(o, b[k])
  BY <1>3, <1>5 DEF T
<1>7. First(b) \in DOMAIN b
  BY <1>6, Zenon
<1>8. x = b[First(b)] /\ First(b) \in DOMAIN b
  BY <1>2, <1>7 DEF b
<1> HIDE DEF First
<1>9. x \in Ops
  BY <1>3, <1>8, ElementOfSeq
<1>10. QED
  BY <1>8, <1>9 DEF b
=============================================================================
