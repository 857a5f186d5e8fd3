--------------------- MODULE MemorySenderManager_proofs ---------------------
(***************************************************************************)
(* The wallet pool is safe for any wallets, any finite set of callers and  *)
(* any number of second releases.                                          *)
(***************************************************************************)
EXTENDS MemorySenderManager, FiniteSetTheorems, SequenceTheorems, TLAPS

\* Removing position i of a sequence, as lockWallet's splice does.
LEMMA SpliceProperties ==
  ASSUME NEW S, NEW s \in Seq(S), NEW i \in 1 .. Len(s)
  PROVE  LET r == SubSeq(s, 1, i - 1) \o SubSeq(s, i + 1, Len(s))
         IN  /\ r \in Seq(S)
             /\ Len(r) = Len(s) - 1
             /\ \A k \in 1 .. Len(r) : r[k] = IF k < i THEN s[k] ELSE s[k + 1]
<1> DEFINE a == SubSeq(s, 1, i - 1)
           b == SubSeq(s, i + 1, Len(s))
           r == a \o b
<1>1. Len(s) \in Nat /\ i \in Nat /\ 1 <= i /\ i <= Len(s)
  BY LenProperties
<1>2. /\ a \in Seq(S) /\ Len(a) = i - 1
      /\ \A k \in 1 .. i - 1 : a[k] = s[k]
  BY <1>1, SubSeqProperties
<1>3. /\ b \in Seq(S) /\ Len(b) = Len(s) - i
      /\ \A k \in 1 .. Len(s) - i : b[k] = s[i + k]
  BY <1>1, SubSeqProperties
<1> HIDE DEF a, b
<1>4. /\ r \in Seq(S) /\ Len(r) = Len(a) + Len(b)
      /\ \A k \in 1 .. Len(a) + Len(b) :
            r[k] = IF k <= Len(a) THEN a[k] ELSE b[k - Len(a)]
  BY <1>2, <1>3, ConcatProperties
<1> HIDE DEF r
<1>5. Len(r) = Len(s) - 1
  BY <1>1, <1>2, <1>3, <1>4
<1>6. ASSUME NEW k \in 1 .. Len(r)
      PROVE  r[k] = IF k < i THEN s[k] ELSE s[k + 1]
  <2>1. CASE k < i
    BY <2>1, <1>1, <1>2, <1>3, <1>4, <1>5
  <2>2. CASE k >= i
    <3>1. /\ k - (i - 1) \in 1 .. Len(s) - i
          /\ i + (k - (i - 1)) = k + 1
      BY <2>2, <1>1, <1>5
    <3>2. r[k] = b[k - (i - 1)]
      BY <2>2, <1>1, <1>2, <1>3, <1>4, <1>5
    <3>3. QED
      BY <2>2, <1>1, <1>3, <1>5, <3>1, <3>2
  <2>3. QED
    BY <2>1, <2>2, <1>1, <1>5
<1>7. QED
  BY <1>4, <1>5, <1>6 DEF r, a, b

-----------------------------------------------------------------------------

\* The semaphore's two operations keep the types.
LEMMA AcquireType ==
  ASSUME TypeOK, NEW c \in Callers, Acquire(c)
  PROVE  /\ value' \in Nat
         /\ queue' \in Seq(Callers)
         /\ pc' \in [Callers -> {"idle", "waiting", "granted", "holding"}]
<1>1. CASE queue = <<>> /\ value > 0
  BY <1>1 DEF TypeOK, Acquire
<1>2. CASE ~(queue = <<>> /\ value > 0)
  <2>1. value' = value /\ queue' = Append(queue, c)
        /\ pc' = [pc EXCEPT ![c] = "waiting"]
    BY <1>2 DEF Acquire
  <2>2. QED
    BY <2>1, AppendProperties DEF TypeOK
<1>3. QED
  BY <1>1, <1>2

\* A permit that is released changes the semaphore within its types.
LEMMA ReleasePermitType ==
  ASSUME TypeOK,
         NEW pcs \in [Callers -> {"idle", "waiting", "granted", "holding"}],
         ReleasePermit(pcs)
  PROVE  /\ value' \in Nat
         /\ queue' \in Seq(Callers)
         /\ pc' \in [Callers -> {"idle", "waiting", "granted", "holding"}]
<1>1. CASE queue = <<>>
  BY <1>1 DEF TypeOK, ReleasePermit
<1>2. CASE queue # <<>>
  <2>1. Head(queue) \in Callers /\ Tail(queue) \in Seq(Callers)
    BY <1>2, HeadTailProperties DEF TypeOK
  <2>2. QED
    BY <1>2, <2>1 DEF TypeOK, ReleasePermit
<1>3. QED
  BY <1>1, <1>2

\* So does a wallet that is given back.
LEMMA GiveBackType ==
  ASSUME TypeOK, NEW c \in Callers, NEW w \in Wallets, GiveBack(c, w)
  PROVE  /\ availableWallets' \in Seq(Wallets)
         /\ value' \in Nat
         /\ queue' \in Seq(Callers)
         /\ pc' \in [Callers -> {"idle", "waiting", "granted", "holding"}]
<1>1. CASE w \in Free
  BY <1>1 DEF TypeOK, GiveBack
<1>2. CASE w \notin Free
  <2>1. availableWallets' \in Seq(Wallets)
    BY <1>2 DEF TypeOK, GiveBack
  <2>2. [pc EXCEPT ![c] = "idle"]
          \in [Callers -> {"idle", "waiting", "granted", "holding"}]
    BY DEF TypeOK
  <2>3. ReleasePermit([pc EXCEPT ![c] = "idle"])
    BY <1>2 DEF GiveBack
  <2>4. QED
    BY <2>1, <2>2, <2>3, ReleasePermitType
<1>3. QED
  BY <1>1, <1>2

-----------------------------------------------------------------------------
(* The inductive invariant: the types, the queue and who holds what.       *)

HolderHolds ==
  \A c \in Callers : /\ pc[c] = "holding" <=> held[c] # NoWallet
                     /\ want[c] = NoWallet \/ want[c] \in Wallets

IInv == TypeOK /\ QueueMatchesWaiting /\ HolderHolds /\ PermitsMatchList

\* At start there is a permit for every wallet.
LEMMA InitIInv == Init => IInv
<1> SUFFICES ASSUME Init PROVE IInv
  OBVIOUS
<1> USE SenderAssumption DEF Init
<1>1. TypeOK
  BY DEF TypeOK
<1>2. QueueMatchesWaiting
  BY DEF QueueMatchesWaiting
<1>3. HolderHolds
  BY DEF HolderHolds
<1>4. PermitsMatchList
  <2>1. Granted = {}
    BY DEF Granted
  <2>2. Cardinality(Granted) = 0
    BY <2>1, FS_EmptySet
  <2>3. QED
    BY <2>2 DEF PermitsMatchList
<1>5. QED
  BY <1>1, <1>2, <1>3, <1>4 DEF IInv

\* Every call keeps the types.
LEMMA NextTypeOK == TypeOK /\ HolderHolds /\ [Next]_vars => TypeOK'
<1> SUFFICES ASSUME TypeOK, HolderHolds, [Next]_vars PROVE TypeOK'
  OBVIOUS
<1> USE SenderAssumption
<1>1. ASSUME NEW c \in Callers, GetWallet(c) PROVE TypeOK'
  BY <1>1, AcquireType DEF GetWallet, TypeOK
<1>2. ASSUME NEW c \in Callers, NEW w \in Wallets, LockWallet(c, w)
      PROVE TypeOK'
  BY <1>2, AcquireType DEF LockWallet, TypeOK
<1>3. ASSUME NEW c \in Callers, TakeFirst(c) PROVE TypeOK'
  BY <1>3 DEF TakeFirst, TypeOK
<1>4. ASSUME NEW c \in Callers, TakeWanted(c) PROVE TypeOK'
  <2>1. availableWallets' \in Seq(Wallets)
    BY <1>4, SpliceProperties DEF TakeWanted, TypeOK
  <2>2. QED
    BY <1>4, <2>1 DEF TakeWanted, TypeOK
<1>5. ASSUME NEW c \in Callers, WantedTaken(c) PROVE TypeOK'
  <2>1. [pc EXCEPT ![c] = "idle"]
          \in [Callers -> {"idle", "waiting", "granted", "holding"}]
    BY DEF TypeOK
  <2>2. QED
    BY <1>5, <2>1, ReleasePermitType DEF WantedTaken, TypeOK
<1>6. ASSUME NEW c \in Callers, MarkWalletProcessed(c) PROVE TypeOK'
  <2>1. held[c] \in Wallets
    BY <1>6 DEF MarkWalletProcessed, HolderHolds, TypeOK
  <2>2. QED
    BY <1>6, <2>1, GiveBackType DEF MarkWalletProcessed, TypeOK
<1>7. ASSUME NEW c \in Callers, ReleaseAgain(c) PROVE TypeOK'
  <2>1. last[c] \in Wallets
    BY <1>7 DEF ReleaseAgain, TypeOK
  <2>2. QED
    BY <1>7, <2>1, GiveBackType DEF ReleaseAgain, TypeOK
<1>8. CASE UNCHANGED vars
  BY <1>8 DEF vars, TypeOK
<1>9. QED
  BY <1>1, <1>2, <1>3, <1>4, <1>5, <1>6, <1>7, <1>8 DEF Next

-----------------------------------------------------------------------------
(* What the semaphore does to the queue and to the number of permits.      *)

\* The granted callers can be counted.
LEMMA GrantedFinite ==
  /\ IsFiniteSet(Granted) /\ Cardinality(Granted) \in Nat
  /\ IsFiniteSet(Granted') /\ Cardinality(Granted') \in Nat
<1>1. Granted \in SUBSET Callers /\ Granted' \in SUBSET Callers
  BY DEF Granted
<1>2. QED
  BY <1>1, SenderAssumption, FS_Subset, FS_CardinalityType

\* An acquisition turns a permit into a granted caller, or waits.
LEMMA AcquireKeeps ==
  ASSUME TypeOK, QueueMatchesWaiting, NEW c \in Callers, pc[c] = "idle",
         Acquire(c)
  PROVE  /\ QueueMatchesWaiting'
         /\ value' + Cardinality(Granted') = value + Cardinality(Granted)
         /\ \A d \in Callers : pc'[d] = "holding" <=> pc[d] = "holding"
<1>1. CASE queue = <<>> /\ value > 0
  <2>1. Granted' = Granted \cup {c} /\ c \notin Granted
    BY <1>1 DEF Granted, Acquire, TypeOK
  <2>2. Cardinality(Granted') = Cardinality(Granted) + 1
    BY <2>1, GrantedFinite, FS_AddElement
  <2>3. value' + Cardinality(Granted') = value + Cardinality(Granted)
    <3>1. value' = value - 1 /\ value \in Nat
      BY <1>1 DEF Acquire, TypeOK
    <3>2. QED
      BY <3>1, <2>2, GrantedFinite
  <2>4. QueueMatchesWaiting'
    BY <1>1 DEF Acquire, QueueMatchesWaiting
  <2>5. QED
    BY <1>1, <2>3, <2>4 DEF Acquire, TypeOK
<1>2. CASE ~(queue = <<>> /\ value > 0)
  <2>1. /\ value' = value /\ queue' = Append(queue, c)
        /\ pc' = [pc EXCEPT ![c] = "waiting"]
    BY <1>2 DEF Acquire
  <2>2. Granted' = Granted
    BY <2>1 DEF Granted, TypeOK
  <2>3. /\ Len(queue') = Len(queue) + 1 /\ Len(queue) \in Nat
        /\ queue'[Len(queue) + 1] = c
        /\ \A i \in 1 .. Len(queue) : queue'[i] = queue[i]
        /\ DOMAIN queue' = 1 .. Len(queue')
        /\ DOMAIN queue = 1 .. Len(queue)
    BY <2>1, AppendProperties, LenProperties DEF TypeOK
  <2>4. \A i \in 1 .. Len(queue) : queue[i] # c /\ queue[i] \in Callers
    BY <2>3 DEF QueueMatchesWaiting, TypeOK
  <2>5. QueueMatchesWaiting'
    BY <2>1, <2>3, <2>4 DEF QueueMatchesWaiting, TypeOK
  <2>6. QED
    BY <2>1, <2>2, <2>5 DEF TypeOK
<1>3. QED
  BY <1>1, <1>2

\* A release adds a permit, or grants the head of the queue.
LEMMA ReleasePermitKeeps ==
  ASSUME TypeOK, QueueMatchesWaiting, NEW c \in Callers, pc[c] # "waiting",
         ReleasePermit([pc EXCEPT ![c] = "idle"])
  PROVE  /\ QueueMatchesWaiting'
         /\ value' + Cardinality(Granted')
              = value + 1 + Cardinality(Granted \ {c})
         /\ \A d \in Callers : pc'[d] = "holding" <=> d # c /\ pc[d] = "holding"
<1>1. CASE queue = <<>>
  <2>1. Granted' = Granted \ {c}
    BY <1>1 DEF Granted, ReleasePermit, TypeOK
  <2>2. Cardinality(Granted') \in Nat
    BY GrantedFinite
  <2>3. QED
    BY <1>1, <2>1, <2>2 DEF ReleasePermit, TypeOK, QueueMatchesWaiting
<1>2. CASE queue # <<>>
  <2> DEFINE h == Head(queue)
  <2>1. /\ value' = value /\ queue' = Tail(queue)
        /\ pc' = [[pc EXCEPT ![c] = "idle"] EXCEPT ![h] = "granted"]
    BY <1>2 DEF ReleasePermit
  <2>2. /\ Len(queue) \in Nat /\ Len(queue) >= 1
        /\ DOMAIN queue = 1 .. Len(queue)
        /\ h = queue[1] /\ h \in Callers
        /\ Len(queue') = Len(queue) - 1
        /\ DOMAIN queue' = 1 .. Len(queue')
        /\ \A i \in 1 .. Len(queue) - 1 : queue'[i] = queue[i + 1]
    BY <1>2, <2>1, HeadTailProperties, LenProperties, EmptySeq DEF TypeOK
  <2>3. pc[h] = "waiting" /\ h # c
    BY <2>2 DEF QueueMatchesWaiting
  <2> HIDE DEF h
  <2>4. Granted' = (Granted \ {c}) \cup {h} /\ h \notin Granted
    BY <2>1, <2>2, <2>3 DEF Granted, TypeOK
  <2>5. IsFiniteSet(Granted \ {c})
    BY GrantedFinite, FS_RemoveElement
  <2>6. /\ Cardinality(Granted') = Cardinality(Granted \ {c}) + 1
        /\ Cardinality(Granted \ {c}) \in Nat
    BY <2>4, <2>5, FS_AddElement, FS_CardinalityType
  <2>7. ASSUME NEW i \in 1 .. Len(queue')
        PROVE  /\ queue'[i] = queue[i + 1]
               /\ i + 1 \in 1 .. Len(queue)
               /\ queue[i + 1] # h
               /\ queue[i + 1] # c
               /\ queue[i + 1] \in Callers
    <3>1. /\ i \in 1 .. Len(queue) - 1 /\ i + 1 \in 1 .. Len(queue)
          /\ i + 1 # 1 /\ 1 \in 1 .. Len(queue)
      BY <2>2
    <3>2. queue'[i] = queue[i + 1] /\ queue[i + 1] \in Callers
      BY <2>2, <3>1 DEF TypeOK
    <3>3. queue[i + 1] # queue[1] /\ pc[queue[i + 1]] = "waiting"
      BY <2>2, <3>1 DEF QueueMatchesWaiting
    <3>4. QED
      BY <2>2, <3>1, <3>2, <3>3
  <2>8. QueueMatchesWaiting'
    <3>1. \A i \in DOMAIN queue' : pc'[queue'[i]] = "waiting"
      BY <2>1, <2>2, <2>7 DEF QueueMatchesWaiting, TypeOK
    <3>2. \A i, k \in DOMAIN queue' : queue'[i] = queue'[k] => i = k
      BY <2>2, <2>7 DEF QueueMatchesWaiting
    <3>3. QED
      BY <3>1, <3>2 DEF QueueMatchesWaiting
  <2>9. \A d \in Callers : pc'[d] = "holding" <=> d # c /\ pc[d] = "holding"
    BY <2>1, <2>2, <2>3 DEF TypeOK
  <2>10. value' + Cardinality(Granted') = value + 1 + Cardinality(Granted \ {c})
    <3>1. value' = value /\ value \in Nat
      BY <2>1 DEF TypeOK
    <3>2. QED
      BY <3>1, <2>6
  <2>11. QED
    BY <2>8, <2>9, <2>10
<1>3. QED
  BY <1>1, <1>2

\* A wallet that is given back brings its permit along.
LEMMA GiveBackKeeps ==
  ASSUME TypeOK, QueueMatchesWaiting, PermitsMatchList,
         NEW c \in Callers, pc[c] \in {"idle", "holding"}, NEW w \in Wallets,
         GiveBack(c, w)
  PROVE  /\ QueueMatchesWaiting'
         /\ PermitsMatchList'
         /\ \A d \in Callers : pc'[d] = "holding" <=> d # c /\ pc[d] = "holding"
<1>1. CASE w \in Free
  <2>1. Granted' = Granted
    BY <1>1 DEF Granted, GiveBack, TypeOK
  <2>2. PermitsMatchList'
    BY <1>1, <2>1 DEF GiveBack, PermitsMatchList
  <2>3. QueueMatchesWaiting'
    BY <1>1 DEF GiveBack, QueueMatchesWaiting, TypeOK
  <2>4. QED
    BY <1>1, <2>2, <2>3 DEF GiveBack, TypeOK
<1>2. CASE w \notin Free
  <2>1. /\ ReleasePermit([pc EXCEPT ![c] = "idle"])
        /\ availableWallets' = Append(availableWallets, w)
    BY <1>2 DEF GiveBack
  <2>2. Granted \ {c} = Granted
    BY DEF Granted
  <2>3. /\ QueueMatchesWaiting'
        /\ value' + Cardinality(Granted') = value + 1 + Cardinality(Granted)
        /\ \A d \in Callers : pc'[d] = "holding" <=> d # c /\ pc[d] = "holding"
    <3>1. pc[c] # "waiting"
      OBVIOUS
    <3>2. QED
      BY <2>1, <2>2, <3>1, ReleasePermitKeeps
  <2>4. Len(availableWallets') = Len(availableWallets) + 1
    BY <2>1, AppendProperties DEF TypeOK
  <2>5. PermitsMatchList'
    BY <2>3, <2>4, GrantedFinite DEF PermitsMatchList, TypeOK
  <2>6. QED
    BY <2>3, <2>5
<1>3. QED
  BY <1>1, <1>2

-----------------------------------------------------------------------------

\* Every call keeps the count of permits.
LEMMA NextIInv == IInv /\ [Next]_vars => IInv'
<1> SUFFICES ASSUME IInv, [Next]_vars PROVE IInv'
  OBVIOUS
<1> USE SenderAssumption DEF IInv
<1>0. TypeOK'
  BY NextTypeOK
<1>1. ASSUME NEW c \in Callers, GetWallet(c) PROVE IInv'
  <2>1. PermitsMatchList'
    BY <1>1, <1>0, AcquireKeeps, GrantedFinite
       DEF GetWallet, PermitsMatchList, TypeOK
  <2>2. HolderHolds'
    BY <1>1, AcquireKeeps DEF GetWallet, HolderHolds, TypeOK
  <2>3. QED
    BY <1>0, <1>1, <2>1, <2>2, AcquireKeeps DEF GetWallet
<1>2. ASSUME NEW c \in Callers, NEW w \in Wallets, LockWallet(c, w)
      PROVE IInv'
  <2>1. PermitsMatchList'
    BY <1>2, <1>0, AcquireKeeps, GrantedFinite
       DEF LockWallet, PermitsMatchList, TypeOK
  <2>2. HolderHolds'
    BY <1>2, AcquireKeeps DEF LockWallet, HolderHolds, TypeOK
  <2>3. QED
    BY <1>0, <1>2, <2>1, <2>2, AcquireKeeps DEF LockWallet
<1>3. ASSUME NEW c \in Callers, pc[c] = "granted",
             Len(availableWallets') = Len(availableWallets) - 1,
             pc' = [pc EXCEPT ![c] = "holding"],
             UNCHANGED <<value, queue, want>>,
             held' = [held EXCEPT ![c] = held'[c]], held'[c] # NoWallet
      PROVE IInv'
  <2>1. Granted' = Granted \ {c} /\ c \in Granted
    BY <1>3 DEF Granted, TypeOK
  <2>2. Cardinality(Granted') = Cardinality(Granted) - 1
    BY <2>1, GrantedFinite, FS_RemoveElement
  <2>3. PermitsMatchList'
    BY <1>3, <2>2, GrantedFinite, LenProperties DEF PermitsMatchList, TypeOK
  <2>4. QueueMatchesWaiting'
    BY <1>3 DEF QueueMatchesWaiting, TypeOK
  <2>5. HolderHolds'
    BY <1>3 DEF HolderHolds, TypeOK
  <2>6. QED
    BY <1>0, <2>3, <2>4, <2>5
<1>4. ASSUME NEW c \in Callers, TakeFirst(c) PROVE IInv'
  <2>1. /\ Len(availableWallets') = Len(availableWallets) - 1
        /\ Head(availableWallets) \in Wallets
    BY <1>4, HeadTailProperties DEF TakeFirst, TypeOK
  <2>2. held' = [held EXCEPT ![c] = held'[c]] /\ held'[c] # NoWallet
    BY <1>4, <2>1 DEF TakeFirst, TypeOK
  <2>3. QED
    BY <1>3, <1>4, <2>1, <2>2 DEF TakeFirst
<1>5. ASSUME NEW c \in Callers, TakeWanted(c) PROVE IInv'
  <2>1. PICK i \in DOMAIN availableWallets :
          /\ availableWallets[i] = want[c]
          /\ availableWallets' = SubSeq(availableWallets, 1, i - 1)
                                   \o SubSeq(availableWallets, i + 1,
                                             Len(availableWallets))
    BY <1>5 DEF TakeWanted
  <2>2. i \in 1 .. Len(availableWallets) /\ want[c] \in Wallets
    BY <2>1, LenProperties DEF TypeOK
  <2>3. Len(availableWallets') = Len(availableWallets) - 1
    BY <2>1, <2>2, SpliceProperties DEF TypeOK
  <2>4. held' = [held EXCEPT ![c] = held'[c]] /\ held'[c] # NoWallet
    BY <1>5, <2>2 DEF TakeWanted, TypeOK
  <2>5. QED
    BY <1>3, <1>5, <2>3, <2>4 DEF TakeWanted
<1>6. ASSUME NEW c \in Callers, WantedTaken(c) PROVE IInv'
  <2>1. c \in Granted
    BY <1>6 DEF WantedTaken, Granted
  <2>2. Cardinality(Granted \ {c}) = Cardinality(Granted) - 1
    BY <2>1, GrantedFinite, FS_RemoveElement
  <2>3. PermitsMatchList'
    <3>1. value' + Cardinality(Granted') = value + 1 + Cardinality(Granted \ {c})
      BY <1>6, ReleasePermitKeeps DEF WantedTaken
    <3>2. value' + Cardinality(Granted') = value + Cardinality(Granted)
      BY <2>2, <3>1, GrantedFinite DEF TypeOK
    <3>3. QED
      BY <1>6, <3>2 DEF WantedTaken, PermitsMatchList
  <2>4. HolderHolds'
    BY <1>6, ReleasePermitKeeps DEF WantedTaken, HolderHolds, TypeOK
  <2>5. QED
    BY <1>0, <1>6, <2>3, <2>4, ReleasePermitKeeps DEF WantedTaken
<1>7. ASSUME NEW c \in Callers, MarkWalletProcessed(c) PROVE IInv'
  <2>1. held[c] \in Wallets /\ pc[c] \in {"idle", "holding"}
    BY <1>7 DEF MarkWalletProcessed, HolderHolds, TypeOK
  <2>2. HolderHolds'
    BY <1>7, <2>1, GiveBackKeeps DEF MarkWalletProcessed, HolderHolds, TypeOK
  <2>3. QED
    BY <1>0, <1>7, <2>1, <2>2, GiveBackKeeps DEF MarkWalletProcessed
<1>8. ASSUME NEW c \in Callers, ReleaseAgain(c) PROVE IInv'
  <2>1. last[c] \in Wallets /\ pc[c] \in {"idle", "holding"}
    BY <1>8 DEF ReleaseAgain, TypeOK
  <2>2. HolderHolds'
    BY <1>8, <2>1, GiveBackKeeps DEF ReleaseAgain, HolderHolds, TypeOK
  <2>3. QED
    BY <1>0, <1>8, <2>1, <2>2, GiveBackKeeps DEF ReleaseAgain
<1>9. CASE UNCHANGED vars
  BY <1>0, <1>9 DEF vars, QueueMatchesWaiting, HolderHolds, PermitsMatchList,
                    Granted
<1>10. QED
  BY <1>1, <1>2, <1>4, <1>5, <1>6, <1>7, <1>8, <1>9 DEF Next

\* A granted caller is counted on the right, so the list is not empty.
LEMMA IInvNeverOut == IInv => NeverOutOfWallets
<1> SUFFICES ASSUME IInv, Granted # {}, availableWallets = <<>> PROVE FALSE
  BY DEF NeverOutOfWallets
<1>1. Cardinality(Granted) # 0
  BY GrantedFinite, FS_EmptySet
<1>2. QED
  BY <1>1, GrantedFinite DEF IInv, PermitsMatchList, TypeOK

\* Types, the semaphore's queue and the permit count are invariants of every
\* behaviour of the pool, for every set of wallets and callers.
THEOREM PoolTypes == Spec => []TypeOK
<1>1. IInv => TypeOK
  BY DEF IInv
<1>2. QED
  BY <1>1, InitIInv, NextIInv, PTL DEF Spec

\* The semaphore's queue holds the callers that wait and no other, each once, for
\* any wallets and callers: nobody waits unseen, and nobody is granted twice.
THEOREM QueueAlwaysMatches == Spec => []QueueMatchesWaiting
<1>1. IInv => QueueMatchesWaiting
  BY DEF IInv
<1>2. QED
  BY <1>1, InitIInv, NextIInv, PTL DEF Spec

\* Each free wallet is backed by exactly one permit, free or granted.
THEOREM PermitsAlwaysMatch == Spec => []PermitsMatchList
<1>1. IInv => PermitsMatchList
  BY DEF IInv
<1>2. QED
  BY <1>1, InitIInv, NextIInv, PTL DEF Spec

\* A caller the semaphore let through always finds a wallet: the error
\* "no more wallets" is unreachable.
THEOREM GrantedFindsWallet == Spec => []NeverOutOfWallets
BY IInvNeverOut, InitIInv, NextIInv, PTL DEF Spec

-----------------------------------------------------------------------------
(* No wallet is handed out twice.                                          *)

NoDuplicates ==
  \A i, k \in DOMAIN availableWallets :
    availableWallets[i] = availableWallets[k] => i = k

\* What the set of free wallets says about the list.
LEMMA FreeMembers ==
  ASSUME TypeOK
  PROVE  /\ DOMAIN availableWallets = 1 .. Len(availableWallets)
         /\ Len(availableWallets) \in Nat
         /\ \A i \in 1 .. Len(availableWallets) : availableWallets[i] \in Free
         /\ \A w \in Free : \E i \in 1 .. Len(availableWallets) :
                              availableWallets[i] = w
         /\ Free \subseteq Wallets
BY LenProperties DEF TypeOK, Free

\* Taking the wallet at one position removes exactly that wallet.
LEMMA TakeAt ==
  ASSUME TypeOK, TypeOK', NoDuplicates,
         NEW i \in 1 .. Len(availableWallets),
         Len(availableWallets') = Len(availableWallets) - 1,
         \A k \in 1 .. Len(availableWallets') :
            availableWallets'[k] = IF k < i THEN availableWallets[k]
                                            ELSE availableWallets[k + 1]
  PROVE  NoDuplicates' /\ Free' = Free \ {availableWallets[i]}
<1> DEFINE n == Len(availableWallets)
           at(k) == IF k < i THEN k ELSE k + 1
<1>1. n \in Nat /\ i \in 1 .. n /\ DOMAIN availableWallets = 1 .. n
  BY FreeMembers
<1>2. DOMAIN availableWallets' = 1 .. n - 1
  BY <1>1, LenProperties DEF TypeOK
<1>3. ASSUME NEW k \in 1 .. n - 1
      PROVE  /\ at(k) \in 1 .. n /\ at(k) # i
             /\ availableWallets'[k] = availableWallets[at(k)]
             /\ \A m \in 1 .. n - 1 : at(k) = at(m) => k = m
  BY <1>1
<1>4. NoDuplicates'
  <2>1. \A k, m \in 1 .. n - 1 :
           availableWallets'[k] = availableWallets'[m] => at(k) = at(m)
    BY <1>1, <1>3 DEF NoDuplicates
  <2>2. QED
    BY <1>2, <1>3, <2>1 DEF NoDuplicates
<1>5. Free' \subseteq Free \ {availableWallets[i]}
  BY <1>1, <1>2, <1>3 DEF Free, NoDuplicates
<1>6. ASSUME NEW m \in 1 .. n, m # i
      PROVE  availableWallets[m] \in Free'
  <2>1. CASE m < i
    <3>1. m \in 1 .. n - 1 /\ at(m) = m
      BY <1>1, <2>1
    <3>2. QED
      BY <1>2, <1>3, <3>1 DEF Free
  <2>2. CASE m > i
    <3>1. m - 1 \in 1 .. n - 1 /\ at(m - 1) = m
      BY <1>1, <2>2
    <3>2. QED
      BY <1>2, <1>3, <3>1 DEF Free
  <2>3. QED
    BY <1>1, <1>6, <2>1, <2>2
<1>7. Free \ {availableWallets[i]} \subseteq Free'
  BY <1>1, <1>6 DEF Free
<1>8. QED
  BY <1>4, <1>5, <1>7

\* getWallet and lockWallet take one free wallet out of the list.
LEMMA TakesOne ==
  ASSUME TypeOK, TypeOK', NoDuplicates, NEW c \in Callers, TakeFirst(c) \/ TakeWanted(c)
  PROVE  /\ NoDuplicates' /\ stolen' = stolen
         /\ \E w \in Free : Free' = Free \ {w} /\ held' = [held EXCEPT ![c] = w]
<1>1. ASSUME NEW i \in 1 .. Len(availableWallets),
             Len(availableWallets') = Len(availableWallets) - 1,
             \A k \in 1 .. Len(availableWallets') :
               availableWallets'[k] = IF k < i THEN availableWallets[k]
                                               ELSE availableWallets[k + 1],
             held' = [held EXCEPT ![c] = availableWallets[i]]
      PROVE  /\ NoDuplicates'
             /\ \E w \in Free : Free' = Free \ {w} /\ held' = [held EXCEPT ![c] = w]
  BY <1>1, TakeAt, FreeMembers
<1>2. CASE TakeFirst(c)
  <2>1. /\ 1 \in 1 .. Len(availableWallets)
        /\ Head(availableWallets) = availableWallets[1]
        /\ Len(availableWallets') = Len(availableWallets) - 1
        /\ \A k \in 1 .. Len(availableWallets') :
             availableWallets'[k] = availableWallets[k + 1]
    BY <1>2, HeadTailProperties, FreeMembers, EmptySeq
       DEF TakeFirst, TypeOK
  <2>2. \A k \in 1 .. Len(availableWallets') :
          availableWallets'[k] = IF k < 1 THEN availableWallets[k]
                                          ELSE availableWallets[k + 1]
    BY <2>1
  <2>3. QED
    BY <1>1, <1>2, <2>1, <2>2 DEF TakeFirst
<1>3. CASE TakeWanted(c)
  <2>1. PICK i \in DOMAIN availableWallets :
          /\ availableWallets[i] = want[c]
          /\ availableWallets' = SubSeq(availableWallets, 1, i - 1)
                                   \o SubSeq(availableWallets, i + 1,
                                             Len(availableWallets))
    BY <1>3 DEF TakeWanted
  <2>2. i \in 1 .. Len(availableWallets)
    BY <2>1, FreeMembers
  <2>3. /\ Len(availableWallets') = Len(availableWallets) - 1
        /\ \A k \in 1 .. Len(availableWallets') :
             availableWallets'[k] = IF k < i THEN availableWallets[k]
                                             ELSE availableWallets[k + 1]
    <3> DEFINE r == SubSeq(availableWallets, 1, i - 1)
                      \o SubSeq(availableWallets, i + 1, Len(availableWallets))
    <3>1. availableWallets \in Seq(Wallets)
      BY DEF TypeOK
    <3>2. /\ Len(r) = Len(availableWallets) - 1
          /\ \A k \in 1 .. Len(r) : r[k] = IF k < i THEN availableWallets[k]
                                                  ELSE availableWallets[k + 1]
      BY <2>2, <3>1, SpliceProperties
    <3>3. availableWallets' = r
      BY <2>1
    <3> HIDE DEF r
    <3>4. QED
      BY <3>2, <3>3
  <2>4. QED
    BY <1>1, <1>3, <2>1, <2>2, <2>3 DEF TakeWanted
<1>4. QED
  BY <1>2, <1>3 DEF TakeFirst, TakeWanted

\* A wallet is appended once.
LEMMA GiveBackList ==
  ASSUME TypeOK, TypeOK', NoDuplicates,
         NEW c \in Callers, NEW w \in Wallets, GiveBack(c, w)
  PROVE  NoDuplicates' /\ Free' = Free \cup {w}
<1>1. CASE w \in Free
  BY <1>1 DEF GiveBack, NoDuplicates, Free
<1>2. CASE w \notin Free
  <2> DEFINE n == Len(availableWallets)
  <2>1. /\ n \in Nat /\ DOMAIN availableWallets = 1 .. n
        /\ \A i \in 1 .. n : availableWallets[i] # w
    BY <1>2, FreeMembers
  <2>2. availableWallets' = Append(availableWallets, w)
    BY <1>2 DEF GiveBack
  <2>3. /\ Len(availableWallets') = n + 1
        /\ DOMAIN availableWallets' = 1 .. n + 1
        /\ \A i \in 1 .. n : availableWallets'[i] = availableWallets[i]
        /\ availableWallets'[n + 1] = w
    BY <2>1, <2>2, AppendProperties, LenProperties DEF TypeOK
  <2> HIDE DEF n
  <2>4. NoDuplicates'
    BY <2>1, <2>3 DEF NoDuplicates
  <2>5. Free' = Free \cup {w}
    <3>1. Free' \subseteq Free \cup {w}
      BY <2>1, <2>3 DEF Free
    <3>2. \A i \in 1 .. n : i \in 1 .. n + 1 /\ availableWallets'[i] \in Free'
      BY <2>1, <2>3 DEF Free
    <3>3. w \in Free'
      <4>1. n + 1 \in 1 .. n + 1
        BY <2>1
      <4>2. QED
        BY <2>3, <4>1 DEF Free
    <3>4. Free \subseteq Free'
      BY <2>1, <2>3, <3>2 DEF Free
    <3>5. QED
      BY <3>1, <3>3, <3>4
  <2>6. QED
    BY <2>4, <2>5
<1>3. QED
  BY <1>1, <1>2

\* Every call keeps the wallets exclusive.
LEMMA NextExclusive ==
  IInv /\ IInv' /\ ExclusiveWallets /\ [Next]_vars => ExclusiveWallets'
<1> SUFFICES ASSUME IInv, IInv', ExclusiveWallets, [Next]_vars
             PROVE  ExclusiveWallets'
  OBVIOUS
<1>0. /\ TypeOK /\ TypeOK' /\ NoDuplicates /\ HolderHolds
      /\ ExclusiveWallets' <=>
           /\ NoDuplicates'
           /\ \A c, d \in Callers :
                (c # d /\ held'[c] = held'[d])
                  => held'[c] \in stolen' \cup {NoWallet}
           /\ \A c \in Callers : held'[c] \in Free' => held'[c] \in stolen'
  BY DEF IInv, ExclusiveWallets, NoDuplicates
<1> USE SenderAssumption
<1>1. ASSUME UNCHANGED <<availableWallets, held, stolen>>
      PROVE  ExclusiveWallets'
  BY <1>1 DEF ExclusiveWallets, Free
<1>2. ASSUME NEW c \in Callers, TakeFirst(c) \/ TakeWanted(c) PROVE ExclusiveWallets'
  <2>1. PICK w \in Free : Free' = Free \ {w} /\ held' = [held EXCEPT ![c] = w]
    BY <1>0, <1>2, TakesOne
  <2>2. NoDuplicates' /\ stolen' = stolen
    BY <1>0, <1>2, TakesOne
  <2>3. \A d \in Callers : held'[d] \in Free' => held'[d] \in stolen'
    BY <1>0, <2>1, <2>2 DEF ExclusiveWallets, TypeOK
  <2>4. \A b, d \in Callers : (b # d /\ held'[b] = held'[d])
                                => held'[b] \in stolen' \cup {NoWallet}
    BY <1>0, <2>1, <2>2 DEF ExclusiveWallets, TypeOK
  <2>5. QED
    BY <1>0, <2>2, <2>3, <2>4
<1>3. ASSUME NEW c \in Callers, GetWallet(c) PROVE ExclusiveWallets'
  BY <1>1, <1>3 DEF GetWallet
<1>4. ASSUME NEW c \in Callers, NEW w \in Wallets, LockWallet(c, w)
      PROVE  ExclusiveWallets'
  BY <1>1, <1>4 DEF LockWallet
<1>5. ASSUME NEW c \in Callers, WantedTaken(c) PROVE ExclusiveWallets'
  BY <1>1, <1>5 DEF WantedTaken
<1>6. ASSUME NEW c \in Callers, MarkWalletProcessed(c) PROVE ExclusiveWallets'
  <2>1. held[c] \in Wallets /\ held[c] # NoWallet
    BY <1>0, <1>6 DEF MarkWalletProcessed, HolderHolds, TypeOK
  <2>2. NoDuplicates' /\ Free' = Free \cup {held[c]}
    BY <1>0, <1>6, <2>1, GiveBackList DEF MarkWalletProcessed
  <2>3. /\ held'[c] = NoWallet /\ stolen' = stolen
        /\ \A d \in Callers : d # c => held'[d] = held[d]
    BY <1>0, <1>6 DEF MarkWalletProcessed, TypeOK
  <2>4. NoWallet \notin Free'
    BY <1>0, FreeMembers, <2>1, <2>2
  <2>5. \A d \in Callers : held'[d] \in Free' => held'[d] \in stolen'
    BY <2>1, <2>2, <2>3, <2>4 DEF ExclusiveWallets
  <2>6. \A b, d \in Callers : (b # d /\ held'[b] = held'[d])
                                => held'[b] \in stolen' \cup {NoWallet}
    BY <2>3 DEF ExclusiveWallets
  <2>7. QED
    BY <1>0, <2>2, <2>5, <2>6
<1>7. ASSUME NEW c \in Callers, ReleaseAgain(c) PROVE ExclusiveWallets'
  <2>1. last[c] \in Wallets
    BY <1>0, <1>7 DEF ReleaseAgain, TypeOK
  <2>2. NoDuplicates' /\ Free' = Free \cup {last[c]}
    BY <1>0, <1>7, <2>1, GiveBackList DEF ReleaseAgain
  <2>3. /\ held' = held /\ stolen \subseteq stolen'
        /\ (\E d \in Callers : held[d] = last[c]) => last[c] \in stolen'
    BY <1>7 DEF ReleaseAgain
  <2>4. QED
    BY <1>0, <2>2, <2>3 DEF ExclusiveWallets
<1>8. CASE UNCHANGED vars
  BY <1>1, <1>8 DEF vars
<1>9. QED
  BY <1>2, <1>3, <1>4, <1>5, <1>6, <1>7, <1>8 DEF Next

\* No two callers ever work with the same wallet, and none works with a wallet
\* that is still in the list, except for a wallet released a second time.
THEOREM WalletsExclusive == Spec => []ExclusiveWallets
<1>1. Init => ExclusiveWallets
  BY SenderAssumption DEF Init, ExclusiveWallets, Free
<1>2. QED
  BY <1>1, InitIInv, NextIInv, NextExclusive, PTL DEF Spec

-----------------------------------------------------------------------------
(* The pool.                                                               *)

\* A call takes a free wallet, gives one back, or leaves the pool as it is.
LEMMA NextPool ==
  ASSUME IInv, IInv', NoDuplicates, [Next]_vars
  PROVE  [Pool!Next]_<<Free, held>>
<1> USE SenderAssumption
<1>1. TypeOK /\ TypeOK' /\ HolderHolds
  BY DEF IInv
<1>2. ASSUME UNCHANGED <<availableWallets, held>> PROVE UNCHANGED <<Free, held>>
  BY <1>2 DEF Free
<1>3. ASSUME NEW c \in Callers, GetWallet(c) \/ WantedTaken(c) PROVE UNCHANGED <<Free, held>>
  BY <1>2, <1>3 DEF GetWallet, WantedTaken
<1>4. ASSUME NEW c \in Callers, NEW w \in Wallets, LockWallet(c, w)
      PROVE  UNCHANGED <<Free, held>>
  BY <1>2, <1>4 DEF LockWallet
<1>5. ASSUME NEW c \in Callers, TakeFirst(c) \/ TakeWanted(c) PROVE Pool!Take(c)
  <2>1. held[c] = NoWallet
    BY <1>1, <1>5 DEF TakeFirst, TakeWanted, HolderHolds
  <2>2. QED
    BY <1>1, <1>5, <2>1, TakesOne DEF Pool!Take
<1>6. ASSUME NEW c \in Callers, MarkWalletProcessed(c) PROVE Pool!GiveBack(c)
  <2>1. held[c] \in Wallets /\ held[c] # NoWallet
    BY <1>1, <1>6 DEF MarkWalletProcessed, HolderHolds, TypeOK
  <2>2. Free' = Free \cup {held[c]}
    BY <1>1, <1>6, <2>1, GiveBackList DEF MarkWalletProcessed
  <2>3. QED
    BY <1>6, <2>1, <2>2 DEF MarkWalletProcessed, Pool!GiveBack
<1>7. ASSUME NEW c \in Callers, ReleaseAgain(c) PROVE \E w \in Wallets : Pool!ReleaseAgain(w)
  <2>1. last[c] \in Wallets
    BY <1>1, <1>7 DEF ReleaseAgain, TypeOK
  <2>2. Free' = Free \cup {last[c]}
    BY <1>1, <1>7, <2>1, GiveBackList DEF ReleaseAgain
  <2>3. QED
    BY <1>7, <2>1, <2>2 DEF ReleaseAgain, Pool!ReleaseAgain
<1>8. ASSUME UNCHANGED vars PROVE UNCHANGED <<Free, held>>
  BY <1>2, <1>8 DEF vars
<1>9. QED
  BY <1>3, <1>4, <1>5, <1>6, <1>7, <1>8 DEF Next, Pool!Next

\* List and semaphore together implement the abstract pool, for any wallets,
\* callers, locks and second releases: no wallet is lost, and none is taken
\* that is not free.
THEOREM ImplementsThePool == Spec => ImplementsPool
<1>1. Init => Pool!Init
  BY SenderAssumption DEF Init, Pool!Init, Free
<1>2. ExclusiveWallets => NoDuplicates
  BY DEF ExclusiveWallets, NoDuplicates
<1>3. Spec => []IInv
  BY InitIInv, NextIInv, PTL DEF Spec
<1>4. QED
  BY <1>1, <1>2, <1>3, WalletsExclusive, NextPool, PTL DEF Spec, ImplementsPool, Pool!Spec
=============================================================================
