------------------------- MODULE Instances_proofs ---------------------------
(***************************************************************************)
(* Proofs about what instances of the bundler share, for any number of     *)
(* instances, calls, ops and wallets, each about the specification of what *)
(* is shared: the list of wallets, the price windows, the outstanding ops, *)
(* the stores of processing and submitted, and what a restart hands over.  *)
(* Each has an inductive invariant of its own, and a behaviour of the      *)
(* instances is one of each (EachIsShared).                                *)
(***************************************************************************)
EXTENDS Instances, Totals_proofs

-----------------------------------------------------------------------------
(***************************************************************************)
(* The list of wallets.  WalletHeldOnce counts places.  The invariant says *)
(* the same place by place, and in addition that a wallet on its way back  *)
(* to the list is not in use: when it is pushed that becomes a claim about *)
(* the list.                                                               *)
(***************************************************************************)

WalletTypes ==
  /\ walletQueue \in Seq(SharedWallets)
  /\ activeWallets \in [Instances -> SUBSET SharedWallets]
  /\ pushing \in [Instances -> SUBSET SharedWallets]

Listed(w) == \E k \in DOMAIN walletQueue : walletQueue[k] = w

ListedOnce(w) ==
  \A j, k \in DOMAIN walletQueue : walletQueue[j] = w /\ walletQueue[k] = w => j = k

\* One instance has it, in one of the two sets.
HeldByOne(w) ==
  /\ \A i, j \in Instances :
       w \in activeWallets[i] \cup pushing[i] /\ w \in activeWallets[j] \cup pushing[j] => i = j
  /\ \A i \in Instances : w \notin activeWallets[i] \cap pushing[i]

\* Nobody is given it while its transactions are under way, or is about to be.
OutOfReach(w) == ~Listed(w) /\ \A i \in Instances : w \notin pushing[i]

InOnePlace(w) ==
  /\ ListedOnce(w) /\ HeldByOne(w)
  /\ ~(Listed(w) /\ Held(w))
  /\ w \in inUse \ freedEarly => OutOfReach(w)

IInv == WalletTypes /\ \A w \in SharedWallets \ reseeded : InOnePlace(w)

-----------------------------------------------------------------------------

\* A set whose elements are all the same has one at most.
LEMMA AtMostOne ==
  ASSUME NEW S, \A x, y \in S : x = y
  PROVE  Cardinality(S) = IF S = {} THEN 0 ELSE 1
<1>1. CASE S = {}
  BY <1>1, FS_EmptySet
<1>2. CASE S # {}
  <2>1. PICK x \in S : S = {x}
    BY <1>2
  <2>2. QED
    BY <1>2, <2>1, FS_Singleton
<1>3. QED
  BY <1>1, <1>2

\* What seeds the list has each wallet of the instance once, and no other.
LEMMA SeedIsOnce ==
  ASSUME NEW i \in Instances
  PROVE  LET seed == SetToSeq(WalletsOf[i])
         IN  /\ seed \in Seq(SharedWallets)
             /\ \A k \in DOMAIN seed : seed[k] \in WalletsOf[i]
             /\ \A j, k \in DOMAIN seed : seed[j] = seed[k] => j = k
<1> DEFINE S == WalletsOf[i]
           n == Cardinality(S)
           Good(f) == f \in [1 .. n -> S] /\ IsInjective(f)
           seed == SetToSeq(S)
<1>1. IsFiniteSet(S) /\ S \subseteq SharedWallets
  BY RedisSenderManagerAssumption DEF RedisSenderManagerAssumption, SharedWallets
<1>2. n \in Nat /\ ExistsBijection(1 .. n, S)
  BY <1>1, FS_CardinalityType
<1>3. \E f \in [1 .. n -> S] : IsInjective(f)
  BY <1>2 DEF ExistsBijection, Bijection, Injection
<1>4. seed \in [1 .. n -> S] /\ IsInjective(seed)
  BY <1>3 DEF SetToSeq
<1> HIDE DEF seed, S, n
<1>5. seed \in Seq(SharedWallets)
  BY <1>1, <1>2, <1>4
<1>6. \A k \in DOMAIN seed : seed[k] \in S
  BY <1>4
<1>7. \A j, k \in DOMAIN seed : seed[j] = seed[k] => j = k
  BY <1>4 DEF IsInjective
<1>8. QED
  BY <1>5, <1>6, <1>7 DEF seed, S

\* It holds at first.
LEMMA InitIInv == WalletsInit => IInv
BY DEF WalletsInit, IInv, WalletTypes, InOnePlace, Listed, ListedOnce, HeldByOne, Held, OutOfReach

\* A wallet that neither moves nor comes into use stays as it was.
LEMMA Unmoved ==
  ASSUME NEW w, InOnePlace(w), UNCHANGED walletQueue,
         \A i \in Instances : w \in activeWallets'[i] <=> w \in activeWallets[i],
         \A i \in Instances : w \in pushing'[i] <=> w \in pushing[i],
         w \in inUse' \ freedEarly' => w \in inUse \ freedEarly
  PROVE  InOnePlace(w)'
BY DEF InOnePlace, Listed, ListedOnce, HeldByOne, Held, OutOfReach

\* No step loses it.
LEMMA NextIInv == IInv /\ [WalletsNext]_walletVars => IInv'
<1> SUFFICES ASSUME IInv, [WalletsNext]_walletVars PROVE IInv'
  OBVIOUS
<1>a. WalletTypes /\ \A w \in SharedWallets \ reseeded : InOnePlace(w)
  BY DEF IInv
<1>1. ASSUME NEW i \in Instances, StartUp(i), sawEmpty[i] PROVE IInv'
  <2> DEFINE seed == SetToSeq(WalletsOf[i])
  <2>1. /\ walletQueue' = seed
        /\ reseeded' = reseeded \cup { w \in WalletsOf[i] : Held(w) \/ w \in inUse }
        /\ UNCHANGED <<activeWallets, pushing, inUse, freedEarly>>
    BY <1>1 DEF StartUp, Seeded
  <2>2. /\ seed \in Seq(SharedWallets)
        /\ \A k \in DOMAIN seed : seed[k] \in WalletsOf[i]
        /\ \A j, k \in DOMAIN seed : seed[j] = seed[k] => j = k
    BY SeedIsOnce
  <2> HIDE DEF seed
  <2>3. WalletTypes'
    BY <1>a, <2>1, <2>2 DEF WalletTypes
  <2>4. ASSUME NEW w \in SharedWallets \ reseeded' PROVE InOnePlace(w)'
    <3>1. InOnePlace(w)
      BY <1>a, <2>1, <2>4
    <3>2. ListedOnce(w)'
      BY <2>1, <2>2 DEF ListedOnce
    <3>3. HeldByOne(w)' /\ (Held(w)' <=> Held(w))
      BY <2>1, <3>1 DEF InOnePlace, HeldByOne, Held
    <3>4. Listed(w)' => w \in WalletsOf[i]
      BY <2>1, <2>2 DEF Listed
    <3>5. Listed(w)' => ~Held(w) /\ w \notin inUse
      BY <2>1, <2>4, <3>4
    <3>6. w \in (inUse \ freedEarly)' => OutOfReach(w)'
      BY <2>1, <3>1, <3>5 DEF InOnePlace, OutOfReach
    <3>7. QED
      BY <3>2, <3>3, <3>5, <3>6 DEF InOnePlace
  <2>5. QED
    BY <2>3, <2>4 DEF IInv
<1>2. ASSUME NEW i \in Instances, GetWallet(i) PROVE IInv'
  <2> DEFINE n == Len(walletQueue)
             got == walletQueue[n]
  <2>1. n \in Nat \ {0} /\ DOMAIN walletQueue = 1 .. n /\ got \in SharedWallets
    BY <1>2, <1>a DEF GetWallet, WalletTypes
  <2>2. /\ walletQueue' = SubSeq(walletQueue, 1, n - 1)
        /\ UNCHANGED <<pushing, reseeded, freedEarly>>
        /\ \/ /\ activeWallets' = [activeWallets EXCEPT ![i] = @ \cup {got}]
              /\ inUse' = inUse \cup {got}
           \/ UNCHANGED <<activeWallets, inUse>>
    BY <1>2 DEF GetWallet, Front, Last
  <2> HIDE DEF n
  <2>3. /\ DOMAIN walletQueue' = 1 .. (n - 1) /\ walletQueue' \in Seq(SharedWallets)
        /\ \A k \in 1 .. (n - 1) : walletQueue'[k] = walletQueue[k]
    BY <1>a, <2>1, <2>2 DEF WalletTypes
  <2>4. WalletTypes'
    BY <1>a, <2>1, <2>2, <2>3 DEF WalletTypes
  <2>5. ASSUME NEW w \in SharedWallets \ reseeded' PROVE InOnePlace(w)'
    <3>1. InOnePlace(w)
      BY <1>a, <2>2, <2>5
    <3>2. ListedOnce(w)' /\ (Listed(w)' => Listed(w))
      BY <2>1, <2>3, <3>1 DEF InOnePlace, ListedOnce, Listed
    <3>3. CASE w = got
      <4>1. Listed(w) /\ ~Listed(w)'
        BY <2>1, <2>3, <3>1, <3>3 DEF InOnePlace, ListedOnce, Listed
      <4>2. \A j \in Instances : w \notin activeWallets[j] /\ w \notin pushing[j]
        BY <3>1, <4>1 DEF InOnePlace, Held
      <4>3. HeldByOne(w)'
        BY <1>a, <2>2, <4>2 DEF HeldByOne, WalletTypes
      <4>4. OutOfReach(w)'
        BY <2>2, <4>1, <4>2 DEF OutOfReach
      <4>5. QED
        BY <3>2, <4>1, <4>3, <4>4 DEF InOnePlace
    <3>4. CASE w # got
      <4>1. \A j \in Instances : w \in activeWallets'[j] <=> w \in activeWallets[j]
        BY <1>a, <2>2, <3>4 DEF WalletTypes
      <4>2. HeldByOne(w)' /\ (Held(w)' <=> Held(w))
        BY <2>2, <3>1, <4>1 DEF InOnePlace, HeldByOne, Held
      <4>3. w \in (inUse \ freedEarly)' => OutOfReach(w)'
        BY <2>2, <3>1, <3>2, <3>4 DEF InOnePlace, OutOfReach
      <4>4. QED
        BY <3>1, <3>2, <4>2, <4>3 DEF InOnePlace
    <3>5. QED
      BY <3>3, <3>4
  <2>6. QED
    BY <2>4, <2>5 DEF IInv
<1>3. ASSUME NEW i \in Instances, NEW x \in SharedWallets, MarkWalletProcessed(i, x) PROVE IInv'
  <2>1. /\ x \in activeWallets[i] /\ x \notin inUse
        /\ activeWallets' = [activeWallets EXCEPT ![i] = @ \ {x}]
        /\ pushing' = [pushing EXCEPT ![i] = @ \cup {x}]
        /\ UNCHANGED <<walletQueue, inUse, reseeded, freedEarly>>
    BY <1>3 DEF MarkWalletProcessed, Marked
  <2>2. WalletTypes'
    BY <1>a, <2>1 DEF WalletTypes
  <2>3. ASSUME NEW w \in SharedWallets \ reseeded' PROVE InOnePlace(w)'
    <3>1. InOnePlace(w)
      BY <1>a, <2>1, <2>3
    <3>2. CASE w = x
      <4>1. \A j \in Instances \ {i} : w \notin activeWallets[j] \cup pushing[j]
        BY <2>1, <3>1, <3>2 DEF InOnePlace, HeldByOne
      <4>2. /\ w \notin activeWallets'[i]
            /\ \A j \in Instances \ {i} : w \notin activeWallets'[j] \cup pushing'[j]
        BY <1>a, <2>1, <3>2, <4>1 DEF WalletTypes
      <4>3. HeldByOne(w)'
        BY <4>2 DEF HeldByOne
      <4>4. ~Listed(w)' /\ ListedOnce(w)'
        BY <2>1, <3>1, <3>2 DEF InOnePlace, Listed, ListedOnce, Held
      <4>5. QED
        BY <2>1, <3>2, <4>3, <4>4 DEF InOnePlace
    <3>3. CASE w # x
      <4>1. \A j \in Instances : /\ w \in activeWallets'[j] <=> w \in activeWallets[j]
                                 /\ w \in pushing'[j] <=> w \in pushing[j]
        BY <1>a, <2>1, <3>3 DEF WalletTypes
      <4>2. QED
        BY <2>1, <3>1, <4>1, Unmoved
    <3>4. QED
      BY <3>2, <3>3
  <2>4. QED
    BY <2>2, <2>3 DEF IInv
<1>4. ASSUME NEW i \in Instances, NEW x \in SharedWallets, PushWallet(i, x) PROVE IInv'
  <2> DEFINE n == Len(walletQueue)
  <2>1. /\ x \in pushing[i] /\ walletQueue' = <<x>> \o walletQueue
        /\ pushing' = [pushing EXCEPT ![i] = @ \ {x}]
        /\ UNCHANGED <<activeWallets, inUse, reseeded, freedEarly>>
    BY <1>4 DEF PushWallet
  <2>2. n \in Nat /\ DOMAIN walletQueue = 1 .. n
    BY <1>a DEF WalletTypes
  <2>3. /\ walletQueue' \in Seq(SharedWallets) /\ DOMAIN walletQueue' = 1 .. (n + 1)
        /\ walletQueue'[1] = x
        /\ \A k \in 2 .. (n + 1) : walletQueue'[k] = walletQueue[k - 1] /\ k - 1 \in 1 .. n
    BY <1>a, <2>1, <2>2 DEF WalletTypes
  <2> HIDE DEF n
  <2>4. WalletTypes'
    BY <1>a, <2>1, <2>3 DEF WalletTypes
  <2>5. ASSUME NEW w \in SharedWallets \ reseeded' PROVE InOnePlace(w)'
    <3>1. InOnePlace(w)
      BY <1>a, <2>1, <2>5
    <3>2. CASE w = x
      <4>1. ~Listed(w) /\ w \notin inUse \ freedEarly
        BY <2>1, <3>1, <3>2 DEF InOnePlace, Held, OutOfReach
      <4>2. \A k \in 2 .. (n + 1) : walletQueue'[k] # w
        BY <2>2, <2>3, <4>1 DEF Listed
      <4>3. ListedOnce(w)'
        BY <2>2, <2>3, <4>2 DEF ListedOnce
      <4>4. \A j \in Instances : w \notin activeWallets'[j] \cup pushing'[j]
        BY <1>a, <2>1, <3>1, <3>2 DEF InOnePlace, HeldByOne, WalletTypes
      <4>5. HeldByOne(w)' /\ ~Held(w)'
        BY <4>4 DEF HeldByOne, Held
      <4>6. QED
        BY <2>1, <4>1, <4>3, <4>5 DEF InOnePlace
    <3>3. CASE w # x
      <4>1. \A j \in Instances : w \in pushing'[j] <=> w \in pushing[j]
        BY <1>a, <2>1, <3>3 DEF WalletTypes
      <4>2. \A k \in 1 .. (n + 1) :
              walletQueue'[k] = w => k - 1 \in 1 .. n /\ walletQueue[k - 1] = w
        <5>1. \A k \in 1 .. (n + 1) : k = 1 \/ k \in 2 .. (n + 1)
          BY <2>2
        <5>2. QED
          BY <2>3, <3>3, <5>1
      <4>3. ListedOnce(w)' /\ (Listed(w)' => Listed(w))
        <5>1. \A j, k \in 1 .. (n + 1) : j - 1 = k - 1 => j = k
          BY <2>2
        <5>2. \A j, k \in 1 .. n : walletQueue[j] = w /\ walletQueue[k] = w => j = k
          BY <2>2, <3>1 DEF InOnePlace, ListedOnce
        <5>3. \A j, k \in 1 .. (n + 1) : walletQueue'[j] = w /\ walletQueue'[k] = w => j = k
          BY <4>2, <5>1, <5>2
        <5>4. ListedOnce(w)'
          BY <2>3, <5>3 DEF ListedOnce
        <5>5. Listed(w)' => Listed(w)
          BY <2>2, <2>3, <4>2 DEF Listed
        <5>6. QED
          BY <5>4, <5>5
      <4>4. HeldByOne(w)' /\ (Held(w)' <=> Held(w))
        BY <2>1, <3>1, <4>1 DEF InOnePlace, HeldByOne, Held
      <4>5. w \in (inUse \ freedEarly)' => OutOfReach(w)'
        BY <2>1, <3>1, <4>1, <4>3 DEF InOnePlace, OutOfReach
      <4>6. QED
        BY <3>1, <4>3, <4>4, <4>5 DEF InOnePlace
    <3>4. QED
      BY <3>2, <3>3
  <2>6. QED
    BY <2>4, <2>5 DEF IInv
<1>5. ASSUME NEW i \in Instances, Stop(i) PROVE IInv'
  <2>1. /\ activeWallets' = [activeWallets EXCEPT ![i] = {}]
        /\ pushing' = [pushing EXCEPT ![i] = @ \cup activeWallets[i]]
        /\ freedEarly' = freedEarly \cup (activeWallets[i] \cap inUse)
        /\ UNCHANGED <<walletQueue, inUse, reseeded>>
    BY <1>5 DEF Stop
  <2>2. WalletTypes'
    BY <1>a, <2>1 DEF WalletTypes
  <2>3. /\ activeWallets'[i] = {} /\ pushing'[i] = pushing[i] \cup activeWallets[i]
        /\ \A j \in Instances \ {i} :
             activeWallets'[j] = activeWallets[j] /\ pushing'[j] = pushing[j]
    BY <1>a, <2>1 DEF WalletTypes
  <2>4. ASSUME NEW w \in SharedWallets \ reseeded' PROVE InOnePlace(w)'
    <3>1. InOnePlace(w)
      BY <1>a, <2>1, <2>4
    <3>2. HeldByOne(w)' /\ (Held(w)' <=> Held(w))
      BY <2>3, <3>1 DEF InOnePlace, HeldByOne, Held
    <3>3. ListedOnce(w)' /\ (Listed(w)' <=> Listed(w))
      BY <2>1, <3>1 DEF InOnePlace, ListedOnce, Listed
    <3>4. w \in (inUse \ freedEarly)' => OutOfReach(w)'
      BY <2>1, <2>3, <3>1, <3>3 DEF InOnePlace, OutOfReach
    <3>5. QED
      BY <3>1, <3>2, <3>3, <3>4 DEF InOnePlace
  <2>5. QED
    BY <2>2, <2>4 DEF IInv
<1>6. ASSUME NEW i \in Instances, Crash(i) PROVE IInv'
  <2>1. /\ activeWallets' = [activeWallets EXCEPT ![i] = {}]
        /\ pushing' = [pushing EXCEPT ![i] = {}]
        /\ UNCHANGED <<walletQueue, inUse, reseeded, freedEarly>>
    BY <1>6 DEF Crash
  <2>2. WalletTypes'
    BY <1>a, <2>1 DEF WalletTypes
  <2>3. \A j \in Instances : /\ activeWallets'[j] \subseteq activeWallets[j]
                             /\ pushing'[j] \subseteq pushing[j]
    BY <1>a, <2>1 DEF WalletTypes
  <2>4. ASSUME NEW w \in SharedWallets \ reseeded' PROVE InOnePlace(w)'
    BY <1>a, <2>1, <2>3, <2>4
       DEF InOnePlace, Listed, ListedOnce, HeldByOne, Held, OutOfReach
  <2>5. QED
    BY <2>2, <2>4 DEF IInv
<1>7. CASE /\ UNCHANGED <<walletQueue, activeWallets, pushing, reseeded, freedEarly>>
           /\ inUse' \subseteq inUse
  <2>1. WalletTypes'
    BY <1>a, <1>7 DEF WalletTypes
  <2>2. ASSUME NEW w \in SharedWallets \ reseeded' PROVE InOnePlace(w)'
    BY <1>a, <1>7, <2>2, Unmoved
  <2>3. QED
    BY <2>1, <2>2 DEF IInv
<1>8. ASSUME NEW w \in SharedWallets, Settle(w) PROVE IInv'
  BY <1>7, <1>8 DEF Settle
<1>9. ASSUME NEW i \in Instances, CountWallets(i) PROVE IInv'
  BY <1>7, <1>9 DEF CountWallets
<1>10. ASSUME NEW i \in Instances, StartUp(i), ~sawEmpty[i] PROVE IInv'
  BY <1>7, <1>10 DEF StartUp
<1>11. CASE UNCHANGED walletVars
  BY <1>7, <1>11 DEF walletVars
<1>12. QED
  BY <1>1, <1>2, <1>3, <1>4, <1>5, <1>6, <1>8, <1>9, <1>10, <1>11 DEF WalletsNext

\* A wallet in one place counts one place.
LEMMA OnePlaceCounts == ASSUME NEW w, InOnePlace(w), WalletTypes PROVE Places(w) <= 1
<1> DEFINE queued == { k \in DOMAIN walletQueue : walletQueue[k] = w }
           active == { i \in Instances : w \in activeWallets[i] }
           back == { i \in Instances : w \in pushing[i] }
<1>1. /\ \A x, y \in queued : x = y
      /\ \A x, y \in active : x = y
      /\ \A x, y \in back : x = y
  BY DEF InOnePlace, ListedOnce, HeldByOne
<1>2. \/ active = {} /\ back = {}
      \/ queued = {} /\ active = {}
      \/ queued = {} /\ back = {}
  BY DEF InOnePlace, Listed, Held, HeldByOne
<1>3. Places(w) = Cardinality(queued) + Cardinality(active) + Cardinality(back)
  BY DEF Places
<1> HIDE DEF queued, active, back
<1>4. /\ Cardinality(queued) = IF queued = {} THEN 0 ELSE 1
      /\ Cardinality(active) = IF active = {} THEN 0 ELSE 1
      /\ Cardinality(back) = IF back = {} THEN 0 ELSE 1
  BY <1>1, AtMostOne
<1>5. QED
  BY <1>2, <1>3, <1>4

\* Unless a wallet was seeded while it was out, it is in the list once or held by
\* one instance, and out of reach while it is in use: for any instances.
THEOREM WalletAlwaysHeldOnce == WalletsSpec => []WalletHeldOnce
<1>1. IInv => WalletHeldOnce
  BY OnePlaceCounts DEF IInv, WalletHeldOnce, InOnePlace, OutOfReach, Listed
<1>2. QED
  BY <1>1, InitIInv, NextIInv, PTL DEF WalletsSpec

-----------------------------------------------------------------------------
(***************************************************************************)
(* The price windows.  Of every call the invariant says what the call has  *)
(* pruned so far, measured against the time it began.                      *)
(***************************************************************************)

Saved == { v \in Prices : timestamps[v] # Nil }

\* The values and times that were saved are bounded.
WindowTypes ==
  /\ seconds \in Nat
  /\ values \subseteq Saved
  /\ timestamps \in [Prices -> Nat \cup {Nil}]
  /\ \E limit \in Nat : \A v \in Saved : v <= limit /\ timestamps[v] <= limit

CallFields == {"at", "doing", "value", "since", "expired", "failed", "answer", "savedAt", "late"}

CallTypes(call) ==
  /\ DOMAIN call = CallFields
  /\ call.since \in Nat /\ call.since <= seconds
  /\ call.doing = "save" => call.value \in Prices
  /\ call.at \in {"refresh", "insert"} => call.doing = "save"

\* v is not older than a call allows, or nobody could have expired it.
Fresh(call, v) == timestamps[v] >= call.since - SharedExpiry \/ v \in savedLate

CallFresh(call) ==
  /\ call.at = "pruneWrite" => \A v \in Saved : Fresh(call, v) \/ v \in call.expired
  /\ call.at = "pruned" /\ ~call.failed => \A v \in Saved : Fresh(call, v)
  /\ call.at = "answered" /\ call.answer # Nil /\ ~call.late /\ ~call.failed =>
       call.savedAt # Nil /\ call.savedAt >= call.since - SharedExpiry

WindowInv ==
  /\ WindowTypes
  /\ DOMAIN windowCall = WindowCalls
  /\ \A c \in WindowCalls : CallTypes(windowCall[c]) /\ CallFresh(windowCall[c])

\* Of a set of numbers that is bounded, the least and the largest exist.
LEMMA Extremes ==
  ASSUME NEW S \in SUBSET Nat, S # {}, NEW limit \in Nat, \A v \in S : v <= limit
  PROVE  /\ SmallestOf(S) \in S /\ LargestOf(S) \in S
         /\ \A v \in S : LargestOf(S) >= v
<1>1. \E n \in S : \A m \in S : n <= m
  BY LeastElement
<1> DEFINE bounds == { n \in Nat : \A v \in S : v <= n }
<1>2. bounds \in SUBSET Nat /\ bounds # {}
  OBVIOUS
<1>3. PICK n \in bounds : \A m \in bounds : n <= m
  <2> HIDE DEF bounds
  <2> QED
    BY <1>2, LeastElement
<1>4. n \in S
  <2>1. SUFFICES ASSUME n \notin S PROVE FALSE
    OBVIOUS
  <2>2. \A v \in S : v <= n - 1
    BY <1>3, <2>1
  <2>3. n - 1 \in Nat
    <3>1. PICK v \in S : TRUE
      OBVIOUS
    <3>2. QED
      BY <1>3, <2>2, <3>1
  <2>3a. n - 1 \in bounds
    BY <2>2, <2>3
  <2>4. QED
    BY <1>3, <2>3a
<1>5. \E m \in S : \A v \in S : m >= v
  BY <1>3, <1>4
<1>6. QED
  BY <1>1, <1>5 DEF SmallestOf, LargestOf

\* It holds at first.
LEMMA InitWindowInv == WindowInit => WindowInv
BY RedisMinMaxQueueAssumption
   DEF RedisMinMaxQueueAssumption, WindowInit, WindowInv, WindowTypes, Saved, CallTypes, CallFields,
       CallFresh, NoCall

\* A call keeps what it has, when all that is saved anew is fresh.
LEMMA OthersStay ==
  ASSUME NEW call, CallTypes(call), CallFresh(call), WindowTypes,
         seconds' \in Nat, seconds <= seconds',
         \A v \in Saved' : \/ v \in savedLate'
                           \/ timestamps'[v] \in Nat /\ timestamps'[v] >= seconds - SharedExpiry
                           \/ v \in Saved /\ timestamps'[v] = timestamps[v] /\ v \notin savedLate
  PROVE  CallTypes(call)' /\ CallFresh(call)'
<1>1. SharedExpiry \in Nat /\ Nil \notin Nat /\ call.since \in Nat /\ call.since <= seconds
  BY RedisMinMaxQueueAssumption DEF RedisMinMaxQueueAssumption, CallTypes
<1>2. CallTypes(call)'
  BY <1>1 DEF CallTypes, WindowTypes
<1>3. \A v \in Saved' : v \in Saved /\ Fresh(call, v) => Fresh(call, v)'
  BY <1>1 DEF Fresh, WindowTypes
<1>4. \A v \in Saved' : v \notin Saved => Fresh(call, v)'
  BY <1>1 DEF Fresh, WindowTypes
<1>5. CallFresh(call)'
  BY <1>3, <1>4 DEF CallFresh
<1>6. QED
  BY <1>2, <1>5

\* No step breaks it.
LEMMA NextWindowInv == WindowInv /\ [WindowNext]_windowVars => WindowInv'
<1> SUFFICES ASSUME WindowInv, [WindowNext]_windowVars PROVE WindowInv'
  OBVIOUS
<1>a. /\ WindowTypes /\ DOMAIN windowCall = WindowCalls
      /\ \A c \in WindowCalls : CallTypes(windowCall[c]) /\ CallFresh(windowCall[c])
  BY DEF WindowInv
<1>b. /\ Prices \subseteq Nat /\ SharedExpiry \in Nat /\ Nil \notin Nat
      /\ seconds \in Nat
  BY <1>a, RedisMinMaxQueueAssumption DEF RedisMinMaxQueueAssumption, WindowTypes
\* What a call does to its own state, when the sorted sets stay as they are.
<1>c. ASSUME NEW c \in WindowCalls, NEW call, windowCall' = [windowCall EXCEPT ![c] = call],
             UNCHANGED <<seconds, values, timestamps, savedLate>>,
             CallTypes(call), CallFresh(call)
      PROVE  WindowInv'
  <2>1. WindowTypes' /\ \A k : CallTypes(k) /\ CallFresh(k) => CallTypes(k)' /\ CallFresh(k)'
    BY <1>a, <1>c DEF WindowTypes, Saved, CallTypes, CallFresh, Fresh
  <2>2. QED
    BY <1>a, <1>c, <2>1 DEF WindowInv
<1>d. ASSUME NEW c \in WindowCalls, NEW call, windowCall' = [windowCall EXCEPT ![c] = call],
             WindowTypes', seconds' = seconds,
             \A v \in Saved' : \/ v \in savedLate'
                               \/ timestamps'[v] \in Nat /\ timestamps'[v] >= seconds - SharedExpiry
                               \/ v \in Saved /\ timestamps'[v] = timestamps[v] /\ v \notin savedLate,
             CallTypes(call)', CallFresh(call)'
      PROVE  WindowInv'
  <2>1. \A d \in WindowCalls : CallTypes(windowCall[d])' /\ CallFresh(windowCall[d])'
    <3>1. SUFFICES ASSUME NEW d \in WindowCalls
                   PROVE  CallTypes(windowCall[d])' /\ CallFresh(windowCall[d])'
      OBVIOUS
    <3>2. CASE d = c
      <4>1. windowCall'[d] = call
        BY <1>a, <1>d, <3>2
      <4>2. QED
        BY <1>d, <4>1 DEF CallTypes, CallFresh, Fresh
    <3>3. CASE d # c
      <4>1. PICK k : k = windowCall[d]
        OBVIOUS
      <4>2. windowCall'[d] = k
        BY <1>a, <1>d, <3>3, <4>1
      <4>3. CallTypes(k) /\ CallFresh(k)
        BY <1>a, <4>1
      <4>4. CallTypes(k)' /\ CallFresh(k)'
        BY <1>a, <1>b, <1>d, <4>3, OthersStay
      <4>5. QED
        BY <4>2, <4>4 DEF CallTypes, CallFresh, Fresh
    <3>4. QED
      BY <3>2, <3>3
  <2>2. QED
    BY <1>a, <1>d, <2>1 DEF WindowInv
<1>1. ASSUME Second PROVE WindowInv'
  <2>1. seconds' = seconds + 1 /\ UNCHANGED <<values, timestamps, windowCall, savedLate>>
    BY <1>1 DEF Second
  <2>2. WindowTypes'
    BY <1>a, <2>1 DEF WindowTypes, Saved
  <2>3. \A call : CallTypes(call) /\ CallFresh(call) => CallTypes(call)' /\ CallFresh(call)'
    BY <1>b, <2>1 DEF CallTypes, CallFresh, Fresh, Saved
  <2>4. QED
    BY <1>a, <2>1, <2>2, <2>3 DEF WindowInv
<1>2. ASSUME NEW c \in WindowCalls, NEW doing, NEW v, StartCall(c, doing, v),
             doing = "save" => v \in Prices
      PROVE  WindowInv'
  <2> DEFINE call == [NoCall EXCEPT !.at = "pruneRead", !.doing = doing, !.value = v]
  <2>1. CallTypes(call) /\ CallFresh(call)
    BY <1>b, <1>2 DEF NoCall, CallTypes, CallFields, CallFresh
  <2> HIDE DEF call
  <2>2. windowCall' = [windowCall EXCEPT ![c] = call]
    BY <1>2 DEF StartCall, call
  <2>3. QED
    BY <1>2, <1>c, <2>1, <2>2 DEF StartCall
<1>3. ASSUME NEW c \in WindowCalls, PruneRead(c) PROVE WindowInv'
  <2>1. PICK call : /\ windowCall' = [windowCall EXCEPT ![c] = call]
                    /\ DOMAIN call = CallFields
                    /\ call.since = seconds /\ call.doing = windowCall[c].doing
                    /\ call.value = windowCall[c].value
                    /\ call.expired = { v \in Saved : timestamps[v] < seconds - SharedExpiry }
                    /\ call.at = IF call.expired = {} THEN "pruned" ELSE "pruneWrite"
    <3> DEFINE expired == { v \in Prices : timestamps[v] # Nil /\ timestamps[v] < seconds - SharedExpiry }
               call == [windowCall[c] EXCEPT !.since = seconds, !.expired = expired,
                          !.at = IF expired = {} THEN "pruned" ELSE "pruneWrite"]
    <3>1. windowCall' = [windowCall EXCEPT ![c] = call]
      BY <1>3 DEF PruneRead
    <3>2. expired = { v \in Saved : timestamps[v] < seconds - SharedExpiry }
      BY DEF Saved
    <3>3. DOMAIN windowCall[c] = CallFields
      BY <1>a DEF CallTypes
    <3> HIDE DEF expired
    <3>4. /\ DOMAIN call = CallFields
          /\ call.since = seconds /\ call.doing = windowCall[c].doing
          /\ call.value = windowCall[c].value /\ call.expired = expired
          /\ call.at = IF call.expired = {} THEN "pruned" ELSE "pruneWrite"
      BY <3>3 DEF CallFields
    <3>5. QED
      BY <3>1, <3>2, <3>4
  <2>2. CallTypes(call)
    BY <1>a, <1>b, <2>1 DEF CallTypes
  <2>3. \A v \in Saved : timestamps[v] \in Nat
    BY <1>a DEF WindowTypes, Saved
  <2>4. CallFresh(call)
    BY <1>b, <2>1, <2>3 DEF CallFresh, Fresh
  <2>5. QED
    BY <1>3, <1>c, <2>1, <2>2, <2>4 DEF PruneRead
<1>4. ASSUME NEW c \in WindowCalls, PruneWrite(c) PROVE WindowInv'
  <2>1. PICK k : k = windowCall[c] /\ k.at = "pruneWrite" /\ CallTypes(k) /\ CallFresh(k)
    BY <1>4, <1>a DEF PruneWrite
  <2> DEFINE call == [k EXCEPT !.at = "pruned"]
  <2>2. /\ windowCall' = [windowCall EXCEPT ![c] = call]
        /\ timestamps' = [v \in Prices |-> IF v \in k.expired THEN Nil ELSE timestamps[v]]
        /\ values' = values \ k.expired /\ UNCHANGED <<seconds, savedLate>>
    BY <1>4, <2>1 DEF PruneWrite, Pruned
  <2>3. Saved' = Saved \ k.expired /\ \A v \in Saved' : timestamps'[v] = timestamps[v]
    BY <2>2 DEF Saved
  <2>4. WindowTypes'
    BY <1>a, <2>2, <2>3 DEF WindowTypes
  <2>5. CallTypes(call)' /\ CallFresh(call)'
    BY <2>1, <2>2, <2>3 DEF CallTypes, CallFields, CallFresh, Fresh
  <2>6. QED
    <3> HIDE DEF call
    <3>1. \A v \in Saved' : \/ v \in savedLate'
                            \/ v \in Saved /\ timestamps'[v] = timestamps[v] /\ v \notin savedLate
      BY <2>2, <2>3
    <3>2. PICK r : r = call
      OBVIOUS
    <3>3. CallTypes(r)' /\ CallFresh(r)'
      BY <2>5, <3>2 DEF call, CallTypes, CallFresh, Fresh
    <3>4. QED
      BY <1>d, <2>2, <2>4, <3>1, <3>2, <3>3
<1>5. ASSUME NEW c \in WindowCalls, PruneFails(c) PROVE WindowInv'
  <2> DEFINE call == [windowCall[c] EXCEPT !.at = "pruned", !.failed = TRUE]
  <2>1. windowCall' = [windowCall EXCEPT ![c] = call]
    BY <1>5 DEF PruneFails
  <2>2. CallTypes(call) /\ CallFresh(call)
    BY <1>a DEF CallTypes, CallFields, CallFresh
  <2> HIDE DEF call
  <2>3. QED
    BY <1>5, <1>c, <2>1, <2>2 DEF PruneFails
<1>6. ASSUME NEW c \in WindowCalls, SaveReads(c) PROVE WindowInv'
  <2> DEFINE refreshed == [windowCall[c] EXCEPT !.at = IF windowCall[c].value \in values
                                                       THEN "refresh" ELSE "insert",
                                                !.since = seconds]
             call == IF windowCall[c].value = 0 THEN NoCall ELSE refreshed
  <2>1. windowCall' = [windowCall EXCEPT ![c] = call]
    BY <1>6 DEF SaveReads
  <2>2. windowCall[c].doing = "save" /\ CallTypes(windowCall[c])
    BY <1>6, <1>a DEF SaveReads
  <2>3. CallTypes(refreshed) /\ CallFresh(refreshed)
    BY <1>b, <2>2 DEF CallTypes, CallFields, CallFresh
  <2>4. CallTypes(NoCall) /\ CallFresh(NoCall)
    BY <1>b DEF NoCall, CallTypes, CallFields, CallFresh
  <2>5. CallTypes(call) /\ CallFresh(call)
    BY <2>3, <2>4
  <2> HIDE DEF call
  <2>6. QED
    BY <1>6, <1>c, <2>1, <2>5 DEF SaveReads
<1>7. ASSUME NEW c \in WindowCalls, SaveWrites(c) PROVE WindowInv'
  <2>1. PICK k : k = windowCall[c] /\ k.at \in {"refresh", "insert"} /\ CallTypes(k)
    BY <1>7, <1>a DEF SaveWrites
  <2> DEFINE v == k.value
  <2>2. /\ v \in Prices /\ v \in Nat /\ k.since \in Nat /\ k.since <= seconds
        /\ timestamps' = [timestamps EXCEPT ![v] = k.since]
        /\ values' \subseteq values \cup {v}
        /\ savedLate' = IF k.since < seconds - SharedExpiry THEN savedLate \cup {v}
                        ELSE savedLate \ {v}
        /\ windowCall' = [windowCall EXCEPT ![c] = NoCall]
        /\ UNCHANGED seconds
    BY <1>7, <1>b, <2>1 DEF SaveWrites, CallTypes
  <2> HIDE DEF v
  <2>3. /\ Saved' = Saved \cup {v} /\ timestamps'[v] = k.since
        /\ \A u \in Prices \ {v} : timestamps'[u] = timestamps[u]
    BY <1>a, <1>b, <2>2 DEF Saved, WindowTypes
  <2>4. WindowTypes'
    <3>1. PICK limit \in Nat : \A u \in Saved : u <= limit /\ timestamps[u] <= limit
      BY <1>a DEF WindowTypes
    <3>2. limit + v + k.since \in Nat
      BY <2>2, <3>1
    <3>3. \A u \in Saved : u \in Nat /\ timestamps[u] \in Nat
      BY <1>a, <1>b DEF Saved, WindowTypes
    <3>4. \A u \in Saved' : u <= limit + v + k.since /\ timestamps'[u] <= limit + v + k.since
      <4>1. SUFFICES ASSUME NEW u \in Saved'
                     PROVE  u <= limit + v + k.since /\ timestamps'[u] <= limit + v + k.since
        OBVIOUS
      <4>2. CASE u = v
        BY <2>2, <2>3, <3>1, <4>2
      <4>3. CASE u # v
        BY <2>2, <2>3, <3>1, <3>3, <4>3, <4>1 DEF Saved
      <4>4. QED
        BY <4>2, <4>3
    <3>5. timestamps' \in [Prices -> Nat \cup {Nil}] /\ values' \subseteq Saved'
      BY <1>a, <2>2, <2>3 DEF WindowTypes
    <3>6. QED
      BY <1>b, <2>2, <3>2, <3>4, <3>5 DEF WindowTypes
  <2>5. \A u \in Saved' : \/ u \in savedLate'
                          \/ timestamps'[u] \in Nat /\ timestamps'[u] >= seconds - SharedExpiry
                          \/ u \in Saved /\ timestamps'[u] = timestamps[u] /\ u \notin savedLate
    BY <1>b, <2>2, <2>3 DEF Saved
  <2>6. CallTypes(NoCall)' /\ CallFresh(NoCall)'
    BY <1>b, <2>2 DEF NoCall, CallTypes, CallFields, CallFresh
  <2>7. PICK r : r = NoCall
    OBVIOUS
  <2>8. CallTypes(r)' /\ CallFresh(r)'
    BY <2>6, <2>7 DEF NoCall, CallTypes, CallFresh, Fresh
  <2>9. QED
    BY <1>d, <2>2, <2>4, <2>5, <2>7, <2>8
<1>8. ASSUME NEW c \in WindowCalls, Reads(c) PROVE WindowInv'
  <2> DEFINE latest == { v \in Saved : \A u \in Saved : timestamps[u] <= timestamps[v] }
             found == IF windowCall[c].doing = "latest" THEN Saved ELSE values
             answer == IF found = {} THEN Nil
                       ELSE CASE windowCall[c].doing = "min" -> SmallestOf(values)
                              [] windowCall[c].doing = "max" -> LargestOf(values)
                              [] OTHER -> LargestOf(latest)
             call == [windowCall[c] EXCEPT !.at = "answered", !.answer = answer,
                        !.savedAt = IF answer = Nil THEN Nil ELSE timestamps[answer],
                        !.late = answer \in savedLate]
  <2>1. /\ windowCall[c].at = "pruned" /\ windowCall[c].doing \in {"min", "max", "latest"}
        /\ windowCall' = [windowCall EXCEPT ![c] = call]
    BY <1>8 DEF Reads, Saved
  <2>2. CallTypes(windowCall[c]) /\ CallFresh(windowCall[c])
    BY <1>a
  <2>3. PICK limit \in Nat : \A v \in Saved : v <= limit /\ timestamps[v] <= limit
    BY <1>a DEF WindowTypes
  <2>4. Saved \in SUBSET Nat /\ values \subseteq Saved /\ \A v \in Saved : timestamps[v] \in Nat
    BY <1>a, <1>b DEF Saved, WindowTypes
  <2>5. Saved # {} => latest # {}
    <3> DEFINE times == { timestamps[v] : v \in Saved }
    <3>1. SUFFICES ASSUME Saved # {} PROVE latest # {}
      OBVIOUS
    <3>2. times \in SUBSET Nat /\ times # {} /\ \A t \in times : t <= limit
      BY <2>3, <2>4, <3>1
    <3> HIDE DEF times
    <3>3. LargestOf(times) \in times /\ \A t \in times : LargestOf(times) >= t
      BY <2>3, <3>2, Extremes
    <3>4. \E t \in times : \A u \in times : t >= u
      BY <3>3
    <3>5. PICK v \in Saved : \A u \in Saved : timestamps[v] >= timestamps[u]
      BY <3>4 DEF times
    <3>6. QED
      BY <2>4, <3>5
  <2>6. answer # Nil => answer \in Saved
    <3>1. latest \in SUBSET Nat /\ \A v \in latest : v <= limit
      BY <2>3, <2>4
    <3>2. latest # {} => LargestOf(latest) \in latest
      <4> HIDE DEF latest
      <4> QED
        BY <2>3, <3>1, Extremes
    <3>3. values # {} => SmallestOf(values) \in values /\ LargestOf(values) \in values
      BY <2>3, <2>4, Extremes
    <3>4. windowCall[c].doing = "min" /\ answer # Nil => answer \in values
      BY <3>3
    <3>5. windowCall[c].doing = "max" /\ answer # Nil => answer \in values
      BY <3>3
    <3>6. windowCall[c].doing = "latest" /\ answer # Nil => answer \in latest
      BY <2>5, <3>2
    <3>7. QED
      BY <2>1, <2>4, <3>4, <3>5, <3>6
  <2> HIDE DEF answer
  <2>7. /\ DOMAIN call = CallFields
        /\ call.at = "answered" /\ call.answer = answer
        /\ answer # Nil => call.savedAt = timestamps[answer]
        /\ call.late = (answer \in savedLate)
        /\ call.failed = windowCall[c].failed /\ call.since = windowCall[c].since
        /\ call.doing = windowCall[c].doing /\ call.value = windowCall[c].value
    BY <2>2 DEF CallTypes, CallFields
  <2> HIDE DEF call
  <2>8. CallTypes(call)
    BY <2>2, <2>7 DEF CallTypes
  <2>9. CallFresh(call)
    BY <1>b, <2>1, <2>2, <2>4, <2>6, <2>7 DEF CallFresh, Fresh
  <2>10. QED
    BY <1>8, <1>c, <2>1, <2>8, <2>9 DEF Reads
<1>9. ASSUME NEW c \in WindowCalls, Returns(c) PROVE WindowInv'
  <2>1. CallTypes(NoCall) /\ CallFresh(NoCall)
    BY <1>b DEF NoCall, CallTypes, CallFields, CallFresh
  <2>2. QED
    BY <1>9, <1>c, <2>1 DEF Returns
<1>10. CASE UNCHANGED windowVars
  <2>1. /\ UNCHANGED <<seconds, values, timestamps, windowCall, savedLate>>
    BY <1>10 DEF windowVars
  <2>2. QED
    BY <1>a, <2>1 DEF WindowInv, WindowTypes, Saved, CallTypes, CallFresh, Fresh
<1>11. QED
  BY <1>1, <1>2, <1>3, <1>4, <1>5, <1>6, <1>7, <1>8, <1>9, <1>10 DEF WindowNext

\* A call never answers with a value that had expired when it began, unless its own
\* prune failed or the value had expired when its save was written: for any number
\* of calls in any number of instances.
THEOREM AnswersAlwaysFresh == WindowSpec => []SharedAnswerIsFresh
<1>1. WindowInv => SharedAnswerIsFresh
  BY DEF WindowInv, CallFresh, SharedAnswerIsFresh
<1>2. QED
  BY <1>1, InitWindowInv, NextWindowInv, PTL DEF WindowSpec

-----------------------------------------------------------------------------
(***************************************************************************)
(* The outstanding ops.  The scripts of Redis keep the indexes (IndexInv); *)
(* the queue of slots is ranked where no write crossed another (RankInv);  *)
(* and an op is in one hand unless a call was mistaken (HandInv).          *)
(***************************************************************************)

Steps == {"idle", "conflict", "lookup", "lookupIndex", "lookupOps", "removeIndex", "removeRead",
          "removeWrite", "addRead", "addWrite"}

\* The steps of popConflicting that have found another op, of remove and of add.
WithTarget == {"lookupIndex", "lookupOps", "removeIndex", "removeRead", "removeWrite", "addRead",
               "addWrite"}

StepTypes(call) ==
  /\ DOMAIN call = {"at", "op", "target", "lowest", "next", "fresh"}
  /\ call.at \in Steps
  /\ call.op \in Ops \cup {Nothing}
  /\ call.at \in {"conflict", "lookup", "lookupIndex", "lookupOps"} => call.op \in Ops
  /\ call.at \in WithTarget => call.target \in Ops

IndexInv ==
  /\ pendingOps \in [Slots -> SUBSET Ops]
  /\ \A s \in Slots : \A o \in pendingOps[s] : SlotOf(o) = s
  /\ DOMAIN userOpHashLookup = Ops
  /\ \A o \in Ops : userOpHashLookup[o] = IF o \in Outstanding THEN SlotOf(o) ELSE Nothing
  /\ DOMAIN factoryLookup = Senders
  /\ \A s \in Senders : factoryLookup[s] # Nothing =>
       /\ factoryLookup[s] \in Outstanding
       /\ UserOp[factoryLookup[s]].deploys /\ UserOp[factoryLookup[s]].sender = s
  /\ DOMAIN calls = Callers /\ \A c \in Callers : StepTypes(calls[c])
  /\ popped \subseteq Ops

-----------------------------------------------------------------------------

\* A slot's entry of the ready queue is right.
Ranked(s) == readyOpsQueue[s] = Fee(First(pendingOps[s]))

\* What a call that is about to write has read is still so.
ReadRight(call) ==
  LET o == call.target
      ops == pendingOps[SlotOf(o)]
      first == First(ops)
  IN
  /\ call.at = "removeWrite" /\ call.fresh =>
       o \in ops /\ call.lowest = (first = o) /\ call.next = First(ops \ {o})
  /\ call.at = "addWrite" /\ call.fresh =>
       call.lowest = (first = Nothing \/ UserOp[o].nonceSeq < UserOp[first].nonceSeq)

RankInv ==
  /\ DOMAIN readyOpsQueue = Slots
  /\ \A s \in Slots \ crossed : Ranked(s)
  /\ \A c \in Callers : ReadRight(calls[c])

-----------------------------------------------------------------------------

\* A call that will put o into the store: its own op before add, or what add is given.
WillAdd(call, o) ==
  \/ call.at \in {"addRead", "addWrite"} /\ call.target = o
  \/ call.at \in Steps \ {"idle", "addRead", "addWrite"} /\ call.op = o

InOneHand(o) ==
  /\ o \in Outstanding \cup popped => o \in submitted /\ \A c \in Callers : ~WillAdd(calls[c], o)
  /\ ~(o \in Outstanding /\ o \in popped)
  /\ \A c \in Callers : WillAdd(calls[c], o) =>
       o \in submitted /\ \A d \in Callers : WillAdd(calls[d], o) => c = d

HandInv == \A o \in Ops \ mistaken : InOneHand(o)

-----------------------------------------------------------------------------

\* Ops are ordered: some op of a set comes before the others, and only one does.
LEMMA FirstIs ==
  ASSUME NEW ops \in SUBSET Ops, ops # {}
  PROVE  First(ops) \in ops /\ \A p \in ops : Precedes(First(ops), p)
<1>a. \A o \in Ops : UserOp[o].nonceSeq \in Nat /\ UserOp[o].bytes \in Nat
  BY RedisOutstandingAssumption DEF RedisOutstandingAssumption
<1> DEFINE seqs == { UserOp[o].nonceSeq : o \in ops }
<1>1. PICK n \in seqs : \A m \in seqs : n <= m
  <2>1. seqs \in SUBSET Nat /\ seqs # {}
    BY <1>a
  <2> HIDE DEF seqs
  <2>2. QED
    BY <2>1, LeastElement
<1> DEFINE lowest == { o \in ops : UserOp[o].nonceSeq = n }
           bytes == { UserOp[o].bytes : o \in lowest }
<1>2. PICK b \in bytes : \A m \in bytes : b <= m
  <2>1. bytes \in SUBSET Nat /\ bytes # {}
    BY <1>a, <1>1
  <2> HIDE DEF bytes
  <2>2. QED
    BY <2>1, LeastElement
<1>3. PICK o \in lowest : UserOp[o].bytes = b
  BY <1>2
<1>4. ASSUME NEW p \in ops PROVE Precedes(o, p)
  <2>1. UserOp[o].nonceSeq = n /\ n <= UserOp[p].nonceSeq
    BY <1>1, <1>3, <1>4
  <2>2. UserOp[p].nonceSeq = n => UserOp[o].bytes <= UserOp[p].bytes
    BY <1>2, <1>3, <1>4
  <2>3. n \in Nat /\ UserOp[p].nonceSeq \in Nat
    BY <1>a, <1>1, <1>4
  <2>4. QED
    BY <2>1, <2>2, <2>3 DEF Precedes
<1>5. \E q \in ops : \A p \in ops : Precedes(q, p)
  BY <1>3, <1>4
<1>6. QED
  BY <1>5 DEF First

\* The op that precedes all the others is the first.
LEMMA OnlyFirst ==
  ASSUME NEW ops \in SUBSET Ops, NEW o \in ops, \A p \in ops : Precedes(o, p)
  PROVE  First(ops) = o
<1>1. First(ops) \in ops /\ Precedes(First(ops), o) /\ Precedes(o, First(ops))
  BY FirstIs
<1>2. UserOp[o].bytes = UserOp[First(ops)].bytes
  BY <1>1, RedisOutstandingAssumption DEF RedisOutstandingAssumption, Precedes
<1>3. QED
  BY <1>1, <1>2, RedisOutstandingAssumption DEF RedisOutstandingAssumption

\* Nothing is first of no ops, and no op is nothing.
LEMMA FirstOrNothing ==
  ASSUME NEW ops \in SUBSET Ops
  PROVE  (First(ops) = Nothing) <=> (ops = {})
BY FirstIs, RedisOutstandingAssumption DEF RedisOutstandingAssumption, First

\* Removing another op than the first leaves the first.
LEMMA FirstStays ==
  ASSUME NEW ops \in SUBSET Ops, NEW o \in ops, First(ops) # o
  PROVE  First(ops \ {o}) = First(ops)
<1>1. First(ops) \in ops \ {o} /\ \A p \in ops \ {o} : Precedes(First(ops), p)
  BY FirstIs
<1>2. QED
  BY <1>1, OnlyFirst

\* What is added to a slot is its first just when its nonce is lower than the first
\* one's.
LEMMA FirstOfMore ==
  ASSUME NEW ops \in SUBSET Ops, NEW o \in Ops, \A p \in ops : UserOp[p].nonceSeq = UserOp[o].nonceSeq => p = o
  PROVE  First(ops \cup {o}) =
           IF First(ops) = Nothing \/ UserOp[o].nonceSeq < UserOp[First(ops)].nonceSeq
           THEN o ELSE First(ops)
<1>a. \A p \in Ops : UserOp[p].nonceSeq \in Nat /\ UserOp[p].bytes \in Nat
  BY RedisOutstandingAssumption DEF RedisOutstandingAssumption
<1>1. CASE ops = {}
  <2>1. \A p \in ops \cup {o} : Precedes(o, p)
    BY <1>1, <1>a DEF Precedes
  <2>2. First(ops \cup {o}) = o
    BY <2>1, OnlyFirst
  <2>3. QED
    BY <1>1, <2>2, FirstOrNothing
<1>2. CASE ops # {}
  <2>1. First(ops) \in ops /\ First(ops) # Nothing /\ \A p \in ops : Precedes(First(ops), p)
    BY <1>2, FirstIs, FirstOrNothing
  <2>2. CASE UserOp[o].nonceSeq < UserOp[First(ops)].nonceSeq
    <3>1. \A p \in ops \cup {o} : Precedes(o, p)
      BY <1>a, <2>1, <2>2 DEF Precedes
    <3>2. QED
      BY <2>2, <3>1, OnlyFirst
  <2>3. CASE ~(UserOp[o].nonceSeq < UserOp[First(ops)].nonceSeq)
    <3>1. Precedes(First(ops), o)
      BY <1>a, <2>1, <2>3 DEF Precedes
    <3>2. First(ops) \in ops \cup {o} /\ \A p \in ops \cup {o} : Precedes(First(ops), p)
      BY <2>1, <3>1
    <3>3. QED
      BY <2>1, <2>3, <3>2, OnlyFirst
  <2>4. QED
    BY <2>2, <2>3
<1>3. QED
  BY <1>1, <1>2

-----------------------------------------------------------------------------
(* The indexes.                                                            *)

\* The indexes agree at first.
LEMMA InitIndexInv == OutstandingInit => IndexInv
BY RedisOutstandingAssumption
   DEF RedisOutstandingAssumption, OutstandingInit, IndexInv, StepTypes, Idle, Outstanding, Slots,
       Steps, WithTarget

\* After an op of a slot is gone, with its entries.
LEMMA GoneFromIndexes ==
  ASSUME IndexInv, NEW o \in Ops,
         pendingOps' = [pendingOps EXCEPT ![SlotOf(o)] = @ \ {o}],
         userOpHashLookup' = [userOpHashLookup EXCEPT ![o] = Nothing],
         \/ UserOp[o].deploys /\ factoryLookup' = [factoryLookup EXCEPT ![UserOp[o].sender] = Nothing]
         \/ factoryLookup[UserOp[o].sender] # o /\ UNCHANGED factoryLookup
         \/ ~UserOp[o].deploys /\ UNCHANGED factoryLookup
         \/ factoryLookup' = [factoryLookup EXCEPT ![UserOp[o].sender] = Nothing],
         DOMAIN calls' = Callers, \A c \in Callers : StepTypes(calls'[c]),
         popped' \subseteq Ops
  PROVE  IndexInv' /\ Outstanding' = Outstanding \ {o}
<1>1. \A p \in Ops : SlotOf(p) \in Slots /\ UserOp[p].sender \in Senders
  BY DEF Slots, Senders
<1>2. /\ pendingOps' \in [Slots -> SUBSET Ops]
      /\ \A s \in Slots : \A p \in pendingOps'[s] : SlotOf(p) = s
  BY <1>1 DEF IndexInv
<1>3. \A p \in Ops : p \in pendingOps'[SlotOf(p)] <=> p \in pendingOps[SlotOf(p)] /\ p # o
  BY <1>1 DEF IndexInv
<1>4. Outstanding' = Outstanding \ {o}
  BY <1>3 DEF Outstanding
<1>5. /\ DOMAIN userOpHashLookup' = Ops
      /\ \A p \in Ops : userOpHashLookup'[p] = IF p \in Outstanding' THEN SlotOf(p) ELSE Nothing
  BY <1>4 DEF IndexInv
<1>6. /\ DOMAIN factoryLookup' = Senders
      /\ \A s \in Senders : factoryLookup'[s] # Nothing => factoryLookup'[s] = factoryLookup[s]
                                                           /\ factoryLookup[s] # o
  <2>1. DOMAIN factoryLookup = Senders /\ Nothing \notin Ops
    BY RedisOutstandingAssumption DEF IndexInv, RedisOutstandingAssumption
  <2>2. \A s \in Senders : factoryLookup[s] = o => s = UserOp[o].sender /\ UserOp[o].deploys
    BY <2>1 DEF IndexInv
  <2>3. QED
    BY <1>1, <2>1, <2>2
<1>7. \A s \in Senders : factoryLookup'[s] # Nothing =>
        /\ factoryLookup'[s] \in Outstanding'
        /\ UserOp[factoryLookup'[s]].deploys /\ UserOp[factoryLookup'[s]].sender = s
  BY <1>4, <1>6 DEF IndexInv
<1>8. QED
  BY ONLY <1>2, <1>4, <1>5, <1>6, <1>7,
     DOMAIN calls' = Callers, \A c \in Callers : StepTypes(calls'[c]), popped' \subseteq Ops
     DEF IndexInv

\* A step that only reads.
LEMMA ReadsIndexes ==
  ASSUME IndexInv, NEW c \in Callers, NEW call, Goes(c, call), StepTypes(call),
         UNCHANGED queueVars, popped' \subseteq Ops
  PROVE  IndexInv'
BY DEF IndexInv, Goes, queueVars, Outstanding

\* What a call does after its remove.
LEMMA AfterRemoveTypes ==
  ASSUME IndexInv, NEW c \in Callers, calls[c].at \in WithTarget
  PROVE  StepTypes(AfterRemove(c))
BY DEF IndexInv, AfterRemove, StepTypes, Idle, WithTarget, Steps

\* The calls of a step that writes.
LEMMA WroteTypes ==
  ASSUME IndexInv, NEW c \in Callers, NEW call, StepTypes(call), NEW s, Wrote(c, call, s)
  PROVE  DOMAIN calls' = Callers /\ \A d \in Callers : StepTypes(calls'[d])
<1>1. \A d \in Callers : StepTypes(calls[d])
  BY DEF IndexInv
<1>2. \A d \in Callers : StepTypes([calls[d] EXCEPT !.fresh = FALSE])
  BY <1>1 DEF StepTypes
<1>3. QED
  BY <1>1, <1>2 DEF Wrote

\* Every step keeps the indexes in agreement.
LEMMA NextIndexInv == IndexInv /\ [OutstandingNext]_outstandingVars => IndexInv'
<1> SUFFICES ASSUME IndexInv, [OutstandingNext]_outstandingVars PROVE IndexInv'
  OBVIOUS
<1>a. /\ DOMAIN calls = Callers /\ \A c \in Callers : StepTypes(calls[c])
      /\ popped \subseteq Ops /\ Nothing \notin Ops
  BY RedisOutstandingAssumption DEF IndexInv, RedisOutstandingAssumption
<1>b. StepTypes(Idle)
  BY DEF StepTypes, Idle, Steps, WithTarget
<1>1. ASSUME NEW c \in Callers, NEW o \in Ops, Submit(c, o) \/ Drop(c, o) \/ GiveBack(c, o)
      PROVE  IndexInv'
  <2>1. PICK call : Goes(c, call) /\ StepTypes(call)
    <3>1. /\ StepTypes([Idle EXCEPT !.at = "conflict", !.op = o])
          /\ StepTypes([Idle EXCEPT !.at = "removeIndex", !.target = o])
          /\ StepTypes([Idle EXCEPT !.at = "addRead", !.target = o])
      BY DEF StepTypes, Idle, Steps, WithTarget
    <3>2. QED
      BY <1>1, <3>1 DEF Submit, Drop, GiveBack
  <2>2. UNCHANGED queueVars /\ popped' \subseteq Ops
    BY <1>1, <1>a DEF Submit, Drop, GiveBack
  <2>3. QED
    BY <2>1, <2>2, ReadsIndexes
<1>2. ASSUME NEW c \in Callers,
             Conflict(c) \/ Lookup(c) \/ LookupIndex(c) \/ LookupOps(c)
      PROVE  IndexInv'
  <2>0. calls[c].op \in Ops /\ StepTypes(calls[c])
    BY <1>2, <1>a DEF Conflict, Lookup, LookupIndex, LookupOps, StepTypes
  <2>1. /\ StepTypes([Idle EXCEPT !.at = "addRead", !.op = calls[c].op, !.target = calls[c].op])
        /\ \A t \in Ops : StepTypes([calls[c] EXCEPT !.at = "removeIndex", !.target = t])
        /\ StepTypes([calls[c] EXCEPT !.at = "lookup"])
        /\ \A t \in Ops : StepTypes([calls[c] EXCEPT !.at = "lookupIndex", !.target = t])
        /\ calls[c].at = "lookupIndex" => StepTypes([calls[c] EXCEPT !.at = "lookupOps"])
    BY <2>0 DEF StepTypes, Idle, Steps, WithTarget
  <2>2. SameNonce(calls[c].op) # {} => First(SameNonce(calls[c].op)) \in Ops
    <3>1. SameNonce(calls[c].op) \in SUBSET Ops
      BY <2>0 DEF SameNonce, IndexInv, Slots
    <3>2. QED
      BY <3>1, FirstIs
  <2>3. ASSUME calls[c].at = "lookup", factoryLookup[UserOp[calls[c].op].sender] # Nothing
        PROVE factoryLookup[UserOp[calls[c].op].sender] \in Ops
    BY <2>0, <2>3 DEF IndexInv, Senders, Outstanding
  <2>4. calls[c].at = "lookupOps" => calls[c].target \in Ops
    BY <2>0 DEF StepTypes, WithTarget
  <2>5. \E call : Goes(c, call) /\ StepTypes(call)
    <3>1. CASE Conflict(c)
      BY <2>1, <2>2, <3>1 DEF Conflict, Removes, AddsOwn
    <3>2. CASE Lookup(c)
      BY <2>1, <2>3, <3>2 DEF Lookup, AddsOwn
    <3>3. CASE LookupIndex(c)
      BY <2>1, <3>3 DEF LookupIndex, AddsOwn
    <3>4. CASE LookupOps(c)
      BY <2>1, <2>4, <3>4 DEF LookupOps, Removes, AddsOwn
    <3>5. QED
      BY <1>2, <3>1, <3>2, <3>3, <3>4
  <2>6. UNCHANGED queueVars /\ popped' \subseteq Ops
    BY <1>2, <1>a DEF Conflict, Lookup, LookupIndex, LookupOps
  <2>7. QED
    BY <2>5, <2>6, ReadsIndexes
<1>3. ASSUME NEW c \in Callers, RemoveIndex(c) \/ RemoveRead(c) \/ AddRead(c)
      PROVE  IndexInv'
  <2>0. calls[c].target \in Ops /\ StepTypes(calls[c]) /\ StepTypes(AfterRemove(c))
    BY <1>3, <1>a, AfterRemoveTypes DEF RemoveIndex, RemoveRead, AddRead, StepTypes, WithTarget
  <2>1. /\ StepTypes([calls[c] EXCEPT !.at = "removeRead"])
        /\ \A l, n : StepTypes([calls[c] EXCEPT !.at = "removeWrite", !.lowest = l, !.next = n, !.fresh = TRUE])
        /\ \A l : StepTypes([calls[c] EXCEPT !.at = "addWrite", !.fresh = TRUE, !.lowest = l])
    BY <2>0 DEF StepTypes, Steps, WithTarget
  <2>2. \E call : Goes(c, call) /\ StepTypes(call)
    BY <1>3, <2>0, <2>1 DEF RemoveIndex, RemoveRead, AddRead
  <2>3. UNCHANGED queueVars /\ popped' \subseteq Ops
    BY <1>3, <1>a DEF RemoveIndex, RemoveRead, AddRead
  <2>4. QED
    BY <2>2, <2>3, ReadsIndexes
<1>4. ASSUME NEW c \in Callers, RemoveWrite(c) PROVE IndexInv'
  <2>1. calls[c].target \in Ops /\ StepTypes(AfterRemove(c))
    BY <1>4, <1>a, AfterRemoveTypes DEF RemoveWrite, StepTypes, WithTarget
  <2>2. DOMAIN calls' = Callers /\ \A d \in Callers : StepTypes(calls'[d])
    BY <1>4, <2>1, WroteTypes DEF RemoveWrite
  <2>3. QED
    BY <1>4, <1>a, <2>1, <2>2, GoneFromIndexes DEF RemoveWrite
<1>5. ASSUME NEW c \in Callers, AddWrite(c) PROVE IndexInv'
  <2> DEFINE o == calls[c].target
  <2>1. o \in Ops
    BY <1>5, <1>a DEF AddWrite, StepTypes, WithTarget
  <2>2. DOMAIN calls' = Callers /\ \A d \in Callers : StepTypes(calls'[d])
    BY <1>5, <1>b, WroteTypes DEF AddWrite
  <2>3. /\ pendingOps' = [pendingOps EXCEPT ![SlotOf(o)] = @ \cup {o}]
        /\ userOpHashLookup' = [userOpHashLookup EXCEPT ![o] = SlotOf(o)]
        /\ factoryLookup' = IF UserOp[o].deploys THEN [factoryLookup EXCEPT ![UserOp[o].sender] = o]
                            ELSE factoryLookup
        /\ popped' \subseteq Ops
    BY <1>5, <1>a DEF AddWrite
  <2> HIDE DEF o
  <2>4. \A p \in Ops : SlotOf(p) \in Slots /\ UserOp[p].sender \in Senders
    BY DEF Slots, Senders
  <2>5. /\ pendingOps' \in [Slots -> SUBSET Ops]
        /\ \A s \in Slots : \A p \in pendingOps'[s] : SlotOf(p) = s
    BY <2>1, <2>3, <2>4 DEF IndexInv
  <2>6. Outstanding' = Outstanding \cup {o}
    BY <2>1, <2>3, <2>4 DEF IndexInv, Outstanding
  <2>7. /\ DOMAIN userOpHashLookup' = Ops
        /\ \A p \in Ops : userOpHashLookup'[p] = IF p \in Outstanding' THEN SlotOf(p) ELSE Nothing
    BY <2>1, <2>3, <2>6 DEF IndexInv
  <2>8. /\ DOMAIN factoryLookup' = Senders
        /\ \A s \in Senders : factoryLookup'[s] # Nothing =>
             /\ factoryLookup'[s] \in Outstanding'
             /\ UserOp[factoryLookup'[s]].deploys /\ UserOp[factoryLookup'[s]].sender = s
    BY <2>1, <2>3, <2>4, <2>6 DEF IndexInv
  <2>9. QED
    BY ONLY <2>2, <2>3, <2>5, <2>7, <2>8 DEF IndexInv
<1>6. ASSUME Pop PROVE IndexInv'
  <2>1. PICK s \in Slots :
          LET o == First(pendingOps[s]) IN
          /\ pendingOps[s] # {} /\ PoppedFrom(s, o)
          /\ userOpHashLookup' = [userOpHashLookup EXCEPT ![o] = Nothing]
          /\ factoryLookup' = IF factoryLookup[UserOp[o].sender] = o
                              THEN [factoryLookup EXCEPT ![UserOp[o].sender] = Nothing]
                              ELSE factoryLookup
          /\ calls' = [d \in Callers |->
               IF calls[d].at \in {"addWrite", "removeWrite"} /\ SlotOf(calls[d].target) = s
               THEN [calls[d] EXCEPT !.fresh = FALSE] ELSE calls[d]]
          /\ popped' = popped \cup {o}
    BY <1>6 DEF Pop
  <2> DEFINE o == First(pendingOps[s])
  <2>2. o \in Ops /\ SlotOf(o) = s
    <3>1. pendingOps[s] \in SUBSET Ops
      BY DEF IndexInv
    <3>2. o \in pendingOps[s]
      BY <2>1, <3>1, FirstIs
    <3>3. QED
      BY <3>1, <3>2 DEF IndexInv
  <2>3. DOMAIN calls' = Callers /\ \A d \in Callers : StepTypes(calls'[d])
    <3>1. \A d \in Callers : StepTypes([calls[d] EXCEPT !.fresh = FALSE])
      BY <1>a DEF StepTypes
    <3>2. QED
      BY <1>a, <2>1, <3>1
  <2>4. QED
    <3>1. /\ pendingOps' = [pendingOps EXCEPT ![SlotOf(o)] = @ \ {o}]
          /\ userOpHashLookup' = [userOpHashLookup EXCEPT ![o] = Nothing]
          /\ \/ factoryLookup[UserOp[o].sender] # o /\ UNCHANGED factoryLookup
             \/ factoryLookup' = [factoryLookup EXCEPT ![UserOp[o].sender] = Nothing]
          /\ popped' \subseteq Ops
      BY <1>a, <2>1, <2>2 DEF PoppedFrom
    <3> HIDE DEF o
    <3>2. QED
      BY <2>2, <2>3, <3>1, GoneFromIndexes
<1>7. ASSUME PopNothing PROVE IndexInv'
  BY <1>7 DEF PopNothing, IndexInv, Outstanding
<1>8. CASE UNCHANGED outstandingVars
  BY <1>8 DEF outstandingVars, queueVars, IndexInv, Outstanding
<1>9. QED
  BY <1>1, <1>2, <1>3, <1>4, <1>5, <1>6, <1>7, <1>8 DEF OutstandingNext

-----------------------------------------------------------------------------
(* The ready queue.                                                        *)

\* Every slot is ranked at first.
LEMMA InitRankInv == OutstandingInit => RankInv
BY DEF OutstandingInit, RankInv, Ranked, First, Fee, ReadRight, Idle

\* What was read of a slot stays right while the slot stays as it is.
LEMMA StillRight ==
  ASSUME NEW call, ReadRight(call),
         call.at \in {"addWrite", "removeWrite"} =>
           pendingOps'[SlotOf(call.target)] = pendingOps[SlotOf(call.target)]
  PROVE  ReadRight(call)'
BY DEF ReadRight

\* A step that only reads.
LEMMA ReadsRanks ==
  ASSUME IndexInv, RankInv, NEW c \in Callers, NEW call, Goes(c, call), ReadRight(call),
         UNCHANGED <<pendingOps, readyOpsQueue, crossed>>
  PROVE  RankInv'
<1>1. \A d \in Callers : calls'[d] = IF d = c THEN call ELSE calls[d]
  BY DEF Goes, IndexInv
<1>2. \A k : ReadRight(k) => ReadRight(k)'
  BY DEF ReadRight
<1>3. ASSUME NEW d \in Callers PROVE ReadRight(calls[d])'
  <2>1. PICK k : k = calls'[d] /\ ReadRight(k)
    BY <1>1 DEF RankInv
  <2>2. ReadRight(k)'
    BY <1>2, <2>1
  <2>3. QED
    BY <2>1, <2>2 DEF ReadRight
<1>4. QED
  BY <1>3 DEF RankInv, Ranked

\* A step that writes slot s, and ranks it, unless it is crossed.
LEMMA WritesRanks ==
  ASSUME IndexInv, RankInv, NEW s \in Slots, NEW ops,
         pendingOps' = [pendingOps EXCEPT ![s] = ops],
         DOMAIN readyOpsQueue' = Slots,
         \A t \in Slots \ {s} : Ranked(t) => Ranked(t)',
         crossed \subseteq crossed', s \notin crossed' => readyOpsQueue'[s] = Fee(First(ops)),
         \A d \in Callers : \/ calls'[d].at \notin {"addWrite", "removeWrite"}
                            \/ ~calls'[d].fresh
                            \/ calls'[d] = calls[d] /\ SlotOf(calls[d].target) # s
  PROVE  RankInv'
<1>1. pendingOps'[s] = ops /\ \A t \in Slots \ {s} : pendingOps'[t] = pendingOps[t]
  BY DEF IndexInv
<1>2. \A t \in Slots \ crossed' : Ranked(t)'
  BY <1>1 DEF RankInv, Ranked
<1>3. ASSUME NEW d \in Callers PROVE ReadRight(calls[d])'
  <2>1. CASE calls'[d].at \notin {"addWrite", "removeWrite"} \/ ~calls'[d].fresh
    BY <2>1 DEF ReadRight
  <2>2. CASE calls'[d] = calls[d] /\ SlotOf(calls[d].target) # s
                 /\ calls[d].at \in {"addWrite", "removeWrite"}
    <3>1. PICK k : k = calls[d]
      OBVIOUS
    <3>2. k.target \in Ops /\ SlotOf(k.target) \in Slots
      BY <2>2, <3>1 DEF IndexInv, StepTypes, WithTarget, Slots
    <3>3. ReadRight(k)'
      BY <1>1, <2>2, <3>1, <3>2, StillRight DEF RankInv
    <3>4. QED
      BY <2>2, <3>1, <3>3 DEF ReadRight
  <2>3. QED
    BY <2>1, <2>2
<1>4. QED
  BY <1>2, <1>3 DEF RankInv

\* Every step ranks the slots it writes.
LEMMA NextRankInv == IndexInv /\ RankInv /\ [OutstandingNext]_outstandingVars => RankInv'
<1> SUFFICES ASSUME IndexInv, RankInv, [OutstandingNext]_outstandingVars PROVE RankInv'
  OBVIOUS
<1>a. /\ DOMAIN calls = Callers /\ \A c \in Callers : StepTypes(calls[c])
      /\ pendingOps \in [Slots -> SUBSET Ops]
      /\ Nothing \notin Ops /\ \A o \in Ops : SlotOf(o) \in Slots
  BY RedisOutstandingAssumption DEF IndexInv, RedisOutstandingAssumption, Slots
<1>b. \A call : call.at \notin {"addWrite", "removeWrite"} => ReadRight(call)
  BY DEF ReadRight
<1>1. ASSUME NEW c \in Callers, NEW o \in Ops, Submit(c, o) \/ Drop(c, o) \/ GiveBack(c, o)
      PROVE  RankInv'
  <2>1. PICK call : Goes(c, call) /\ call.at \notin {"addWrite", "removeWrite"}
    <3>1. /\ [Idle EXCEPT !.at = "conflict", !.op = o].at = "conflict"
          /\ [Idle EXCEPT !.at = "removeIndex", !.target = o].at = "removeIndex"
          /\ [Idle EXCEPT !.at = "addRead", !.target = o].at = "addRead"
      BY DEF Idle
    <3>2. QED
      BY <1>1, <3>1 DEF Submit, Drop, GiveBack
  <2>2. UNCHANGED <<pendingOps, readyOpsQueue, crossed>>
    BY <1>1 DEF Submit, Drop, GiveBack, queueVars
  <2>3. QED
    BY <1>b, <2>1, <2>2, ReadsRanks
<1>2. ASSUME NEW c \in Callers,
             Conflict(c) \/ Lookup(c) \/ LookupIndex(c) \/ LookupOps(c) \/ RemoveIndex(c)
      PROVE  RankInv'
  <2>1. PICK call : Goes(c, call) /\ call.at \notin {"addWrite", "removeWrite"}
    <3>1. DOMAIN calls[c] = {"at", "op", "target", "lowest", "next", "fresh"}
      BY <1>a DEF StepTypes
    <3>2. /\ [Idle EXCEPT !.at = "addRead", !.op = calls[c].op, !.target = calls[c].op].at = "addRead"
          /\ \A t : [calls[c] EXCEPT !.at = "removeIndex", !.target = t].at = "removeIndex"
          /\ [calls[c] EXCEPT !.at = "lookup"].at = "lookup"
          /\ \A t : [calls[c] EXCEPT !.at = "lookupIndex", !.target = t].at = "lookupIndex"
          /\ [calls[c] EXCEPT !.at = "lookupOps"].at = "lookupOps"
          /\ [calls[c] EXCEPT !.at = "removeRead"].at = "removeRead"
          /\ AfterRemove(c).at \in {"idle", "addRead"}
      BY <3>1 DEF Idle, AfterRemove
    <3>3. CASE Conflict(c) \/ Lookup(c)
      BY <3>2, <3>3 DEF Conflict, Lookup, Removes, AddsOwn
    <3>4. CASE LookupIndex(c) \/ LookupOps(c)
      BY <3>2, <3>4 DEF LookupIndex, LookupOps, Removes, AddsOwn
    <3>5. CASE RemoveIndex(c)
      BY <3>2, <3>5 DEF RemoveIndex
    <3>6. QED
      BY <1>2, <3>3, <3>4, <3>5
  <2>2. UNCHANGED <<pendingOps, readyOpsQueue, crossed>>
    BY <1>2 DEF Conflict, Lookup, LookupIndex, LookupOps, RemoveIndex, queueVars
  <2>3. QED
    BY <1>b, <2>1, <2>2, ReadsRanks
<1>3. ASSUME NEW c \in Callers, RemoveRead(c) \/ AddRead(c) PROVE RankInv'
  <2>0. DOMAIN calls[c] = {"at", "op", "target", "lowest", "next", "fresh"}
    BY <1>a DEF StepTypes
  <2>1. PICK call : Goes(c, call) /\ ReadRight(call)
    <3>1. CASE RemoveRead(c)
      <4> DEFINE o == calls[c].target
                 ops == pendingOps[SlotOf(o)]
                 call == [calls[c] EXCEPT !.at = "removeWrite", !.lowest = First(ops) = o,
                            !.next = First(ops \ {o}), !.fresh = TRUE]
      <4>1. \/ Goes(c, AfterRemove(c))
            \/ o \in ops /\ Goes(c, call)
        BY <3>1 DEF RemoveRead
      <4>2. AfterRemove(c).at \in {"idle", "addRead"}
        BY DEF AfterRemove, Idle
      <4>3. /\ call.at = "removeWrite" /\ call.target = o /\ call.lowest = (First(ops) = o)
            /\ call.next = First(ops \ {o})
        BY <2>0
      <4> HIDE DEF call
      <4>4. o \in ops => ReadRight(call)
        BY <4>3 DEF ReadRight
      <4>5. QED
        BY <1>b, <4>1, <4>2, <4>4
    <3>2. CASE AddRead(c)
      <4> DEFINE o == calls[c].target
                 first == First(pendingOps[SlotOf(o)])
                 call == [calls[c] EXCEPT !.at = "addWrite", !.fresh = TRUE,
                            !.lowest = first = Nothing \/ UserOp[o].nonceSeq < UserOp[first].nonceSeq]
      <4>1. Goes(c, call)
        BY <3>2 DEF AddRead
      <4>2. /\ call.at = "addWrite" /\ call.target = o
            /\ call.lowest = (first = Nothing \/ UserOp[o].nonceSeq < UserOp[first].nonceSeq)
        BY <2>0
      <4> HIDE DEF call
      <4>3. ReadRight(call)
        BY <4>2 DEF ReadRight
      <4>4. QED
        BY <4>1, <4>3
    <3>3. QED
      BY <1>3, <3>1, <3>2
  <2>2. UNCHANGED <<pendingOps, readyOpsQueue, crossed>>
    BY <1>3 DEF RemoveRead, AddRead, queueVars
  <2>3. QED
    BY <2>1, <2>2, ReadsRanks
\* The calls that a write to slot s leaves behind.
<1>c. ASSUME NEW c \in Callers, NEW call, NEW s, Wrote(c, call, s),
             call.at \notin {"addWrite", "removeWrite"}
      PROVE  \A d \in Callers : \/ calls'[d].at \notin {"addWrite", "removeWrite"}
                                \/ ~calls'[d].fresh
                                \/ calls'[d] = calls[d] /\ SlotOf(calls[d].target) # s
  <2>1. \A d \in Callers : [calls[d] EXCEPT !.fresh = FALSE].fresh = FALSE
    BY <1>a DEF StepTypes
  <2>2. QED
    BY <1>c, <2>1 DEF Wrote
<1>4. ASSUME NEW c \in Callers, RemoveWrite(c) PROVE RankInv'
  <2> DEFINE o == calls[c].target
             s == SlotOf(o)
             ops == pendingOps[s]
  <2>1. o \in Ops /\ s \in Slots /\ ops \in SUBSET Ops /\ calls[c].at = "removeWrite"
    BY <1>4, <1>a DEF RemoveWrite, StepTypes, WithTarget
  <2>2. /\ pendingOps' = [pendingOps EXCEPT ![s] = ops \ {o}]
        /\ readyOpsQueue' = IF calls[c].lowest THEN [readyOpsQueue EXCEPT ![s] = Fee(calls[c].next)]
                            ELSE readyOpsQueue
        /\ crossed' = IF calls[c].fresh THEN crossed ELSE crossed \cup {s}
        /\ Wrote(c, AfterRemove(c), s)
    BY <1>4 DEF RemoveWrite, RankedAgain, Crosses
  <2>3. AfterRemove(c).at \notin {"addWrite", "removeWrite"}
    BY DEF AfterRemove, Idle
  <2>4. ReadRight(calls[c]) /\ DOMAIN readyOpsQueue = Slots /\ (s \notin crossed => Ranked(s))
    BY <2>1 DEF RankInv
  <2>5. s \notin crossed' => readyOpsQueue'[s] = Fee(First(ops \ {o}))
    <3>1. SUFFICES ASSUME s \notin crossed' PROVE readyOpsQueue'[s] = Fee(First(ops \ {o}))
      OBVIOUS
    <3>2. calls[c].fresh /\ s \notin crossed
      BY <2>2, <3>1
    <3>3. o \in ops /\ calls[c].lowest = (First(ops) = o) /\ calls[c].next = First(ops \ {o})
      BY <2>1, <2>4, <3>2 DEF ReadRight
    <3>4. CASE calls[c].lowest
      BY <2>1, <2>2, <2>4, <3>3, <3>4
    <3>5. CASE ~calls[c].lowest
      <4>1. First(ops \ {o}) = First(ops)
        BY <2>1, <3>3, <3>5, FirstStays
      <4>2. QED
        BY <2>2, <2>4, <3>2, <3>5, <4>1 DEF Ranked
    <3>6. QED
      BY <3>4, <3>5
  <2>6. /\ DOMAIN readyOpsQueue' = Slots
        /\ \A t \in Slots \ {s} : readyOpsQueue'[t] = readyOpsQueue[t] /\ pendingOps'[t] = pendingOps[t]
        /\ crossed \subseteq crossed'
    BY <1>a, <2>1, <2>2, <2>4
  <2> HIDE DEF s, o
  <2>7. \A t \in Slots \ {s} : Ranked(t) => Ranked(t)'
    BY <2>6 DEF Ranked
  <2>8. \A d \in Callers : \/ calls'[d].at \notin {"addWrite", "removeWrite"}
                           \/ ~calls'[d].fresh
                           \/ calls'[d] = calls[d] /\ SlotOf(calls[d].target) # s
    BY ONLY <1>c, <2>2, <2>3, c \in Callers
  <2>9. PICK left : left = ops \ {o}
    OBVIOUS
  <2>10. QED
    BY ONLY <2>1, <2>2, <2>5, <2>6, <2>7, <2>8, <2>9, IndexInv, RankInv, WritesRanks
<1>5. ASSUME NEW c \in Callers, AddWrite(c) PROVE RankInv'
  <2> DEFINE o == calls[c].target
             s == SlotOf(o)
             ops == pendingOps[s]
  <2>1. o \in Ops /\ s \in Slots /\ ops \in SUBSET Ops /\ calls[c].at = "addWrite"
    BY <1>5, <1>a DEF AddWrite, StepTypes, WithTarget
  <2>2. /\ pendingOps' = [pendingOps EXCEPT ![s] = ops \cup {o}]
        /\ readyOpsQueue' = IF calls[c].lowest THEN [readyOpsQueue EXCEPT ![s] = Fee(o)]
                            ELSE readyOpsQueue
        /\ crossed' = IF calls[c].fresh /\ SameNonce(o) \ {o} = {} THEN crossed ELSE crossed \cup {s}
        /\ Wrote(c, Idle, s)
    BY <1>5 DEF AddWrite
  <2>3. Idle.at \notin {"addWrite", "removeWrite"}
    BY DEF Idle
  <2>4. ReadRight(calls[c]) /\ DOMAIN readyOpsQueue = Slots /\ (s \notin crossed => Ranked(s))
    BY <2>1 DEF RankInv
  <2>5. s \notin crossed' => readyOpsQueue'[s] = Fee(First(ops \cup {o}))
    <3>1. SUFFICES ASSUME s \notin crossed' PROVE readyOpsQueue'[s] = Fee(First(ops \cup {o}))
      OBVIOUS
    <3>2. calls[c].fresh /\ s \notin crossed /\ SameNonce(o) \ {o} = {}
      BY <2>2, <3>1
    <3>3. \A p \in ops : UserOp[p].nonceSeq = UserOp[o].nonceSeq => p = o
      BY <3>2 DEF SameNonce
    <3>4. calls[c].lowest = (First(ops) = Nothing \/ UserOp[o].nonceSeq < UserOp[First(ops)].nonceSeq)
      BY <2>1, <2>4, <3>2 DEF ReadRight
    <3> HIDE DEF o, ops
    <3>5. First(ops \cup {o}) = IF calls[c].lowest THEN o ELSE First(ops)
      BY <2>1, <3>3, <3>4, FirstOfMore
    <3>6. CASE calls[c].lowest
      BY <2>1, <2>2, <2>4, <3>5, <3>6
    <3>7. CASE ~calls[c].lowest
      BY <2>2, <2>4, <3>2, <3>5, <3>7 DEF Ranked, ops
    <3>8. QED
      BY <3>6, <3>7
  <2>6. /\ DOMAIN readyOpsQueue' = Slots
        /\ \A t \in Slots \ {s} : readyOpsQueue'[t] = readyOpsQueue[t] /\ pendingOps'[t] = pendingOps[t]
        /\ crossed \subseteq crossed'
    BY <1>a, <2>1, <2>2, <2>4
  <2> HIDE DEF s, o
  <2>7. \A t \in Slots \ {s} : Ranked(t) => Ranked(t)'
    BY <2>6 DEF Ranked
  <2>8. \A d \in Callers : \/ calls'[d].at \notin {"addWrite", "removeWrite"}
                           \/ ~calls'[d].fresh
                           \/ calls'[d] = calls[d] /\ SlotOf(calls[d].target) # s
    BY ONLY <1>c, <2>2, <2>3, c \in Callers
  <2>9. PICK left : left = ops \cup {o}
    OBVIOUS
  <2>10. QED
    BY ONLY <2>1, <2>2, <2>5, <2>6, <2>7, <2>8, <2>9, IndexInv, RankInv, WritesRanks
<1>6. ASSUME Pop PROVE RankInv'
  <2>1. PICK s \in Slots, cleared \in SUBSET Slots :
          /\ PoppedFrom(s, First(pendingOps[s]))
          /\ \A t \in cleared : pendingOps[t] = {}
          /\ pendingOps[s] # {}
          /\ readyOpsQueue' = [t \in Slots |->
               IF t \in cleared THEN Nothing
               ELSE IF t = s THEN Fee(First(pendingOps[s] \ {First(pendingOps[s])}))
               ELSE readyOpsQueue[t]]
          /\ calls' = [d \in Callers |->
               IF calls[d].at \in {"addWrite", "removeWrite"} /\ SlotOf(calls[d].target) = s
               THEN [calls[d] EXCEPT !.fresh = FALSE] ELSE calls[d]]
          /\ crossed' = crossed
    <3>1. PICK s \in { t \in Slots : readyOpsQueue[t] # Nothing /\ pendingOps[t] # {} } :
            LET o == First(pendingOps[s])
                stale == { t \in Slots : readyOpsQueue[t] # Nothing /\ pendingOps[t] = {} }
            IN
            /\ \E cleared \in SUBSET { t \in stale : readyOpsQueue[t] >= readyOpsQueue[s] } :
                 /\ readyOpsQueue' = [t \in Slots |->
                      IF t \in cleared THEN Nothing
                      ELSE IF t = s THEN Fee(First(pendingOps[s] \ {o})) ELSE readyOpsQueue[t]]
            /\ PoppedFrom(s, o)
            /\ calls' = [d \in Callers |->
                 IF calls[d].at \in {"addWrite", "removeWrite"} /\ SlotOf(calls[d].target) = s
                 THEN [calls[d] EXCEPT !.fresh = FALSE] ELSE calls[d]]
            /\ crossed' = crossed
      BY <1>6 DEF Pop
    <3>2. QED
      BY <3>1
  <2> DEFINE ops == pendingOps[s] \ {First(pendingOps[s])}
  <2>2. pendingOps' = [pendingOps EXCEPT ![s] = ops] /\ s \notin cleared
    BY <2>1 DEF PoppedFrom
  <2>3. DOMAIN readyOpsQueue' = Slots /\ readyOpsQueue'[s] = Fee(First(ops))
    BY <2>1, <2>2
  <2>4. \A t \in Slots \ {s} : Ranked(t) => Ranked(t)'
    <3>1. \A t \in Slots \ {s} : pendingOps'[t] = pendingOps[t]
      BY <1>a, <2>2
    <3>2. First({}) = Nothing /\ Fee(Nothing) = Nothing
      BY DEF First, Fee
    <3>3. QED
      BY <2>1, <3>1, <3>2 DEF Ranked
  <2>5. \A d \in Callers : \/ calls'[d].at \notin {"addWrite", "removeWrite"}
                           \/ ~calls'[d].fresh
                           \/ calls'[d] = calls[d] /\ SlotOf(calls[d].target) # s
    <3>1. \A d \in Callers : [calls[d] EXCEPT !.fresh = FALSE].fresh = FALSE
      BY <1>a DEF StepTypes
    <3>2. QED
      BY <2>1, <3>1
  <2> HIDE DEF ops
  <2>6. QED
    BY <2>1, <2>2, <2>3, <2>4, <2>5, WritesRanks
<1>7. ASSUME PopNothing PROVE RankInv'
  <2>1. /\ \A t \in Slots : readyOpsQueue[t] # Nothing => pendingOps[t] = {}
        /\ readyOpsQueue' = [t \in Slots |-> Nothing]
        /\ UNCHANGED <<pendingOps, calls, crossed>>
    BY <1>7 DEF PopNothing
  <2>2. First({}) = Nothing /\ Fee(Nothing) = Nothing
    BY DEF First, Fee
  <2>3. \A t \in Slots : Ranked(t) => Ranked(t)'
    BY <2>1, <2>2 DEF Ranked
  <2>4. QED
    BY <2>1, <2>3 DEF RankInv, ReadRight
<1>8. CASE UNCHANGED outstandingVars
  BY <1>8 DEF outstandingVars, queueVars, RankInv, Ranked, ReadRight
<1>9. QED
  BY <1>1, <1>2, <1>3, <1>4, <1>5, <1>6, <1>7, <1>8 DEF OutstandingNext

-----------------------------------------------------------------------------
(* Where an op is.                                                         *)

\* No op is out at first.
LEMMA InitHandInv == OutstandingInit => HandInv
BY DEF OutstandingInit, HandInv, InOneHand, Outstanding, WillAdd, Idle, Slots

\* An op that comes to no new place.
LEMMA NoNewPlace ==
  ASSUME NEW o, InOneHand(o), submitted \subseteq submitted',
         o \in Outstanding' => o \in Outstanding, o \in popped' => o \in popped,
         \A d \in Callers : WillAdd(calls'[d], o) => WillAdd(calls[d], o)
  PROVE  InOneHand(o)'
BY DEF InOneHand

\* The call of a step that only reads.
LEMMA OneCall ==
  ASSUME IndexInv, NEW c \in Callers, NEW call, Goes(c, call), NEW o,
         WillAdd(call, o) => WillAdd(calls[c], o)
  PROVE  \A d \in Callers : WillAdd(calls'[d], o) => WillAdd(calls[d], o)
BY DEF IndexInv, Goes

\* The other calls of a step that writes.
LEMMA OtherCalls ==
  ASSUME IndexInv, NEW c \in Callers, NEW call, NEW s, Wrote(c, call, s), NEW o
  PROVE  /\ calls'[c] = call
         /\ \A d \in Callers \ {c} : WillAdd(calls'[d], o) => WillAdd(calls[d], o)
<1>1. \A d \in Callers : WillAdd([calls[d] EXCEPT !.fresh = FALSE], o) => WillAdd(calls[d], o)
  BY DEF IndexInv, StepTypes, WillAdd
<1>2. QED
  BY <1>1 DEF Wrote

\* A call that has removed nothing puts back what is mistaken.
LEMMA NothingRemoved ==
  ASSUME IndexInv, NEW c \in Callers, RemovedNothing(c), NEW o \in Ops, o \notin mistaken',
         calls[c].at \in {"removeIndex", "removeRead", "removeWrite"}
  PROVE  WillAdd(AfterRemove(c), o) => WillAdd(calls[c], o)
BY RedisOutstandingAssumption
   DEF RedisOutstandingAssumption, IndexInv, RemovedNothing, AfterRemove, WillAdd, Idle, Steps

\* No step puts an op in a second hand.
LEMMA NextHandInv == IndexInv /\ HandInv /\ [OutstandingNext]_outstandingVars => HandInv'
<1> SUFFICES ASSUME IndexInv, HandInv, [OutstandingNext]_outstandingVars,
                    NEW o \in Ops, o \notin mistaken'
             PROVE  InOneHand(o)'
  BY DEF HandInv
<1>a. /\ DOMAIN calls = Callers /\ \A c \in Callers : StepTypes(calls[c])
      /\ pendingOps \in [Slots -> SUBSET Ops]
      /\ Nothing \notin Ops /\ \A p \in Ops : SlotOf(p) \in Slots
  BY RedisOutstandingAssumption DEF IndexInv, RedisOutstandingAssumption, Slots
<1>b. ASSUME mistaken \subseteq mistaken' PROVE InOneHand(o)
  BY <1>b DEF HandInv
<1>1. ASSUME NEW c \in Callers, NEW x \in Ops, Submit(c, x) PROVE InOneHand(o)'
  <2> DEFINE call == [Idle EXCEPT !.at = "conflict", !.op = x]
  <2>1. /\ calls' = [calls EXCEPT ![c] = call] /\ x \notin submitted /\ submitted' = submitted \cup {x}
        /\ UNCHANGED <<pendingOps, popped>> /\ InOneHand(o)
    BY <1>1, <1>b DEF Submit, Goes, queueVars
  <2>2. WillAdd(call, o) <=> o = x
    BY DEF WillAdd, Idle, Steps
  <2> HIDE DEF call
  <2>3. Outstanding' = Outstanding
    BY <2>1 DEF Outstanding
  <2>4. CASE o # x
    BY <1>a, <2>1, <2>2, <2>3, <2>4 DEF InOneHand
  <2>5. CASE o = x
    BY <1>a, <2>1, <2>2, <2>3, <2>5 DEF InOneHand
  <2>6. QED
    BY <2>4, <2>5
<1>2. ASSUME NEW c \in Callers, NEW x \in Ops, Drop(c, x) PROVE InOneHand(o)'
  <2> DEFINE call == [Idle EXCEPT !.at = "removeIndex", !.target = x]
  <2>1. /\ Goes(c, call) /\ UNCHANGED <<pendingOps, popped, submitted>> /\ InOneHand(o)
    BY <1>2, <1>b DEF Drop, queueVars
  <2>2. ~WillAdd(call, o)
    BY <1>a DEF WillAdd, Idle, Steps
  <2> HIDE DEF call
  <2>3. QED
    BY <2>1, <2>2, OneCall, NoNewPlace DEF Outstanding
<1>3. ASSUME NEW c \in Callers, NEW x \in Ops, GiveBack(c, x) PROVE InOneHand(o)'
  <2> DEFINE call == [Idle EXCEPT !.at = "addRead", !.target = x]
  <2>1. /\ calls' = [calls EXCEPT ![c] = call] /\ x \in popped /\ popped' = popped \ {x}
        /\ UNCHANGED <<pendingOps, submitted>> /\ InOneHand(o)
    BY <1>3, <1>b DEF GiveBack, Goes, queueVars
  <2>2. WillAdd(call, o) <=> o = x
    BY DEF WillAdd, Idle, Steps
  <2> HIDE DEF call
  <2>3. Outstanding' = Outstanding
    BY <2>1 DEF Outstanding
  <2>4. CASE o # x
    BY <1>a, <2>1, <2>2, <2>3, <2>4 DEF InOneHand
  <2>5. CASE o = x
    BY <1>a, <2>1, <2>2, <2>3, <2>5 DEF InOneHand
  <2>6. QED
    BY <2>4, <2>5
<1>4. ASSUME NEW c \in Callers,
             Conflict(c) \/ Lookup(c) \/ LookupIndex(c) \/ LookupOps(c) \/ AddRead(c)
      PROVE  InOneHand(o)'
  <2>1. UNCHANGED <<pendingOps, popped, submitted>> /\ InOneHand(o)
    BY <1>4, <1>b DEF Conflict, Lookup, LookupIndex, LookupOps, AddRead, queueVars
  <2>2. PICK call : Goes(c, call) /\ (WillAdd(call, o) => WillAdd(calls[c], o))
    <3>1. StepTypes(calls[c])
      BY <1>a
    <3>2. CASE Conflict(c) \/ Lookup(c) \/ LookupIndex(c) \/ LookupOps(c)
      <4>0. calls[c].at \in {"conflict", "lookup", "lookupIndex", "lookupOps"}
        BY <3>2 DEF Conflict, Lookup, LookupIndex, LookupOps
      <4>1. calls[c].op = o => WillAdd(calls[c], o)
        BY <4>0 DEF WillAdd, Steps
      <4>2. /\ WillAdd([Idle EXCEPT !.at = "addRead", !.op = calls[c].op, !.target = calls[c].op], o)
                 => calls[c].op = o
            /\ \A t : WillAdd([calls[c] EXCEPT !.at = "removeIndex", !.target = t], o)
                 => calls[c].op = o
            /\ WillAdd([calls[c] EXCEPT !.at = "lookup"], o) => calls[c].op = o
            /\ \A t : WillAdd([calls[c] EXCEPT !.at = "lookupIndex", !.target = t], o)
                 => calls[c].op = o
            /\ WillAdd([calls[c] EXCEPT !.at = "lookupOps"], o) => calls[c].op = o
        BY <3>1 DEF WillAdd, StepTypes, Idle
      <4>3. CASE Conflict(c) \/ Lookup(c)
        BY <4>1, <4>2, <4>3 DEF Conflict, Lookup, Removes, AddsOwn
      <4>4. CASE LookupIndex(c) \/ LookupOps(c)
        BY <4>1, <4>2, <4>4 DEF LookupIndex, LookupOps, Removes, AddsOwn
      <4>5. QED
        BY <3>2, <4>3, <4>4
    <3>3. CASE AddRead(c)
      <4>1. \A l : WillAdd([calls[c] EXCEPT !.at = "addWrite", !.fresh = TRUE, !.lowest = l], o)
                     => calls[c].target = o
        BY <3>1 DEF WillAdd, StepTypes
      <4>2. calls[c].at = "addRead"
        BY <3>3 DEF AddRead
      <4>3. QED
        BY <3>3, <4>1, <4>2 DEF AddRead, WillAdd
    <3>4. QED
      BY <1>4, <3>2, <3>3
  <2>3. QED
    BY <2>1, <2>2, OneCall, NoNewPlace DEF Outstanding
<1>5. ASSUME NEW c \in Callers, RemoveIndex(c) \/ RemoveRead(c) PROVE InOneHand(o)'
  <2>1. UNCHANGED <<pendingOps, popped, submitted>> /\ InOneHand(o)
    BY <1>5, <1>b DEF RemoveIndex, RemoveRead, RemovedNothing, queueVars
  <2>2. PICK call : Goes(c, call) /\ (WillAdd(call, o) => WillAdd(calls[c], o))
    <3>1. StepTypes(calls[c]) /\ calls[c].at \in {"removeIndex", "removeRead"}
      BY <1>5, <1>a DEF RemoveIndex, RemoveRead
    <3>2. /\ WillAdd([calls[c] EXCEPT !.at = "removeRead"], o) => WillAdd(calls[c], o)
          /\ \A l, n : WillAdd([calls[c] EXCEPT !.at = "removeWrite", !.lowest = l, !.next = n,
                                  !.fresh = TRUE], o) => WillAdd(calls[c], o)
      BY <3>1 DEF WillAdd, StepTypes, Steps
    <3>3. RemovedNothing(c) => (WillAdd(AfterRemove(c), o) => WillAdd(calls[c], o))
      BY <3>1, NothingRemoved
    <3>4. QED
      BY <1>5, <3>2, <3>3 DEF RemoveIndex, RemoveRead
  <2>3. QED
    BY <2>1, <2>2, OneCall, NoNewPlace DEF Outstanding
<1>6. ASSUME NEW c \in Callers, RemoveWrite(c) PROVE InOneHand(o)'
  <2> DEFINE t == calls[c].target
             s == SlotOf(t)
  <2>1. t \in Ops /\ StepTypes(calls[c]) /\ calls[c].at = "removeWrite"
    BY <1>6, <1>a DEF RemoveWrite, StepTypes, WithTarget
  <2>2. /\ pendingOps' = [pendingOps EXCEPT ![s] = @ \ {t}]
        /\ Wrote(c, AfterRemove(c), s) /\ UNCHANGED <<popped, submitted>>
        /\ t \in pendingOps[s] \/ RemovedNothing(c)
        /\ mistaken \subseteq mistaken'
    BY <1>6 DEF RemoveWrite, RemovedNothing
  <2>3. InOneHand(o)
    BY <2>2, <1>b
  <2>4. Outstanding' = Outstanding \ {t}
    BY <1>a, <2>1, <2>2 DEF Outstanding, IndexInv
  <2>5. /\ calls'[c] = AfterRemove(c)
        /\ \A d \in Callers \ {c} : WillAdd(calls'[d], o) => WillAdd(calls[d], o)
    BY <2>2, OtherCalls
  <2>6. CASE WillAdd(AfterRemove(c), o) => WillAdd(calls[c], o)
    BY <2>2, <2>3, <2>4, <2>5, <2>6, NoNewPlace
  <2>7. CASE ~(WillAdd(AfterRemove(c), o) => WillAdd(calls[c], o))
    <3>1. t \in pendingOps[s]
      BY <2>1, <2>2, <2>7, NothingRemoved
    <3>2. o = t
      <4>1. calls[c].op = o => WillAdd(calls[c], o)
        BY <2>1 DEF WillAdd, Steps
      <4>2. WillAdd(AfterRemove(c), o) => o = calls[c].op \/ o = t
        BY DEF AfterRemove, WillAdd, Idle
      <4>3. QED
        BY <2>7, <4>1, <4>2
    <3>3. o \in Outstanding
      BY <2>1, <3>1, <3>2 DEF Outstanding
    <3> HIDE DEF t
    <3>4. QED
      BY <2>2, <2>3, <2>4, <2>5, <3>2, <3>3 DEF InOneHand
  <2>8. QED
    BY <2>6, <2>7
<1>7. ASSUME NEW c \in Callers, AddWrite(c) PROVE InOneHand(o)'
  <2> DEFINE t == calls[c].target
             s == SlotOf(t)
  <2>1. t \in Ops /\ StepTypes(calls[c]) /\ calls[c].at = "addWrite"
    BY <1>7, <1>a DEF AddWrite, StepTypes, WithTarget
  <2>2. /\ pendingOps' = [pendingOps EXCEPT ![s] = @ \cup {t}]
        /\ Wrote(c, Idle, s) /\ UNCHANGED <<popped, submitted, mistaken>>
    BY <1>7 DEF AddWrite
  <2>3. InOneHand(o)
    BY <2>2, <1>b
  <2>4. Outstanding' = Outstanding \cup {t}
    BY <1>a, <2>1, <2>2 DEF Outstanding, IndexInv
  <2>5. /\ calls'[c] = Idle
        /\ \A d \in Callers \ {c} : WillAdd(calls'[d], o) => WillAdd(calls[d], o)
    BY <2>2, OtherCalls
  <2>6. ~WillAdd(Idle, o)
    BY DEF Idle, WillAdd
  <2>7. WillAdd(calls[c], t)
    BY <2>1 DEF WillAdd
  <2> HIDE DEF t
  <2>8. CASE o # t
    BY <2>2, <2>3, <2>4, <2>5, <2>6, <2>8, NoNewPlace
  <2>9. CASE o = t
    BY <2>2, <2>3, <2>4, <2>5, <2>6, <2>7, <2>9 DEF InOneHand
  <2>10. QED
    BY <2>8, <2>9
<1>8. ASSUME Pop PROVE InOneHand(o)'
  <2>1. PICK s \in Slots :
          LET t == First(pendingOps[s]) IN
          /\ pendingOps[s] # {} /\ PoppedFrom(s, t)
          /\ calls' = [d \in Callers |->
               IF calls[d].at \in {"addWrite", "removeWrite"} /\ SlotOf(calls[d].target) = s
               THEN [calls[d] EXCEPT !.fresh = FALSE] ELSE calls[d]]
          /\ popped' = popped \cup {t} /\ UNCHANGED <<submitted, mistaken>>
    BY <1>8 DEF Pop
  <2> DEFINE t == First(pendingOps[s])
  <2>2. pendingOps[s] \in SUBSET Ops /\ t \in pendingOps[s]
    BY <1>a, <2>1, FirstIs
  <2>3. t \in Ops /\ SlotOf(t) = s /\ t \in Outstanding
    BY <2>2 DEF IndexInv, Outstanding
  <2>4. Outstanding' = Outstanding \ {t}
    BY <1>a, <2>1, <2>3 DEF Outstanding, PoppedFrom
  <2>5. InOneHand(o)
    BY <2>1, <1>b
  <2>6. \A d \in Callers : WillAdd(calls'[d], o) => WillAdd(calls[d], o)
    <3>1. \A d \in Callers : WillAdd([calls[d] EXCEPT !.fresh = FALSE], o) => WillAdd(calls[d], o)
      BY <1>a DEF StepTypes, WillAdd
    <3>2. QED
      BY <2>1, <3>1
  <2>7. popped' = popped \cup {t} /\ UNCHANGED submitted
    BY <2>1
  <2> HIDE DEF t
  <2>8. QED
    BY <2>3, <2>4, <2>5, <2>6, <2>7 DEF InOneHand
<1>9. CASE PopNothing \/ UNCHANGED outstandingVars
  BY <1>9, <1>b DEF PopNothing, outstandingVars, queueVars, InOneHand, Outstanding
<1>10. QED
  BY <1>1, <1>2, <1>3, <1>4, <1>5, <1>6, <1>7, <1>8, <1>9 DEF OutstandingNext

-----------------------------------------------------------------------------

\* The indexes name exactly the stored ops and every slot is ready with the fee of
\* its first, but for slots where a write crossed another: for any callers and ops.
THEOREM SlotsAlwaysConsistent == OutstandingSpec => []SlotsAreConsistent
<1>1. IndexInv /\ RankInv => SlotsAreConsistent
  <2>1. First({}) = Nothing /\ Fee(Nothing) = Nothing
    BY DEF First, Fee
  <2>2. RankInv => \A s \in Slots \ crossed :
          IF pendingOps[s] = {} THEN readyOpsQueue[s] = Nothing
          ELSE readyOpsQueue[s] = Fee(First(pendingOps[s]))
    BY <2>1 DEF RankInv, Ranked
  <2>3. IndexInv =>
          /\ \A o \in Ops : userOpHashLookup[o] = IF o \in Outstanding THEN SlotOf(o) ELSE Nothing
          /\ \A s \in Senders : factoryLookup[s] # Nothing =>
               factoryLookup[s] \in Outstanding /\ UserOp[factoryLookup[s]].deploys
    BY DEF IndexInv
  <2>4. QED
    BY <2>2, <2>3, Zenon DEF SlotsAreConsistent
<1>2. QED
  BY <1>1, InitIndexInv, NextIndexInv, InitRankInv, NextRankInv, PTL DEF OutstandingSpec

\* A popped op is not stored for another executor, unless a popConflicting that
\* removed nothing has put it back.
THEOREM AlwaysPoppedByOne == OutstandingSpec => []PoppedByOne
<1>1. IndexInv /\ HandInv => PoppedByOne
  BY DEF IndexInv, HandInv, InOneHand, PoppedByOne
<1>2. QED
  BY <1>1, InitIndexInv, NextIndexInv, InitHandInv, NextHandInv, PTL DEF OutstandingSpec

-----------------------------------------------------------------------------
(***************************************************************************)
(* The stores of processing and submitted.  An op that has left has nothing *)
(* in a store and nothing on a connection; while it is in one, at most the *)
(* bundler that took it has adds on the way, and removals come last.       *)
(***************************************************************************)

Commands == [call : {"add", "get", "del"}, op : Ops]

\* Of a connection's commands none is about op o, or only adds are, or the last
\* about o reads it or deletes it, and those before it are adds.
NoneIn(q, o) == \A n \in DOMAIN q : q[n].op # o

AddsIn(q, o) == \A n \in DOMAIN q : q[n].op = o => q[n].call = "add"

EndsIn(q, o) ==
  \E n \in DOMAIN q :
    /\ q[n].op = o /\ q[n].call \in {"get", "del"}
    /\ \A m \in DOMAIN q : q[m].op = o => m = n \/ (m < n /\ q[m].call = "add")

\* Connection r has of o what q had.
Alike(q, r, o) ==
  /\ NoneIn(q, o) => NoneIn(r, o)
  /\ AddsIn(q, o) => AddsIn(r, o)
  /\ EndsIn(q, o) => EndsIn(r, o)

OtherStore(s) == IF s = "processing" THEN "submitted" ELSE "processing"

\* Store s has nothing of o, and nothing about it is on the way.
Clean(o, s) == o \notin hashIndex[s] /\ \A i \in Bundlers : NoneIn(wire[i][s], o)

\* All that is on the way are adds of instance i.
OnlyAdds(o, i, s) ==
  AddsIn(wire[i][s], o) /\ \A j \in Bundlers \ {i} : NoneIn(wire[j][s], o)

\* Instance i is removing o from s.
Removing(o, i, s) ==
  EndsIn(wire[i][s], o) /\ \A j \in Bundlers \ {i} : NoneIn(wire[j][s], o)

Todos == {<<"processing">>, <<"submitted">>, <<"processing", "submitted">>}

\* What is in the stores and on the way about o.
AtRest(o) ==
  opAt[o].stage \in {"new", "outstanding", "settled", "submitting"} =>
    \A s \in Stores : Clean(o, s)

Stored(o) ==
  opAt[o].stage \in {"processing", "submitted"} =>
    OnlyAdds(o, opAt[o].by, opAt[o].stage) /\ Clean(o, OtherStore(opAt[o].stage))

Leaves(o) ==
  opAt[o].stage = "leaving" =>
    /\ opAt[o].todo \in Todos
    /\ opAt[o].next \in {"submitting", "settled", "outstanding"}
    /\ Removing(o, opAt[o].by, Head(opAt[o].todo))
    /\ Len(opAt[o].todo) = 1 => Clean(o, OtherStore(Head(opAt[o].todo)))
    /\ Len(opAt[o].todo) = 2 => OnlyAdds(o, opAt[o].by, "submitted")

Abandoned(o) ==
  opAt[o].stage = "abandoned" => \A i \in Bundlers, s \in Stores : NoneIn(wire[i][s], o)

OpStages == {"new", "outstanding", "processing", "submitting", "submitted", "leaving", "settled",
             "abandoned"}

OpTypes(o) ==
  /\ DOMAIN opAt[o] = {"stage", "by", "todo", "next"} /\ opAt[o].stage \in OpStages
  /\ opAt[o].stage \in {"processing", "submitting", "submitted", "leaving"} => opAt[o].by \in Bundlers

Whereabouts(o) == OpTypes(o) /\ AtRest(o) /\ Stored(o) /\ Leaves(o) /\ Abandoned(o)

Nonces == { NonceOf(o) : o \in Ops }

StoreSenders == { UserOp[o].sender : o \in Ops }

\* An op in an index is in the first one.
IndexedByHash(s) ==
  \A o \in Ops : /\ InIndexes(o, s) => o \in hashIndex[s]
                 /\ deployIndex[s][UserOp[o].sender] = o => UserOp[o].deploys

StoreTypes ==
  /\ DOMAIN hashIndex = Stores
  /\ DOMAIN nonceIndex = Stores /\ DOMAIN deployIndex = Stores
  /\ \A s \in Stores : DOMAIN nonceIndex[s] = Nonces /\ DOMAIN deployIndex[s] = StoreSenders
  /\ wire \in [Bundlers -> [Stores -> Seq(Commands)]]
  /\ DOMAIN opAt = Ops

StoresInv ==
  /\ StoreTypes
  /\ \A s \in Stores : IndexedByHash(s)
  /\ \A o \in Ops : Whereabouts(o)

-----------------------------------------------------------------------------
(* The commands of a connection.                                           *)

\* A connection has what it had.
LEMMA AlikeItself == \A q, o : Alike(q, q, o)
BY DEF Alike

\* A command about another op is put behind.
LEMMA OtherAppended ==
  ASSUME NEW q \in Seq(Commands), NEW x \in Commands, NEW o, x.op # o
  PROVE  Alike(q, Append(q, x), o)
<1> DEFINE n == Len(q)
           r == Append(q, x)
<1>1. /\ n \in Nat /\ DOMAIN q = 1 .. n /\ DOMAIN r = 1 .. (n + 1)
      /\ \A k \in 1 .. n : r[k] = q[k]
      /\ r[n + 1] = x
  OBVIOUS
<1> HIDE DEF n, r
<1>2. \A k \in 1 .. (n + 1) : k \in 1 .. n \/ k = n + 1
  BY <1>1
<1>3. \A k \in 1 .. (n + 1) : r[k].op = o => k \in 1 .. n /\ r[k] = q[k]
  BY <1>1, <1>2
<1>4. 1 .. n \subseteq 1 .. (n + 1)
  BY <1>1
<1>5. NoneIn(q, o) => NoneIn(r, o)
  BY <1>1, <1>3 DEF NoneIn
<1>6. AddsIn(q, o) => AddsIn(r, o)
  BY <1>1, <1>3 DEF AddsIn
<1>7. EndsIn(q, o) => EndsIn(r, o)
  <2>1. SUFFICES ASSUME EndsIn(q, o) PROVE EndsIn(r, o)
    OBVIOUS
  <2>2. PICK k \in 1 .. n :
          /\ q[k].op = o /\ q[k].call \in {"get", "del"}
          /\ \A m \in 1 .. n : q[m].op = o => m = k \/ (m < k /\ q[m].call = "add")
    BY <1>1, <2>1 DEF EndsIn
  <2>3. /\ r[k].op = o /\ r[k].call \in {"get", "del"} /\ k \in 1 .. (n + 1)
        /\ \A m \in 1 .. (n + 1) : r[m].op = o => m = k \/ (m < k /\ r[m].call = "add")
    BY <1>1, <1>3, <1>4, <2>2
  <2>4. QED
    BY <1>1, <2>3 DEF EndsIn
<1>8. QED
  BY <1>5, <1>6, <1>7 DEF Alike, r

\* A command about o is put behind its adds.
LEMMA OwnAppended ==
  ASSUME NEW q \in Seq(Commands), NEW x \in Commands, NEW o, x.op = o, AddsIn(q, o)
  PROVE  /\ x.call = "add" => AddsIn(Append(q, x), o)
         /\ x.call \in {"get", "del"} => EndsIn(Append(q, x), o)
<1> DEFINE n == Len(q)
           r == Append(q, x)
<1>1. /\ n \in Nat /\ DOMAIN q = 1 .. n /\ DOMAIN r = 1 .. (n + 1)
      /\ \A k \in 1 .. n : r[k] = q[k]
      /\ r[n + 1] = x
  OBVIOUS
<1> HIDE DEF n, r
<1>2. \A k \in 1 .. (n + 1) : (k \in 1 .. n /\ k < n + 1) \/ k = n + 1
  BY <1>1
<1>3. x.call = "add" => AddsIn(r, o)
  BY <1>1, <1>2 DEF AddsIn
<1>4. n + 1 \in 1 .. (n + 1)
  BY <1>1
<1>5. x.call \in {"get", "del"} => EndsIn(r, o)
  BY <1>1, <1>2, <1>4 DEF AddsIn, EndsIn
<1>6. QED
  BY <1>3, <1>5 DEF r

\* The first command is executed.
LEMMA RestOf ==
  ASSUME NEW q \in Seq(Commands), q # <<>>
  PROVE  /\ Without(q, 1) \in Seq(Commands)
         /\ Len(q) \in Nat \ {0} /\ DOMAIN q = 1 .. Len(q)
         /\ DOMAIN Without(q, 1) = 1 .. (Len(q) - 1)
         /\ \A k \in 1 .. (Len(q) - 1) : Without(q, 1)[k] = q[k + 1]
<1> DEFINE n == Len(q)
           r == SubSeq(q, 2, n)
<1>1. n \in Nat \ {0} /\ DOMAIN q = 1 .. n
  OBVIOUS
<1>2. SubSeq(q, 1, 0) = <<>>
  OBVIOUS
<1>3. /\ r \in Seq(Commands) /\ DOMAIN r = 1 .. (n - 1)
      /\ \A k \in 1 .. (n - 1) : r[k] = q[k + 1]
  OBVIOUS
<1>4. Without(q, 1) = r
  BY <1>2, <1>3 DEF Without
<1>5. QED
  BY <1>1, <1>3, <1>4

\* It was about another op, or about o.
LEMMA OtherExecuted ==
  ASSUME NEW q \in Seq(Commands), q # <<>>, NEW o, q[1].op # o
  PROVE  Alike(q, Without(q, 1), o)
<1> DEFINE n == Len(q)
           r == Without(q, 1)
<1>1. /\ n \in Nat \ {0} /\ DOMAIN q = 1 .. n /\ DOMAIN r = 1 .. (n - 1)
      /\ \A k \in 1 .. (n - 1) : r[k] = q[k + 1]
  BY RestOf
<1> HIDE DEF n, r
<1>2. \A k \in 1 .. (n - 1) : k + 1 \in 1 .. n /\ r[k] = q[k + 1]
  BY <1>1
<1>3. NoneIn(q, o) => NoneIn(r, o)
  BY <1>1, <1>2 DEF NoneIn
<1>4. AddsIn(q, o) => AddsIn(r, o)
  BY <1>1, <1>2 DEF AddsIn
<1>5. EndsIn(q, o) => EndsIn(r, o)
  <2>1. SUFFICES ASSUME EndsIn(q, o) PROVE EndsIn(r, o)
    OBVIOUS
  <2>2. PICK k \in 1 .. n :
          /\ q[k].op = o /\ q[k].call \in {"get", "del"}
          /\ \A m \in 1 .. n : q[m].op = o => m = k \/ (m < k /\ q[m].call = "add")
    BY <1>1, <2>1 DEF EndsIn
  <2>3. k - 1 \in 1 .. (n - 1) /\ (k - 1) + 1 = k
    BY <1>1, <2>2
  <2>4. r[k - 1] = q[k]
    BY <1>2, <2>3
  <2>5. \A m \in 1 .. (n - 1) : r[m].op = o => m = k - 1 \/ (m < k - 1 /\ r[m].call = "add")
    <3>1. SUFFICES ASSUME NEW m \in 1 .. (n - 1), r[m].op = o
                   PROVE  m = k - 1 \/ (m < k - 1 /\ r[m].call = "add")
      OBVIOUS
    <3>2. m + 1 = k \/ (m + 1 < k /\ q[m + 1].call = "add")
      BY <1>2, <2>2, <3>1
    <3>3. r[m] = q[m + 1]
      BY <1>2
    <3>4. QED
      BY <1>1, <2>2, <3>2, <3>3
  <2>6. QED
    BY <1>1, <2>2, <2>3, <2>4, <2>5 DEF EndsIn
<1>6. QED
  BY <1>3, <1>4, <1>5 DEF Alike, r

\* Of a connection the first command, about o, is executed.
LEMMA OwnExecuted ==
  ASSUME NEW q \in Seq(Commands), q # <<>>, NEW o, q[1].op = o
  PROVE  /\ ~NoneIn(q, o)
         /\ AddsIn(q, o) => q[1].call = "add" /\ AddsIn(Without(q, 1), o)
         /\ EndsIn(q, o) /\ q[1].call = "add" => EndsIn(Without(q, 1), o)
         /\ EndsIn(q, o) /\ q[1].call # "add" => NoneIn(Without(q, 1), o)
<1> DEFINE n == Len(q)
           r == Without(q, 1)
<1>1. /\ n \in Nat \ {0} /\ DOMAIN q = 1 .. n /\ DOMAIN r = 1 .. (n - 1)
      /\ \A k \in 1 .. (n - 1) : r[k] = q[k + 1]
  BY RestOf
<1> HIDE DEF n, r
<1>2. \A k \in 1 .. (n - 1) : k + 1 \in 1 .. n /\ r[k] = q[k + 1]
  BY <1>1
<1>3. 1 \in 1 .. n
  BY <1>1
<1>4. ~NoneIn(q, o)
  BY <1>1, <1>3 DEF NoneIn
<1>5. AddsIn(q, o) => q[1].call = "add" /\ AddsIn(r, o)
  BY <1>1, <1>2, <1>3 DEF AddsIn
<1>6. ASSUME EndsIn(q, o)
      PROVE  /\ q[1].call = "add" => EndsIn(r, o)
             /\ q[1].call # "add" => NoneIn(r, o)
  <2>1. PICK k \in 1 .. n :
          /\ q[k].op = o /\ q[k].call \in {"get", "del"}
          /\ \A m \in 1 .. n : q[m].op = o => m = k \/ (m < k /\ q[m].call = "add")
    BY <1>1, <1>6 DEF EndsIn
  <2>2. q[1].call = "add" => k # 1
    BY <2>1
  <2>3. q[1].call # "add" => k = 1
    BY <1>3, <2>1
  <2>4. ASSUME k = 1 PROVE NoneIn(r, o)
    <3>1. \A m \in 1 .. (n - 1) : m + 1 # 1 /\ ~(m + 1 < 1)
      BY <1>1
    <3>2. \A m \in 1 .. (n - 1) : q[m + 1].op # o
      BY <1>2, <2>1, <2>4, <3>1
    <3>3. QED
      BY <1>1, <1>2, <3>2 DEF NoneIn
  <2>5. ASSUME k # 1 PROVE EndsIn(r, o)
    <3>1. k - 1 \in 1 .. (n - 1) /\ (k - 1) + 1 = k
      BY <1>1, <2>1, <2>5
    <3>2. r[k - 1] = q[k]
      BY <1>2, <3>1
    <3>3. \A m \in 1 .. (n - 1) : r[m].op = o => m = k - 1 \/ (m < k - 1 /\ r[m].call = "add")
      <4>1. SUFFICES ASSUME NEW m \in 1 .. (n - 1), r[m].op = o
                     PROVE  m = k - 1 \/ (m < k - 1 /\ r[m].call = "add")
        OBVIOUS
      <4>2. m + 1 = k \/ (m + 1 < k /\ q[m + 1].call = "add")
        BY <1>2, <2>1, <4>1
      <4>3. r[m] = q[m + 1]
        BY <1>2
      <4>4. QED
        BY <1>1, <2>1, <4>2, <4>3
    <3>4. QED
      BY <1>1, <2>1, <3>1, <3>2, <3>3 DEF EndsIn
  <2>6. QED
    BY <2>2, <2>3, <2>4, <2>5
<1>7. QED
  BY <1>4, <1>5, <1>6 DEF r

\* A new connection has no commands.
LEMMA NothingWaits == \A o : NoneIn(<<>>, o)
BY DEF NoneIn

\* Where there are no commands there are only adds.
LEMMA NoneIsAdds == \A q, o : NoneIn(q, o) => AddsIn(q, o)
BY DEF NoneIn, AddsIn

-----------------------------------------------------------------------------

\* It holds at first.
LEMMA InitStoresInv == StoresInit => StoresInv
<1> SUFFICES ASSUME StoresInit PROVE StoresInv
  OBVIOUS
<1>1. NoOp \notin Ops
  BY RedisStoresAssumption DEF RedisStoresAssumption
<1>2. StoreTypes
  <2>1. <<>> \in Seq(Commands)
    OBVIOUS
  <2>2. wire \in [Bundlers -> [Stores -> Seq(Commands)]]
    BY <2>1 DEF StoresInit
  <2>3. QED
    BY <2>2 DEF StoresInit, StoreTypes, Nonces, StoreSenders
<1>3. ASSUME NEW s \in Stores PROVE IndexedByHash(s)
  <2>1. \A o \in Ops : nonceIndex[s][NonceOf(o)] = NoOp /\ deployIndex[s][UserOp[o].sender] = NoOp
    BY DEF StoresInit
  <2>2. QED
    BY <1>1, <2>1 DEF StoresInit, IndexedByHash, InIndexes
<1>4. ASSUME NEW o \in Ops PROVE Whereabouts(o)
  <2>1. opAt[o] = At("new")
    BY DEF StoresInit
  <2>2. opAt[o].stage = "new" /\ DOMAIN opAt[o] = {"stage", "by", "todo", "next"}
    BY <2>1 DEF At
  <2>3. \A s \in Stores : Clean(o, s)
    BY NothingWaits DEF StoresInit, Clean
  <2>4. QED
    BY <2>2, <2>3 DEF Whereabouts, OpTypes, OpStages, AtRest, Stored, Leaves, Abandoned
<1>5. QED
  BY <1>2, <1>3, <1>4 DEF StoresInv

\* The three ways of leaving the stores.
LEMMA TodoIs ==
  ASSUME NEW todo \in Todos
  PROVE  /\ Head(todo) \in Stores
         /\ \/ Len(todo) = 1 /\ Tail(todo) = <<>>
            \/ /\ Len(todo) = 2 /\ Tail(todo) = <<"submitted">> /\ Head(todo) = "processing"
               /\ Tail(todo) # <<>> /\ Head(Tail(todo)) = "submitted"
<1>a. \A a : Len(<<a>>) = 1 /\ Tail(<<a>>) = <<>> /\ Head(<<a>>) = a /\ <<a>> # <<>>
  OBVIOUS
<1>b. \A a, b : Len(<<a, b>>) = 2 /\ Tail(<<a, b>>) = <<b>> /\ Head(<<a, b>>) = a
  OBVIOUS
<1>1. CASE todo = <<"processing">> \/ todo = <<"submitted">>
  <2>1. Len(todo) = 1 /\ Tail(todo) = <<>> /\ (Head(todo) = "processing" \/ Head(todo) = "submitted")
    BY <1>1, <1>a
  <2>2. QED
    BY <2>1 DEF Stores
<1>2. CASE todo = <<"processing", "submitted">>
  <2>1. Len(todo) = 2 /\ Tail(todo) = <<"submitted">> /\ Head(todo) = "processing"
    BY <1>2, <1>b
  <2>2. Tail(todo) # <<>> /\ Head(Tail(todo)) = "submitted"
    BY <1>a, <2>1
  <2>3. QED
    BY <2>1, <2>2 DEF Stores
<1>3. QED
  BY <1>1, <1>2 DEF Todos

\* There are two stores.
LEMMA OtherIs == \A s \in Stores : OtherStore(s) \in Stores /\ OtherStore(s) # s
                                   /\ \A t \in Stores : t = s \/ t = OtherStore(s)
BY DEF OtherStore, Stores

\* An op that a step leaves alone.
LEMMA LeftAlone ==
  ASSUME NEW p \in Ops, Whereabouts(p), opAt'[p] = opAt[p],
         \A s \in Stores : p \in hashIndex'[s] => p \in hashIndex[s],
         \A i \in Bundlers, s \in Stores : Alike(wire[i][s], wire'[i][s], p)
  PROVE  Whereabouts(p)'
<1>3. OpTypes(p)' /\ AtRest(p)'
  BY DEF Whereabouts, OpTypes, AtRest, Clean, Alike
<1>4. Stored(p)'
  <2>1. SUFFICES ASSUME opAt[p].stage \in {"processing", "submitted"}
                 PROVE  OnlyAdds(p, opAt[p].by, opAt[p].stage)' /\ Clean(p, OtherStore(opAt[p].stage))'
    BY DEF Stored
  <2>2. PICK i \in Bundlers, s \in Stores, t \in Stores :
          i = opAt[p].by /\ s = opAt[p].stage /\ t = OtherStore(s)
    BY <2>1, OtherIs DEF Whereabouts, OpTypes, Stores
  <2>3. OnlyAdds(p, i, s) /\ Clean(p, t)
    BY <2>1, <2>2 DEF Whereabouts, Stored
  <2>4. OnlyAdds(p, i, s)' /\ Clean(p, t)'
    BY <2>3 DEF OnlyAdds, Clean, Alike
  <2>5. QED
    BY <2>2, <2>4 DEF OnlyAdds, Clean, OtherStore
<1>5. Leaves(p)'
  <2>1. SUFFICES ASSUME opAt[p].stage = "leaving" PROVE Leaves(p)'
    BY DEF Leaves
  <2>2. PICK i \in Bundlers, todo \in Todos, s \in Stores, t \in Stores :
          /\ i = opAt[p].by /\ todo = opAt[p].todo
          /\ s = Head(todo) /\ t = OtherStore(Head(todo))
    BY <2>1, TodoIs, OtherIs DEF Whereabouts, OpTypes, Leaves
  <2>3. /\ opAt[p].next \in {"submitting", "settled", "outstanding"}
        /\ Removing(p, i, s)
        /\ Len(todo) = 1 => Clean(p, t)
        /\ Len(todo) = 2 => OnlyAdds(p, i, "submitted")
    BY <2>1, <2>2 DEF Whereabouts, Leaves
  <2>4. /\ Removing(p, i, s)'
        /\ Len(todo) = 1 => Clean(p, t)'
        /\ Len(todo) = 2 => OnlyAdds(p, i, "submitted")'
    BY <2>3 DEF OnlyAdds, Clean, Removing, Alike, Stores
  <2>5. QED
    BY <2>2, <2>3, <2>4 DEF Leaves, Removing, Clean, OnlyAdds, OtherStore
<1>6. Abandoned(p)'
  BY DEF Whereabouts, Abandoned, Alike
<1>7. QED
  BY <1>3, <1>4, <1>5, <1>6 DEF Whereabouts

\* A command about o is sent to <<i, s>>.
LEMMA SentKeeps ==
  ASSUME StoreTypes, NEW i \in Bundlers, NEW s \in Stores, NEW o \in Ops,
         NEW call \in {"add", "get"}, wire' = Sent(i, s, call, o)
  PROVE  /\ wire' \in [Bundlers -> [Stores -> Seq(Commands)]]
         /\ wire'[i][s] = Append(wire[i][s], [call |-> call, op |-> o])
         /\ \A j \in Bundlers, t \in Stores : <<j, t>> # <<i, s>> => wire'[j][t] = wire[j][t]
         /\ \A p \in Ops \ {o} : \A j \in Bundlers, t \in Stores : Alike(wire[j][t], wire'[j][t], p)
<1> DEFINE x == [call |-> call, op |-> o]
<1>1. x \in Commands /\ x.op = o
  BY DEF Commands
<1>2. wire' = [wire EXCEPT ![i][s] = Append(@, x)]
  BY DEF Sent
<1>3. wire \in [Bundlers -> [Stores -> Seq(Commands)]]
  BY DEF StoreTypes
<1> HIDE DEF x
<1>4. wire[i][s] \in Seq(Commands) /\ Append(wire[i][s], x) \in Seq(Commands)
  BY <1>1, <1>3
<1>5. /\ wire' \in [Bundlers -> [Stores -> Seq(Commands)]]
      /\ wire'[i][s] = Append(wire[i][s], x)
      /\ \A j \in Bundlers, t \in Stores : j # i \/ t # s => wire'[j][t] = wire[j][t]
  BY <1>2, <1>3, <1>4
<1>6. ASSUME NEW p \in Ops \ {o}, NEW j \in Bundlers, NEW t \in Stores
      PROVE  Alike(wire[j][t], wire'[j][t], p)
  BY <1>1, <1>4, <1>5, AlikeItself, OtherAppended
<1>7. QED
  BY <1>5, <1>6 DEF x

\* Redis executes the first command of a connection.
LEMMA ExecuteIs ==
  ASSUME StoreTypes, NEW i \in Bundlers, NEW s \in Stores, Execute(i, s)
  PROVE  LET q == wire[i][s]
             o == q[1].op
             rest == Without(q, 1)
             done == Tail(opAt[o].todo)
             value == IF q[1].call = "add" THEN o ELSE NoOp
             finds == q[1].call = "get" /\ o \in hashIndex[s]
             removed == q[1].call # "add" /\ ~finds
         IN
         /\ q \in Seq(Commands) /\ q # <<>> /\ q[1] \in Commands
         /\ IF q[1].call = "get" THEN UNCHANGED storeIndexes
            ELSE /\ hashIndex' = [hashIndex EXCEPT ![s] =
                      IF q[1].call = "add" THEN @ \cup {o} ELSE @ \ {o}]
                 /\ nonceIndex' = [nonceIndex EXCEPT ![s][NonceOf(o)] = value]
                 /\ deployIndex' = IF UserOp[o].deploys
                                   THEN [deployIndex EXCEPT ![s][UserOp[o].sender] = value]
                                   ELSE deployIndex
         /\ opAt' = IF ~removed THEN opAt
                    ELSE [opAt EXCEPT ![o] =
                           IF done # <<>> THEN [@ EXCEPT !.todo = done]
                           ELSE [At(@.next) EXCEPT !.by = IF opAt[o].next = "submitting" THEN i ELSE NoOp]]
         /\ wire' = IF finds
                    THEN [wire EXCEPT ![i][s] = Append(rest, [call |-> "del", op |-> o])]
                    ELSE IF removed /\ done # <<>>
                    THEN [[wire EXCEPT ![i][s] = rest] EXCEPT
                            ![i][Head(done)] = Append(@, [call |-> "get", op |-> o])]
                    ELSE [wire EXCEPT ![i][s] = rest]
<1>1. wire[i][s] \in Seq(Commands)
  BY DEF StoreTypes
<1>2. 1 \in Executable(wire[i][s]) /\ Executable(wire[i][s]) = {1} /\ wire[i][s] # <<>>
  BY DEF Execute, Executable
<1>3. wire[i][s][1] \in Commands
  BY <1>1, <1>2
<1>4. QED
  BY <1>1, <1>2, <1>3 DEF Execute

\* What it does to the connections when the op leaves the store.
LEMMA ExecuteMoves ==
  ASSUME StoreTypes, NEW i \in Bundlers, NEW s \in Stores, Execute(i, s),
         wire[i][s][1].call # "add",
         ~(wire[i][s][1].call = "get" /\ wire[i][s][1].op \in hashIndex[s])
  PROVE  LET o == wire[i][s][1].op
             rest == Without(wire[i][s], 1)
             done == Tail(opAt[o].todo)
         IN  wire' = IF done # <<>>
                     THEN [[wire EXCEPT ![i][s] = rest] EXCEPT
                             ![i][Head(done)] = Append(@, [call |-> "get", op |-> o])]
                     ELSE [wire EXCEPT ![i][s] = rest]
BY ExecuteIs, Zenon

\* No step breaks the indexes.
LEMMA NextIndexed ==
  ASSUME StoresInv, [StoresNext]_storeVars, NEW s \in Stores PROVE IndexedByHash(s)'
<1>a. NoOp \notin Ops /\ IndexedByHash(s) /\ StoreTypes
  BY RedisStoresAssumption DEF RedisStoresAssumption, StoresInv
<1>1. CASE UNCHANGED storeIndexes
  BY <1>a, <1>1 DEF storeIndexes, IndexedByHash, InIndexes
<1>2. ASSUME NEW i \in Bundlers, NEW t \in Stores, Execute(i, t) PROVE IndexedByHash(s)'
  <2>1. PICK x \in Commands :
          IF x.call = "get" THEN UNCHANGED storeIndexes
          ELSE /\ hashIndex' = [hashIndex EXCEPT ![t] =
                    IF x.call = "add" THEN @ \cup {x.op} ELSE @ \ {x.op}]
               /\ nonceIndex' = [nonceIndex EXCEPT ![t][NonceOf(x.op)] =
                    IF x.call = "add" THEN x.op ELSE NoOp]
               /\ deployIndex' = IF UserOp[x.op].deploys
                                 THEN [deployIndex EXCEPT ![t][UserOp[x.op].sender] =
                                         IF x.call = "add" THEN x.op ELSE NoOp]
                                 ELSE deployIndex
    <3>1. PICK x : x = wire[i][t][1]
      OBVIOUS
    <3>2. QED
      BY <1>a, <1>2, <3>1, ExecuteIs
  <2>2. x.op \in Ops /\ x.call \in {"add", "get", "del"}
    BY DEF Commands
  <2>3. CASE x.call = "get"
    BY <1>1, <2>1, <2>3
  <2>4. CASE x.call # "get" /\ t # s
    <3>1. hashIndex'[s] = hashIndex[s] /\ nonceIndex'[s] = nonceIndex[s] /\ deployIndex'[s] = deployIndex[s]
      BY <1>a, <2>1, <2>4 DEF StoreTypes
    <3>2. QED
      BY <1>a, <3>1 DEF IndexedByHash, InIndexes
  <2>5. CASE x.call # "get" /\ t = s
    <3> DEFINE value == IF x.call = "add" THEN x.op ELSE NoOp
    <3>1. /\ hashIndex'[s] = IF x.call = "add" THEN hashIndex[s] \cup {x.op} ELSE hashIndex[s] \ {x.op}
          /\ \A n \in Nonces : nonceIndex'[s][n] = IF n = NonceOf(x.op) THEN value ELSE nonceIndex[s][n]
          /\ \A a \in StoreSenders :
               deployIndex'[s][a] = IF a = UserOp[x.op].sender /\ UserOp[x.op].deploys THEN value
                                    ELSE deployIndex[s][a]
      BY <1>a, <2>1, <2>5 DEF StoreTypes
    <3>2. \A p \in Ops : NonceOf(p) \in Nonces /\ UserOp[p].sender \in StoreSenders
      BY DEF Nonces, StoreSenders
    <3> HIDE DEF value
    <3>3. ASSUME NEW p \in Ops
          PROVE  /\ InIndexes(p, s)' => p \in hashIndex'[s]
                 /\ deployIndex'[s][UserOp[p].sender] = p => UserOp[p].deploys
      <4>1. /\ p \in hashIndex[s] \/ nonceIndex[s][NonceOf(p)] = p \/ deployIndex[s][UserOp[p].sender] = p
                 => p \in hashIndex[s]
            /\ deployIndex[s][UserOp[p].sender] = p => UserOp[p].deploys
        BY <1>a DEF IndexedByHash, InIndexes
      <4>2. value = p => p = x.op /\ x.call = "add"
        BY <1>a DEF value
      <4>3. CASE p # x.op
        BY <3>1, <3>2, <4>1, <4>2, <4>3 DEF InIndexes
      <4>4. CASE p = x.op /\ x.call = "add"
        BY <3>1, <3>2, <4>1, <4>4 DEF InIndexes
      <4>5. CASE p = x.op /\ x.call # "add"
        BY <3>1, <3>2, <4>1, <4>2, <4>5 DEF InIndexes
      <4>6. QED
        BY <4>3, <4>4, <4>5
    <3>4. QED
      BY <3>3 DEF IndexedByHash
  <2>6. QED
    BY <2>3, <2>4, <2>5
<1>3. ASSUME NEW o \in Ops, Accept(o) \/ MarkSubmitted(o) \/ AddSubmitted(o)
                            \/ Included(o) \/ DropOp(o) \/ Requeue(o)
      PROVE  IndexedByHash(s)'
  BY <1>1, <1>3 DEF Accept, MarkSubmitted, AddSubmitted, Included, DropOp, Requeue, LeaveStores
<1>4. ASSUME NEW i \in Bundlers, StopBundler(i) \/ \E o \in Ops : Take(i, o)
      PROVE  IndexedByHash(s)'
  BY <1>1, <1>4 DEF StopBundler, Take
<1>5. CASE UNCHANGED storeVars
  BY <1>1, <1>5 DEF storeVars
<1>6. QED
  BY <1>2, <1>3, <1>4, <1>5 DEF StoresNext

Placed == StoreTypes /\ \A o \in Ops : Whereabouts(o)

\* A client's op is accepted.
LEMMA AcceptPlaces == ASSUME Placed, NEW o \in Ops, Accept(o) PROVE Placed'
<1>1. /\ opAt' = [p \in Ops |->
           IF p = o THEN At("outstanding")
           ELSE IF opAt[p].stage = "outstanding" /\ Conflicts(o, p) THEN At("settled") ELSE opAt[p]]
      /\ opAt[o].stage = "new" /\ UNCHANGED <<storeIndexes, wire>>
  BY DEF Accept
<1>2. StoreTypes'
  BY <1>1 DEF Placed, StoreTypes, storeIndexes
<1>3. ASSUME NEW p \in Ops PROVE Whereabouts(p)'
  <2>1. Whereabouts(p)
    BY DEF Placed
  <2>2. CASE opAt'[p] = opAt[p]
    BY <1>1, <2>1, <2>2, LeftAlone, AlikeItself DEF storeIndexes
  <2>3. CASE opAt'[p] # opAt[p]
    <3>1. /\ opAt[p].stage \in {"new", "outstanding"}
          /\ opAt'[p] = At("outstanding") \/ opAt'[p] = At("settled")
      BY <1>1, <2>3
    <3>2. \A s \in Stores : Clean(p, s)
      BY <2>1, <3>1 DEF Whereabouts, AtRest
    <3>3. AtRest(p)'
      BY <1>1, <3>2 DEF AtRest, Clean, storeIndexes
    <3>4. /\ opAt'[p].stage \in {"outstanding", "settled"}
          /\ DOMAIN opAt'[p] = {"stage", "by", "todo", "next"}
      BY <3>1 DEF At
    <3>5. QED
      BY <3>3, <3>4 DEF Whereabouts, OpTypes, OpStages, Stored, Leaves, Abandoned
  <2>4. QED
    BY <2>2, <2>3
<1>4. QED
  BY <1>2, <1>3 DEF Placed

\* addProcessing or addSubmitted is sent.
LEMMA AddPlaces ==
  ASSUME Placed, NEW o \in Ops, NEW i \in Bundlers, NEW s \in Stores,
         opAt[o].stage \in {"outstanding", "submitting"},
         wire' = Sent(i, s, "add", o), UNCHANGED storeIndexes,
         DOMAIN opAt' = Ops, \A p \in Ops \ {o} : opAt'[p] = opAt[p],
         DOMAIN opAt'[o] = {"stage", "by", "todo", "next"},
         opAt'[o].stage = s, opAt'[o].by = i
  PROVE  Placed'
<1>1. /\ wire' \in [Bundlers -> [Stores -> Seq(Commands)]]
      /\ wire'[i][s] = Append(wire[i][s], [call |-> "add", op |-> o])
      /\ \A j \in Bundlers, t \in Stores : <<j, t>> # <<i, s>> => wire'[j][t] = wire[j][t]
      /\ \A p \in Ops \ {o} : \A j \in Bundlers, t \in Stores : Alike(wire[j][t], wire'[j][t], p)
  BY SentKeeps DEF Placed
<1>2. StoreTypes'
  BY <1>1 DEF Placed, StoreTypes, storeIndexes
<1>3. ASSUME NEW p \in Ops \ {o} PROVE Whereabouts(p)'
  BY <1>1, <1>3, LeftAlone DEF Placed, storeIndexes
<1>4. \A t \in Stores : o \notin hashIndex[t] /\ \A j \in Bundlers : NoneIn(wire[j][t], o)
  BY DEF Placed, Whereabouts, AtRest, Clean
<1>5. AddsIn(wire'[i][s], o)
  <2>1. wire[i][s] \in Seq(Commands) /\ AddsIn(wire[i][s], o)
    BY <1>4, NoneIsAdds DEF Placed, StoreTypes
  <2>2. [call |-> "add", op |-> o] \in Commands
    BY DEF Commands
  <2>3. QED
    BY ONLY <1>1, <2>1, <2>2, OwnAppended
<1>6. OtherStore(s) \in Stores /\ OtherStore(s) # s
  BY OtherIs
<1>7. OnlyAdds(o, opAt[o].by, opAt[o].stage)'
  BY <1>1, <1>4, <1>5 DEF OnlyAdds
<1>8. Clean(o, OtherStore(opAt[o].stage))'
  <2>1. PICK t \in Stores : t = OtherStore(s) /\ t # s
    BY <1>6
  <2>2. OtherStore(opAt[o].stage)' = t
    BY <2>1 DEF OtherStore
  <2>3. o \notin hashIndex'[t] /\ \A j \in Bundlers : NoneIn(wire'[j][t], o)
    BY <1>1, <1>4, <2>1 DEF storeIndexes
  <2>4. QED
    BY <2>2, <2>3 DEF Clean
<1>9. Whereabouts(o)'
  BY <1>7, <1>8 DEF Whereabouts, OpTypes, OpStages, AtRest, Stored, Leaves, Abandoned, Stores
<1>10. QED
  BY <1>2, <1>3, <1>9 DEF Placed

\* A removal begins.
LEMMA LeavePlaces ==
  ASSUME Placed, NEW o \in Ops, NEW todo \in Todos, NEW next, LeaveStores(o, todo, next),
         next \in {"submitting", "settled", "outstanding"},
         opAt[o].stage \in {"processing", "submitted"},
         todo # <<"processing", "submitted">> => todo = <<opAt[o].stage>>
  PROVE  Placed'
<1> DEFINE i == opAt[o].by
           s == Head(todo)
<1>1. /\ wire' = Sent(i, s, "get", o) /\ UNCHANGED storeIndexes
      /\ opAt' = [opAt EXCEPT ![o] = [@ EXCEPT !.stage = "leaving", !.todo = todo, !.next = next]]
  BY DEF LeaveStores
<1>2. i \in Bundlers /\ s \in Stores /\ StoreTypes /\ DOMAIN opAt[o] = {"stage", "by", "todo", "next"}
  BY TodoIs DEF Placed, Whereabouts, OpTypes
<1>3. /\ DOMAIN opAt' = Ops /\ \A p \in Ops \ {o} : opAt'[p] = opAt[p]
      /\ DOMAIN opAt'[o] = {"stage", "by", "todo", "next"}
      /\ opAt'[o].stage = "leaving" /\ opAt'[o].by = i /\ opAt'[o].todo = todo /\ opAt'[o].next = next
  BY <1>1, <1>2 DEF StoreTypes
<1> HIDE DEF i, s
<1>4. /\ wire' \in [Bundlers -> [Stores -> Seq(Commands)]]
      /\ wire'[i][s] = Append(wire[i][s], [call |-> "get", op |-> o])
      /\ \A j \in Bundlers, t \in Stores : <<j, t>> # <<i, s>> => wire'[j][t] = wire[j][t]
      /\ \A p \in Ops \ {o} : \A j \in Bundlers, t \in Stores : Alike(wire[j][t], wire'[j][t], p)
  BY <1>1, <1>2, SentKeeps
<1>5. StoreTypes'
  BY <1>1, <1>2, <1>3, <1>4 DEF StoreTypes, storeIndexes
<1>6. ASSUME NEW p \in Ops \ {o} PROVE Whereabouts(p)'
  BY <1>1, <1>3, <1>4, <1>6, LeftAlone DEF Placed, storeIndexes
<1>7. OnlyAdds(o, i, opAt[o].stage) /\ Clean(o, OtherStore(opAt[o].stage))
  BY DEF Placed, Whereabouts, Stored, i
<1>8. \A t \in Stores : AddsIn(wire[i][t], o) /\ \A j \in Bundlers \ {i} : NoneIn(wire[j][t], o)
  BY <1>2, <1>7, OtherIs, NoneIsAdds DEF OnlyAdds, Clean, Stores
<1>9. EndsIn(wire'[i][s], o)
  <2>1. wire[i][s] \in Seq(Commands) /\ AddsIn(wire[i][s], o)
    BY <1>2, <1>8 DEF StoreTypes
  <2>2. [call |-> "get", op |-> o] \in Commands
    BY DEF Commands
  <2>3. QED
    BY <1>4, <2>1, <2>2, OwnAppended
<1>10. \A t \in Stores, j \in Bundlers \ {i} : NoneIn(wire'[j][t], o)
  BY <1>4, <1>8
<1>11. Removing(o, opAt[o].by, Head(opAt[o].todo))'
  BY <1>3, <1>9, <1>10, <1>2 DEF Removing, s
<1>12. Len(todo) = 1 => Clean(o, OtherStore(Head(opAt[o].todo)))'
  <2>1. SUFFICES ASSUME Len(todo) = 1 PROVE Clean(o, OtherStore(Head(opAt[o].todo)))'
    OBVIOUS
  <2>2. s = opAt[o].stage
    <3>1. \A a, b : Len(<<a, b>>) = 2 /\ Head(<<a>>) = a
      OBVIOUS
    <3>2. QED
      BY <2>1, <3>1 DEF s
  <2>3. PICK t \in Stores : t = OtherStore(s) /\ t # s
    BY <1>2, OtherIs
  <2>4. Clean(o, t)
    BY <1>7, <2>2, <2>3
  <2>5. o \notin hashIndex'[t] /\ \A j \in Bundlers : NoneIn(wire'[j][t], o)
    BY <1>1, <1>4, <2>3, <2>4 DEF Clean, storeIndexes
  <2>6. OtherStore(Head(opAt[o].todo))' = t
    BY <1>3, <2>3 DEF OtherStore, s
  <2>7. QED
    BY <2>5, <2>6 DEF Clean
<1>13. Len(todo) = 2 => OnlyAdds(o, opAt[o].by, "submitted")'
  <2>1. SUFFICES ASSUME Len(todo) = 2 PROVE OnlyAdds(o, opAt[o].by, "submitted")'
    OBVIOUS
  <2>2. s = "processing"
    BY <2>1, TodoIs DEF s
  <2>3. AddsIn(wire'[i]["submitted"], o)
    BY <1>2, <1>4, <1>8, <2>2 DEF Stores
  <2>4. QED
    BY <1>3, <1>10, <2>3 DEF OnlyAdds, Stores
<1>14. Whereabouts(o)'
  BY <1>2, <1>3, <1>11, <1>12, <1>13
     DEF Whereabouts, OpTypes, OpStages, AtRest, Stored, Leaves, Abandoned
<1>15. QED
  BY <1>5, <1>6, <1>14 DEF Placed

\* Commands about an op are on its instance's connections only.
LEMMA OnOwnWires ==
  ASSUME NEW o \in Ops, Whereabouts(o), NEW j \in Bundlers, j # opAt[o].by, NEW s \in Stores
  PROVE  NoneIn(wire[j][s], o)
<1>1. CASE opAt[o].stage \in {"new", "outstanding", "settled", "submitting"}
  BY <1>1 DEF Whereabouts, AtRest, Clean
<1>2. CASE opAt[o].stage \in {"processing", "submitted"}
  <2>1. OnlyAdds(o, opAt[o].by, opAt[o].stage) /\ Clean(o, OtherStore(opAt[o].stage))
    BY <1>2 DEF Whereabouts, Stored
  <2>2. s = opAt[o].stage \/ s = OtherStore(opAt[o].stage)
    BY <1>2, OtherIs DEF Stores
  <2>3. QED
    BY <2>1, <2>2 DEF OnlyAdds, Clean
<1>3. CASE opAt[o].stage = "leaving"
  <2> DEFINE todo == opAt[o].todo
  <2>1. /\ todo \in Todos /\ Removing(o, opAt[o].by, Head(todo))
        /\ Len(todo) = 1 => Clean(o, OtherStore(Head(todo)))
        /\ Len(todo) = 2 => OnlyAdds(o, opAt[o].by, "submitted")
    BY <1>3 DEF Whereabouts, Leaves
  <2>2. /\ s = Head(todo) \/ s = OtherStore(Head(todo))
        /\ Len(todo) = 1 \/ (Len(todo) = 2 /\ Head(todo) = "processing")
    BY <2>1, TodoIs, OtherIs
  <2> HIDE DEF todo
  <2>3. CASE s = Head(todo)
    BY <2>1, <2>3 DEF Removing
  <2>4. CASE s = OtherStore(Head(todo)) /\ Len(todo) = 1
    BY <2>1, <2>4 DEF Clean
  <2>5. CASE s = OtherStore(Head(todo)) /\ Len(todo) = 2 /\ Head(todo) = "processing"
    BY <2>1, <2>5 DEF OnlyAdds, OtherStore
  <2>6. QED
    BY <2>2, <2>3, <2>4, <2>5
<1>4. CASE opAt[o].stage = "abandoned"
  BY <1>4 DEF Whereabouts, Abandoned
<1>5. QED
  BY <1>1, <1>2, <1>3, <1>4 DEF Whereabouts, OpTypes, OpStages

\* An instance stops.
LEMMA StopPlaces == ASSUME Placed, NEW i \in Bundlers, StopBundler(i) PROVE Placed'
<1>1. /\ opAt' = [o \in Ops |-> IF opAt[o].by = i THEN At("abandoned") ELSE opAt[o]]
      /\ wire' = [wire EXCEPT ![i] = [s \in Stores |-> <<>>]]
      /\ UNCHANGED storeIndexes
  BY DEF StopBundler
<1>2. /\ wire' \in [Bundlers -> [Stores -> Seq(Commands)]]
      /\ \A s \in Stores : wire'[i][s] = <<>>
      /\ \A j \in Bundlers \ {i} : wire'[j] = wire[j]
  <2>1. <<>> \in Seq(Commands) /\ wire \in [Bundlers -> [Stores -> Seq(Commands)]]
    BY DEF Placed, StoreTypes
  <2>2. [s \in Stores |-> <<>>] \in [Stores -> Seq(Commands)]
    BY <2>1
  <2>3. QED
    BY <1>1, <2>1, <2>2
<1>3. StoreTypes'
  BY <1>1, <1>2 DEF Placed, StoreTypes, storeIndexes
<1>4. ASSUME NEW o \in Ops PROVE Whereabouts(o)'
  <2>1. Whereabouts(o)
    BY DEF Placed
  <2>2. CASE opAt[o].by = i
    <3>1. opAt'[o] = At("abandoned")
      BY <1>1, <2>2
    <3>2. opAt'[o].stage = "abandoned" /\ DOMAIN opAt'[o] = {"stage", "by", "todo", "next"}
      BY <3>1 DEF At
    <3>3. \A j \in Bundlers, s \in Stores : NoneIn(wire'[j][s], o)
      BY <1>2, <2>1, <2>2, OnOwnWires, NothingWaits
    <3>4. QED
      BY <3>2, <3>3 DEF Whereabouts, OpTypes, OpStages, AtRest, Stored, Leaves, Abandoned
  <2>3. CASE opAt[o].by # i
    <3>1. opAt'[o] = opAt[o]
      BY <1>1, <2>3
    <3>2. \A j \in Bundlers, s \in Stores : Alike(wire[j][s], wire'[j][s], o)
      <4>1. SUFFICES ASSUME NEW j \in Bundlers, NEW s \in Stores
                     PROVE  Alike(wire[j][s], wire'[j][s], o)
        OBVIOUS
      <4>2. CASE j # i
        BY <1>2, <4>2, AlikeItself
      <4>3. CASE j = i
        <5>1. NoneIn(wire[j][s], o)
          BY <2>1, <2>3, <4>3, OnOwnWires
        <5>2. ~EndsIn(wire[j][s], o)
          BY <5>1 DEF NoneIn, EndsIn
        <5>3. NoneIn(wire'[j][s], o) /\ AddsIn(wire'[j][s], o)
          BY <1>2, <4>3, NothingWaits, NoneIsAdds
        <5>4. QED
          BY <5>2, <5>3 DEF Alike
      <4>4. QED
        BY <4>2, <4>3
    <3>3. QED
      BY <1>1, <2>1, <3>1, <3>2, LeftAlone DEF storeIndexes
  <2>4. QED
    BY <2>2, <2>3
<1>5. QED
  BY <1>3, <1>4 DEF Placed

-----------------------------------------------------------------------------

\* A read or a deletion is executed of an op that leaves, in the store that it leaves.
LEMMA LeavesWhere ==
  ASSUME Placed, NEW i \in Bundlers, NEW s \in Stores, NEW o \in Ops,
         wire[i][s] # <<>>, wire[i][s][1].op = o
  PROVE  /\ opAt[o].by = i
         /\ wire[i][s][1].call # "add" => opAt[o].stage = "leaving" /\ s = Head(opAt[o].todo)
         /\ \/ opAt[o].stage \in {"processing", "submitted"} /\ s = opAt[o].stage
            \/ opAt[o].stage = "leaving" /\ (s = Head(opAt[o].todo) \/ Len(opAt[o].todo) = 2)
<1> DEFINE q == wire[i][s]
<1>1. q \in Seq(Commands) /\ Whereabouts(o)
  BY DEF Placed, StoreTypes
<1>2. ~NoneIn(q, o) /\ (AddsIn(q, o) => q[1].call = "add")
  BY <1>1, OwnExecuted
<1>3. opAt[o].by = i
  BY <1>1, <1>2, OnOwnWires
<1>4. opAt[o].stage \in {"processing", "submitted", "leaving"}
  BY <1>1, <1>2 DEF Whereabouts, OpTypes, OpStages, AtRest, Abandoned, Clean
<1> HIDE DEF q
<1>5. CASE opAt[o].stage \in {"processing", "submitted"}
  <2>1. OnlyAdds(o, i, opAt[o].stage) /\ Clean(o, OtherStore(opAt[o].stage))
    BY <1>1, <1>3, <1>5 DEF Whereabouts, Stored
  <2>2. s = opAt[o].stage \/ s = OtherStore(opAt[o].stage)
    BY <1>5, OtherIs DEF Stores
  <2>3. s = opAt[o].stage
    BY <1>2, <2>1, <2>2 DEF Clean, q
  <2>4. QED
    BY <1>2, <1>3, <1>5, <2>1, <2>3 DEF OnlyAdds, q
<1>6. CASE opAt[o].stage = "leaving"
  <2> DEFINE todo == opAt[o].todo
  <2>1. /\ todo \in Todos /\ Removing(o, i, Head(todo))
        /\ Len(todo) = 1 => Clean(o, OtherStore(Head(todo)))
        /\ Len(todo) = 2 => OnlyAdds(o, i, "submitted")
    BY <1>1, <1>3, <1>6 DEF Whereabouts, Leaves
  <2>2. /\ s = Head(todo) \/ s = OtherStore(Head(todo))
        /\ Len(todo) = 1 \/ (Len(todo) = 2 /\ Head(todo) = "processing")
    BY <2>1, TodoIs, OtherIs
  <2> HIDE DEF todo
  <2>3. CASE s = Head(todo)
    BY <1>3, <1>6, <2>3 DEF todo
  <2>4. CASE s = OtherStore(Head(todo)) /\ Len(todo) = 1
    BY <1>2, <2>1, <2>4 DEF Clean, q
  <2>5. CASE s = OtherStore(Head(todo)) /\ Len(todo) = 2 /\ Head(todo) = "processing"
    <3>1. AddsIn(q, o)
      BY <2>1, <2>5 DEF OnlyAdds, OtherStore, q
    <3>2. QED
      BY <1>2, <1>3, <1>6, <2>5, <3>1 DEF q, todo
  <2>6. QED
    BY <2>2, <2>3, <2>4, <2>5
<1>7. QED
  BY <1>4, <1>5, <1>6

\* The first command of <<i, s>> gives way to r.
LEMMA Replaced ==
  ASSUME wire \in [Bundlers -> [Stores -> Seq(Commands)]],
         NEW i \in Bundlers, NEW s \in Stores, NEW r \in Seq(Commands),
         wire' = [wire EXCEPT ![i][s] = r]
  PROVE  /\ wire' \in [Bundlers -> [Stores -> Seq(Commands)]] /\ wire'[i][s] = r
         /\ \A j \in Bundlers, t \in Stores : j # i \/ t # s => wire'[j][t] = wire[j][t]
OBVIOUS

\* An add is executed.
LEMMA AddExecuted ==
  ASSUME Placed, NEW i \in Bundlers, NEW s \in Stores, Execute(i, s), wire[i][s][1].call = "add"
  PROVE  Placed'
<1>0. PICK q \in Seq(Commands), o \in Ops, rest \in Seq(Commands) :
        q = wire[i][s] /\ q # <<>> /\ q[1].op = o /\ q[1].call = "add" /\ rest = Without(q, 1)
  BY ExecuteIs, RestOf DEF Placed, Commands
<1>1. /\ hashIndex' = [hashIndex EXCEPT ![s] = @ \cup {o}]
      /\ nonceIndex' = [nonceIndex EXCEPT ![s][NonceOf(o)] = o]
      /\ \/ deployIndex' = [deployIndex EXCEPT ![s][UserOp[o].sender] = o]
         \/ deployIndex' = deployIndex
      /\ opAt' = opAt /\ wire' = [wire EXCEPT ![i][s] = rest]
  BY <1>0, ExecuteIs DEF Placed
<1>3. /\ wire' \in [Bundlers -> [Stores -> Seq(Commands)]] /\ wire'[i][s] = rest
      /\ \A j \in Bundlers, t \in Stores : j # i \/ t # s => wire'[j][t] = wire[j][t]
  BY <1>0, <1>1, Replaced DEF Placed, StoreTypes
<1>4. StoreTypes'
  BY <1>1, <1>3 DEF Placed, StoreTypes
<1>5. DOMAIN hashIndex = Stores /\ q = wire[i][s] /\ rest = Without(q, 1) /\ q[1].op = o /\ q # <<>>
      /\ q[1].call = "add"
  BY <1>0 DEF Placed, StoreTypes
<1>6. \A p \in Ops \ {o} : Alike(q, rest, p)
  BY <1>1, <1>5, OtherExecuted
<1>7. ASSUME NEW p \in Ops \ {o} PROVE Whereabouts(p)'
  <2>1. \A t \in Stores : p \in hashIndex'[t] => p \in hashIndex[t]
    BY <1>1, <1>5, <1>7
  <2>2. \A j \in Bundlers, t \in Stores : Alike(wire[j][t], wire'[j][t], p)
    BY <1>3, <1>5, <1>6, AlikeItself
  <2>3. QED
    BY <1>1, <2>1, <2>2, LeftAlone DEF Placed
<1>8. /\ ~NoneIn(q, o)
      /\ AddsIn(q, o) => AddsIn(rest, o)
      /\ EndsIn(q, o) => EndsIn(rest, o)
  BY <1>1, <1>5, OwnExecuted
<1>9. /\ opAt[o].by = i /\ Whereabouts(o)
      /\ \/ opAt[o].stage \in {"processing", "submitted"} /\ s = opAt[o].stage
         \/ opAt[o].stage = "leaving" /\ (s = Head(opAt[o].todo) \/ Len(opAt[o].todo) = 2)
  BY <1>1, <1>5, LeavesWhere DEF Placed
<1>10. \A t \in Stores : t # s => hashIndex'[t] = hashIndex[t] /\ \A j \in Bundlers : wire'[j][t] = wire[j][t]
  BY <1>1, <1>3, <1>5
<1>11. CASE opAt[o].stage \in {"processing", "submitted"}
  <2>1. OnlyAdds(o, i, s) /\ Clean(o, OtherStore(s)) /\ s = opAt[o].stage
    BY <1>9, <1>11 DEF Whereabouts, Stored
  <2>2. OnlyAdds(o, opAt[o].by, opAt[o].stage)'
    BY <1>1, <1>3, <1>5, <1>8, <1>9, <2>1 DEF OnlyAdds
  <2>3. PICK t \in Stores : t = OtherStore(s) /\ t # s
    BY OtherIs
  <2>4. Clean(o, OtherStore(opAt[o].stage))'
    <3>1. OtherStore(opAt[o].stage)' = t
      BY <1>1, <2>1, <2>3 DEF OtherStore
    <3>2. o \notin hashIndex'[t] /\ \A j \in Bundlers : NoneIn(wire'[j][t], o)
      BY <1>10, <2>1, <2>3 DEF Clean
    <3>3. QED
      BY <3>1, <3>2 DEF Clean
  <2>5. OpTypes(o)' /\ opAt'[o].stage \in {"processing", "submitted"}
    BY <1>1, <1>9, <1>11 DEF Whereabouts, OpTypes
  <2>6. QED
    BY <2>2, <2>4, <2>5, <1>4, <1>7
       DEF Placed, Whereabouts, AtRest, Stored, Leaves, Abandoned
<1>12. CASE opAt[o].stage = "leaving"
  <2>1. PICK todo \in Todos, h \in Stores, t \in Stores :
          todo = opAt[o].todo /\ h = Head(todo) /\ t = OtherStore(h) /\ t # h
    BY <1>9, <1>12, TodoIs, OtherIs DEF Whereabouts, Leaves
  <2>2. /\ opAt[o].next \in {"submitting", "settled", "outstanding"}
        /\ Removing(o, i, h)
        /\ Len(todo) = 1 => Clean(o, t)
        /\ Len(todo) = 2 => OnlyAdds(o, i, "submitted")
    BY <1>9, <1>12, <2>1 DEF Whereabouts, Leaves
  <2>3. \A k \in Stores, j \in Bundlers \ {i} : NoneIn(wire'[j][k], o)
    BY <1>3, <1>9, OnOwnWires
  <2>4. Removing(o, i, h)'
    <3>1. EndsIn(wire'[i][h], o)
      BY <1>3, <1>5, <1>8, <2>2 DEF Removing
    <3>2. QED
      BY <2>3, <3>1 DEF Removing
  <2>5. Len(todo) = 1 => Clean(o, t)'
    <3>1. SUFFICES ASSUME Len(todo) = 1 PROVE Clean(o, t)'
      OBVIOUS
    <3>2. s = h
      BY <1>9, <1>12, <2>1, <3>1
    <3>3. QED
      BY <1>10, <2>1, <2>2, <3>1, <3>2 DEF Clean
  <2>6. Len(todo) = 2 => OnlyAdds(o, i, "submitted")'
    BY <1>3, <1>5, <1>8, <2>2, <2>3 DEF OnlyAdds, Stores
  <2>7. Leaves(o)'
    BY <1>1, <1>9, <2>1, <2>2, <2>4, <2>5, <2>6 DEF Leaves, Removing, Clean, OnlyAdds, OtherStore
  <2>8. OpTypes(o)' /\ opAt'[o].stage = "leaving"
    BY <1>1, <1>9, <1>12 DEF Whereabouts, OpTypes
  <2>9. QED
    BY <2>7, <2>8, <1>4, <1>7 DEF Placed, Whereabouts, AtRest, Stored, Abandoned
<1>13. QED
  BY <1>9, <1>11, <1>12

\* A read finds its op, and the deletion follows it.
LEMMA FoundExecuted ==
  ASSUME Placed, NEW i \in Bundlers, NEW s \in Stores, Execute(i, s),
         wire[i][s][1].call = "get", wire[i][s][1].op \in hashIndex[s]
  PROVE  Placed'
<1> DEFINE q == wire[i][s]
           o == q[1].op
           rest == Without(q, 1)
           x == [call |-> "del", op |-> o]
           r == Append(rest, x)
<1>1. /\ q \in Seq(Commands) /\ q # <<>> /\ o \in Ops
      /\ UNCHANGED storeIndexes
      /\ opAt' = opAt /\ wire' = [wire EXCEPT ![i][s] = r]
  BY ExecuteIs DEF Placed, Commands
<1>2. rest \in Seq(Commands) /\ x \in Commands /\ x.op = o /\ x.call = "del"
  BY <1>1, RestOf DEF Commands
<1>3. q = wire[i][s] /\ q[1].op = o /\ q[1].call = "get"
  OBVIOUS
<1>4. \A p \in Ops \ {o} : Alike(q, r, p)
  <2> HIDE DEF q, rest, o, x
  <2>1. \A p \in Ops \ {o} : Alike(q, rest, p)
    BY <1>1, <1>3, OtherExecuted DEF rest
  <2>2. \A p \in Ops \ {o} : Alike(rest, r, p)
    BY <1>2, OtherAppended
  <2>3. QED
    BY <2>1, <2>2 DEF Alike
<1>5. /\ opAt[o].by = i /\ Whereabouts(o)
      /\ opAt[o].stage = "leaving" /\ s = Head(opAt[o].todo)
  BY <1>1, LeavesWhere DEF Placed
<1>6. EndsIn(r, o)
  <2>1. Removing(o, i, s)
    BY <1>5 DEF Whereabouts, Leaves
  <2>2. EndsIn(q, o)
    BY <2>1 DEF Removing
  <2> HIDE DEF q, rest, o, x
  <2>3. NoneIn(rest, o)
    BY <1>1, <1>3, <2>2, OwnExecuted DEF rest
  <2>4. QED
    BY <1>2, <2>3, NoneIsAdds, OwnAppended
<1>7. r \in Seq(Commands)
  BY <1>2
<1> HIDE DEF r, q
<1>8. /\ wire' \in [Bundlers -> [Stores -> Seq(Commands)]] /\ wire'[i][s] = r
      /\ \A j \in Bundlers, t \in Stores : j # i \/ t # s => wire'[j][t] = wire[j][t]
  BY <1>1, <1>7, Replaced DEF Placed, StoreTypes
<1>9. StoreTypes'
  BY <1>1, <1>8 DEF Placed, StoreTypes, storeIndexes
<1>10. ASSUME NEW p \in Ops PROVE Whereabouts(p)'
  <2>1. CASE p # o
    <3>1. \A j \in Bundlers, t \in Stores : Alike(wire[j][t], wire'[j][t], p)
      BY <1>3, <1>4, <1>8, <2>1, AlikeItself
    <3>2. QED
      BY <1>1, <3>1, LeftAlone DEF Placed, storeIndexes
  <2>2. CASE p = o
    <3>1. \A j \in Bundlers, t \in Stores : j # i \/ t # s => Alike(wire[j][t], wire'[j][t], o)
      BY <1>8, AlikeItself
    <3>2. ~NoneIn(q, o) /\ ~AddsIn(q, o)
      BY <1>1, <1>3, OwnExecuted
    <3>3. Alike(wire[i][s], wire'[i][s], o)
      BY <1>3, <1>6, <1>8, <3>2 DEF Alike
    <3>4. \A j \in Bundlers, t \in Stores : Alike(wire[j][t], wire'[j][t], o)
      BY <3>1, <3>3
    <3> HIDE DEF o
    <3>5. QED
      BY <1>1, <1>5, <2>2, <3>4, LeftAlone DEF storeIndexes
  <2>3. QED
    BY <2>1, <2>2
<1>11. QED
  BY <1>9, <1>10 DEF Placed

\* The op has left a store: it goes on to the next one, or to where it was bound for.
LEMMA RemovedExecuted ==
  ASSUME Placed, NEW i \in Bundlers, NEW s \in Stores, Execute(i, s),
         wire[i][s][1].call # "add",
         ~(wire[i][s][1].call = "get" /\ wire[i][s][1].op \in hashIndex[s])
  PROVE  Placed'
<1>0. PICK q \in Seq(Commands), o \in Ops, rest \in Seq(Commands) :
        /\ q = wire[i][s] /\ q # <<>> /\ q[1].op = o /\ q[1].call # "add"
        /\ ~(q[1].call = "get" /\ o \in hashIndex[s]) /\ rest = Without(q, 1)
  BY ExecuteIs, RestOf DEF Placed, Commands
<1>1. PICK done : done = Tail(opAt[o].todo)
  OBVIOUS
<1>2. /\ IF q[1].call = "get" THEN UNCHANGED storeIndexes
         ELSE /\ hashIndex' = [hashIndex EXCEPT ![s] = @ \ {o}]
              /\ nonceIndex' = [nonceIndex EXCEPT ![s][NonceOf(o)] = NoOp]
              /\ deployIndex' = IF UserOp[o].deploys
                                THEN [deployIndex EXCEPT ![s][UserOp[o].sender] = NoOp]
                                ELSE deployIndex
      /\ opAt' = [opAt EXCEPT ![o] =
                   IF done # <<>> THEN [@ EXCEPT !.todo = done]
                   ELSE [At(@.next) EXCEPT !.by = IF opAt[o].next = "submitting" THEN i ELSE NoOp]]
      /\ wire' = IF done # <<>>
                 THEN [[wire EXCEPT ![i][s] = rest] EXCEPT
                         ![i][Head(done)] = Append(@, [call |-> "get", op |-> o])]
                 ELSE [wire EXCEPT ![i][s] = rest]
  <2>1. StoreTypes
    BY DEF Placed
  <2>3. /\ wire[i][s] = q /\ q[1].op = o /\ Without(q, 1) = rest /\ Tail(opAt[o].todo) = done
        /\ q[1].call # "add" /\ ~(q[1].call = "get" /\ o \in hashIndex[s])
    BY <1>0, <1>1
  <2>4. IF q[1].call = "get" THEN UNCHANGED storeIndexes
        ELSE /\ hashIndex' = [hashIndex EXCEPT ![s] = @ \ {o}]
             /\ nonceIndex' = [nonceIndex EXCEPT ![s][NonceOf(o)] = NoOp]
             /\ deployIndex' = IF UserOp[o].deploys
                               THEN [deployIndex EXCEPT ![s][UserOp[o].sender] = NoOp]
                               ELSE deployIndex
    BY ONLY <2>1, <2>3, ExecuteIs, Execute(i, s), i \in Bundlers, s \in Stores
  <2>5. opAt' = [opAt EXCEPT ![o] =
                  IF done # <<>> THEN [@ EXCEPT !.todo = done]
                  ELSE [At(@.next) EXCEPT !.by = IF opAt[o].next = "submitting" THEN i ELSE NoOp]]
    BY ONLY <2>1, <2>3, ExecuteIs, Execute(i, s), i \in Bundlers, s \in Stores
  <2>6. wire' = IF done # <<>>
                THEN [[wire EXCEPT ![i][s] = rest] EXCEPT
                        ![i][Head(done)] = Append(@, [call |-> "get", op |-> o])]
                ELSE [wire EXCEPT ![i][s] = rest]
    <3>1. /\ wire[i][s][1].call # "add"
          /\ ~(wire[i][s][1].call = "get" /\ wire[i][s][1].op \in hashIndex[s])
      BY <2>3
    <3>2. wire' = IF Tail(opAt[wire[i][s][1].op].todo) # <<>>
                  THEN [[wire EXCEPT ![i][s] = Without(wire[i][s], 1)] EXCEPT
                          ![i][Head(Tail(opAt[wire[i][s][1].op].todo))] =
                            Append(@, [call |-> "get", op |-> wire[i][s][1].op])]
                  ELSE [wire EXCEPT ![i][s] = Without(wire[i][s], 1)]
      BY <2>1, <3>1, ExecuteMoves, Zenon
    <3>3. QED
      BY ONLY <2>3, <3>2, Zenon
  <2>7. QED
    BY <2>4, <2>5, <2>6
<1>3. /\ DOMAIN hashIndex = Stores /\ DOMAIN opAt = Ops
      /\ wire \in [Bundlers -> [Stores -> Seq(Commands)]]
      /\ \A t \in Stores : DOMAIN nonceIndex[t] = Nonces /\ DOMAIN deployIndex[t] = StoreSenders
      /\ DOMAIN nonceIndex = Stores /\ DOMAIN deployIndex = Stores
  BY DEF Placed, StoreTypes
<1>4. /\ \A t \in Stores : DOMAIN nonceIndex'[t] = Nonces /\ DOMAIN deployIndex'[t] = StoreSenders
      /\ DOMAIN hashIndex' = Stores /\ DOMAIN nonceIndex' = Stores /\ DOMAIN deployIndex' = Stores
      /\ DOMAIN opAt' = Ops
      /\ o \notin hashIndex'[s] /\ \A t \in Stores : hashIndex'[t] \subseteq hashIndex[t]
  <2>1. CASE q[1].call = "get"
    BY <1>0, <1>2, <1>3, <2>1 DEF storeIndexes
  <2>2. CASE q[1].call # "get"
    <3>1. /\ hashIndex' = [hashIndex EXCEPT ![s] = @ \ {o}]
          /\ nonceIndex' = [nonceIndex EXCEPT ![s][NonceOf(o)] = NoOp]
          /\ \/ deployIndex' = [deployIndex EXCEPT ![s][UserOp[o].sender] = NoOp]
             \/ deployIndex' = deployIndex
      BY <1>2, <2>2
    <3>2. DOMAIN opAt' = Ops
      BY <1>2, <1>3
    <3>3. QED
      BY ONLY <1>3, <3>1, <3>2, s \in Stores
  <2>3. QED
    BY <2>1, <2>2
<1>5. /\ opAt[o].by = i /\ Whereabouts(o)
      /\ opAt[o].stage = "leaving" /\ s = Head(opAt[o].todo)
  BY <1>0, LeavesWhere DEF Placed
<1>6. PICK todo \in Todos, t \in Stores : todo = opAt[o].todo /\ t = OtherStore(s) /\ t # s
  BY <1>5, OtherIs DEF Whereabouts, Leaves
<1>7. /\ opAt[o].next \in {"submitting", "settled", "outstanding"}
      /\ Removing(o, i, s)
      /\ Len(todo) = 1 => Clean(o, t)
      /\ Len(todo) = 2 => OnlyAdds(o, i, "submitted")
  BY <1>5, <1>6 DEF Whereabouts, Leaves
<1>8. NoneIn(rest, o)
  BY <1>0, <1>7, OwnExecuted DEF Removing
<1>9. \A p \in Ops \ {o} : Alike(q, rest, p)
  BY <1>0, OtherExecuted
<1>10. CASE Len(todo) = 1
  <2>1. done = <<>>
    <3>1. Tail(todo) = <<>>
      BY ONLY <1>10, todo \in Todos, TodoIs
    <3>2. QED
      BY <1>1, <1>6, <3>1
  <2>2. wire' = [wire EXCEPT ![i][s] = rest]
    BY <1>2, <2>1
  <2>3. /\ wire' \in [Bundlers -> [Stores -> Seq(Commands)]] /\ wire'[i][s] = rest
        /\ \A j \in Bundlers, k \in Stores : j # i \/ k # s => wire'[j][k] = wire[j][k]
    BY <1>3, <2>2, Replaced
  <2>4. StoreTypes'
    BY <1>4, <2>3 DEF StoreTypes
  <2>5. \A p \in Ops \ {o} : opAt'[p] = opAt[p]
    BY <1>2, <1>3
  <2>6. ASSUME NEW p \in Ops \ {o} PROVE Whereabouts(p)'
    <3>1. \A j \in Bundlers, k \in Stores : Alike(wire[j][k], wire'[j][k], p)
      BY <1>0, <1>9, <2>3, AlikeItself
    <3>2. QED
      BY <1>4, <2>5, <3>1, LeftAlone DEF Placed
  <2>7. \A k \in Stores : Clean(o, k)'
    <3>1. \A j \in Bundlers : NoneIn(wire'[j][s], o)
      BY <1>0, <1>7, <1>8, <2>3 DEF Removing
    <3>2. \A j \in Bundlers : NoneIn(wire'[j][t], o)
      BY <1>6, <1>7, <1>10, <2>3 DEF Clean
    <3>3. o \notin hashIndex'[t]
      BY <1>4, <1>7, <1>10 DEF Clean
    <3>4. \A k \in Stores : k = s \/ k = t
      BY <1>6, OtherIs
    <3>5. QED
      BY <1>4, <3>1, <3>2, <3>3, <3>4 DEF Clean
  <2>8. /\ DOMAIN opAt'[o] = {"stage", "by", "todo", "next"}
        /\ opAt'[o].stage = opAt[o].next
        /\ opAt'[o].by = IF opAt[o].next = "submitting" THEN i ELSE NoOp
    BY <1>2, <1>3, <2>1 DEF At
  <2>9. Whereabouts(o)'
    BY <1>7, <2>7, <2>8 DEF Whereabouts, OpTypes, OpStages, AtRest, Stored, Leaves, Abandoned
  <2>10. QED
    BY <2>4, <2>6, <2>9 DEF Placed
<1>11. CASE Len(todo) = 2
  <2>1. s = "processing" /\ t = "submitted" /\ done = <<"submitted">> /\ done # <<>> /\ Head(done) = t
    BY <1>1, <1>5, <1>6, <1>11, TodoIs DEF OtherStore
  <2>2. PICK x \in Commands : x = [call |-> "get", op |-> o]
    BY DEF Commands
  <2>3. /\ x.op = o /\ x.call = "get"
        /\ wire' = [[wire EXCEPT ![i][s] = rest] EXCEPT ![i][t] = Append(@, x)]
    BY <1>2, <2>1, <2>2
  <2>4. wire[i][t] \in Seq(Commands) /\ Append(wire[i][t], x) \in Seq(Commands)
    BY <1>3
  <2>5. /\ wire' \in [Bundlers -> [Stores -> Seq(Commands)]]
        /\ wire'[i][s] = rest /\ wire'[i][t] = Append(wire[i][t], x)
        /\ \A j \in Bundlers, k \in Stores : j # i \/ k \notin {s, t} => wire'[j][k] = wire[j][k]
    BY <1>0, <1>3, <1>6, <2>3, <2>4
  <2>6. StoreTypes'
    BY <1>4, <2>5 DEF StoreTypes
  <2>7. \A p \in Ops \ {o} : opAt'[p] = opAt[p]
    BY <1>2, <1>3
  <2>8. \A k \in Stores : k = s \/ k = t
    BY <1>6, OtherIs
  <2>9. ASSUME NEW p \in Ops \ {o} PROVE Whereabouts(p)'
    <3>1. Alike(wire[i][t], wire'[i][t], p)
      BY <2>3, <2>4, <2>5, OtherAppended
    <3>2. Alike(wire[i][s], wire'[i][s], p)
      BY <1>0, <1>9, <2>5
    <3>3. \A j \in Bundlers \ {i}, k \in Stores : Alike(wire[j][k], wire'[j][k], p)
      BY <2>5, AlikeItself
    <3>4. \A j \in Bundlers, k \in Stores : Alike(wire[j][k], wire'[j][k], p)
      BY <2>8, <3>1, <3>2, <3>3
    <3>5. QED
      BY <1>4, <2>7, <3>4, LeftAlone DEF Placed
  <2>10. Clean(o, s)'
    <3>1. \A j \in Bundlers : NoneIn(wire'[j][s], o)
      BY <1>0, <1>7, <1>8, <2>5 DEF Removing
    <3>2. QED
      BY <1>4, <3>1 DEF Clean
  <2>11. Removing(o, i, t)'
    <3>1. AddsIn(wire[i][t], o) /\ \A j \in Bundlers \ {i} : NoneIn(wire'[j][t], o)
      <4>1. OnlyAdds(o, i, t)
        BY <1>7, <1>11, <2>1
      <4>2. QED
        BY <2>5, <4>1 DEF OnlyAdds
    <3>2. EndsIn(wire'[i][t], o)
      BY <2>3, <2>4, <2>5, <3>1, OwnAppended
    <3>3. QED
      BY <3>1, <3>2 DEF Removing
  <2>12. /\ DOMAIN opAt'[o] = {"stage", "by", "todo", "next"}
         /\ opAt'[o].stage = "leaving" /\ opAt'[o].by = i
         /\ opAt'[o].next = opAt[o].next /\ opAt'[o].todo = <<"submitted">>
    BY <1>2, <1>3, <1>5, <2>1 DEF Whereabouts, OpTypes
  <2>13. /\ <<"submitted">> \in Todos /\ Head(<<"submitted">>) = t /\ Len(<<"submitted">>) = 1
         /\ OtherStore(t) = s
    BY <2>1 DEF Todos, OtherStore
  <2>14. Leaves(o)'
    BY <1>7, <2>10, <2>11, <2>12, <2>13 DEF Leaves, Removing, Clean, OtherStore
  <2>15. Whereabouts(o)'
    BY <2>12, <2>14 DEF Whereabouts, OpTypes, OpStages, AtRest, Stored, Abandoned
  <2>16. QED
    BY <2>6, <2>9, <2>15 DEF Placed
<1>12. QED
  BY <1>6, <1>10, <1>11, TodoIs

\* No step leaves an op where it is not to be.
LEMMA NextStoresInv == StoresInv /\ [StoresNext]_storeVars => StoresInv'
<1> SUFFICES ASSUME StoresInv, [StoresNext]_storeVars PROVE StoresInv'
  OBVIOUS
<1>1. \A s \in Stores : IndexedByHash(s)'
  BY NextIndexed
<1>2. Placed
  BY DEF StoresInv, Placed
<1>3. Placed'
  <2>1. ASSUME NEW o \in Ops, Accept(o) PROVE Placed'
    BY <1>2, <2>1, AcceptPlaces
  <2>2. ASSUME NEW o \in Ops, MarkSubmitted(o) \/ Included(o) \/ DropOp(o) \/ Requeue(o)
        PROVE Placed'
    <3>1. CASE MarkSubmitted(o)
      BY <1>2, <3>1, LeavePlaces DEF MarkSubmitted, Todos
    <3>2. CASE Included(o)
      BY <1>2, <3>2, LeavePlaces DEF Included, Todos
    <3>3. CASE DropOp(o)
      BY <1>2, <3>3, LeavePlaces DEF DropOp, Todos
    <3>4. CASE Requeue(o)
      BY <1>2, <3>4, LeavePlaces DEF Requeue, Todos
    <3>5. QED
      BY <2>2, <3>1, <3>2, <3>3, <3>4
  <2>3. ASSUME NEW o \in Ops, AddSubmitted(o) \/ \E i \in Bundlers : Take(i, o)
        PROVE Placed'
    <3>0. Whereabouts(o) /\ DOMAIN opAt = Ops
      BY <1>2 DEF Placed, StoreTypes
    <3>1. CASE AddSubmitted(o)
      <4>1. /\ opAt[o].stage = "submitting" /\ wire' = Sent(opAt[o].by, "submitted", "add", o)
            /\ opAt' = [opAt EXCEPT ![o].stage = "submitted"] /\ UNCHANGED storeIndexes
        BY <3>1 DEF AddSubmitted
      <4>2. opAt[o].by \in Bundlers /\ DOMAIN opAt[o] = {"stage", "by", "todo", "next"}
        BY <3>0, <4>1 DEF Whereabouts, OpTypes
      <4>3. /\ DOMAIN opAt' = Ops /\ \A p \in Ops \ {o} : opAt'[p] = opAt[p]
            /\ DOMAIN opAt'[o] = {"stage", "by", "todo", "next"}
            /\ opAt'[o].stage = "submitted" /\ opAt'[o].by = opAt[o].by
        BY <3>0, <4>1, <4>2
      <4>4. "submitted" \in Stores
        BY DEF Stores
      <4>5. QED
        BY ONLY <1>2, <4>1, <4>2, <4>3, <4>4, o \in Ops, AddPlaces
    <3>2. ASSUME NEW i \in Bundlers, Take(i, o) PROVE Placed'
      <4>1. /\ opAt[o].stage = "outstanding" /\ wire' = Sent(i, "processing", "add", o)
            /\ opAt' = [opAt EXCEPT ![o] = [At("processing") EXCEPT !.by = i]]
            /\ UNCHANGED storeIndexes
        BY <3>2 DEF Take
      <4>3. /\ DOMAIN opAt' = Ops /\ \A p \in Ops \ {o} : opAt'[p] = opAt[p]
            /\ DOMAIN opAt'[o] = {"stage", "by", "todo", "next"}
            /\ opAt'[o].stage = "processing" /\ opAt'[o].by = i
        BY <3>0, <4>1 DEF At
      <4>4. "processing" \in Stores
        BY DEF Stores
      <4>5. QED
        BY ONLY <1>2, <4>1, <4>3, <4>4, o \in Ops, i \in Bundlers, AddPlaces
    <3>3. QED
      BY <2>3, <3>1, <3>2
  <2>4. ASSUME NEW i \in Bundlers, StopBundler(i) PROVE Placed'
    BY <1>2, <2>4, StopPlaces
  <2>5. ASSUME NEW i \in Bundlers, NEW s \in Stores, Execute(i, s) PROVE Placed'
    BY <1>2, <2>5, AddExecuted, FoundExecuted, RemovedExecuted
  <2>6. CASE UNCHANGED storeVars
    <3>1. UNCHANGED <<hashIndex, nonceIndex, deployIndex, wire, opAt>>
      BY <2>6 DEF storeVars, storeIndexes
    <3>2. \A p \in Ops : Whereabouts(p)'
      BY <1>2, <3>1, LeftAlone, AlikeItself DEF Placed
    <3>3. QED
      BY <1>2, <3>1, <3>2 DEF Placed, StoreTypes
  <2>7. QED
    BY <2>1, <2>2, <2>3, <2>4, <2>5, <2>6 DEF StoresNext
<1>4. QED
  BY <1>1, <1>3 DEF StoresInv, Placed

\* An op that is settled, or waits again, has left both stores and their indexes.
THEOREM SettledAlwaysLeaves == StoresSpec => []SettledLeavesNothing
<1>1. StoresInv => SettledLeavesNothing
  BY DEF StoresInv, Whereabouts, AtRest, Clean, IndexedByHash, SettledLeavesNothing
<1>2. QED
  BY <1>1, InitStoresInv, NextStoresInv, PTL DEF StoresSpec

-----------------------------------------------------------------------------
(***************************************************************************)
(* What a restart hands over.  NothingForgotten is about the end.  Until   *)
(* then what is not published yet is in the snapshot, and what was         *)
(* published is in the queue, with the bundle of every submitted op.       *)
(***************************************************************************)

HandedBundles == [op : HandedOps, executor : Executors]

Messages == [type : {"MEMPOOL_DATA", "END_RESTORATION"}, bundles : SUBSET HandedBundles,
             outstanding : SUBSET HandedOps, submitted : SUBSET HandedOps]

StoreFields == {"outstanding", "hand", "processing", "submitted", "sending", "bundles"}

\* The stores of an instance.
StoresTyped(s) ==
  /\ s.outstanding \subseteq HandedOps /\ s.hand \subseteq HandedOps
  /\ s.processing \subseteq HandedOps /\ s.submitted \subseteq HandedOps
  /\ s.sending \subseteq HandedBundles /\ s.bundles \subseteq HandedBundles

HandedTypes ==
  /\ DOMAIN old = StoreFields \cup {"at", "unpublished", "snapshot"} /\ StoresTyped(old)
  /\ old.at \in {"running", "publishing", "published", "exited"}
  /\ DOMAIN old.snapshot = StoreFields /\ StoresTyped(old.snapshot)
  /\ DOMAIN new = StoreFields /\ StoresTyped(new)
  /\ jobs \in Seq(Messages)

\* A bundle of bs was sent with op o, or nothing is asked about it.
Covered(o, bs) == (\E b \in bs : b.op = o) \/ o \in lost \cup mined

\* Op o is where NothingForgotten wants it.
Accounted(o) ==
  \/ o \in new.outstanding \cup mined \cup dropped \cup lost \cup misled
  \/ \E b \in new.bundles : b.op = o
  \/ \E k \in DOMAIN jobs : o \in jobs[k].outstanding \cup jobs[k].submitted

\* Nothing has left the old instance.
StillHeld ==
  old.at = "running" =>
    /\ jobs = <<>> /\ dropped = {} /\ lost = {} /\ old.snapshot = NoStores
    /\ \A o \in HandedOps :
         o \in old.outstanding \cup old.hand \cup old.processing \cup old.submitted \cup mined

\* What is not on its way yet is in the snapshot.
InSnapshot ==
  old.at = "publishing" =>
    /\ dropped = {}
    /\ \A o \in HandedOps :
         \/ Accounted(o)
         \/ /\ EntryPointOf[o] \in old.unpublished
            /\ o \in old.snapshot.outstanding \cup old.snapshot.processing \cup old.snapshot.submitted

AllAccounted == old.at \in {"published", "exited"} => \A o \in HandedOps : Accounted(o)

\* A submitted op travels with its bundle.
TravelTogether ==
  /\ \A o \in old.snapshot.submitted : Covered(o, old.snapshot.bundles)
  /\ \A k \in DOMAIN jobs :
       /\ \A o \in jobs[k].submitted : Covered(o, jobs[k].bundles)
       /\ jobs[k].type = "END_RESTORATION" =>
            jobs[k].outstanding = {} /\ jobs[k].submitted = {}

HandedInv == HandedTypes /\ StillHeld /\ InSnapshot /\ AllAccounted /\ TravelTogether

\* No wallet has sent two of the bundles.
OnePerWallet(bs) == \A b, c \in bs : b.executor = c.executor => b = c

PoolTypes(p) ==
  /\ DOMAIN p = {"free", "permits", "waiting"}
  /\ p.free \subseteq Executors /\ p.permits = Cardinality(p.free)
  /\ p.waiting \in Seq(Executors)

\* The old instance sends from a wallet once at a time, and so do its messages say.
OldWallets ==
  /\ old.at = "running" => OnePerWallet(old.bundles \cup old.sending) /\ jobs = <<>>
  /\ OnePerWallet(old.snapshot.bundles)
  /\ \A k \in DOMAIN jobs : OnePerWallet(jobs[k].bundles)

\* So does the new one, except from wallets that were shared.
NewWallets ==
  /\ PoolTypes(pool)
  /\ \A b, c \in new.bundles : b.executor = c.executor /\ b.executor \notin shared => b = c
  /\ \A b \in new.bundles : b.executor \in pool.free => b.executor \in shared
  /\ \A w \in Executors \ (shared \cup relocked) :
       w \notin pool.free => \E b \in new.bundles : b.executor = w

WalletsInv == OldWallets /\ NewWallets

-----------------------------------------------------------------------------
(* The jobs of a queue.                                                    *)

\* A job of the queue is a message, and so are those behind the first.
LEMMA JobsOf ==
  ASSUME NEW q \in Seq(Messages)
  PROVE  /\ \A k \in DOMAIN q : q[k] \in Messages
         /\ q # <<>> => /\ Tail(q) \in Seq(Messages) /\ 1 \in DOMAIN q /\ Head(q) = q[1]
                        /\ \A k \in DOMAIN Tail(q) : k + 1 \in DOMAIN q /\ Tail(q)[k] = q[k + 1]
                        /\ \A m \in DOMAIN q : m = 1 \/ (m - 1 \in DOMAIN Tail(q) /\ Tail(q)[m - 1] = q[m])
<1>1. \A k \in DOMAIN q : q[k] \in Messages
  OBVIOUS
<1>2. ASSUME q # <<>>
      PROVE  /\ Tail(q) \in Seq(Messages) /\ 1 \in DOMAIN q /\ Head(q) = q[1]
             /\ \A k \in DOMAIN Tail(q) : k + 1 \in DOMAIN q /\ Tail(q)[k] = q[k + 1]
             /\ \A m \in DOMAIN q : m = 1 \/ (m - 1 \in DOMAIN Tail(q) /\ Tail(q)[m - 1] = q[m])
  <2>1. Len(q) \in Nat \ {0} /\ DOMAIN q = 1 .. Len(q)
    BY <1>2
  <2>2. /\ Tail(q) \in Seq(Messages) /\ Head(q) = q[1]
        /\ DOMAIN Tail(q) = 1 .. (Len(q) - 1)
        /\ \A k \in 1 .. (Len(q) - 1) : Tail(q)[k] = q[k + 1]
    BY <1>2
  <2>3. \A k \in 1 .. (Len(q) - 1) : k + 1 \in 1 .. Len(q)
    BY <2>1
  <2>4. \A m \in 1 .. Len(q) : m = 1 \/ (m - 1 \in 1 .. (Len(q) - 1) /\ (m - 1) + 1 = m)
    BY <2>1
  <2>5. 1 \in 1 .. Len(q)
    BY <2>1
  <2>6. QED
    BY <2>1, <2>2, <2>3, <2>4, <2>5
<1>3. QED
  BY <1>1, <1>2

\* A job that is added comes last.
LEMMA JobsAppended ==
  ASSUME NEW q \in Seq(Messages), NEW m \in Messages
  PROVE  /\ Append(q, m) \in Seq(Messages)
         /\ \A k \in DOMAIN q : k \in DOMAIN Append(q, m) /\ Append(q, m)[k] = q[k]
         /\ Len(q) + 1 \in DOMAIN Append(q, m) /\ Append(q, m)[Len(q) + 1] = m
         /\ \A k \in DOMAIN Append(q, m) : Append(q, m)[k] = m \/ (k \in DOMAIN q /\ Append(q, m)[k] = q[k])
<1>1. /\ Len(q) \in Nat /\ DOMAIN q = 1 .. Len(q) /\ DOMAIN Append(q, m) = 1 .. (Len(q) + 1)
      /\ Append(q, m) \in Seq(Messages)
      /\ \A k \in 1 .. Len(q) : Append(q, m)[k] = q[k]
      /\ Append(q, m)[Len(q) + 1] = m
  OBVIOUS
<1>2. \A k \in 1 .. (Len(q) + 1) : k \in 1 .. Len(q) \/ k = Len(q) + 1
  BY <1>1
<1>3. 1 .. Len(q) \subseteq 1 .. (Len(q) + 1) /\ Len(q) + 1 \in 1 .. (Len(q) + 1)
  BY <1>1
<1>4. QED
  BY <1>1, <1>2, <1>3

-----------------------------------------------------------------------------

\* It holds at first.
LEMMA InitHandedInv == RestorationInit => HandedInv
<1> SUFFICES ASSUME RestorationInit PROVE HandedInv
  OBVIOUS
<1>1. /\ DOMAIN NoStores = StoreFields /\ StoresTyped(NoStores)
      /\ NoStores.bundles = {} /\ NoStores.submitted = {}
  BY DEF NoStores, StoreFields, StoresTyped
<1>2. /\ DOMAIN old = StoreFields \cup {"at", "unpublished", "snapshot"}
      /\ old.at = "running" /\ old.snapshot = NoStores /\ old.outstanding = HandedOps
      /\ old.hand = {} /\ old.processing = {} /\ old.submitted = {} /\ old.sending = {} /\ old.bundles = {}
  BY DEF RestorationInit, OldInstance, StoreFields
<1>3. jobs = <<>> /\ new = NoStores /\ dropped = {} /\ lost = {} /\ <<>> \in Seq(Messages)
  BY DEF RestorationInit
<1>4. HandedTypes
  BY <1>1, <1>2, <1>3 DEF HandedTypes, StoresTyped
<1>5. QED
  BY <1>1, <1>2, <1>3, <1>4 DEF HandedInv, StillHeld, InSnapshot, AllAccounted, TravelTogether

\* A step of an instance that is not part of the shutdown.
LEMMA HandedStays ==
  ASSUME HandedInv, HandedTypes', old'.at = old.at, old'.unpublished = old.unpublished,
         old'.snapshot = old.snapshot, dropped' = dropped, lost' = lost, mined \subseteq mined',
         old.at = "running" =>
           \A o \in HandedOps :
             o \in old.outstanding \cup old.hand \cup old.processing \cup old.submitted \cup mined =>
             o \in old'.outstanding \cup old'.hand \cup old'.processing \cup old'.submitted \cup mined',
         jobs' = jobs \/ (jobs # <<>> /\ jobs' = Tail(jobs)),
         \A o \in HandedOps : Accounted(o) => Accounted(o)'
  PROVE  HandedInv'
<1>1. StillHeld'
  BY DEF HandedInv, StillHeld
<1>2. InSnapshot'
  BY DEF HandedInv, InSnapshot
<1>3. AllAccounted'
  BY DEF HandedInv, AllAccounted
<1>4. TravelTogether'
  <2>1. \A o \in old'.snapshot.submitted : (\E b \in old'.snapshot.bundles : b.op = o) \/ o \in lost' \cup mined'
    BY DEF HandedInv, TravelTogether, Covered
  <2>2. \A k \in DOMAIN jobs :
          /\ \A o \in jobs[k].submitted : (\E b \in jobs[k].bundles : b.op = o) \/ o \in lost' \cup mined'
          /\ jobs[k].type = "END_RESTORATION" =>
               jobs[k].outstanding = {} /\ jobs[k].submitted = {}
    BY DEF HandedInv, TravelTogether, Covered
  <2>3. \A k \in DOMAIN jobs' : \E m \in DOMAIN jobs : jobs'[k] = jobs[m]
    BY JobsOf DEF HandedInv, HandedTypes
  <2>4. \A k \in DOMAIN jobs' :
          /\ \A o \in jobs'[k].submitted : (\E b \in jobs'[k].bundles : b.op = o) \/ o \in lost' \cup mined'
          /\ jobs'[k].type = "END_RESTORATION" =>
               jobs'[k].outstanding = {} /\ jobs'[k].submitted = {}
    BY <2>2, <2>3
  <2>5. QED
    BY <2>1, <2>4 DEF TravelTogether, Covered
<1>5. QED
  BY <1>1, <1>2, <1>3, <1>4 DEF HandedInv

\* The old instance goes on.
LEMMA OldGoesOn ==
  ASSUME HandedInv,
         \/ \E o \in HandedOps : OldPops(o) \/ OldTakes(o) \/ \E w \in Executors : OldSends(o, w)
         \/ \E b \in old.sending : OldMarks(b) \/ OldTracks(b)
         \/ \E b \in old.bundles : OldSettles(b)
  PROVE  HandedInv'
<1>1. UNCHANGED <<new, jobs, mined, dropped, lost, misled>>
  BY DEF OldPops, OldTakes, OldSends, OldMarks, OldTracks, OldSettles, histories
<1>2. DOMAIN old = StoreFields \cup {"at", "unpublished", "snapshot"} /\ StoresTyped(old)
  BY DEF HandedInv, HandedTypes
<1>3. /\ DOMAIN old' = DOMAIN old /\ StoresTyped(old')
      /\ old'.at = old.at /\ old'.unpublished = old.unpublished /\ old'.snapshot = old.snapshot
      /\ \A o \in HandedOps :
             o \in old.outstanding \cup old.hand \cup old.processing \cup old.submitted \cup mined =>
             o \in old'.outstanding \cup old'.hand \cup old'.processing \cup old'.submitted \cup mined
  <2>1. ASSUME NEW o \in HandedOps, OldPops(o) PROVE <1>3!:
    BY <1>2, <2>1 DEF OldPops, StoresTyped, StoreFields
  <2>2. ASSUME NEW o \in HandedOps, OldTakes(o) PROVE <1>3!:
    BY <1>2, <2>2 DEF OldTakes, StoresTyped, StoreFields
  <2>3. ASSUME NEW o \in HandedOps, NEW w \in Executors, OldSends(o, w) PROVE <1>3!:
    BY <1>2, <2>3 DEF OldSends, StoresTyped, StoreFields, Bundle, HandedBundles
  <2>4. ASSUME NEW b \in old.sending, OldMarks(b) PROVE <1>3!:
    BY <1>2, <2>4 DEF OldMarks, StoresTyped, StoreFields, HandedBundles
  <2>5. ASSUME NEW b \in old.sending, OldTracks(b) PROVE <1>3!:
    BY <1>2, <2>5 DEF OldTracks, StoresTyped, StoreFields, HandedBundles
  <2>6. ASSUME NEW b \in old.bundles, OldSettles(b) PROVE <1>3!:
    BY <1>2, <2>6 DEF OldSettles, StoresTyped, StoreFields, HandedBundles
  <2>7. QED
    BY <2>1, <2>2, <2>3, <2>4, <2>5, <2>6
<1>4. HandedTypes'
  BY <1>1, <1>2, <1>3 DEF HandedInv, HandedTypes, StoresTyped
<1>5. \A o \in HandedOps : Accounted(o) => Accounted(o)'
  BY <1>1 DEF Accounted
<1>6. QED
  BY <1>1, <1>3, <1>4, <1>5, HandedStays

\* The new instance goes on, or the chain.
LEMMA NewGoesOn ==
  ASSUME HandedInv,
         \/ \E o \in HandedOps : Mined(o) \/ NewDrops(o) \/ \E w \in Executors : NewSends(o, w)
         \/ \E b \in new.bundles : NewSettles(b)
         \/ \E i \in {"old", "new"} : ListenerTimeout(i)
  PROVE  HandedInv'
<1>1. UNCHANGED <<old, jobs, dropped, lost, misled>> /\ mined \subseteq mined'
  BY DEF Mined, NewDrops, NewSends, NewSettles, ListenerTimeout, histories
<1>2. DOMAIN new = StoreFields /\ StoresTyped(new)
  BY DEF HandedInv, HandedTypes
<1>3. /\ DOMAIN new' = StoreFields /\ StoresTyped(new')
      /\ \A o \in HandedOps :
           o \in new.outstanding \/ (\E b \in new.bundles : b.op = o) =>
           o \in new'.outstanding \cup mined' \/ \E b \in new'.bundles : b.op = o
  <2>1. ASSUME NEW o \in HandedOps, Mined(o) PROVE <1>3!:
    BY <1>2, <2>1 DEF Mined
  <2>2. ASSUME NEW o \in HandedOps, NewDrops(o) PROVE <1>3!:
    BY <1>2, <2>2 DEF NewDrops, StoresTyped, StoreFields
  <2>3. ASSUME NEW o \in HandedOps, NEW w \in Executors, NewSends(o, w) PROVE <1>3!:
    <3>1. new' = [new EXCEPT !.outstanding = @ \ {o}, !.submitted = @ \cup {o},
                             !.bundles = @ \cup {Bundle(o, w)}]
      BY <2>3 DEF NewSends
    <3>2. Bundle(o, w) \in HandedBundles /\ Bundle(o, w).op = o
      BY DEF Bundle, HandedBundles
    <3>3. QED
      BY <1>2, <3>1, <3>2 DEF StoresTyped, StoreFields
  <2>4. ASSUME NEW b \in new.bundles, NewSettles(b) PROVE <1>3!:
    <3>1. /\ new' = [new EXCEPT !.submitted = @ \ {b.op}, !.bundles = @ \ {b}]
          /\ b.op \in mined' /\ mined' = mined
      BY <2>4 DEF NewSettles
    <3>2. QED
      BY <1>2, <3>1 DEF StoresTyped, StoreFields
  <2>5. ASSUME NEW i \in {"old", "new"}, ListenerTimeout(i) PROVE <1>3!:
    BY <1>2, <2>5 DEF ListenerTimeout
  <2>6. QED
    BY <2>1, <2>2, <2>3, <2>4, <2>5
<1>4. HandedTypes'
  BY <1>1, <1>3 DEF HandedInv, HandedTypes, StoresTyped
<1>5. \A o \in HandedOps : Accounted(o) => Accounted(o)'
  BY <1>1, <1>3 DEF Accounted
<1>6. QED
  BY <1>1, <1>4, <1>5, HandedStays

\* An instance takes a job.
LEMMA JobTaken ==
  ASSUME HandedInv, Restore \/ RestoreFails \/ TakeOwn \/ \E i \in {"old", "new"} : EndRestoration(i)
  PROVE  HandedInv'
<1>1. /\ jobs # <<>> /\ jobs' = Tail(jobs) /\ UNCHANGED <<dropped, lost, mined>>
  BY DEF Restore, RestoreFails, TakeOwn, EndRestoration, histories
<1>2. jobs \in Seq(Messages) /\ old.at # "running"
  BY <1>1 DEF HandedInv, HandedTypes, StillHeld
<1>3. PICK m \in Messages : m = Head(jobs)
  BY <1>1, <1>2, JobsOf
<1>4. /\ jobs' \in Seq(Messages) /\ m = jobs[1] /\ 1 \in DOMAIN jobs
      /\ \A k \in DOMAIN jobs : k = 1 \/ \E n \in DOMAIN jobs' : jobs'[n] = jobs[k]
  BY <1>1, <1>2, <1>3, JobsOf
<1>5. /\ \A o \in m.submitted : Covered(o, m.bundles)
      /\ m.type = "END_RESTORATION" => m.outstanding = {} /\ m.submitted = {}
  BY <1>4 DEF HandedInv, TravelTogether
<1>6. /\ m.outstanding \subseteq HandedOps /\ m.submitted \subseteq HandedOps
      /\ m.bundles \subseteq HandedBundles
  BY DEF Messages
<1>7. /\ DOMAIN old = StoreFields \cup {"at", "unpublished", "snapshot"} /\ StoresTyped(old)
      /\ DOMAIN new = StoreFields /\ StoresTyped(new)
  BY DEF HandedInv, HandedTypes
<1>8. /\ DOMAIN old' = DOMAIN old /\ StoresTyped(old') /\ DOMAIN new' = StoreFields /\ StoresTyped(new')
      /\ old'.at = old.at /\ old'.unpublished = old.unpublished /\ old'.snapshot = old.snapshot
      /\ misled \subseteq misled' /\ new.outstanding \subseteq new'.outstanding
      /\ new.bundles \subseteq new'.bundles
      /\ m.outstanding \subseteq new'.outstanding \cup misled'
      /\ m.submitted \subseteq misled' \/ m.bundles \subseteq new'.bundles
  <2>1. CASE Restore
    <3>1. /\ new' = [new EXCEPT !.outstanding = @ \cup m.outstanding,
                                !.submitted = @ \cup m.submitted, !.bundles = @ \cup m.bundles]
          /\ UNCHANGED <<old, misled>>
      BY <1>3, <1>7, <2>1 DEF Restore, StoreFields
    <3>2. QED
      BY <1>6, <1>7, <3>1 DEF StoresTyped, StoreFields
  <2>2. CASE RestoreFails
    BY <1>3, <1>7, <2>2 DEF RestoreFails
  <2>3. CASE TakeOwn
    <3>1. /\ old' = [old EXCEPT !.outstanding = @ \cup m.outstanding,
                                !.submitted = @ \cup m.submitted, !.bundles = @ \cup m.bundles]
          /\ misled' = misled \cup m.outstanding \cup m.submitted /\ new' = new
      BY <1>3, <2>3 DEF TakeOwn
    <3>2. QED
      BY <1>6, <1>7, <3>1 DEF StoresTyped, StoreFields
  <2>4. ASSUME NEW i \in {"old", "new"}, EndRestoration(i) PROVE <1>8!:
    <3>1. UNCHANGED <<old, new, misled>> /\ m.type = "END_RESTORATION"
      BY <1>3, <2>4 DEF EndRestoration, histories
    <3>2. QED
      BY <1>5, <1>7, <3>1
  <2>5. QED
    BY <2>1, <2>2, <2>3, <2>4
<1>9. HandedTypes'
  BY <1>4, <1>8, <1>7 DEF HandedInv, HandedTypes, StoresTyped
<1>10. ASSUME NEW o \in HandedOps, Accounted(o) PROVE Accounted(o)'
  <2>1. CASE o \in m.outstanding \cup m.submitted
    BY <1>1, <1>5, <1>8, <2>1 DEF Accounted, Covered
  <2>2. CASE o \notin m.outstanding \cup m.submitted
    <3>1. (\E k \in DOMAIN jobs : o \in jobs[k].outstanding \cup jobs[k].submitted)
            => \E n \in DOMAIN jobs' : o \in jobs'[n].outstanding \cup jobs'[n].submitted
      BY <1>4, <2>2
    <3>2. QED
      BY <1>1, <1>8, <1>10, <3>1 DEF Accounted
  <2>3. QED
    BY <2>1, <2>2
<1>11. QED
  BY <1>1, <1>2, <1>8, <1>9, <1>10, HandedStays

-----------------------------------------------------------------------------
(* The shutdown.                                                           *)

\* An instance without stores has nothing.
LEMMA NoStoresIs ==
  /\ DOMAIN NoStores = StoreFields /\ StoresTyped(NoStores)
  /\ NoStores.submitted = {} /\ NoStores.bundles = {}
BY DEF NoStores, StoreFields, StoresTyped

\* The shutdown takes its snapshot; what it does not reach is lost.
LEMMA ShutdownHands == ASSUME HandedInv, Shutdown PROVE HandedInv'
<1>1. /\ old.at = "running"
      /\ old' = [old EXCEPT !.at = "publishing", !.snapshot = Snapshot, !.unpublished = EntryPoints]
      /\ lost' = old.hand \cup { o \in old.submitted : \A b \in old.bundles : b.op # o }
      /\ UNCHANGED <<new, jobs, mined, dropped, misled>>
  BY DEF Shutdown
<1>2. DOMAIN old = StoreFields \cup {"at", "unpublished", "snapshot"} /\ StoresTyped(old)
  BY DEF HandedInv, HandedTypes
<1>3. /\ DOMAIN Snapshot = StoreFields
      /\ Snapshot.outstanding = old.outstanding /\ Snapshot.processing = old.processing
      /\ Snapshot.submitted = old.submitted /\ Snapshot.bundles = old.bundles
      /\ Snapshot.hand = {} /\ Snapshot.sending = {}
  BY DEF Snapshot, NoStores, StoreFields
<1>4. PICK s : s = Snapshot
  OBVIOUS
<1>5. /\ DOMAIN old' = DOMAIN old /\ StoresTyped(old') /\ old'.at = "publishing"
      /\ old'.snapshot = s /\ old'.unpublished = EntryPoints
  BY <1>1, <1>2, <1>4 DEF StoresTyped, StoreFields
<1>6. HandedTypes'
  <2>1. DOMAIN s = StoreFields /\ StoresTyped(s)
    BY <1>2, <1>3, <1>4 DEF StoresTyped
  <2>2. QED
    BY <1>1, <1>2, <1>5, <2>1 DEF HandedInv, HandedTypes, StoresTyped
<1>7. jobs = <<>> /\ dropped = {}
  BY <1>1 DEF HandedInv, StillHeld
<1>8. ASSUME NEW o \in HandedOps
      PROVE  o \in mined' \cup lost' \cup s.outstanding \cup s.processing \cup s.submitted
  BY <1>1, <1>3, <1>4 DEF HandedInv, StillHeld
<1>9. InSnapshot'
  <2>1. \A o \in HandedOps : EntryPointOf[o] \in EntryPoints
    BY DEF EntryPoints
  <2>2. QED
    BY <1>1, <1>5, <1>7, <1>8, <2>1 DEF InSnapshot, Accounted
<1>10. TravelTogether'
  <2>1. \A o \in s.submitted : (\E b \in s.bundles : b.op = o) \/ o \in lost'
    BY <1>1, <1>3, <1>4
  <2>2. DOMAIN jobs' = {}
    BY <1>1, <1>7
  <2>3. QED
    BY <1>5, <2>1, <2>2 DEF TravelTogether, Covered
<1>11. QED
  BY <1>5, <1>6, <1>9, <1>10 DEF HandedInv, StillHeld, AllAccounted

\* Everything is dropped, as nothing is published, or all but the end is.
LEMMA AllDropped ==
  ASSUME HandedInv, ShutdownDrops \/ PublishEndFails PROVE HandedInv'
<1>1. /\ dropped' = old.outstanding \cup old.processing \cup old.submitted
      /\ lost' = lost \cup old.hand
      /\ old' = [old EXCEPT !.at = "published", !.submitted = {}, !.snapshot = NoStores]
      /\ UNCHANGED <<new, jobs, mined, misled>>
      /\ \/ old.at = "running"
         \/ old.at = "publishing" /\ old.unpublished = {}
  BY DEF ShutdownDrops, PublishEndFails, DropAll
<1>2. DOMAIN old = StoreFields \cup {"at", "unpublished", "snapshot"} /\ StoresTyped(old)
  BY DEF HandedInv, HandedTypes
<1>3. /\ DOMAIN old' = DOMAIN old /\ StoresTyped(old') /\ old'.at = "published"
      /\ old'.snapshot = NoStores
  BY <1>1, <1>2 DEF StoresTyped, StoreFields
<1>4. HandedTypes'
  BY <1>1, <1>2, <1>3, NoStoresIs DEF HandedInv, HandedTypes, StoresTyped
<1>5. ASSUME NEW o \in HandedOps PROVE Accounted(o)'
  <2>1. CASE old.at = "running"
    BY <1>1, <2>1 DEF HandedInv, StillHeld, Accounted
  <2>2. CASE old.at = "publishing" /\ old.unpublished = {}
    <3>1. Accounted(o) /\ dropped = {}
      BY <2>2 DEF HandedInv, InSnapshot
    <3>2. QED
      BY <1>1, <3>1 DEF Accounted
  <2>3. QED
    BY <1>1, <2>1, <2>2
<1>6. TravelTogether'
  <2>1. \A k \in DOMAIN jobs' :
          /\ \A o \in jobs'[k].submitted : (\E b \in jobs'[k].bundles : b.op = o) \/ o \in lost' \cup mined'
          /\ jobs'[k].type = "END_RESTORATION" =>
               jobs'[k].outstanding = {} /\ jobs'[k].submitted = {}
    BY <1>1 DEF HandedInv, TravelTogether, Covered
  <2>2. QED
    BY <1>3, <2>1, NoStoresIs DEF TravelTogether, Covered
<1>7. QED
  BY <1>3, <1>4, <1>5, <1>6 DEF HandedInv, StillHeld, InSnapshot, AllAccounted

\* The message of an EntryPoint.
LEMMA MessageIs ==
  ASSUME HandedInv, NEW e
  PROVE  /\ Message(e) \in Messages
         /\ Message(e).type = "MEMPOOL_DATA" /\ Message(e).bundles = old.snapshot.bundles
         /\ Message(e).submitted = { o \in old.snapshot.submitted : EntryPointOf[o] = e }
         /\ Message(e).outstanding =
              { o \in old.snapshot.outstanding \cup old.snapshot.processing : EntryPointOf[o] = e }
<1>1. StoresTyped(old.snapshot)
  BY DEF HandedInv, HandedTypes
<1>2. QED
  BY <1>1 DEF Message, OfEntryPoint, Messages, StoresTyped

\* An EntryPoint's ops are published, or lost on the way.
LEMMA EntryPointPublished ==
  ASSUME HandedInv, NEW e \in EntryPoints, Publish(e) \/ PublishFails(e) PROVE HandedInv'
<1>1. /\ old.at = "publishing"
      /\ old' = [old EXCEPT !.unpublished = @ \ {e}]
      /\ UNCHANGED <<new, mined, dropped, lost>>
  BY DEF Publish, PublishFails, histories
<1>2. PICK m \in Messages :
        /\ m = Message(e)
        /\ m.type = "MEMPOOL_DATA" /\ m.bundles = old.snapshot.bundles
        /\ m.submitted = { o \in old.snapshot.submitted : EntryPointOf[o] = e }
        /\ m.outstanding =
             { o \in old.snapshot.outstanding \cup old.snapshot.processing : EntryPointOf[o] = e }
  BY MessageIs
<1>3. \/ m.outstanding = {} /\ m.submitted = {} /\ jobs' = jobs /\ misled' = misled
      \/ jobs' = Append(jobs, m) /\ misled' = misled
      \/ jobs' = jobs /\ misled' = misled \cup m.outstanding \cup m.submitted
  BY <1>2 DEF Publish, PublishFails, histories, EndMessage
<1>4. jobs \in Seq(Messages)
  BY DEF HandedInv, HandedTypes
<1>5. /\ jobs' \in Seq(Messages)
      /\ \A k \in DOMAIN jobs : k \in DOMAIN jobs' /\ jobs'[k] = jobs[k]
      /\ \A k \in DOMAIN jobs' : jobs'[k] = m \/ (k \in DOMAIN jobs /\ jobs'[k] = jobs[k])
      /\ jobs' = Append(jobs, m) => \E k \in DOMAIN jobs' : jobs'[k] = m
  BY <1>3, <1>4, JobsAppended
<1>6. /\ DOMAIN old' = DOMAIN old /\ old'.at = "publishing" /\ StoresTyped(old')
      /\ old'.snapshot = old.snapshot /\ old'.unpublished = old.unpublished \ {e}
  BY <1>1 DEF HandedInv, HandedTypes, StoresTyped, StoreFields
<1>7. HandedTypes'
  BY <1>1, <1>5, <1>6 DEF HandedInv, HandedTypes, StoresTyped
<1>8. \A o \in HandedOps : Accounted(o) => Accounted(o)'
  BY <1>1, <1>3, <1>5 DEF Accounted
<1>9. \A o \in HandedOps : o \in m.outstanding \cup m.submitted => Accounted(o)'
  BY <1>3, <1>5 DEF Accounted
<1>10. InSnapshot'
  <2>1. dropped' = {}
    BY <1>1 DEF HandedInv, InSnapshot
  <2>2. ASSUME NEW o \in HandedOps
        PROVE  \/ Accounted(o)'
               \/ /\ EntryPointOf[o] \in old'.unpublished
                  /\ o \in old.snapshot.outstanding \cup old.snapshot.processing \cup old.snapshot.submitted
    <3>1. \/ Accounted(o)
          \/ /\ EntryPointOf[o] \in old.unpublished
             /\ o \in old.snapshot.outstanding \cup old.snapshot.processing \cup old.snapshot.submitted
      BY <1>1 DEF HandedInv, InSnapshot
    <3>2. CASE EntryPointOf[o] # e
      BY <1>6, <1>8, <3>1, <3>2
    <3>3. CASE EntryPointOf[o] = e
      BY <1>2, <1>8, <1>9, <3>1, <3>3
    <3>4. QED
      BY <3>2, <3>3
  <2>3. QED
    BY <1>6, <2>1, <2>2 DEF InSnapshot
<1>11. TravelTogether'
  <2>1. /\ \A o \in old.snapshot.submitted : Covered(o, old.snapshot.bundles)
        /\ \A k \in DOMAIN jobs :
             /\ \A o \in jobs[k].submitted : Covered(o, jobs[k].bundles)
             /\ jobs[k].type = "END_RESTORATION" => jobs[k].outstanding = {} /\ jobs[k].submitted = {}
    BY DEF HandedInv, TravelTogether
  <2>2. \A o, bs : Covered(o, bs) => (\E b \in bs : b.op = o) \/ o \in lost' \cup mined'
    BY <1>1 DEF Covered
  <2>3. \A o \in m.submitted : (\E b \in m.bundles : b.op = o) \/ o \in lost' \cup mined'
    BY <1>2, <2>1, <2>2
  <2>4. \A k \in DOMAIN jobs' :
          /\ \A o \in jobs'[k].submitted : (\E b \in jobs'[k].bundles : b.op = o) \/ o \in lost' \cup mined'
          /\ jobs'[k].type = "END_RESTORATION" =>
               jobs'[k].outstanding = {} /\ jobs'[k].submitted = {}
    BY <1>2, <1>5, <2>1, <2>2, <2>3
  <2>5. QED
    BY <1>6, <2>1, <2>2, <2>4 DEF TravelTogether, Covered
<1>12. QED
  BY <1>6, <1>7, <1>10, <1>11 DEF HandedInv, StillHeld, AllAccounted

\* The end is published.
LEMMA EndPublished == ASSUME HandedInv, PublishEnd PROVE HandedInv'
<1>1. /\ old.at = "publishing" /\ old.unpublished = {}
      /\ old' = [old EXCEPT !.at = "published", !.snapshot = NoStores]
      /\ jobs' = Append(jobs, EndMessage)
      /\ UNCHANGED <<new, mined, dropped, lost, misled>>
  BY DEF PublishEnd, histories
<1>2. PICK m \in Messages : m = EndMessage /\ m.outstanding = {} /\ m.submitted = {}
  <2>1. EndMessage \in Messages
    BY DEF EndMessage, Messages
  <2>2. EndMessage.outstanding = {} /\ EndMessage.submitted = {}
    BY DEF EndMessage
  <2>3. QED
    BY <2>1, <2>2
<1>3. jobs \in Seq(Messages)
  BY DEF HandedInv, HandedTypes
<1>4. /\ jobs' \in Seq(Messages)
      /\ \A k \in DOMAIN jobs : k \in DOMAIN jobs' /\ jobs'[k] = jobs[k]
      /\ \A k \in DOMAIN jobs' : jobs'[k] = m \/ (k \in DOMAIN jobs /\ jobs'[k] = jobs[k])
  BY <1>1, <1>2, <1>3, JobsAppended
<1>5. /\ DOMAIN old' = DOMAIN old /\ old'.at = "published" /\ StoresTyped(old')
      /\ old'.snapshot = NoStores
  BY <1>1 DEF HandedInv, HandedTypes, StoresTyped, StoreFields
<1>6. HandedTypes'
  BY <1>1, <1>4, <1>5, NoStoresIs DEF HandedInv, HandedTypes, StoresTyped
<1>7. \A o \in HandedOps : Accounted(o)'
  BY <1>1, <1>4 DEF HandedInv, InSnapshot, Accounted
<1>8. TravelTogether'
  <2>1. \A k \in DOMAIN jobs' :
          /\ \A o \in jobs'[k].submitted : (\E b \in jobs'[k].bundles : b.op = o) \/ o \in lost' \cup mined'
          /\ jobs'[k].type = "END_RESTORATION" =>
               jobs'[k].outstanding = {} /\ jobs'[k].submitted = {}
    BY <1>1, <1>2, <1>4 DEF HandedInv, TravelTogether, Covered
  <2>2. QED
    BY <1>5, <2>1, NoStoresIs DEF TravelTogether, Covered
<1>9. QED
  BY <1>5, <1>6, <1>7, <1>8 DEF HandedInv, StillHeld, InSnapshot, AllAccounted

\* The old instance is gone.
LEMMA OldExits == ASSUME HandedInv, Exit PROVE HandedInv'
<1>1. /\ old.at = "published"
      /\ old' = OldInstance("exited", {}, { b \in old.sending \cup old.bundles : b.op \notin mined })
      /\ UNCHANGED <<new, jobs, mined, dropped, lost, misled>>
  BY DEF Exit, histories
<1>2. /\ DOMAIN old' = StoreFields \cup {"at", "unpublished", "snapshot"} /\ StoresTyped(old')
      /\ old'.at = "exited" /\ old'.snapshot = NoStores
  BY <1>1 DEF OldInstance, StoreFields, StoresTyped, HandedInv, HandedTypes
<1>3. HandedTypes'
  BY <1>1, <1>2, NoStoresIs DEF HandedInv, HandedTypes, StoresTyped
<1>4. \A o \in HandedOps : Accounted(o)'
  BY <1>1 DEF HandedInv, AllAccounted, Accounted
<1>5. TravelTogether'
  BY <1>1, <1>2, NoStoresIs DEF HandedInv, TravelTogether, Covered
<1>6. QED
  BY <1>2, <1>3, <1>4, <1>5 DEF HandedInv, StillHeld, InSnapshot, AllAccounted

\* Every step keeps it.
LEMMA NextHandedInv == HandedInv /\ [RestorationNext]_restorationVars => HandedInv'
<1> SUFFICES ASSUME HandedInv, [RestorationNext]_restorationVars PROVE HandedInv'
  OBVIOUS
<1>1. CASE UNCHANGED restorationVars
  BY <1>1 DEF restorationVars, HandedInv, HandedTypes, StoresTyped, StillHeld, InSnapshot,
              AllAccounted, TravelTogether, Accounted, Covered
<1>2. CASE RestorationNext
  BY <1>2, OldGoesOn, NewGoesOn, JobTaken, ShutdownHands, AllDropped, EntryPointPublished,
     EndPublished, OldExits DEF RestorationNext
<1>3. QED
  BY <1>1, <1>2

\* After the restart every op that the old instance had accepted is accounted for.
THEOREM NothingEverForgotten == RestorationSpec => []NothingForgotten
<1>1. HandedInv => NothingForgotten
  <2>1. SUFFICES ASSUME HandedInv, old.at = "exited", NEW o \in HandedOps
                 PROVE  o \in new.outstanding \cup { b.op : b \in new.bundles } \cup mined \cup dropped
                              \cup lost \cup misled \cup OpsOf({ jobs[k] : k \in DOMAIN jobs })
    BY DEF NothingForgotten
  <2>2. Accounted(o)
    BY <2>1 DEF HandedInv, AllAccounted
  <2>3. ASSUME NEW k \in DOMAIN jobs, o \in jobs[k].outstanding \cup jobs[k].submitted
        PROVE  o \in OpsOf({ jobs[n] : n \in DOMAIN jobs })
    BY <2>3 DEF OpsOf
  <2>4. QED
    BY <2>2, <2>3 DEF Accounted
<1>2. QED
  BY <1>1, InitHandedInv, NextHandedInv, PTL DEF RestorationSpec

-----------------------------------------------------------------------------
(* The wallets of the new instance.                                        *)

\* There are finitely many wallets, and they are counted one by one.
LEMMA FreeFinite ==
  ASSUME NEW S \in SUBSET Executors
  PROVE  /\ IsFiniteSet(S) /\ Cardinality(S) \in Nat /\ (Cardinality(S) = 0 <=> S = {})
         /\ \A w \in S : Cardinality(S \ {w}) = Cardinality(S) - 1
         /\ \A w \in Executors \ S : Cardinality(S \cup {w}) = Cardinality(S) + 1
<1>1. IsFiniteSet(S)
  BY RestorationAssumption, FS_Subset DEF RestorationAssumption
<1>2. QED
  BY <1>1, FS_CardinalityType, FS_EmptySet, FS_RemoveElement, FS_AddElement

\* A lock takes its wallet out of the list, if it is there.
LEMMA LockTakes ==
  ASSUME NEW p, PoolTypes(p), NEW w \in Executors
  PROVE  PoolTypes(LockWallet(p, w)) /\ LockWallet(p, w).free = p.free \ {w}
<1>0. PICK F \in SUBSET Executors, n \in Nat : F = p.free /\ n = p.permits /\ n = Cardinality(F)
  BY FreeFinite DEF PoolTypes
<1>1. CASE p.permits = 0
  <2>1. p.free = {}
    BY <1>0, <1>1, FreeFinite
  <2>2. LockWallet(p, w) = [p EXCEPT !.waiting = Append(@, w)]
    BY <1>1 DEF LockWallet
  <2>3. Append(p.waiting, w) \in Seq(Executors)
    BY DEF PoolTypes
  <2>4. QED
    BY <2>1, <2>2, <2>3 DEF PoolTypes
<1>2. CASE p.permits # 0 /\ w \notin p.free
  BY <1>2 DEF LockWallet
<1>3. CASE p.permits # 0 /\ w \in p.free
  <2>1. LockWallet(p, w) = [p EXCEPT !.free = @ \ {w}, !.permits = @ - 1]
    BY <1>3 DEF LockWallet
  <2>2. Cardinality(F \ {w}) = n - 1
    BY <1>0, <1>3, FreeFinite
  <2>3. QED
    BY <1>0, <2>1, <2>2 DEF PoolTypes
<1>4. QED
  BY <1>1, <1>2, <1>3

\* One step of the recursion of LockAll, over the places of ws.
LockStep(p, ws, g, T) == IF T = {} THEN p ELSE LockWallet(g[T \ {Max(T)}], ws[Max(T)])

Locks(p, ws, g) == g = [T \in SUBSET (DOMAIN ws) |-> LockStep(p, ws, g, T)]

\* A finite set of numbers has a largest.
LEMMA MaxIn ==
  ASSUME NEW n \in Nat, NEW T \in SUBSET (1 .. n), T # {}
  PROVE  Max(T) \in T
<1> DEFINE D == { n - x : x \in T }
<1>1. D \in SUBSET Nat /\ D # {}
  <2>1. \A x \in T : n - x \in Nat
    OBVIOUS
  <2>2. QED
    BY <2>1
<1> HIDE DEF D
<1>2. PICK d \in D : \A e \in D : d <= e
  BY <1>1, LeastElement
<1>3. PICK x \in T : d = n - x
  BY DEF D
<1>4. \A y \in T : x >= y
  <2>1. SUFFICES ASSUME NEW y \in T PROVE x >= y
    OBVIOUS
  <2>2. n - y \in D
    BY DEF D
  <2>3. n - x <= n - y /\ x \in Nat /\ y \in Nat
    BY <1>2, <1>3, <2>2
  <2>4. QED
    BY <2>3
<1>5. QED
  BY <1>4 DEF Max

\* The recursion has a solution.
LEMMA LocksExist ==
  ASSUME NEW p, NEW ws, NEW m \in Nat, DOMAIN ws = 1 .. m
  PROVE  \E g : Locks(p, ws, g)
<1> DEFINE S == DOMAIN ws
           Upto(g, n) == \A T \in SUBSET S : Cardinality(T) <= n => g[T] = LockStep(p, ws, g, T)
           Good == { n \in Nat : \E g : Upto(g, n) }
<1>a. /\ IsFiniteSet(S)
      /\ \A T \in SUBSET S : IsFiniteSet(T) /\ Cardinality(T) \in Nat /\ (T # {} => Max(T) \in T)
  <2>1. IsFiniteSet(1 .. m)
    BY FS_Interval
  <2>2. ASSUME NEW T \in SUBSET (1 .. m)
        PROVE  IsFiniteSet(T) /\ Cardinality(T) \in Nat /\ (T # {} => Max(T) \in T)
    BY <2>1, FS_Subset, FS_CardinalityType, MaxIn
  <2>3. QED
    BY <2>1, <2>2
<1> HIDE DEF S
<1>1. 0 \in Good
  <2> DEFINE g == [T \in SUBSET S |-> p]
  <2>1. \A T \in SUBSET S : Cardinality(T) <= 0 => T = {}
    BY <1>a, FS_EmptySet
  <2>2. Upto(g, 0)
    BY <2>1 DEF LockStep
  <2>3. QED
    BY <2>2
<1>2. ASSUME NEW n \in Nat, n \in Good PROVE n + 1 \in Good
  <2>1. PICK g : Upto(g, n)
    BY <1>2
  <2> DEFINE h == [T \in SUBSET S |-> LockStep(p, ws, g, T)]
  <2>2. ASSUME NEW T \in SUBSET S, Cardinality(T) <= n + 1
        PROVE  h[T] = LockStep(p, ws, h, T)
    <3>1. CASE T = {}
      BY <3>1 DEF LockStep
    <3>2. CASE T # {}
      <4> DEFINE c == Max(T)
                 U == T \ {c}
      <4>1. c \in T
        BY <1>a, <3>2
      <4>2. U \in SUBSET S /\ Cardinality(U) = Cardinality(T) - 1
        BY <1>a, <4>1, FS_RemoveElement
      <4>3. Cardinality(U) <= n
        BY <1>a, <2>2, <4>2
      <4>4. g[U] = LockStep(p, ws, g, U)
        BY <2>1, <4>2, <4>3
      <4>5. h[U] = g[U]
        BY <4>2, <4>4
      <4>6. h[T] = LockWallet(g[U], ws[c]) /\ LockStep(p, ws, h, T) = LockWallet(h[U], ws[c])
        BY <3>2 DEF LockStep
      <4>7. QED
        BY <4>5, <4>6
    <3>3. QED
      BY <3>1, <3>2
  <2>3. Upto(h, n + 1)
    BY <2>2
  <2> HIDE DEF h
  <2>4. \E w : Upto(w, n + 1)
    BY <2>3, Zenon
  <2>5. QED
    BY <2>4
<1> HIDE DEF Good
<1>3. Cardinality(S) \in Good
  BY <1>a, <1>1, <1>2, InductionOnNat
<1>4. PICK g : Upto(g, Cardinality(S))
  BY <1>3 DEF Good
<1> DEFINE h == [T \in SUBSET S |-> g[T]]
<1>5. ASSUME NEW T \in SUBSET S PROVE h[T] = LockStep(p, ws, h, T)
  <2>1. Cardinality(T) <= Cardinality(S)
    BY <1>a, FS_Subset
  <2>2. g[T] = LockStep(p, ws, g, T)
    BY <1>4, <2>1
  <2>3. T # {} => h[T \ {Max(T)}] = g[T \ {Max(T)}]
    OBVIOUS
  <2>4. LockStep(p, ws, h, T) = LockStep(p, ws, g, T)
    BY <2>3 DEF LockStep
  <2>5. QED
    BY <2>2, <2>4
<1>6. h = [T \in SUBSET S |-> LockStep(p, ws, h, T)]
  BY <1>5
<1>7. QED
  BY <1>6 DEF Locks, S

\* All locks of a message take their wallets, in whichever order.
LEMMA LocksTake ==
  ASSUME NEW p, PoolTypes(p), NEW wallets \in SUBSET Executors, NEW q \in LockAll(p, wallets)
  PROVE  PoolTypes(q) /\ q.free = p.free \ wallets
<1>1. PICK ws \in SetToSeqs(wallets) : q = FoldLeft(LockWallet, p, ws)
  BY DEF LockAll
<1>2. PICK m \in Nat : m = Cardinality(wallets) /\ IsFiniteSet(wallets)
  BY FreeFinite
<1>3. ws \in [1 .. m -> wallets] /\ \A i, j \in 1 .. m : i # j => ws[i] # ws[j]
  BY <1>2 DEF SetToSeqs
<1>4. \A w \in wallets : \E i \in 1 .. m : ws[i] = w
  <2>1. IsFiniteSet(1 .. m) /\ Cardinality(1 .. m) = m
    BY FS_Interval
  <2>2. ws \in Injection(1 .. m, wallets)
    BY <1>3 DEF Injection, IsInjective
  <2>3. ws \in Surjection(1 .. m, wallets)
    BY <1>2, <2>1, <2>2, FS_Injection
  <2>4. QED
    BY <2>3 DEF Surjection
<1> DEFINE g == CHOOSE g : Locks(p, ws, g)
<1>5. Locks(p, ws, g)
  <2>1. \E h : Locks(p, ws, h)
    BY <1>3, LocksExist
  <2>2. QED
    BY <2>1
<1>6. q = g[1 .. m]
  BY <1>1, <1>3 DEF FoldLeft, MapThenFoldSet, Locks, LockStep
<1> HIDE DEF g
<1>7. ASSUME NEW T \in SUBSET (1 .. m)
      PROVE  g[T] = IF T = {} THEN p ELSE LockWallet(g[T \ {Max(T)}], ws[Max(T)])
  BY <1>3, <1>5 DEF Locks, LockStep
<1> DEFINE Fine(T) == PoolTypes(g[T]) /\ g[T].free = p.free \ { ws[i] : i \in T }
           B == { T \in SUBSET (1 .. m) : ~Fine(T) }
<1>8. B = {}
  <2> SUFFICES ASSUME B # {} PROVE FALSE
    OBVIOUS
  <2>1. B \in SUBSET SUBSET (1 .. m) /\ IsFiniteSet(1 .. m)
    BY FS_Interval
  <2> HIDE DEF B
  <2>2. PICK T \in B : \A U \in B : U \subseteq T => U = T
    <3>1. PICK D : IsFiniteSet(D) /\ B \in SUBSET SUBSET D
      BY <2>1
    <3>2. QED
      BY ONLY <3>1, B # {}, MinimalSubset
  <2> USE DEF B
  <2>3. T \in SUBSET (1 .. m) /\ ~Fine(T)
    OBVIOUS
  <2>4. T # {}
    BY <1>7, <2>3
  <2>5. PICK x \in T : x = Max(T)
    BY <2>3, <2>4, MaxIn
  <2>6. Fine(T \ {x})
    BY <2>2, <2>3, <2>5
  <2>7. g[T] = LockWallet(g[T \ {x}], ws[x])
    BY <1>7, <2>3, <2>4, <2>5
  <2>8. ws[x] \in Executors
    BY <1>3, <2>3
  <2>9. PoolTypes(g[T]) /\ g[T].free = g[T \ {x}].free \ {ws[x]}
    <3>1. PICK r : r = g[T \ {x}] /\ PoolTypes(r)
      BY <2>6
    <3>2. PICK w \in Executors : w = ws[x]
      BY <2>8
    <3>3. PoolTypes(LockWallet(r, w)) /\ LockWallet(r, w).free = r.free \ {w}
      BY ONLY <3>1, w \in Executors, LockTakes
    <3>4. QED
      BY <2>7, <3>1, <3>2, <3>3
  <2>10. { ws[i] : i \in T } = { ws[i] : i \in T \ {x} } \cup {ws[x]}
    OBVIOUS
  <2>11. Fine(T)
    BY <2>6, <2>9, <2>10
  <2>12. QED
    BY <2>3, <2>11
<1>9. Fine(1 .. m)
  BY <1>8
<1>10. { ws[i] : i \in 1 .. m } = wallets
  BY <1>3, <1>4
<1>11. QED
  BY <1>6, <1>9, <1>10

\* A wallet that comes back is free, or the wallet of a call that waited is taken.
LEMMA WalletReturns ==
  ASSUME NEW p, PoolTypes(p), NEW w \in Executors
  PROVE  LET q == MarkProcessed(p, w)
         IN  /\ PoolTypes(q)
             /\ q.free \subseteq p.free \cup {w}
<1>1. CASE w \in p.free
  BY <1>1 DEF MarkProcessed
<1>2. CASE w \notin p.free
  <2> DEFINE q == [p EXCEPT !.free = @ \cup {w}]
  <2>0. PICK F \in SUBSET Executors, n \in Nat : F = p.free /\ n = p.permits /\ n = Cardinality(F)
    BY FreeFinite DEF PoolTypes
  <2>1. /\ DOMAIN q = {"free", "permits", "waiting"} /\ q.free = F \cup {w} /\ q.permits = n
        /\ q.waiting = p.waiting /\ p.waiting \in Seq(Executors)
    BY <2>0 DEF PoolTypes
  <2>2. Cardinality(F \cup {w}) = n + 1 /\ F \cup {w} \in SUBSET Executors
    BY <1>2, <2>0, FreeFinite
  <2>3. MarkProcessed(p, w) = HandOn(q)
    BY <1>2 DEF MarkProcessed
  <2> HIDE DEF q
  <2> DEFINE hits == { k \in DOMAIN q.waiting : q.waiting[k] \in q.free }
             k == CHOOSE i \in hits : \A j \in hits : i <= j
  <2>4. CASE hits = {}
    <3>1. HandOn(q) = [q EXCEPT !.waiting = <<>>, !.permits = @ + 1]
      BY <2>4 DEF HandOn
    <3>2. <<>> \in Seq(Executors)
      OBVIOUS
    <3>3. QED
      BY <2>0, <2>1, <2>2, <2>3, <3>1, <3>2 DEF PoolTypes
  <2>5. CASE hits # {}
    <3>1. HandOn(q) = [q EXCEPT !.free = @ \ {q.waiting[k]},
                                !.waiting = SubSeq(q.waiting, k + 1, Len(q.waiting))]
      BY <2>5 DEF HandOn
    <3>2. hits \in SUBSET Nat
      BY <2>1
    <3>3. k \in hits
      <4> HIDE DEF hits
      <4>1. \E i \in hits : \A j \in hits : i <= j
        BY <2>5, <3>2, LeastElement
      <4>2. QED
        BY <4>1
    <3>4. PICK v \in F \cup {w} : v = q.waiting[k]
      BY <2>1, <3>3
    <3>5. Cardinality((F \cup {w}) \ {v}) = n
      BY <2>0, <2>2, FreeFinite
    <3>6. SubSeq(q.waiting, k + 1, Len(q.waiting)) \in Seq(Executors)
      <4>1. PICK i \in DOMAIN q.waiting : i = k
        BY <3>3
      <4>2. q.waiting \in Seq(Executors)
        BY <2>1
      <4>3. i \in Nat /\ Len(q.waiting) \in Nat /\ i + 1 \in 1 .. (Len(q.waiting) + 1)
        BY ONLY <4>2, i \in DOMAIN q.waiting
      <4>4. SubSeq(q.waiting, i + 1, Len(q.waiting)) \in Seq(Executors)
        BY ONLY <4>2, <4>3
      <4> HIDE DEF k
      <4>5. QED
        BY <4>1, <4>4
    <3> HIDE DEF k, hits
    <3>7. QED
      BY <2>0, <2>1, <2>2, <2>3, <3>1, <3>4, <3>5, <3>6 DEF PoolTypes
  <2>6. QED
    BY <2>4, <2>5
<1>3. QED
  BY <1>1, <1>2

\* All wallets are free at first, and no bundle is sent.
LEMMA InitWalletsInv == RestorationInit => WalletsInv
<1> SUFFICES ASSUME RestorationInit PROVE WalletsInv
  OBVIOUS
<1>1. PoolTypes(pool) /\ pool.free = Executors
  <2>1. <<>> \in Seq(Executors)
    OBVIOUS
  <2>2. QED
    BY <2>1 DEF RestorationInit, PoolTypes
<1>2. /\ old.bundles = {} /\ old.sending = {} /\ old.snapshot.bundles = {} /\ new.bundles = {}
      /\ jobs = <<>>
  BY DEF RestorationInit, OldInstance, NoStores
<1>3. QED
  BY <1>1, <1>2 DEF WalletsInv, OldWallets, NewWallets, OnePerWallet

\* The old instance's steps, but for what it publishes.
LEMMA OldWalletsStay ==
  ASSUME HandedInv, OldWallets,
         \/ \E o \in HandedOps : OldPops(o) \/ OldTakes(o) \/ \E w \in Executors : OldSends(o, w)
         \/ \E b \in old.sending : OldMarks(b) \/ OldTracks(b)
         \/ \E b \in old.bundles : OldSettles(b)
  PROVE  OldWallets' /\ UNCHANGED <<pool, new, shared, relocked>>
<1>1. UNCHANGED <<jobs, pool, new, shared, relocked>>
  BY DEF OldPops, OldTakes, OldSends, OldMarks, OldTracks, OldSettles, histories
<1>2. DOMAIN old = StoreFields \cup {"at", "unpublished", "snapshot"}
  BY DEF HandedInv, HandedTypes
<1>3. /\ old'.at = old.at /\ old'.snapshot = old.snapshot
      /\ \/ old'.bundles \cup old'.sending \subseteq old.bundles \cup old.sending
         \/ \E b : /\ old'.bundles \cup old'.sending = old.bundles \cup old.sending \cup {b}
                   /\ \A c \in old.bundles \cup old.sending : c.executor # b.executor
  <2>1. ASSUME NEW o \in HandedOps, OldPops(o) \/ OldTakes(o) PROVE <1>3!:
    BY <1>2, <2>1 DEF OldPops, OldTakes, StoreFields
  <2>2. ASSUME NEW o \in HandedOps, NEW w \in Executors, OldSends(o, w) PROVE <1>3!:
    <3>1. /\ old' = [old EXCEPT !.sending = @ \cup {Bundle(o, w)}]
          /\ \A c \in old.bundles \cup old.sending : c.executor # w
      BY <2>2 DEF OldSends, OldUses
    <3>2. Bundle(o, w).executor = w
      BY DEF Bundle
    <3>3. QED
      BY <1>2, <3>1, <3>2 DEF StoreFields
  <2>3. ASSUME NEW b \in old.sending, OldMarks(b) PROVE <1>3!:
    BY <1>2, <2>3 DEF OldMarks, StoreFields
  <2>4. ASSUME NEW b \in old.sending, OldTracks(b) PROVE <1>3!:
    BY <1>2, <2>4 DEF OldTracks, StoreFields
  <2>5. ASSUME NEW b \in old.bundles, OldSettles(b) PROVE <1>3!:
    BY <1>2, <2>5 DEF OldSettles, StoreFields
  <2>6. QED
    BY <2>1, <2>2, <2>3, <2>4, <2>5
<1>4. OnePerWallet(old.bundles \cup old.sending) => OnePerWallet(old'.bundles \cup old'.sending)
  BY <1>3 DEF OnePerWallet
<1>5. QED
  BY <1>1, <1>3, <1>4 DEF OldWallets, OnePerWallet

\* What the old instance publishes, and its end.
LEMMA PublishedWallets ==
  ASSUME HandedInv, OldWallets,
         \/ Shutdown \/ ShutdownDrops \/ PublishEnd \/ PublishEndFails \/ Exit
         \/ \E e \in EntryPoints : Publish(e) \/ PublishFails(e)
  PROVE  OldWallets' /\ UNCHANGED <<pool, new, shared, relocked>>
<1>1. UNCHANGED <<pool, new, shared, relocked>>
  BY DEF Shutdown, ShutdownDrops, PublishEnd, PublishEndFails, Exit, Publish, PublishFails, DropAll,
         histories
<1>2. DOMAIN old = StoreFields \cup {"at", "unpublished", "snapshot"} /\ jobs \in Seq(Messages)
  BY DEF HandedInv, HandedTypes
<1>3. OnePerWallet({}) /\ NoStores.bundles = {}
  BY DEF OnePerWallet, NoStores
<1>4. /\ old'.at # "running"
      /\ \/ old'.snapshot = old.snapshot
         \/ old'.snapshot = NoStores
         \/ /\ old.at = "running" /\ old'.snapshot.bundles = old.bundles
      /\ \/ jobs' = jobs
         \/ \E m \in Messages : jobs' = Append(jobs, m) /\ m.bundles \in {{}, old.snapshot.bundles}
  <2>1. CASE Shutdown
    <3>1. /\ old.at = "running" /\ jobs' = jobs
          /\ old' = [old EXCEPT !.at = "publishing", !.snapshot = Snapshot, !.unpublished = EntryPoints]
      BY <2>1 DEF Shutdown
    <3>2. Snapshot.bundles = old.bundles
      BY DEF Snapshot, NoStores
    <3>3. QED
      BY <1>2, <3>1, <3>2
  <2>2. CASE ShutdownDrops \/ PublishEndFails
    BY <1>2, <2>2 DEF ShutdownDrops, PublishEndFails, DropAll
  <2>3. CASE PublishEnd
    <3>1. /\ old' = [old EXCEPT !.at = "published", !.snapshot = NoStores]
          /\ jobs' = Append(jobs, EndMessage)
      BY <2>3 DEF PublishEnd
    <3>2. EndMessage \in Messages /\ EndMessage.bundles = {}
      BY DEF EndMessage, Messages
    <3>3. QED
      BY <1>2, <3>1, <3>2
  <2>4. CASE Exit
    BY <1>2, <2>4 DEF Exit, OldInstance
  <2>5. ASSUME NEW e \in EntryPoints, Publish(e) \/ PublishFails(e) PROVE <1>4!:
    <3>1. /\ old.at = "publishing" /\ old' = [old EXCEPT !.unpublished = @ \ {e}]
          /\ jobs' = jobs \/ jobs' = Append(jobs, Message(e))
      BY <2>5 DEF Publish, PublishFails
    <3>2. Message(e) \in Messages /\ Message(e).bundles = old.snapshot.bundles
      BY MessageIs
    <3>3. QED
      BY <1>2, <3>1, <3>2
  <2>6. QED
    BY <2>1, <2>2, <2>3, <2>4, <2>5
<1>5. OnePerWallet(old'.snapshot.bundles)
  BY <1>3, <1>4 DEF OldWallets, OnePerWallet
<1>6. \A k \in DOMAIN jobs' : OnePerWallet(jobs'[k].bundles)
  <2>1. CASE jobs' = jobs
    BY <2>1 DEF OldWallets
  <2>2. ASSUME NEW m \in Messages, jobs' = Append(jobs, m), m.bundles \in {{}, old.snapshot.bundles}
        PROVE  <1>6!:
    <3>1. OnePerWallet(m.bundles)
      BY <1>3, <2>2 DEF OldWallets
    <3>2. \A k \in DOMAIN jobs' : jobs'[k] = m \/ (k \in DOMAIN jobs /\ jobs'[k] = jobs[k])
      BY <1>2, <2>2, JobsAppended
    <3>3. QED
      BY <3>1, <3>2 DEF OldWallets
  <2>3. QED
    BY <1>4, <2>1, <2>2
<1>7. QED
  BY <1>1, <1>4, <1>5, <1>6 DEF OldWallets, OnePerWallet

\* A job is taken that brings no bundles to the new instance.
LEMMA JobWallets ==
  ASSUME HandedInv, OldWallets, Restore \/ RestoreFails \/ TakeOwn \/ \E i \in {"old", "new"} : EndRestoration(i)
  PROVE  OldWallets' /\ (~Restore => UNCHANGED <<pool, new, shared, relocked>>)
<1>1. jobs # <<>> /\ jobs' = Tail(jobs)
  BY DEF Restore, RestoreFails, TakeOwn, EndRestoration
<1>2. ~Restore => UNCHANGED <<pool, new, shared, relocked>>
  BY DEF Restore, RestoreFails, TakeOwn, EndRestoration, histories
<1>3. DOMAIN old = StoreFields \cup {"at", "unpublished", "snapshot"} /\ jobs \in Seq(Messages)
  BY DEF HandedInv, HandedTypes
<1>4. old.at # "running" /\ old'.at = old.at /\ old'.snapshot = old.snapshot
  BY <1>1, <1>3 DEF OldWallets, Restore, RestoreFails, TakeOwn, EndRestoration
<1>5. \A k \in DOMAIN jobs' : k + 1 \in DOMAIN jobs /\ jobs'[k] = jobs[k + 1]
  BY <1>1, <1>3, JobsOf
<1>6. QED
  BY <1>2, <1>4, <1>5 DEF OldWallets, OnePerWallet

\* The new instance takes a message: what comes with it is locked.
LEMMA RestoreWallets ==
  ASSUME HandedInv, WalletsInv, Restore PROVE NewWallets'
<1>1. jobs # <<>> /\ jobs \in Seq(Messages) /\ DOMAIN new = StoreFields
  BY DEF Restore, HandedInv, HandedTypes
<1>2. PICK m \in Messages : m = Head(jobs) /\ OnePerWallet(m.bundles)
  BY <1>1, JobsOf DEF WalletsInv, OldWallets
<1>3. PICK W : W = { b.executor : b \in m.bundles }
  OBVIOUS
<1>4. W \in SUBSET Executors
  BY <1>3 DEF Messages, HandedBundles
<1>5. /\ new'.bundles = new.bundles \cup m.bundles
      /\ pool' \in LockAll(pool, W) /\ relocked' = relocked
      /\ shared' = shared \cup { b.executor : b \in { c \in m.bundles \ new.bundles :
                                  \E d \in new.bundles : d.executor = c.executor } }
  BY <1>1, <1>2, <1>3 DEF Restore, RestoredLocked, StoreFields
<1>6. PoolTypes(pool') /\ pool'.free = pool.free \ W
  BY <1>4, <1>5, LocksTake DEF WalletsInv, NewWallets
<1>7. /\ \A b \in m.bundles : b.executor \in W
      /\ \A w \in W : \E b \in m.bundles : b.executor = w
  BY <1>3
<1>8. /\ shared \subseteq shared'
      /\ \A b \in m.bundles \ new.bundles, d \in new.bundles : d.executor = b.executor => b.executor \in shared'
  BY <1>5
<1>9. ASSUME NEW b \in new'.bundles, NEW c \in new'.bundles, b.executor = c.executor,
             b.executor \notin shared'
      PROVE  b = c
  <2>1. CASE b \in new.bundles /\ c \in new.bundles
    BY <1>8, <1>9, <2>1 DEF WalletsInv, NewWallets
  <2>2. CASE b \notin new.bundles /\ c \notin new.bundles
    BY <1>2, <1>5, <1>9, <2>2 DEF OnePerWallet
  <2>3. QED
    BY <1>5, <1>8, <1>9, <2>1, <2>2
<1>10. ASSUME NEW b \in new'.bundles, b.executor \in pool'.free PROVE b.executor \in shared'
  BY <1>5, <1>6, <1>7, <1>8, <1>10 DEF WalletsInv, NewWallets
<1>11. ASSUME NEW w \in Executors \ (shared' \cup relocked'), w \notin pool'.free
       PROVE  \E b \in new'.bundles : b.executor = w
  BY <1>5, <1>6, <1>7, <1>8, <1>11 DEF WalletsInv, NewWallets
<1>12. QED
  BY <1>6, <1>9, <1>10, <1>11 DEF NewWallets

\* The new instance sends.
LEMMA SendWallets ==
  ASSUME HandedInv, NewWallets, NEW o \in HandedOps, NEW w \in Executors, NewSends(o, w)
  PROVE  NewWallets'
<1>1. /\ w \in pool.free
      /\ pool' = [pool EXCEPT !.free = @ \ {w}, !.permits = @ - 1]
      /\ new' = [new EXCEPT !.outstanding = @ \ {o}, !.submitted = @ \cup {o},
                            !.bundles = @ \cup {Bundle(o, w)}]
      /\ UNCHANGED <<shared, relocked>>
  BY DEF NewSends, histories
<1>2. DOMAIN new = StoreFields
  BY DEF HandedInv, HandedTypes
<1>3. PICK d : d = Bundle(o, w) /\ d.executor = w
  <2>1. Bundle(o, w).executor = w
    BY DEF Bundle
  <2>2. QED
    BY <2>1
<1>4. new'.bundles = new.bundles \cup {d}
  BY <1>1, <1>2, <1>3 DEF StoreFields
<1>5. PoolTypes(pool') /\ pool'.free = pool.free \ {w}
  <2>1. PICK F \in SUBSET Executors, n \in Nat : F = pool.free /\ n = pool.permits /\ n = Cardinality(F)
    BY FreeFinite DEF NewWallets, PoolTypes
  <2>2. Cardinality(F \ {w}) = n - 1
    BY <1>1, <2>1, FreeFinite
  <2>3. QED
    BY <1>1, <2>1, <2>2 DEF NewWallets, PoolTypes
<1>6. \A b \in new.bundles : b.executor = w => w \in shared
  BY <1>1 DEF NewWallets
<1>7. QED
  BY <1>1, <1>3, <1>4, <1>5, <1>6 DEF NewWallets

\* A bundle of the new instance is settled.
LEMMA SettleWallets ==
  ASSUME HandedInv, NewWallets, NEW d \in new.bundles, NewSettles(d) PROVE NewWallets'
<1>1. DOMAIN new = StoreFields /\ new.bundles \subseteq HandedBundles
  BY DEF HandedInv, HandedTypes, StoresTyped
<1>2. PICK w \in Executors : w = d.executor
  BY <1>1 DEF HandedBundles
<1>3. /\ new'.bundles = new.bundles \ {d}
      /\ pool' = MarkProcessed(pool, w) /\ shared' = shared
      /\ relocked' = relocked \cup ((pool.free \cup {w}) \ pool'.free)
  BY <1>1, <1>2 DEF NewSettles, StoreFields
<1>4. PoolTypes(pool') /\ pool'.free \subseteq pool.free \cup {w}
  BY <1>3, WalletReturns DEF NewWallets
<1>5. \A b \in new.bundles : b.executor = w /\ w \notin shared => b = d
  BY <1>2 DEF NewWallets
<1>6. QED
  BY <1>2, <1>3, <1>4, <1>5 DEF NewWallets

\* Every step keeps it.
LEMMA NextWalletsInv ==
  ASSUME HandedInv, WalletsInv, [RestorationNext]_restorationVars PROVE WalletsInv'
<1>1. OldWallets /\ NewWallets
  BY DEF WalletsInv
<1>2. ASSUME OldWallets', UNCHANGED <<pool, new, shared, relocked>> PROVE WalletsInv'
  BY <1>1, <1>2 DEF WalletsInv, NewWallets, PoolTypes
<1>3. ASSUME UNCHANGED <<old, jobs>>, NewWallets' PROVE WalletsInv'
  BY <1>1, <1>3 DEF WalletsInv, OldWallets, OnePerWallet
<1>4. CASE \/ \E o \in HandedOps : OldPops(o) \/ OldTakes(o) \/ \E w \in Executors : OldSends(o, w)
           \/ \E b \in old.sending : OldMarks(b) \/ OldTracks(b)
           \/ \E b \in old.bundles : OldSettles(b)
  BY ONLY <1>1, <1>2, <1>4, OldWalletsStay, HandedInv
<1>5. CASE \/ Shutdown \/ ShutdownDrops \/ PublishEnd \/ PublishEndFails \/ Exit
           \/ \E e \in EntryPoints : Publish(e) \/ PublishFails(e)
  BY ONLY <1>1, <1>2, <1>5, PublishedWallets, HandedInv
<1>6. CASE Restore \/ RestoreFails \/ TakeOwn \/ \E i \in {"old", "new"} : EndRestoration(i)
  <2>1. OldWallets' /\ (~Restore => UNCHANGED <<pool, new, shared, relocked>>)
    BY ONLY <1>1, <1>6, JobWallets, HandedInv
  <2>2. CASE Restore
    BY ONLY <2>1, <2>2, RestoreWallets, HandedInv, WalletsInv DEF WalletsInv
  <2>3. QED
    BY <1>2, <2>1, <2>2
<1>7. ASSUME NEW o \in HandedOps, NEW w \in Executors, NewSends(o, w) PROVE WalletsInv'
  <2>1. NewWallets' /\ UNCHANGED <<old, jobs>>
    BY <1>1, <1>7, SendWallets DEF NewSends
  <2>2. QED
    BY <1>3, <2>1
<1>8. ASSUME NEW b \in new.bundles, NewSettles(b) PROVE WalletsInv'
  <2>1. NewWallets' /\ UNCHANGED <<old, jobs>>
    BY <1>1, <1>8, SettleWallets DEF NewSettles
  <2>2. QED
    BY <1>3, <2>1
<1>9. CASE \/ \E o \in HandedOps : Mined(o) \/ NewDrops(o)
           \/ \E i \in {"old", "new"} : ListenerTimeout(i)
           \/ UNCHANGED restorationVars
  <2>1. UNCHANGED <<old, jobs, pool, shared, relocked>> /\ new'.bundles = new.bundles
    BY <1>9 DEF Mined, NewDrops, ListenerTimeout, histories, restorationVars, HandedInv, HandedTypes,
                StoreFields
  <2>2. NewWallets'
    BY <1>1, <2>1 DEF NewWallets, PoolTypes
  <2>3. QED
    BY <1>3, <2>1, <2>2
<1>10. QED
  BY <1>4, <1>5, <1>6, <1>7, <1>8, <1>9 DEF RestorationNext

\* A wallet of the new instance is free just when none of its bundles is sent from it.
THEOREM WalletsAlwaysFollow == RestorationSpec => []WalletsFollowBundles
<1> DEFINE Inv == HandedInv /\ WalletsInv
<1>1. RestorationInit => Inv
  BY InitHandedInv, InitWalletsInv
<1>2. Inv /\ [RestorationNext]_restorationVars => Inv'
  BY NextHandedInv, NextWalletsInv
<1>3. Inv => WalletsFollowBundles
  BY DEF WalletsInv, NewWallets, WalletsFollowBundles
<1>4. QED
  BY <1>1, <1>2, <1>3, PTL DEF RestorationSpec
-----------------------------------------------------------------------------
(* The instances together.                                                 *)

\* A behaviour of the instances is one of each thing that they share.
THEOREM EachIsShared ==
  Spec => /\ OutstandingSpec /\ StoresSpec /\ WalletsSpec /\ WindowSpec /\ RestorationSpec
<1>1. Init => OutstandingInit /\ StoresInit /\ WalletsInit /\ WindowInit /\ RestorationInit
  BY DEF Init
<1>2. [Next]_vars => /\ [OutstandingNext]_outstandingVars /\ [StoresNext]_storeVars
                     /\ [WalletsNext]_walletVars /\ [WindowNext]_windowVars
                     /\ [RestorationNext]_restorationVars
  BY DEF Next, vars
<1>3. QED
  BY <1>1, <1>2, PTL DEF Spec, OutstandingSpec, StoresSpec, WalletsSpec, WindowSpec, RestorationSpec

\* So what is proved of each holds of the instances, whatever they do.
THEOREM InstancesAreSafe ==
  Spec => /\ []WalletHeldOnce /\ []SharedAnswerIsFresh /\ []SlotsAreConsistent /\ []PoppedByOne
          /\ []SettledLeavesNothing /\ []NothingForgotten /\ []WalletsFollowBundles
BY EachIsShared, WalletAlwaysHeldOnce, AnswersAlwaysFresh, SlotsAlwaysConsistent, AlwaysPoppedByOne,
   SettledAlwaysLeaves, NothingEverForgotten, WalletsAlwaysFollow, PTL
=============================================================================
