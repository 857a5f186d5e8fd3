------------------------ MODULE MemorySenderManager ------------------------
(***************************************************************************)
(* The pool of executor wallets of one process                             *)
(* (src/src/executor/senderManager/createMemorySenderManager.ts): a FIFO   *)
(* list of free wallets guarded by a counting semaphore.  A caller awaits  *)
(* the semaphore and only afterwards, in a later turn of the event loop,   *)
(* touches the list, so other calls run between its permit and its wallet. *)
(***************************************************************************)
EXTENDS Naturals, Sequences, FiniteSets

CONSTANTS
  Wallets,            \* the executor accounts of this process
  WalletOrder,        \* the same accounts in the order of the configuration
  Callers,            \* concurrent users of the pool (bundles, restorations)
  NoWallet,           \* what a caller without a wallet holds
  MaxSecondReleases   \* bound: how often callers release a wallet once more

ASSUME SenderAssumption ==
  /\ IsFiniteSet(Callers)
  /\ NoWallet \notin Wallets
  /\ MaxSecondReleases \in Nat
  /\ WalletOrder \in Seq(Wallets)
  /\ \A i, k \in DOMAIN WalletOrder : WalletOrder[i] = WalletOrder[k] => i = k

VARIABLES
  availableWallets,   \* the free wallets, next one to hand out first
  value,              \* free permits of the semaphore
  queue,              \* callers waiting for a permit, in order
  pc,                 \* where each caller is
  want,               \* wallet lockWallet asks for, NoWallet in getWallet
  held,               \* wallet a caller works with
  last,               \* wallet a caller released last
  secondReleases,     \* how many second releases have happened
  stolen              \* wallets a second release took from a later holder

vars == <<availableWallets, value, queue, pc, want, held, last,
          secondReleases, stolen>>

Free == { availableWallets[i] : i \in DOMAIN availableWallets }
Granted == { c \in Callers : pc[c] = "granted" }

Init ==
  /\ availableWallets = WalletOrder
  /\ value = Len(WalletOrder)
  /\ queue = <<>>
  /\ pc = [c \in Callers |-> "idle"]
  /\ want = [c \in Callers |-> NoWallet]
  /\ held = [c \in Callers |-> NoWallet]
  /\ last = [c \in Callers |-> NoWallet]
  /\ secondReleases = 0
  /\ stolen = {}

-----------------------------------------------------------------------------
(* The semaphore of async-mutex, as getWallet and lockWallet use it.       *)

Acquire(c) ==
  IF queue = <<>> /\ value > 0
    THEN /\ value' = value - 1
         /\ pc' = [pc EXCEPT ![c] = "granted"]
         /\ UNCHANGED queue
    ELSE /\ queue' = Append(queue, c)
         /\ pc' = [pc EXCEPT ![c] = "waiting"]
         /\ UNCHANGED value

\* A released permit goes to the first waiter; pcs is pc without the waiter.
ReleasePermit(pcs) ==
  IF queue = <<>>
    THEN /\ value' = value + 1
         /\ pc' = pcs
         /\ UNCHANGED queue
    ELSE /\ queue' = Tail(queue)
         /\ pc' = [pcs EXCEPT ![Head(queue)] = "granted"]
         /\ UNCHANGED value

-----------------------------------------------------------------------------

\* getWallet, up to its await.
GetWallet(c) ==
  /\ pc[c] = "idle"
  /\ Acquire(c)
  /\ want' = [want EXCEPT ![c] = NoWallet]
  /\ UNCHANGED <<availableWallets, held, last, secondReleases, stolen>>

\* lockWallet, up to its await: a restored bundle asks for its own wallet.
LockWallet(c, w) ==
  /\ pc[c] = "idle"
  /\ Acquire(c)
  /\ want' = [want EXCEPT ![c] = w]
  /\ UNCHANGED <<availableWallets, held, last, secondReleases, stolen>>

\* getWallet, after the permit: shift the list.  NeverOutOfWallets is why the
\* branch that throws "no more wallets" has no action.
TakeFirst(c) ==
  /\ pc[c] = "granted"
  /\ want[c] = NoWallet
  /\ availableWallets # <<>>
  /\ held' = [held EXCEPT ![c] = Head(availableWallets)]
  /\ availableWallets' = Tail(availableWallets)
  /\ pc' = [pc EXCEPT ![c] = "holding"]
  /\ UNCHANGED <<value, queue, want, last, secondReleases, stolen>>

\* Mutant: the list is shifted instead of spliced.
TakeWantedShifts(c) ==
  /\ pc[c] = "granted"
  /\ want[c] \in Free
  /\ availableWallets' = Tail(availableWallets)
  /\ held' = [held EXCEPT ![c] = want[c]]
  /\ pc' = [pc EXCEPT ![c] = "holding"]
  /\ UNCHANGED <<value, queue, want, last, secondReleases, stolen>>

\* lockWallet, after the permit, when the wallet is in the list.
TakeWanted(c) ==
  /\ pc[c] = "granted"
  /\ \E i \in DOMAIN availableWallets :
       /\ availableWallets[i] = want[c]
       /\ availableWallets' = SubSeq(availableWallets, 1, i - 1)
                                \o SubSeq(availableWallets, i + 1,
                                          Len(availableWallets))
  /\ held' = [held EXCEPT ![c] = want[c]]
  /\ pc' = [pc EXCEPT ![c] = "holding"]
  /\ UNCHANGED <<value, queue, want, last, secondReleases, stolen>>

\* lockWallet, after the permit, when the wallet is already used up.
WantedTaken(c) ==
  /\ pc[c] = "granted"
  /\ want[c] # NoWallet
  /\ want[c] \notin Free
  /\ ReleasePermit([pc EXCEPT ![c] = "idle"])
  /\ UNCHANGED <<availableWallets, want, held, last, secondReleases, stolen>>

\* Mutant: semaphore.release() stands after the if instead of inside it.
GiveBackAlwaysReleases(c, w) ==
  /\ availableWallets' = IF w \in Free THEN availableWallets
                                       ELSE Append(availableWallets, w)
  /\ ReleasePermit([pc EXCEPT ![c] = "idle"])

\* Mutant: the wallet is pushed without semaphore.release().
GiveBackKeepsPermit(c, w) ==
  /\ availableWallets' = IF w \in Free THEN availableWallets
                                       ELSE Append(availableWallets, w)
  /\ pc' = [pc EXCEPT ![c] = "idle"]
  /\ UNCHANGED <<value, queue>>

\* Mutant: the wallet is pushed whether or not the list has it.
GiveBackUnguarded(c, w) ==
  /\ availableWallets' = Append(availableWallets, w)
  /\ ReleasePermit([pc EXCEPT ![c] = "idle"])

\* markWalletProcessed: a wallet already in the list is not pushed twice and
\* gives no permit back.
GiveBack(c, w) ==
  IF w \in Free
    THEN /\ pc' = [pc EXCEPT ![c] = "idle"]
         /\ UNCHANGED <<availableWallets, value, queue>>
    ELSE /\ availableWallets' = Append(availableWallets, w)
         /\ ReleasePermit([pc EXCEPT ![c] = "idle"])

MarkWalletProcessed(c) ==
  /\ pc[c] = "holding"
  /\ GiveBack(c, held[c])
  /\ last' = [last EXCEPT ![c] = held[c]]
  /\ held' = [held EXCEPT ![c] = NoWallet]
  /\ UNCHANGED <<want, secondReleases, stolen>>

\* A failed pre-flight releases the wallet, requeues, and releases it once
\* more when the requeue rejects; by then another caller may hold it.
ReleaseAgain(c) ==
  /\ pc[c] = "idle"
  /\ last[c] # NoWallet
  /\ secondReleases < MaxSecondReleases
  /\ secondReleases' = secondReleases + 1
  /\ GiveBack(c, last[c])
  /\ stolen' = stolen \cup { w \in {last[c]} : \E d \in Callers : held[d] = w }
  /\ UNCHANGED <<want, held, last>>

Next ==
  \E c \in Callers :
    \/ GetWallet(c)
    \/ \E w \in Wallets : LockWallet(c, w)
    \/ TakeFirst(c)
    \/ TakeWanted(c)
    \/ WantedTaken(c)
    \/ MarkWalletProcessed(c)
    \/ ReleaseAgain(c)

\* A granted caller is resumed, and a bundle eventually gives its wallet back.
Fairness ==
  \A c \in Callers :
    /\ WF_vars(TakeFirst(c))
    /\ WF_vars(TakeWanted(c) \/ WantedTaken(c))
    /\ WF_vars(MarkWalletProcessed(c))

Spec == Init /\ [][Next]_vars
FairSpec == Spec /\ Fairness

-----------------------------------------------------------------------------

\* Every variable keeps its type.
TypeOK ==
  /\ availableWallets \in Seq(Wallets)
  /\ value \in Nat
  /\ queue \in Seq(Callers)
  /\ pc \in [Callers -> {"idle", "waiting", "granted", "holding"}]
  /\ want \in [Callers -> Wallets \cup {NoWallet}]
  /\ held \in [Callers -> Wallets \cup {NoWallet}]
  /\ last \in [Callers -> Wallets \cup {NoWallet}]
  /\ secondReleases \in Nat
  /\ stolen \subseteq Wallets

\* A caller waits exactly while it is in the semaphore's queue, once.
QueueMatchesWaiting ==
  /\ \A i \in DOMAIN queue : pc[queue[i]] = "waiting"
  /\ \A i, k \in DOMAIN queue : queue[i] = queue[k] => i = k

\* The semaphore and the list never disagree: each free wallet is backed by a
\* free permit or by a caller that was granted one and has not taken a wallet
\* yet, however calls interleave and even when a wallet is released twice.
PermitsMatchList ==
  Len(availableWallets) = value + Cardinality(Granted)

\* "no more wallets" (line 37) cannot be thrown: a granted caller finds one.
NeverOutOfWallets ==
  Granted # {} => availableWallets # <<>>

\* A wallet is in the list at most once, and no two callers work with the same
\* wallet and none with a free one unless a second release took it away.
ExclusiveWallets ==
  /\ \A i, k \in DOMAIN availableWallets :
       availableWallets[i] = availableWallets[k] => i = k
  /\ \A c, d \in Callers :
       (c # d /\ held[c] = held[d]) => held[c] \in stolen \cup {NoWallet}
  /\ \A c \in Callers : held[c] \in Free => held[c] \in stolen

\* The list and the semaphore are a pool: what a caller works with was free and
\* is not any more, whichever way it was taken, and what is given back is free
\* again, no wallet being lost in between.
Pool == INSTANCE WalletPool
  WITH Users <- Callers, SecondReleases <- TRUE, free <- Free, using <- held
ImplementsPool == Pool!Spec

\* A caller that waits for a wallet is eventually served, whatever locks and
\* second releases happen in between.
WaitingIsServed ==
  \A c \in Callers : pc[c] = "waiting" ~> pc[c] # "waiting"
=============================================================================
