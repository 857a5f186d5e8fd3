------------------------- MODULE RedisSenderManager -------------------------
(***************************************************************************)
(* The wallets that several instances share                                *)
(* (src/src/executor/senderManager/createRedisSenderManager.ts): a list in *)
(* Redis, from which getWallet pops and to which markWalletProcessed       *)
(* pushes.  An instance that starts seeds the list when it is empty.       *)
(***************************************************************************)
EXTENDS Naturals, Sequences, SequencesExt, FiniteSets

CONSTANTS
  Instances,
  WalletsOf,      \* the wallets each instance is configured with
  MaxHandouts     \* bound

ASSUME RedisSenderManagerAssumption ==
  /\ \A i \in Instances : IsFiniteSet(WalletsOf[i])
  /\ MaxHandouts \in Nat

SharedWallets == UNION { WalletsOf[i] : i \in Instances }

VARIABLES
  walletQueue,    \* the list, its right end last
  instance,       \* "off", "counted" (llen has answered), "up" or "stopped"
  sawEmpty,       \* what llen answered
  activeWallets,  \* of each instance
  inUse,          \* wallets whose last transaction is under way
  pushing,        \* wallets on their way back: no longer active, not yet pushed
  handouts,       \* bound
  reseeded,       \* history: wallets that were seeded while they were out
  freedEarly      \* history: wallets that a stopping instance pushed while in use

walletVars == <<walletQueue, instance, sawEmpty, activeWallets, inUse, pushing, handouts,
                reseeded, freedEarly>>

WalletsInit ==
  /\ walletQueue = <<>>
  /\ instance = [i \in Instances |-> "off"]
  /\ sawEmpty = [i \in Instances |-> FALSE]
  /\ activeWallets = [i \in Instances |-> {}]
  /\ inUse = {} /\ pushing = [i \in Instances |-> {}] /\ handouts = 0
  /\ reseeded = {} /\ freedEarly = {}

Held(w) == \E i \in Instances : w \in activeWallets[i] \cup pushing[i]

\* createRedisQueue: llen, and later the transaction that seeds.
CountWallets(i) ==
  /\ instance[i] = "off"
  /\ instance' = [instance EXCEPT ![i] = "counted"]
  /\ sawEmpty' = [sawEmpty EXCEPT ![i] = walletQueue = <<>>]
  /\ UNCHANGED <<walletQueue, activeWallets, inUse, pushing, handouts, reseeded, freedEarly>>

\* del and rpush
Seeded(i) == walletQueue' = SetToSeq(WalletsOf[i])

StartUp(i) ==
  /\ instance[i] = "counted"
  /\ instance' = [instance EXCEPT ![i] = "up"]
  /\ IF sawEmpty[i]
     THEN /\ Seeded(i)
          /\ reseeded' = reseeded \cup { w \in WalletsOf[i] : Held(w) \/ w \in inUse }
     ELSE UNCHANGED <<walletQueue, reseeded>>
  /\ UNCHANGED <<sawEmpty, activeWallets, inUse, pushing, handouts, freedEarly>>

\* getWallet: the pop of a wallet that belongs to another instance throws, and the
\* wallet is gone.
GetWallet(i) ==
  /\ instance[i] = "up" /\ walletQueue # <<>> /\ handouts < MaxHandouts
  /\ walletQueue' = Front(walletQueue)
  /\ IF Last(walletQueue) \in WalletsOf[i]
     THEN /\ activeWallets' = [activeWallets EXCEPT ![i] = @ \cup {Last(walletQueue)}]
          /\ inUse' = inUse \cup {Last(walletQueue)}
     ELSE UNCHANGED <<activeWallets, inUse>>
  /\ handouts' = handouts + 1
  /\ UNCHANGED <<instance, sawEmpty, pushing, reseeded, freedEarly>>

\* The transactions of a wallet are settled on chain.
Settle(w) ==
  /\ w \in inUse
  /\ inUse' = inUse \ {w}
  /\ UNCHANGED <<walletQueue, instance, sawEmpty, activeWallets, pushing, handouts,
                 reseeded, freedEarly>>

\* Mutant: a wallet is pushed although it is not active.
MarkedTwice(i, w) ==
  /\ activeWallets' = [activeWallets EXCEPT ![i] = @ \ {w}]
  /\ pushing' = [pushing EXCEPT ![i] = @ \cup {w}]

\* markWalletProcessed, up to its push.  Of a wallet that is not active it only
\* warns.
Marked(i, w) ==
  /\ w \in activeWallets[i]
  /\ activeWallets' = [activeWallets EXCEPT ![i] = @ \ {w}]
  /\ pushing' = [pushing EXCEPT ![i] = @ \cup {w}]

\* Two paths may settle one bundle, and each marks the wallet.
MarkWalletProcessed(i, w) ==
  /\ instance[i] = "up" /\ w \in WalletsOf[i] \ inUse
  /\ Marked(i, w)
  /\ UNCHANGED <<walletQueue, instance, sawEmpty, inUse, handouts, reseeded, freedEarly>>

PushWallet(i, w) ==
  /\ w \in pushing[i]
  /\ walletQueue' = <<w>> \o walletQueue
  /\ pushing' = [pushing EXCEPT ![i] = @ \ {w}]
  /\ UNCHANGED <<instance, sawEmpty, activeWallets, inUse, handouts, reseeded, freedEarly>>

\* gracefulShutdown marks every active wallet, whatever is under way.
Stop(i) ==
  /\ instance[i] = "up"
  /\ instance' = [instance EXCEPT ![i] = "stopped"]
  /\ activeWallets' = [activeWallets EXCEPT ![i] = {}]
  /\ pushing' = [pushing EXCEPT ![i] = @ \cup activeWallets[i]]
  /\ freedEarly' = freedEarly \cup (activeWallets[i] \cap inUse)
  /\ UNCHANGED <<walletQueue, sawEmpty, inUse, handouts, reseeded>>

\* A crash: what was active is in nobody's hands.
Crash(i) ==
  /\ instance[i] = "up"
  /\ instance' = [instance EXCEPT ![i] = "stopped"]
  /\ activeWallets' = [activeWallets EXCEPT ![i] = {}]
  /\ pushing' = [pushing EXCEPT ![i] = {}]
  /\ UNCHANGED <<walletQueue, sawEmpty, inUse, handouts, reseeded, freedEarly>>

WalletsNext ==
  \/ \E w \in SharedWallets : Settle(w)
  \/ \E i \in Instances :
       \/ CountWallets(i) \/ StartUp(i) \/ GetWallet(i) \/ Stop(i) \/ Crash(i)
       \/ \E w \in SharedWallets : MarkWalletProcessed(i, w) \/ PushWallet(i, w)

WalletsSpec == WalletsInit /\ [][WalletsNext]_walletVars

-----------------------------------------------------------------------------

\* Where a wallet is: in the list, or held.
Places(w) ==
  Cardinality({ k \in DOMAIN walletQueue : walletQueue[k] = w })
  + Cardinality({ i \in Instances : w \in activeWallets[i] })
  + Cardinality({ i \in Instances : w \in pushing[i] })

\* A wallet is in one place at most, and nobody is given one whose transactions
\* are under way: unless an instance that started found the list empty while the
\* wallet was out, or one that stopped did not wait for it.
WalletHeldOnce ==
  \A w \in SharedWallets \ reseeded :
    /\ Places(w) <= 1
    /\ w \in inUse \ freedEarly => \A k \in DOMAIN walletQueue : walletQueue[k] # w
=============================================================================
