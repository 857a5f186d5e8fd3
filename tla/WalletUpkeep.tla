---------------------------- MODULE WalletUpkeep ----------------------------
(***************************************************************************)
(* How a server looks after its wallets besides bundling: the refills of   *)
(* the executors from the utility wallet, one before it serves and then on *)
(* a timer that does not wait for the last one, and the flush of stuck     *)
(* transactions, which runs once while it already serves                   *)
(* (src/src/executor/senderManager/validateAndRefill.ts, flushOnStartUp.ts *)
(* and flushStuckTransaction of src/src/executor/utils.ts).                *)
(***************************************************************************)
EXTENDS Integers, Sequences, FiniteSetsExt, Functions

CONSTANTS
  Signers,            \* executor wallets
  Utility,            \* the utility wallet
  Upkeeps,            \* configurations, with what the accounts hold at first and
                      \* how many transactions an earlier run left pending
  MinExecutorBalance,
  Refills,            \* calls of validateAndRefillWallets
  MaxRefills,         \* bound
  MaxTransactions     \* bound, of each account

Accounts == Signers \cup {Utility}

\* What a refill brings a wallet to.
Level == (MinExecutorBalance * 6) \div 5

ASSUME WalletUpkeepAssumption ==
  /\ Utility \notin Signers
  /\ MinExecutorBalance \in Nat \ {0} /\ MaxRefills \in Nat
  /\ \A c \in Upkeeps : /\ c.balance \in [Accounts -> Nat] /\ c.backlog \in [Accounts -> Nat]
                         /\ \A s \in Signers : c.balance[s] <= Level

VARIABLES
  upkeep,     \* the configuration, fixed
  serving,    \* bundling and the flush have been started
  balance,
  confirmed,  \* the latest nonce of each account
  pooled,     \* its pending transactions, from that nonce on
  flush,      \* where the flush of each account is
  refill,     \* the calls in progress
  refills,    \* bound
  earned,     \* history: what bundles brought in since a refill last read a low balance
  crossed     \* history: wallets read while a refill of theirs was still to come

flushVars == <<flush>>
refillVars == <<refill, refills, crossed>>
upkeepVars == <<upkeep, serving, balance, confirmed, pooled, flushVars, refillVars, earned>>

Nobody == [s \in {} |-> 0]

Tx(kind, gives) == [kind |-> kind, gives |-> gives]

Unflushed == [phase |-> "off", next |-> 0, until |-> 0]

NoRefill == [phase |-> "idle", utility |-> 0, unread |-> {}, missing |-> Nobody, nonce |-> 0]

UpkeepInit ==
  /\ upkeep \in Upkeeps
  /\ serving = ~upkeep.refillingWallets
  /\ balance = upkeep.balance
  /\ confirmed = [a \in Accounts |-> 0]
  /\ pooled = [a \in Accounts |-> [i \in 1..upkeep.backlog[a] |-> Tx("bundle", Nobody)]]
  /\ flush = [a \in Accounts |-> Unflushed]
  /\ refill = [r \in Refills |-> NoRefill] /\ refills = 0
  /\ earned = [s \in Signers |-> 0] /\ crossed = {}

PendingNonce(a) == confirmed[a] + Len(pooled[a])

-----------------------------------------------------------------------------
(* The chain.                                                              *)

\* A bundle's wallet is its beneficiary: it pays the gas and is paid the fees.
SendBundle(s) ==
  /\ serving /\ PendingNonce(s) < MaxTransactions[s]
  /\ pooled' = [pooled EXCEPT ![s] = Append(@, Tx("bundle", Nobody))]
  /\ UNCHANGED <<upkeep, serving, balance, confirmed, flushVars, refillVars, earned>>

Given(gives) == MapThenSumSet(LAMBDA s : gives[s], DOMAIN gives)

Mined(a) ==
  /\ pooled[a] # <<>>
  /\ confirmed' = [confirmed EXCEPT ![a] = @ + 1]
  /\ pooled' = [pooled EXCEPT ![a] = Tail(@)]

\* Only a bundle earns anything.
MineOfSigner(s, result) ==
  /\ Mined(s)
  /\ result > 0 => Head(pooled[s]).kind = "bundle"
  /\ balance[s] + result >= 0
  /\ balance' = [balance EXCEPT ![s] = @ + result]
  /\ earned' = IF result > 0 THEN [earned EXCEPT ![s] = @ + result] ELSE earned
  /\ UNCHANGED <<upkeep, serving, flushVars, refillVars>>

MineOfUtility ==
  LET gives == Head(pooled[Utility]).gives
      cost == Given(gives) + 1
  IN /\ Mined(Utility)
     /\ balance[Utility] >= cost
     /\ balance' = [a \in Accounts |->
          IF a = Utility THEN balance[a] - cost
          ELSE IF a \in DOMAIN gives THEN balance[a] + gives[a] ELSE balance[a]]
     /\ UNCHANGED <<upkeep, serving, flushVars, refillVars, earned>>

-----------------------------------------------------------------------------
(* flushOnStartUp and flushStuckTransaction.                               *)

flushed == <<upkeep, serving, balance, confirmed, refillVars, earned>>

\* One price for all; without it nothing is flushed.
BeginFlush ==
  /\ upkeep.flushStuckTransactionsDuringStartup /\ serving
  /\ \A a \in Accounts : flush[a] = Unflushed
  /\ \E phase \in {"latest", "done"} : flush' = [a \in Accounts |-> [Unflushed EXCEPT !.phase = phase]]
  /\ UNCHANGED <<flushed, pooled>>

\* The nonces are read one after the other, and the account may send between.
ReadLatest(a) ==
  /\ flush[a].phase = "latest"
  /\ flush' = [flush EXCEPT ![a] = [@ EXCEPT !.phase = "pending", !.next = confirmed[a]]]
  /\ UNCHANGED <<flushed, pooled>>

\* One transaction in flight is nothing unusual.
ReadPending(a) ==
  /\ flush[a].phase = "pending"
  /\ LET stuck == PendingNonce(a) \notin {flush[a].next, flush[a].next + 1}
     IN flush' = [flush EXCEPT ![a] = [@ EXCEPT !.phase = IF stuck THEN "flushing" ELSE "done",
                                                !.until = PendingNonce(a)]]
  /\ UNCHANGED <<flushed, pooled>>

FailRead(a) ==
  /\ flush[a].phase \in {"latest", "pending"}
  /\ flush' = [flush EXCEPT ![a].phase = "done"]
  /\ UNCHANGED <<flushed, pooled>>

Flushed(f) == [f EXCEPT !.next = @ + 1, !.phase = IF f.next + 1 = f.until THEN "done" ELSE @]

\* An empty transaction to itself replaces what is pending at the nonce.
FlushNonce(a) ==
  LET i == flush[a].next - confirmed[a] + 1 IN
  /\ flush[a].phase = "flushing" /\ i \in DOMAIN pooled[a]
  /\ pooled' = [pooled EXCEPT ![a][i] = Tx("flush", Nobody)]
  /\ flush' = [flush EXCEPT ![a] = Flushed(@)]
  /\ UNCHANGED flushed

\* It is too cheap, or the nonce has been mined; the next nonce is tried anyway.
RefuseFlush(a) ==
  /\ flush[a].phase = "flushing"
  /\ flush' = [flush EXCEPT ![a] = Flushed(@)]
  /\ UNCHANGED <<flushed, pooled>>

-----------------------------------------------------------------------------
(* validateAndRefillWallets.                                               *)

refilled == <<upkeep, balance, confirmed, flushVars>>

\* The first call is awaited; the timer starts the others, done or not.
BeginRefill(r) ==
  /\ upkeep.refillingWallets
  /\ refill[r] = NoRefill /\ refills < MaxRefills
  /\ serving \/ refills = 0
  /\ refill' = [refill EXCEPT ![r].phase = "utility"]
  /\ refills' = refills + 1
  /\ UNCHANGED <<refilled, serving, pooled, earned, crossed>>

\* However a call ends, its caller goes on.
EndRefill(r) ==
  /\ refill' = [refill EXCEPT ![r] = NoRefill]
  /\ serving' = TRUE

ReadUtility(r) ==
  /\ refill[r].phase = "utility"
  /\ refill' = [refill EXCEPT ![r] = [@ EXCEPT !.phase = "wallets", !.utility = balance[Utility],
                                               !.unread = Signers]]
  /\ UNCHANGED <<refilled, serving, pooled, earned, crossed, refills>>

\* Mutant: the whole level is sent, whatever the wallet holds.
MissingAll(held) == Level

Missing(held) == Level - held

\* Some refill has read the balance of s and its transfer is not mined yet.
Expected(s) ==
  \/ \E r \in Refills : s \in DOMAIN refill[r].missing
  \/ \E i \in DOMAIN pooled[Utility] : s \in DOMAIN pooled[Utility][i].gives

ReadWallet(r, s) ==
  LET low == balance[s] < MinExecutorBalance IN
  /\ refill[r].phase = "wallets" /\ s \in refill[r].unread
  /\ refill' = [refill EXCEPT
       ![r].unread = @ \ {s},
       ![r].missing = IF low THEN [w \in DOMAIN @ \cup {s} |->
                                     IF w = s THEN Missing(balance[s]) ELSE @[w]] ELSE @]
  /\ crossed' = IF low /\ Expected(s) THEN crossed \cup {s} ELSE crossed
  /\ earned' = IF low THEN [earned EXCEPT ![s] = 0] ELSE earned
  /\ UNCHANGED <<refilled, serving, pooled, refills>>

IsEnough(utility, total) == utility >= (total * 11) \div 10

\* All or nothing, with a tenth for the gas, by the first balance that was read.
Decide(r) ==
  /\ refill[r].phase = "wallets" /\ refill[r].unread = {}
  /\ IF DOMAIN refill[r].missing # {} /\ IsEnough(refill[r].utility, Given(refill[r].missing))
     THEN refill' = [refill EXCEPT ![r].phase = "sending"] /\ UNCHANGED serving
     ELSE EndRefill(r)
  /\ UNCHANGED <<refilled, pooled, earned, crossed, refills>>

\* The helper contract pays all in one transaction; without it one is sent and
\* awaited for each wallet.
SendRefill(r) ==
  /\ refill[r].phase = "sending" /\ PendingNonce(Utility) < MaxTransactions[Utility]
  /\ \E paid \in IF upkeep.refillHelperContract THEN {DOMAIN refill[r].missing}
                 ELSE { {s} : s \in DOMAIN refill[r].missing } :
       /\ pooled' = [pooled EXCEPT
                       ![Utility] = Append(@, Tx("transfer", Restrict(refill[r].missing, paid)))]
       /\ refill' = [refill EXCEPT ![r].phase = "waiting", ![r].nonce = PendingNonce(Utility),
                                   ![r].missing = Restrict(@, DOMAIN @ \ paid)]
  /\ UNCHANGED <<refilled, serving, earned, crossed, refills>>

\* The receipt may be that of a transaction that replaced the transfer.
GotRefill(r) ==
  /\ refill[r].phase = "waiting" /\ confirmed[Utility] > refill[r].nonce
  /\ IF refill[r].missing = Nobody THEN EndRefill(r)
     ELSE refill' = [refill EXCEPT ![r].phase = "sending"] /\ UNCHANGED serving
  /\ UNCHANGED <<refilled, pooled, earned, crossed, refills>>

\* A read, the price or the send fails, or no receipt comes in time: the call
\* throws or returns.
FailRefill(r) ==
  /\ refill[r] # NoRefill
  /\ EndRefill(r)
  /\ UNCHANGED <<refilled, pooled, earned, crossed, refills>>

UpkeepNext ==
  \/ \E s \in Signers : SendBundle(s) \/ \E result \in {-1, 1} : MineOfSigner(s, result)
  \/ MineOfUtility
  \/ \E a \in Accounts : \/ ReadLatest(a) \/ ReadPending(a) \/ FailRead(a)
                         \/ FlushNonce(a) \/ RefuseFlush(a)
  \/ BeginFlush
  \/ \E r \in Refills : \/ BeginRefill(r) \/ ReadUtility(r) \/ Decide(r) \/ SendRefill(r)
                        \/ GotRefill(r) \/ FailRefill(r)
                        \/ \E s \in Signers : ReadWallet(r, s)

UpkeepSpec == UpkeepInit /\ [][UpkeepNext]_upkeepVars

-----------------------------------------------------------------------------

\* Refills bring a wallet to a fifth over the minimum and no further, whatever
\* fails, stays pending or is flushed, except for a wallet that is read again
\* while a transfer to it is still to come: the timer waits neither for the last
\* call nor for a transfer that call has given up.
RefillsFitNeed ==
  \A s \in Signers \ crossed : balance[s] <= Level + earned[s]
=============================================================================
