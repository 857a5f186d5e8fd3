----------------------------- MODULE WalletPool -----------------------------
(***************************************************************************)
(* What a sender manager gives to those who send: a set of free wallets.   *)
(* Who takes one has it until it gives it back or hands it over, and no    *)
(* wallet is lost on the way.  A pool does not know who gives back: a      *)
(* wallet that is released a second time is free, whoever uses it by then. *)
(***************************************************************************)
CONSTANTS
  Wallets, NoWallet,
  Users,            \* bundles, and what else uses a wallet
  SecondReleases    \* whether a wallet may be released by one that gave it back

VARIABLES
  free,    \* the wallets to be had
  using    \* the wallet of each user

Init ==
  /\ free \in SUBSET Wallets
  /\ using = [u \in Users |-> NoWallet]

Take(u) ==
  /\ using[u] = NoWallet
  /\ \E w \in free : /\ free' = free \ {w}
                     /\ using' = [using EXCEPT ![u] = w]

GiveBack(u) ==
  /\ using[u] # NoWallet
  /\ free' = free \cup {using[u]}
  /\ using' = [using EXCEPT ![u] = NoWallet]

\* A wallet changes hands without the pool.
HandOver(u, v) ==
  /\ using[u] # NoWallet /\ using[v] = NoWallet
  /\ using' = [using EXCEPT ![u] = NoWallet, ![v] = using[u]]
  /\ UNCHANGED free

ReleaseAgain(w) ==
  /\ SecondReleases
  /\ free' = free \cup {w}
  /\ UNCHANGED using

Next ==
  \/ \E u \in Users : Take(u) \/ GiveBack(u) \/ \E v \in Users \ {u} : HandOver(u, v)
  \/ \E w \in Wallets : ReleaseAgain(w)

Spec == Init /\ [][Next]_<<free, using>>
=============================================================================
