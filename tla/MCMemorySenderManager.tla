----------------------- MODULE MCMemorySenderManager -----------------------
(* Two wallets, three concurrent callers, one second release.              *)
EXTENDS MemorySenderManager

CONSTANTS w1, w2, c1, c2, c3

MCWallets == {w1, w2}
MCWalletOrder == <<w1, w2>>
MCCallers == {c1, c2, c3}
=============================================================================
