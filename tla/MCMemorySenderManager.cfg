CONSTANTS
  w1 = w1
  w2 = w2
  c1 = c1
  c2 = c2
  c3 = c3
  NoWallet = NoWallet
  Wallets <- MCWallets
  WalletOrder <- MCWalletOrder
  Callers <- MCCallers
  MaxSecondReleases = 1

SPECIFICATION FairSpec

INVARIANT PermitsMatchList
INVARIANT ExclusiveWallets
PROPERTY ImplementsPool
PROPERTY WaitingIsServed
