CONSTANTS
  w1 = w1
  w2 = w2
  j1 = j1
  j2 = j2
  o1 = o1
  o2 = o2
  NoWallet = NoWallet
  Wallets <- MCWallets
  Jobs <- MCOneJob
  Ops <- MCOneOp
  FaultKinds <- MCFaults
  MaxFaults = 3
  MaxStuckAttempts = 2
  MaxCancelAttempts = 2
  ClearToRelease = 2

SPECIFICATION FairSpec

PROPERTY EveryOpSettles
PROPERTY WalletsReturn
CHECK_DEADLOCK FALSE
