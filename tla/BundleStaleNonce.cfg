CONSTANTS
  w1 = w1
  w2 = w2
  j1 = j1
  j2 = j2
  o1 = o1
  o2 = o2
  NoWallet = NoWallet
  Wallets <- MCWallets
  Jobs <- MCJobs
  Ops <- MCOps
  FaultKinds <- MCStaleNonce
  MaxFaults = 2
  MaxStuckAttempts = 1
  MaxCancelAttempts = 1
  ClearToRelease = 2

SPECIFICATION Spec
SYMMETRY Symmetry

PROPERTY ConfirmedCancelLeavesNothing
CHECK_DEADLOCK FALSE
