CONSTANTS
  UserOp <- MCUserOp
  NoOp = NoOp
  Entities <- MCEntities
  NoEntity = "none"
  Clients = {c1, c2}
  Staked = {"B"}
  Deposit <- MCDeposit
  GasCeiling = 16777216
  GasLimitRoundingMultiple = 4337
  ByteThreshold = 3
  MaxBundleCount = 2
  ThrottledEntityBundleCount = 1
  EnforceUniqueSenders = FALSE
  SkipValidation = FALSE
  MaxNonceGap = 1
  MinInclusionDenominator = 1
  ThrottlingSlack = 1
  BanSlack = 2
  ThrottledEntityMinMempoolCount = 1
  MaxMempoolUserOpsPerSender = 2
  MaxMempoolUserOpsPerNewUnstakedEntity = 2
  InclusionRateFactor = 1
  MaxIncludedBonus = 1
  MaxRequests = 3
  MaxPasses = 2
  MaxFaults = 1

SPECIFICATION Spec

INVARIANT ChainsDoNotSpan
INVARIANT AcceptedIsHeld
INVARIANT StoresHaveOwners
INVARIANT PrefundsCovered
 
PROPERTY PassConserves
PROPERTY PassEnds
CHECK_DEADLOCK FALSE
