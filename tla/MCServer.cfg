CONSTANTS
  Null = Null
  NoEntity = NoEntity
  EntryPoint = 1
  StructSlots = 128
  GasPriceExpiry = 1
  GasPriceBump = 100
  PolygonDefaultFee = 5
  PriorityDivisor = 200
  HederaUnit = 3
  CallGasLimitMultiplier = 100
  VerificationGasLimitMultiplier = 130
  PaymasterPostOpGasLimitMultiplier = 120
  EtherlinkRate = 40000
  MantleDivisionFactor = 1
  MaxUint128 = 100000
  BinarySearchToleranceDelta = 10000
  BinarySearchGasAllowance = 40000
  BinarySearchMaxRetries = 3
  PaymasterVerificationGasLimitMultiplier = 130
  PvgMultiplier = 110
  Scenarios <- MCScenarios
  MaxGasPerBundle = 300000
  ExpiryMargin = 1
  SafeExpiryMargin = 2
  SafeAge = 1
  Tasks = {t1, t2}
  MaxTime = 2
  MaxChanges = 1
  Bidders <- MCBidders
  Networks <- MCNetworks
  Leftovers <- MCLeftovers
  BreakEvenPrices = {10, 50}
  ReplacementMinBump = 110
  MaxStuckAttemptsBeforeRotation = 2
  MaxSubmissions = 3
  Bundles = {b1, b2}
  Watchers <- MCWatchers
  BlockTime = 1
  ResubmitStuckTimeout = 2
  ReceiptPatience = 1
  None = None
  MaxWatchTime = 6
  Loops = {m1, m2}
  MinBundleInterval = 1
  MaxBundleInterval = 2
  ScaleFactor = 1
  RpmWindow = 3
  MaxOpsOfPass = 2
  MaxModeCalls = 3
  MaxLoopTime = 7
  Hashes = {h1, h2}
  Setters = {s1, s2}
  Lookups = {r1}
  Caches = {"memory", "redis"}
  StatusTimeout = 2
  ReceiptTtl = 1
  MaxRetries = 2
  NoValue = NoValue
  MaxSets = 3
  MaxReceiptTime = 2
  Signers = {x1, x2}
  Utility = Utility
  Upkeeps <- MCUpkeeps
  MinExecutorBalance = 5
  Refills = {f1, f2}
  MaxRefills = 2
  MaxTransactions <- MCMaxTransactions
  x1 = x1
  x2 = x2
  f1 = f1
  f2 = f2
  t1 = t1
  t2 = t2
  b1 = b1
  b2 = b2
  m1 = m1
  m2 = m2
  h1 = h1
  h2 = h2
  Subjects = {"admission", "bidding", "blocks", "passes", "receipts", "upkeep"}

SYMMETRY Symmetry

SPECIFICATION Spec

INVARIANT WindowsAreExact
INVARIANT QuoteStaysValid
INVARIANT EstimateStaysEnough
INVARIANT QuoteIsOrdered
INVARIANT EstimateFitsNeed
INVARIANT AdmittedAreIndependent
 
INVARIANT LookedAtInTime
PROPERTY ManualIsQuiet
INVARIANT StatusIsKept
INVARIANT IncludedHasReceipt
INVARIANT RefillsFitNeed
CHECK_DEADLOCK FALSE
