CONSTANTS
  Subjects = {"outstanding", "stores", "wallets", "prices", "restart"}
  UserOp <- MCUserOp
  Callers = {c1, c2}
  Nothing = Nothing
  MaxCalls = 6
  Instances = {"i1", "i2"}
  WalletsOf <- MCWalletsOf
  MaxHandouts = 3
  Prices = {0, 1, 2}
  SharedExpiry = 1
  WindowCalls = {p1, p2}
  Nil = Nil
  MaxSeconds = 3
  MaxWindowCalls = 3
  EntryPointOf <- MCEntryPointOf
  Executors = {w1, w2}
  Bundlers = {n1, n2}
  NoOp = NoOp
  MaxSent = 2
  MaxRequeues = 2
  c1 = c1
  c2 = c2
  p1 = p1
  p2 = p2
  n1 = n1
  n2 = n2
  o1 = o1
  o2 = o2
  ep1 = ep1
  ep2 = ep2

SYMMETRY Symmetry

SPECIFICATION Spec

INVARIANT SlotsAreConsistent
INVARIANT PoppedByOne
 
INVARIANT SharedAnswerIsFresh
INVARIANT NothingForgotten
INVARIANT WalletsFollowBundles
 
CHECK_DEADLOCK FALSE
