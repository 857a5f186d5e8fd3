CONSTANTS
  UserOp <- MCUserOp
  NoOp = NoOp
  MaxAdds = 5

SPECIFICATION InOrderSpec

INVARIANT LowestNonceIsReady
CHECK_DEADLOCK FALSE
