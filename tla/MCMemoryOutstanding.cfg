CONSTANTS
  UserOp <- MCUserOp
  NoOp = NoOp
  MaxAdds = 5

SPECIFICATION Spec

INVARIANT HeadsAreReady
PROPERTY ImplementsQueue
