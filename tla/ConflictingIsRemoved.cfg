CONSTANTS
  UserOp <- MCUserOp
  NoOp = NoOp
  MaxAdds = 5

SPECIFICATION Spec

PROPERTY ConflictingIsRemoved
