CONSTANTS
  MaxTransfers = 1
  MaxFiles = 1
  ListedSize = 1
SPECIFICATION Spec
INVARIANT ActiveIsAsked
CHECK_DEADLOCK FALSE
