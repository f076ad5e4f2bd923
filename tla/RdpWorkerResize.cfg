CONSTANTS
    Categories <- MCTwoCategories
    RequestLimit = 2
    OutputLimit = 2
    MaxRequests = 2
    MaxPixels = 1
    MaxEpoch = 3
SPECIFICATION Spec
INVARIANT LastResizeWins
\* The helper ends.
CHECK_DEADLOCK FALSE
