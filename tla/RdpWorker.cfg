CONSTANTS
    Categories <- MCCategories
    RequestLimit = 2
    OutputLimit = 2
    MaxRequests = 2
    MaxPixels = 1
    MaxEpoch = 3
SPECIFICATION FairSpec
INVARIANTS
    SessionsAscend
    OneEnd
    OpensWithLastSize
PROPERTIES
    EndsHeard
\* The helper ends.
CHECK_DEADLOCK FALSE
