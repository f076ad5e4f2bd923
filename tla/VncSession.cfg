CONSTANTS
    MaxReconnects = 1
    MaxInputs = 2
    RequestCap = 2
    CommandCap = 2
SPECIFICATION Spec
INVARIANTS TypeOK OneConnection LastWord AnswersMatch RequestsInOrder
PROPERTIES EventsAscend RecoveryKept RequestsEnd
CHECK_DEADLOCK FALSE
