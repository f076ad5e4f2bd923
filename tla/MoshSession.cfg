CONSTANTS
    MaxInputs = 3
    MaxNotices = 1
    CommandCap = 1
    EventCap = 2
    OutputBudget = 1
SPECIFICATION Spec
INVARIANT PredictionsExact
PROPERTIES RequestsServed EndReported
CHECK_DEADLOCK FALSE
