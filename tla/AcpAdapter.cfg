CONSTANTS
    MaxSessions = 1
    MaxPrompts = 2
    MaxOthers = 2
    Models = {"a"}
    NoModel = "none"
SPECIFICATION Spec
INVARIANTS OneLiveRun ChoiceKept
PROPERTIES CancelEnds HostHeard
CHECK_DEADLOCK FALSE
