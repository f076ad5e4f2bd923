SPECIFICATION Spec
CONSTANTS
    WriterFrames = 3
    WriterControls = 1
    Packets = 2
    Captures = 2
    ReadyInputs = 2
    Wishes = 3
    Openings = 2
    Monitors = 2
    ClipboardCopies = 3
INVARIANTS TypesOK FramesOnce GraphicsKept PastesExact FilesExact DevicesServed
PROPERTY EveryFrameArrives
CHECK_DEADLOCK FALSE
