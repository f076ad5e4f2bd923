SPECIFICATION Spec
CONSTANTS
    FileTransfers = 2
    FilesEach = 2
    FileChunks = 1
    HostLayouts = 3
    OtherResizes = 3
    MonitorNames = {0, 1, 2, 3}
    Reach = 1
    Breadth = 2
    SpanLimit = 3
    PixelLimit = 5
    MonitorCount = 2
    FrameWidth = 2
    FrameHeight = 2
    FrameRegions = 2
    FrameRects = 3
    Redraws = 2
    ScreenSizes = 2
    FenceCount = 1
    ModeEnds = 3
    Copies = 2
    ZlibStreams = {0, 1}
    H264Places = {1, 2, 3}
    H264Contexts = 2
    UpdateRects = 3
    StreamSegments = 2
INVARIANTS TypesOK FilesKept DesktopSized NothingMissed ClipboardsAgree
INVARIANTS DecodersInStep PictureShown
PROPERTIES LayoutReachesServer UpdatesFlow
CHECK_DEADLOCK FALSE
