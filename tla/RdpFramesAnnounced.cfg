CONSTANTS
    r1 = r1
    r2 = r2
    Regions <- MCRegions
    Large <- MCLarge
    Capacity = 2
    MaxPaints = 2
    MaxRequests = 1
    MaxEpoch = 2
SPECIFICATION FairSpec
PROPERTY FirstDesktopFrameConnects
