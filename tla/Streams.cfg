\* Every stream task, each with the faults and races it meets.
SPECIFICATION StreamsFairSpec
CONSTANTS
    bundleP = bundleP
    bundleQ = bundleQ
    Produced <- MCProduced
    Bundles <- MCBundles
    Stray <- MCStray
    Deadline = 1
    Warmup = 1
    RoundWindow = 1
    RoundRetain = 0
    BundleRetain = 2
    Lag = 1
    FrameBound = 3
    MaxReads = 2
    MaxLines = 4
    MaxSessions = 2
    MaxTime = 3
    SeqSpace = 12
    Isn <- MCIsn
    StreamLen = 13
    FrameLen = 2
    Oversize = {3}
    ResyncFrames = 2
    KeepBytes = 5
    MaxPendingBytes = 4
    ReorderWait = 1
    SegLens = {2}
    MaxSegments = 4
    CaptureLag = 1
    TapMaxTime = 2
    Hashes = {h1}
    JoinDeadline = 1
    DoneRetain = 2
    JoinQueue = 1
    RecvLag = 1
    MaxCopies = 4
    JoinMaxTime = 4
    HourFiles <- MCHourFiles
    MaxPieces = 4
    MaxFailures = 1
    InitialBackoff = 1
    MaxBackoff = 3
    Healthy = 2
    Messages = 4
    MaxFrames = 3
    MaxAttempts = 3
    StreamMaxTime = 4
    Prices <- MCPrices
    L2BookDepth = 2
    Trades <- MCTrades
    BatchLen = 3
    SmallBytes = 16
    TailTcMax = 2
    MaxHashCount = 18
    ScanMax = 3
    Proposals <- MCProposals
    Anchors = {0, 4, 5}
    ScanWindow = 1
INVARIANTS
    TypeOK
    ReportedOnce
    StampIsBoundary
    GapIsIncomplete
    NamedRoundsAccounted
    StreamsTypeOK
    DecodedExact
    TapFramesTrue
    TapHeldAhead
    JoinEmitsOnce
    JoinStampTrue
    FillsInOrder
    FillsLossIsLastSecond
    CollectorReplayExact
    CollectorBackoffGrows
    ContentIsKey
    OrderingExact
PROPERTIES
    NamedRoundsClose
