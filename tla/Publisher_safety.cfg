\* Publication over two runs and a correction of the wall clock; publisher and worker of the
\* outbox with crashes and power losses.
SPECIFICATION PublisherSpec
CONSTANTS
    Interval = 2
    Window = 5
    MaxRolling = 1
    Delay = 1
    MaxCohorts = 2
    MaxRuns = 2
    MaxSteps = 1
    MaxTime = 6
    MaxWindows = 4
    Bytes <- MCBytes
    MaxBatchBytes = 2
    MaxFiles = 2
    MaxBytes = 3
    WallTimes <- MCWallTimes
    MaxAttempts = 2
    MaxStops = 2
    Crashes = TRUE
INVARIANTS
    PublicationTypeOK
    CountedOnce
    ReportedIsDurable
    IntervalsAbut
    CompleteIsAll
    TypeOK
    NoAcceptedLoss
    DroppedNeverDelivered
    ReopenWithinCaps
    ByteLedger
    NoRepostInRun
PROPERTIES
    OldestFirst
    ImplementsContract
