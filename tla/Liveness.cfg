\* What must happen: every base is sealed; delivery and shutdown of the outbox.
SPECIFICATION LivenessSpec
CONSTANTS
    a = a
    b = b
    x = x
    e1 = e1
    e2 = e2
    Configs <- MCAgreed
    QueueCap = 2
    MaxWindows = 2
    Bytes <- MCBytes
    MaxBatchBytes = 2
    MaxFiles = 2
    MaxBytes = 3
    WallTimes <- MCWallTimes
    MaxAttempts = 2
    MaxStops = 2
    Crashes = TRUE
PROPERTIES
    EveryBaseSealed
    AcceptedAcked
    CloseStopsWorker
