\* Only graceful shutdowns and restarts: the process is gone between acknowledgement and unlink.
SPECIFICATION Spec
CONSTANTS
    MaxWindows = 2
    Bytes <- MCBytes
    MaxBatchBytes = 2
    MaxFiles = 2
    MaxBytes = 3
    WallTimes <- MCWallTimes
    MaxAttempts = 2
    MaxStops = 1
    Crashes = FALSE
INVARIANTS
    NeverReposted
