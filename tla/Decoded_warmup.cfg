\* A block produced before the warm-up is over is reported by the decoded leg.
SPECIFICATION DecodedSpec
CONSTANTS
    p = p
    q = q
    Produced <- MCProduced
    Bundles <- MCBundles
    Stray = {3}
    Deadline = 1
    Warmup = 2
    RoundWindow = 1
    RoundRetain = 0
    BundleRetain = 2
    Lag = 1
    FrameBound = 2
    MaxReads = 3
    MaxLines = 2
    MaxSessions = 2
    MaxTime = 3
INVARIANTS
    WarmupIsForEveryLeg
