\* The last bundle of a round is read after the deadline and before a tick.
SPECIFICATION Spec
CONSTANTS
    p = p
    q = q
    Produced <- MCProduced
    Bundles <- MCBundles
    Stray <- MCStray
    Deadline = 1
    Warmup = 1
    RoundWindow = 1
    RoundRetain = 0
    BundleRetain = 2
    Lag = 0
    FrameBound = 2
    MaxReads = 3
    MaxSessions = 2
    MaxTime = 3
INVARIANTS
    SampleInTime
