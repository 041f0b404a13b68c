\* A publish tick that comes late counts what the interval does not cover.
SPECIFICATION PublicationSpec
CONSTANTS
    Interval = 2
    Window = 5
    MaxRolling = 1
    Delay = 0
    MaxCohorts = 2
    MaxRuns = 1
    MaxSteps = 0
    MaxTime = 6
INVARIANTS
    CountedWithinBoundaries
