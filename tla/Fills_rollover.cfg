\* The last line of an hour is written between the last read of its file and the change to the
\* next one.
SPECIFICATION FillsSpec
CONSTANTS
    HourFiles <- MCHourFiles
    MaxPieces = 4
    MaxFailures = 1
INVARIANTS
    FillsOldDrained
