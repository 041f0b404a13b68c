\* Two sources at every cap, two whose content agrees, or one across the life of a tombstone.
SPECIFICATION Spec
CONSTANTS
    a = a
    b = b
    x = x
    y = y
    z = z
    w = w
    e1 = e1
    e2 = e2
    f1 = f1
    f2 = f2
    f3 = f3
    Configs <- MCConfigs
    QueueCap = 2
SYMMETRY Interchangeable
INVARIANTS
    TypeOK
    EveryObservationCounted
    AdmissionExact
    LosslessIsWhole
    SampledOnce
    SingleSourceIsWhole
