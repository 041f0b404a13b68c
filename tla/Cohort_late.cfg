\* Observations in time and in the queue when the tick seals their base.
SPECIFICATION Spec
CONSTANTS
    a = a
    b = b
    x = x
    y = y
    z = z
    w = w
    e1 = e1
    e2 = e2
    f1 = f1
    f2 = f2
    f3 = f3
    Configs <- MCCompared
    QueueCap = 2
SYMMETRY Interchangeable
PROPERTIES
    LateIsAfterDeadline
