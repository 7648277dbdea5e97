SPECIFICATION Spec
CONSTANTS
    s1 = s1
    s2 = s2
    k1 = k1
    k2 = k2
    Sessions = {s1, s2}
    Keys = {k1, k2}
    MaxReceipts = 2
    MaxTurns = 2
    MaxCommands = 3
    MaxCrashes = 1
    MaxDiskFaults = 1
SYMMETRY Symmetry
CHECK_DEADLOCK FALSE
INVARIANTS
    TypeOK
    AnswersAgree
    CommandsDurable
    CountedOnce
