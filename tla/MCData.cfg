SPECIFICATION MCSpec
CONSTANTS
    W = 4
    Base = 16
    Byte = 2
    Values <- MCValues
    Rights <- MCRights
    Bases = {2, 10}
    Lengths = {0, 9}
    Garbage <- MCGarbage
CHECK_DEADLOCK FALSE
INVARIANTS
    WordsExact
    NothingDeadUsed
PROPERTIES
    ValuesKept
    NumbersExact
