SPECIFICATION MCSpec
CONSTANTS
    Setter = 0
    Whens = {1, 2}
    Waits = {3}
    Stops = TRUE
    Spurious = TRUE
    None = None
CHECK_DEADLOCK FALSE
INVARIANTS
    ExactlyOnce
    CountExact
    ActivationsMeet
PROPERTIES
    ValueReachesAll
