CONSTANTS
    None = None
    NSync = 2
    App = {a1}
    Tasks = {k1, k2}
    Timeouts = {}
    Intervals = {}
    Stoppers = {a1, 1}
    Overlap = TRUE
    MaxRecycles = 1
    Delay <- AllZero
    IdleTimeout = 1
    MaxClock = 0
    MaxStarts = 1
    MaxStops = 2
    MaxSuspends = 1
    MaxTriggers = 0
SPECIFICATION Spec
INVARIANTS Coherent Conservation StopIsComplete
CHECK_DEADLOCK FALSE
