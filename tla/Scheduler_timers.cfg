CONSTANTS
    None = None
    NSync = 1
    App = {a1}
    Tasks = {}
    Timeouts = {t1}
    Intervals = {v1}
    Stoppers = {a1, 1}
    Overlap = FALSE
    MaxRecycles = 1
    Delay <- Delays
    IdleTimeout = 2
    MaxClock = 3
    MaxStarts = 2
    MaxStops = 1
    MaxSuspends = 0
    MaxTriggers = 1
SPECIFICATION Spec
INVARIANT NeverOversleeps
PROPERTY ImplementsPool
CHECK_DEADLOCK FALSE
