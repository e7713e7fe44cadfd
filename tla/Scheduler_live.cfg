CONSTANTS
    None = None
    NSync = 1
    App = {a1}
    Tasks = {k1}
    Timeouts = {}
    Intervals = {v1}
    Stoppers = {a1}
    Overlap = FALSE
    MaxRecycles = 1
    Delay <- Delays
    IdleTimeout = 1
    MaxClock = 1
    MaxStarts = 1
    MaxStops = 1
    MaxSuspends = 1
    MaxTriggers = 0
SPECIFICATION FairSpec
PROPERTY WorkGetsDone
CHECK_DEADLOCK FALSE
