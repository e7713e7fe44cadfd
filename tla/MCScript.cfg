SPECIFICATION MCSpec
CONSTANTS
    Threads = {"a", "b"}
    Direct <- MCDirect
    Together = {"exception", "decimal", "user"}
    UserDeps <- MCUserDeps
    MaxImports = 2
    MaxAdds = 2
    Removes = TRUE
    None = None
    Checked = {"addons", "deferred", "callbacks", "handles", "object", "pair", "numbers",
             "await", "subcall", "debug", "crypto"}
CHECK_DEADLOCK FALSE
INVARIANTS
    AddonsResolve
    ReferencesBalanced
    
    OutcomesTold
PROPERTIES
    NothingSlipsBy
