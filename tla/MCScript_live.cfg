SPECIFICATION FairSpec
CONSTANTS
    Threads = {"a", "b"}
    Direct <- MCDirect
    Together = {"exception", "decimal", "user"}
    UserDeps <- MCUserDeps
    MaxImports = 1
    MaxAdds = 2
    Removes = TRUE
    None = None
    Checked = {"addons", "await", "prompt"}
CHECK_DEADLOCK FALSE
PROPERTIES
    ScriptsGoOn
