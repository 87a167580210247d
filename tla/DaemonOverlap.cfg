SPECIFICATION Spec
CONSTANTS
    Launchers = {l1, l2}
    Controls = {}
    Port <- MCOwnPorts
    Urls = {a1, a2}
    MaxChanges = 1
    Overlap = TRUE
    Reuse = FALSE
    NoState = NoState
INVARIANTS OneDaemon
CHECK_DEADLOCK FALSE
