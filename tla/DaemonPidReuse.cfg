SPECIFICATION Spec
CONSTANTS
    Launchers = {l1}
    Controls = {k1}
    Port <- MCOwnPorts
    Urls = {a1}
    MaxChanges = 0
    Overlap = FALSE
    Reuse = TRUE
    NoState = NoState
INVARIANTS StopStrikesDaemonsOnly
CHECK_DEADLOCK FALSE
