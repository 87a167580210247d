SPECIFICATION ChosenSpec
CONSTANTS
    Launchers = {l1, l2}
    Controls = {k1, k2}
    Port <- MCOwnPorts
    Urls = {a1, a2}
    MaxChanges = 1
    Overlap = FALSE
    Reuse = TRUE
    NoState = NoState
INVARIANTS OneDaemon Findable NoStateAfterExit
PROPERTIES StoppedIsTrue CommandsEnd
CHECK_DEADLOCK FALSE
