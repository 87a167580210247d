SPECIFICATION FairSpec
CONSTANTS
    Launchers = {l1}
    Controls = {}
    Port <- MCOwnPorts
    Urls = {a1, a2, a3}
    MaxChanges = 3
    Overlap = FALSE
    Reuse = FALSE
    NoState = NoState
PROPERTIES UrlBecomesCurrent
CHECK_DEADLOCK FALSE
