SPECIFICATION Spec
CONSTANTS
    Conns = {c1, c2}
    Fds = {f1, f2}
    None = None
INVARIANTS GracefulShutdownLeavesNoTemp
CHECK_DEADLOCK FALSE
