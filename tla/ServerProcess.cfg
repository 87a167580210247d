SPECIFICATION Spec
CONSTANTS
    Conns = {c1, c2}
    Fds = {f1, f2}
    None = None
INVARIANTS NoUseAfterCleanup SocketStaysOwn EverySocketAborted CleanExit
PROPERTIES ShutdownCompletes
CHECK_DEADLOCK FALSE
