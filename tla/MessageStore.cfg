SPECIFICATION Spec
CONSTANTS
    Streams = {s1, s2}
    Chars = {"x", "_"}
    Blank = {"_"}
    Messages <- MCMessages
    NoMessage = NoMessage
    MaxVersion = 2
INVARIANTS NoLostWakeup NoKeepaliveStorm
PROPERTIES ImplementsMessageBoard EveryPostIsDelivered ShutdownCompletes
CHECK_DEADLOCK FALSE
