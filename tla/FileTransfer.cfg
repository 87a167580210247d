SPECIFICATION FairSpec
CONSTANTS
    MaxSize = 6
    MaxFile = 5
    FrameSize = 4
    Window = 3
INVARIANTS PublishedIsWhole SuccessMeansDelivered FailureHasCause
PROPERTIES SessionEnds
