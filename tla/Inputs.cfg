\* An 8-bit Content-Length; paths of five pieces; messages of three characters,
\* every pair of special ones with one before or behind it; three options with
\* their values; bytes of four values, so that words wrap around at 16; and
\* buffers in the proportions of the code, where a line of the longest directory
\* just fits.
SPECIFICATION InputSpec
CONSTANTS
    Max = 255
    MaxDigits = 4
    MaxPieces = 5
    PathMax = 13
    MaxLen = 3
    MaxArgs = 6
    Base = 4
    MaxName = 2
    MaxText = 2
    MaxFile = 9
    Chunk = 2
    TextCap = 29
    LineCap = 8
    DirCap = 5
INVARIANTS
    ParsedIsExact
    LinkReachesEntry TargetStaysInside
    MessageIsKept UsageIsParsed
    AcceptedIsCanonical HonestIsAccepted
    StateReadsBack
CHECK_DEADLOCK FALSE
