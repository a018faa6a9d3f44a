CONSTANTS
    MaxFrames = 3
    FrameLen = 2
    Leftovers <- MCLeftovers
SPECIFICATION Spec
INVARIANTS
    TypeOK
    ParsedAsSent
