\* A server conf with or without manual_delete, and a client conf file of
\* one line: does loading the client leave the server's conf intact?
CONSTANTS
    W <- MCW
    IntBits <- MCIntBits
    Limit <- MCLimit
    KeepVals <- MCKeepVals
    MaxKeep = 2
    CanBits <- MCCanBits
    CanVals <- MCCanVals
    CompTexts <- MCCompTexts
    TimeoutVals <- MCTimeoutVals
    GlobalInts <- MCGlobalInts
    GlobalManual = {"NULL", "gm"}
    MaxLines = 1
SPECIFICATION Spec
INVARIANT GlobalConfIntact
