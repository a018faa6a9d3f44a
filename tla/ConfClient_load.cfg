\* A client's conf load over every server conf of the modelled settings
\* (with no manual_delete: GlobalConfIntact has its own run) and every client
\* conf file of up to two lines, with every failure point.
CONSTANTS
    W <- MCW
    IntBits <- MCIntBits
    Limit <- MCLimit
    KeepVals <- MCKeepVals
    MaxKeep = 2
    CanBits <- MCCanBits
    CanVals <- MCCanVals
    CompTexts <- MCCompTexts
    TimeoutVals <- MCTimeoutVals
    GlobalInts <- MCGlobalInts
    GlobalManual = {"NULL"}
    MaxLines = 2
SPECIFICATION Spec
INVARIANTS
    TypeOK
    KeepAcceptedIffSane
    KeepAsConfigured
    SettingsAsConfigured
    ScriptsAsConfigured
