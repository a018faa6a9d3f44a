\* Every sorted include/exclude list of up to five entries over seven paths.
CONSTANTS
    Paths <- MCPaths
    MaxEntries = 5
SPECIFICATION Spec
INVARIANT TypeOK
INVARIANT StartDirsOutermost
