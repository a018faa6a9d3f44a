\* Every manifest over five nested paths, every filter, up to two client
\* frames, every entry restore succeeding or failing.
CONSTANTS
    Paths <- MCPaths
    MaxFrames = 2
SPECIFICATION FairSpec
INVARIANT TypeOK
INVARIANT DirsAfterContents
INVARIANT EveryEntryOnce
PROPERTY Terminates
