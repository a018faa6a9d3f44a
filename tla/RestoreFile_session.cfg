\* One restore or verify session over every storage layout of two files in
\* three generations, after the disk may have damaged one stored object:
\* the scratch files are reused from file to file.
CONSTANTS
    f1 = f1
    f2 = f2
    Files <- MCFiles
    NGen = 3
    Actions = {"restore", "verify"}
    MaxSessions = 1
    MaxRot = 1
SPECIFICATION Spec
INVARIANT TypeOK
INVARIANT StoredDataIntact
PROPERTY NoStaleScratch
PROPERTY VerifyDetectsDamage
PROPERTY ImplementsService
