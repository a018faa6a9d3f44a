\* Two restore sessions on the same client directory: tmp1/tmp2 stay on
\* disk from the first session, whichever way it ended.
CONSTANTS
    f1 = f1
    f2 = f2
    Files <- MCFiles
    NGen = 3
    Actions = {"restore"}
    MaxSessions = 2
    MaxRot = 0
SPECIFICATION Spec
INVARIANT StoredDataIntact
