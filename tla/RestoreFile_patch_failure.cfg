\* One session; checks the spec's statement PatchFailureRecoverable against restore_file.
CONSTANTS
    f1 = f1
    f2 = f2
    Files <- MCFiles
    NGen = 3
    Actions = {"restore"}
    MaxSessions = 1
    MaxRot = 0
SPECIFICATION Spec
INVARIANT PatchFailureRecoverable
