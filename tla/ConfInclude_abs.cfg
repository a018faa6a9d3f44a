\* An absolute conf path; two files that may include each other, so
\* chains, repeats and cycles up to the open-file limit all occur.
CONSTANTS
    Root <- MCRootAbs
    FilePaths <- MCFilesAbs
    Targets <- MCTargets
    MaxLines = 3
    MaxOpen = 3
SPECIFICATION Spec
INVARIANT TypeOK
INVARIANT AppliedInDocumentOrder
INVARIANT ErrorIffFailure
