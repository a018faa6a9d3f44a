\* A conf path without a directory part, as "burp -c a.conf" gives.
CONSTANTS
    Root <- MCRootRel
    FilePaths <- MCFilesRel
    Targets <- MCTargets
    MaxLines = 3
    MaxOpen = 3
SPECIFICATION Spec
INVARIANT AppliedInDocumentOrder
