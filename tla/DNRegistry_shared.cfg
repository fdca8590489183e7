CONSTANTS
    A = A
    B = B
    D = D
    Docs = {A, B}
    Sources <- SourcesShared
    MaxEdits = 2
    UniqueSigIds = FALSE
SPECIFICATION RegSpec
INVARIANT RegistryReflectsSources
CHECK_DEADLOCK FALSE
