CONSTANTS
    Kinds <- KindsNested
    Signatures <- SigsNested
    MaxSigs = 1
    MaxDirectives = 4
    MaxDepth = 3
    Holds <- HoldsTypes
SPECIFICATION Spec
INVARIANT TypeOK
INVARIANT StackMirrorsNesting
PROPERTY ScopeRefinement
CHECK_DEADLOCK FALSE
