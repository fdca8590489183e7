CONSTANTS
    Kinds <- KindsOverloads
    Signatures <- SigsOverloads
    MaxSigs = 2
    MaxDirectives = 3
    MaxDepth = 2
    Holds <- HoldsTypes
SPECIFICATION Spec
INVARIANT ReadCompletes
CHECK_DEADLOCK FALSE
