CONSTANTS
    Kinds <- KindsNested
    Signatures <- SigsNested
    MaxSigs = 1
    MaxDirectives = 4
    MaxDepth = 3
    Holds <- HoldsAny
SPECIFICATION Spec
PROPERTY NestingBalanced
CHECK_DEADLOCK FALSE
