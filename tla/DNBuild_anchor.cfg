CONSTANTS
    Kinds <- KindsXRef
    Signatures <- SigsGeneric
    RefTexts <- RefsGeneric
    MaxSigs = 1
    MaxDirectives = 3
    MaxDepth = 3
    MaxRefs = 1
    Holds <- HoldsCSharp
    AddFunctionParentheses = TRUE
SPECIFICATION BuildSpec
INVARIANT LinkTargetsAnchor
CHECK_DEADLOCK FALSE
