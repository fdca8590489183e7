CONSTANTS
    Kinds <- KindsXRef
    Signatures <- SigsGeneric
    RefTexts <- RefsTilde
    MaxSigs = 1
    MaxDirectives = 3
    MaxDepth = 3
    MaxRefs = 1
    Holds <- HoldsCSharp
    AddFunctionParentheses = TRUE
SPECIFICATION BuildSpec
INVARIANT TildeOnlyShortensTitle
CHECK_DEADLOCK FALSE
