CONSTANTS
    Kinds <- KindsXRef
    Signatures <- SigsXRef
    RefTexts <- RefsXRef
    MaxSigs = 1
    MaxDirectives = 3
    MaxDepth = 3
    MaxRefs = 2
    Holds <- HoldsCSharp
    AddFunctionParentheses = TRUE
SPECIFICATION BuildSpec
INVARIANT DeclaredNameResolves
INVARIANT CallTitleShown
INVARIANT TildeOnlyShortensTitle
CHECK_DEADLOCK FALSE
