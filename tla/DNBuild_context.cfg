CONSTANTS
    Kinds <- KindsXRef
    Signatures <- SigsXRef
    RefTexts <- RefsContext
    MaxSigs = 1
    MaxDirectives = 3
    MaxDepth = 3
    MaxRefs = 1
    Holds <- HoldsCSharp
    AddFunctionParentheses = TRUE
SPECIFICATION BuildSpec
INVARIANT ContextRelativeResolves
CHECK_DEADLOCK FALSE
