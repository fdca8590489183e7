CONSTANTS
    Kinds <- KindsCtor
    Signatures <- SigsCtor
    RefTexts <- RefsCtor
    MaxSigs = 1
    MaxDirectives = 3
    MaxDepth = 3
    MaxRefs = 1
    Holds <- HoldsCSharp
    AddFunctionParentheses = TRUE
SPECIFICATION BuildSpec
INVARIANT DeclaredNameResolves
CHECK_DEADLOCK FALSE
