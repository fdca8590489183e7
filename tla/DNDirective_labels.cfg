CONSTANTS
    Kinds <- KindsLabels
    Signatures <- SigsLabels
    MaxSigs = 1
    MaxDirectives = 3
    MaxDepth = 3
    Holds <- HoldsCSharp
SPECIFICATION Spec
INVARIANT SummaryLabels
CHECK_DEADLOCK FALSE
