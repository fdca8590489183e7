CONSTANTS
    NamePrefixes = {"C.", "C.X."}
    Names = {"m", "Get<T>"}
    Modifiers = {"", "this "}
    Types = {"int", "List<T>"}
    ParamNames = {"x", ""}
    Returns = {"", ": void"}
    MaxParams = 2
SPECIFICATION Spec
INVARIANT SigIdEncodesParamTypes
INVARIANT NodeIdsDistinct
INVARIANT SummaryParamsMatchSigId
