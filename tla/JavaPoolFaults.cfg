CONSTANTS
    A = A
    B = B
    Configs <- MCConfigs
    NoConfig = NoConfig
    Flags <- MCFlags
    Attrs <- MCAttrs
    Kind <- MCKind
    Reads <- SameReads
    Extracted <- MCExtracted
    Keys <- SameKeys
    Contexts <- MCContexts
    Instances = {i1, i2}
    Malformed = Malformed
    Oversized = Oversized
    ByIndexExported = TRUE
    None = None
    Dead = Dead
    Callers = {p1}
    Updaters = {u1, u2}
    FirstFaults = {"trapped", "unread"}
    RestFaults = {"notWritten", "refused", "unread"}
    EvalFaults = {"trapped"}
    MayInterrupt = TRUE
    MayClose = TRUE
    MaxGeneration = 2

SPECIFICATION Spec
SYMMETRY Symmetry

CHECK_DEADLOCK FALSE
INVARIANT TypeOK
INVARIANT OnePlace
PROPERTY UpdateReachesAll
