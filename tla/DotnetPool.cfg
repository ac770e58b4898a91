CONSTANTS
    A = A
    B = B
    Configs <- MCConfigs
    NoConfig = NoConfig
    Flags <- MCFlags
    Attrs <- MCAttrs
    Kind <- MCKind
    Reads <- MCReads
    Extracted <- MCExtracted
    Keys <- MCKeys
    Contexts <- MCContexts
    Instances = {i1, i2}
    Malformed = Malformed
    Oversized = Oversized
    Mixed = Mixed
    None = None
    Dead = Dead
    Callers = {p1}
    Updaters = {u1, u2}
    FirstFaults = {"notWritten", "refused", "trapped", "unread"}
    RestFaults = {"notWritten", "trapped", "unread"}
    EvalFaults = {"trapped", "thrown"}
    MayDispose = TRUE
    MaxGeneration = 2

SPECIFICATION Spec
SYMMETRY Symmetry
CHECK_DEADLOCK FALSE

INVARIANTS
    TypeOK
    OnePlace
    PoolUniform
    AnswersInForce
PROPERTY UpdateReachesAll
