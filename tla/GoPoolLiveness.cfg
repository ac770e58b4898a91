CONSTANTS
    A = A
    B = B
    Configs <- OneConfig
    NoConfig = NoConfig
    Flags <- OneFlag
    Attrs <- MCAttrs
    Kind <- OneKind
    Reads <- OneReads
    Extracted <- OneExtracted
    Keys <- OneReads
    Contexts <- MCContexts
    Instances = {i1, i2}
    Callers = {p1}
    Updaters = {u1, u2}
    Malformed = Malformed
    Oversized = Oversized
    FirstFaults = {"notWritten"}
    RestFaults = {}
    EvalFaults = {}
    ByIndexExported = TRUE
    MaxGeneration = 2
    MayClose = TRUE
    None = None
    Dead = Dead

SPECIFICATION FairSpec

CHECK_DEADLOCK FALSE
INVARIANT NoneLost
PROPERTY HoldersReturn
PROPERTY EveryEvaluationReturns
PROPERTY EveryUpdateReturns
