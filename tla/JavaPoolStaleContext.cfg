CONSTANTS
    A = A
    B = B
    Configs <- MCConfigs
    NoConfig = NoConfig
    Flags <- MCFlags
    Attrs <- MCAttrs
    Kind <- MCKind
    Reads <- OtherReads
    Extracted <- MCExtracted
    Keys <- OtherKeys
    Contexts <- MCContexts
    Instances = {i1, i2}
    Malformed = Malformed
    Oversized = Oversized
    ByIndexExported = TRUE
    None = None
    Dead = Dead
    Callers = {p1}
    Updaters = {u1}
    FirstFaults = {}
    RestFaults = {}
    EvalFaults = {}
    MayInterrupt = FALSE
    MayClose = FALSE
    MaxGeneration = 2

SPECIFICATION Spec
SYMMETRY Symmetry

INVARIANT ContextFitsKeys
