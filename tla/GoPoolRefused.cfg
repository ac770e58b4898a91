CONSTANTS
    A = A
    B = B
    Configs <- MCConfigs
    NoConfig = NoConfig
    Flags <- MCFlags
    Attrs <- MCAttrs
    Kind <- MCKind
    Reads <- MCReads
    Extracted <- MCExtracted
    Keys <- MCKeys
    Contexts <- MCContexts
    Instances = {i1, i2}
    Callers = {p1}
    Updaters = {u1}
    Malformed = Malformed
    Oversized = Oversized
    FirstFaults = {}
    RestFaults = {"refused"}
    EvalFaults = {}
    ByIndexExported = TRUE
    MaxGeneration = 1
    MayClose = FALSE
    None = None
    Dead = Dead

SPECIFICATION Spec
SYMMETRY Symmetry

PROPERTY UpdateReachesAll
