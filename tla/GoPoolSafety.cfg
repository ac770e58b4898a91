CONSTANTS
    A = A
    B = B
    Configs <- MCConfigs
    NoConfig = NoConfig
    Flags <- MCFlags
    Attrs <- MCAttrs
    Kind <- MCKind
    Reads <- MCReads
    Extracted <- MCExtracted
    Keys <- MCKeys
    Contexts <- MCContexts
    Instances = {i1, i2}
    Callers = {p1, p2}
    Updaters = {u1, u2}
    Malformed = Malformed
    Oversized = Oversized
    FirstFaults = {"trapped"}
    RestFaults = {"trapped", "unread"}
    EvalFaults = {"trapped"}
    ByIndexExported = TRUE
    MaxGeneration = 2
    MayClose = FALSE
    None = None
    Dead = Dead

SPECIFICATION Spec
SYMMETRY Symmetry

INVARIANT TypeOK
INVARIANT SingleOwner
INVARIANT PoolUniform
INVARIANT GuardSound
PROPERTY UpdateReachesAll
PROPERTY ServesOneConfiguration
