CONSTANTS
    A = A
    B = B
    Configs <- MCConfigs
    NoConfig = NoConfig
    Flags <- MCFlags
    Attrs <- MCAttrs
    Kind <- MCKind
    Reads <- SameReads
    Extracted <- MCExtracted
    Keys <- SameKeys
    Contexts <- MCContexts
    Instances = {i1, i2}
    Malformed = Malformed
    Oversized = Oversized
    ByIndexExported = TRUE
    None = None
    Dead = Dead
    Callers = {p1, p2}
    Updaters = {u1}
    FirstFaults = {"notWritten"}
    RestFaults = {}
    EvalFaults = {"tooLarge", "unserializable"}
    MayInterrupt = FALSE
    MayClose = FALSE
    MaxGeneration = 2

SPECIFICATION Spec
SYMMETRY Symmetry

INVARIANT GuardSound
PROPERTY ServesOneConfiguration
