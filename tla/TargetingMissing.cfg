CONSTANTS
    Documents <- MCReadDocuments
    Contexts <- MCContexts
    FlagKey = "flag"
    Hash <- MCHash
    HashSize = 16
    MaxNumber = 20
    FlagdFields <- MCFlagdFields
    MaxJsonDepth = 2
    MaxRefDepth = 2
    AllKeys = AllKeys

SPECIFICATION Spec

CHECK_DEADLOCK FALSE
INVARIANT KeysCoverReads
