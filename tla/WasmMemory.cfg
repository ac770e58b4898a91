CONSTANTS
    MemorySize = 8
    KeySize = 1
    ContextSize = 2
    ConfigLengths = {0, 1, 2, 9}
    KeyLengths = {1, 2}
    ContextLengths = {0, 1, 2, 3}
    ResultLengths = {1}
    MaxDisposals = 2

SPECIFICATION Spec
CHECK_DEADLOCK FALSE

INVARIANTS
    TypeOK
    FreedOnce
    WritesOwned
    BlocksBalanced
