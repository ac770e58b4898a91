CONSTANTS
    FlagKeys <- MCKeys
    Documents <- MCDocuments
    Verdict <- MCVerdict
    Parsed <- MCParsed
    Attrs <- MCAttrs
    Extracted <- MCExtracted
    RequiredKeys <- MCRequiredKeys
    Outcome <- MCOutcome
    InternalKeys <- MCInternalKeys
    IntMax = 8
    Clients <- MCClients
    NoState = NoState
    NoRule = NoRule
    EmptyRule = EmptyRule
    RuleNull = RuleNull
    RuleFails = RuleFails
    NoContext = NoContext
    BadContext = BadContext

SPECIFICATION HostSpec

INVARIANT ShortcutsDoNotShow
