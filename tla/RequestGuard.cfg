SPECIFICATION FairSpec
CONSTANTS
    s1 = s1
    s2 = s2
    u1 = u1
    u2 = u2
    Sessions <- MCSessions
    Titles <- MCTitles
    Callers <- MCCallers
    NoCaller = NoCaller
    InferenceRetries = 1
    StreamRetries = 1
    MaxChunks = 1
    ContextTokens = 20
    TriggerTokens = 15
    KeepTokens = 1
    SummaryTokens = 5
    MaxOutputTokens = 1
    Allowance = 2
    Instructions = 2
    NoSummary = NoSummary
    MaxModelCalls = 2
    Contexts <- MCContexts
    Texts <- MCTexts
    Summaries <- MCSummaries
    SystemTokens = 2
INVARIANTS TypeOK SlotIsOwned OneCallAtATime RequestsBounded SummaryRequestFits NothingSkipped CompactedContextFits
PROPERTIES NeverReplayed RequestEnds
