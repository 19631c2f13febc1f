SPECIFICATION Spec
CONSTANTS
    MaxStatements = 4
    Configs <- MCConfigs
    Token <- MCToken
    Stoi <- MCStoi
    Path <- SomePaths
    factories_ <- MCFactories
    Needs <- MCNeeds
    NoPrefix = NoPrefix
INVARIANTS
    ServedAsConfigured
    LongestMatch
    FileIsRestOfPath
    AnsweredAsConfigured
CHECK_DEADLOCK FALSE
