SPECIFICATION Spec
CONSTANTS
    MaxStatements = 1
    Configs <- MCConfigs
    Token <- MCToken
    Stoi <- MCStoi
    Path <- SomePaths
    factories_ <- MCFactories
    Needs <- MCNeeds
    NoPrefix = NoPrefix
INVARIANT DefaultsToEcho
CHECK_DEADLOCK FALSE
