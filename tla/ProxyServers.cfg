SPECIFICATION Spec
CONSTANTS
    MAX_CONFIG_LINES = 6
    Texts <- MCTexts
    RequestKeys <- MCRequestKeys
    MaxLoads = 2
    MaxFaults = 2
    MIN_DELAY = 1
    MAX_DELAY = 3
    HORIZON = 2
INVARIANTS
    TypeOK
    FindIsOwner
    RestartKeepsConfig
    FatalOnlyOnDuplicate
    ShunnedBriefly
PROPERTIES
    UsedAgain
