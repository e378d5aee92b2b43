CONSTANTS
    Base = 8
    IdLen = 2
    None = None
    Raises = Raises
    Asks <- SomeAsks
    Configs <- AllConfigs
    Others <- OtherMessages
    Errors <- SomeErrors
    User <- OneText
    Password <- TwoBytes
    Id <- TwoBytes
    TargetData <- TargetGreets
SPECIFICATION RequestFairSpec
INVARIANTS RoundTrip ConnectsAsAsked StreamStartsAfterReply SuccessIsEarned
PROPERTIES RequestEnds
CHECK_DEADLOCK FALSE
