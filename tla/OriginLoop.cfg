CONSTANTS
    None = None
    ThirdParty = ThirdParty
    Clusters <- Three
    Hubs = {"c"}
    Texts <- MCTexts
    Trim <- MCTrim
    Fold <- MCFold
    EnvName <- SomeNames
    Refs <- AnyRefs
    ClientOrigins = {"", " ", "A", "other"}
SPECIFICATION FairSpec
CHECK_DEADLOCK FALSE
INVARIANT MarkerSendsOnce
INVARIANT OnlyLoopsRejected
INVARIANT OriginKeptFromProviders
PROPERTY ReturningRequestEnds
