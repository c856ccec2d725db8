SPECIFICATION FairSpec
CONSTANTS
    None = None
    LegacySpecs <- MCLegacySpecs
    MaxSteps = 4
INVARIANTS ProviderFirst
PROPERTIES UserChangesKept MigratedOverTLS FollowsLegacy
CHECK_DEADLOCK FALSE
