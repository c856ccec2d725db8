CONSTANTS
    None = None
    Providers = {"p", "q"}
    ProviderStates <- Changing
    ModelSpecs <- BothOnly
    Faults = {}
    MaxEnv = 0
SPECIFICATION GatewaySpec
CHECK_DEADLOCK FALSE
INVARIANT DestinationMatchesCredential
