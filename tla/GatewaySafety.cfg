CONSTANTS
    None = None
    Providers = {"p", "q"}
    ProviderStates <- WithJunk
    ModelSpecs <- AllShapes
    Faults = {"get", "route", "status", "relabel"}
    MaxEnv = 2
SPECIFICATION GatewaySpec
CHECK_DEADLOCK FALSE
PROPERTY NoStatusWhenServed
PROPERTY LastGoodRouteKept
INVARIANT SettledConsistent
