CONSTANTS
    None = None
    Providers = {"p", "q"}
    ProviderStates <- Changing
    ModelSpecs <- LiveShapes
    Faults = {"get", "route", "relabel"}
    MaxEnv = 2
SPECIFICATION FairSpec
CHECK_DEADLOCK FALSE
PROPERTY RouteConverges
PROPERTY StatusConverges
