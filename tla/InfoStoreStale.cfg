CONSTANTS
    None = None
    Namespaces <- MCNamespaces
    Names <- MCNames
    ClientNames <- MCClientNames
    ConfigKeys <- MCConfigKeys
    Values <- MCValues
    ProviderKeys <- OneTenantProviders
    ModelKeys <- OneTenantModels
    ProviderSpecs <- TwoProviderSpecs
    ModelSpecs <- TwoRefSpecs
    Faults = {}
    MaxEnv = 1
SPECIFICATION Spec
CHECK_DEADLOCK FALSE
INVARIANT ChangesPropagate
