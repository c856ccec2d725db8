CONSTANTS
    None = None
    Namespaces <- MCNamespaces
    Names <- MCNames
    ClientNames <- MCClientNames
    ConfigKeys <- MCConfigKeys
    Values <- MCValues
    ProviderKeys <- TwoTenantProviders
    ModelKeys <- TwoTenantModels
    ProviderSpecs <- OneProviderSpec
    ModelSpecs <- CollidingSpecs
    Faults = {"restart"}
    MaxEnv = 2
SPECIFICATION FairSpec
CHECK_DEADLOCK FALSE
PROPERTY EventuallyWithdrawn
PROPERTY EventuallyServed
