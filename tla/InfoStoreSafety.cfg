CONSTANTS
    None = None
    Namespaces <- MCNamespaces
    Names <- MCNames
    ClientNames <- MCClientNames
    ConfigKeys <- MCConfigKeys
    Values <- MCValues
    ProviderKeys <- TwoTenantProviders
    ModelKeys <- TwoTenantModels
    ProviderSpecs <- RichProviderSpec
    ModelSpecs <- AnySpecs
    Faults = {"delete", "list", "restart"}
    MaxEnv = 2
SPECIFICATION Spec
CHECK_DEADLOCK FALSE
INVARIANT TypeOK
INVARIANT TenantConfinement
INVARIANT ProviderStoreCurrent
INVARIANT WithdrawnUnlessPending
