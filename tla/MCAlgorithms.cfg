SPECIFICATION ASpec
CONSTANTS
    DefaultPageSize = 20
    WellFormed <- MCWellFormed
    Conforms <- MCConforms
    Defaults <- MCDefaults
    Secrets <- MCSecrets
    YAML <- MCYAML
    PagingInputs <- MCPagingInputs
    DeliveryInputs <- MCDeliveryInputs
    ChainInputs <- MCChainInputs
    ConfigurationInputs <- MCConfigurationInputs
CHECK_DEADLOCK FALSE
INVARIANTS
    PagesAreExact
    DialsAreAllowed
    ChainsGuard
    ConfigurationIsEffective
