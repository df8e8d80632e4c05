SPECIFICATION FairSpec
CONSTANTS
    Store <- MCStore
    Vault <- MCVault
    NoVault = NoVault
    Service <- MCService
    Federal <- MCFederal
    Foreign <- MCForeign
    VaultOf <- MCVaultOf
    NamedVault <- MCNamedVault
    DemoStore <- MCDemo
    Item <- OneItem
    Home <- OneHome
    CaseName <- MCCaseName
    NoCase = NoCase
    e1 = e1
    e2 = e2
    c1 = c1
    v1 = v1
    Exec = {e1, e2}
    MaxTries = 2
    Requests <- PromiseRequests
    Policies <- PromisePolicies
INVARIANTS
    SuccessIsProved
    RowIsBacked
    EscalationIsBacked
PROPERTIES
    EvidenceIsFinal
    KeepsPromise
CHECK_DEADLOCK FALSE
