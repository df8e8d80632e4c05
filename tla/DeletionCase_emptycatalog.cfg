SPECIFICATION Spec
CONSTANTS
    Store <- MCStore
    Vault <- MCVault
    NoVault = NoVault
    Service <- MCService
    Federal <- MCFederal
    Foreign <- MCForeign
    VaultOf <- MCVaultOf
    NamedVault <- MCNamedVault
    DemoStore <- MCDemo
    Item <- FewItem
    Home <- FewHome
    CaseName <- MCCaseName
    NoCase = NoCase
    e1 = e1
    e2 = e2
    c1 = c1
    v1 = v1
    Exec = {e1}
    MaxTries = 2
    Requests <- ForeignOnly
    Policies <- DryPolicies
INVARIANTS
    PassNeedsCatalog
CHECK_DEADLOCK FALSE
