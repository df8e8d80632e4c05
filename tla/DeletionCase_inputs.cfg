SPECIFICATION Spec
CONSTANTS
    Store <- MCStore
    Vault <- MCVault
    NoVault = NoVault
    Service <- MCService
    Federal <- MCFederal
    Foreign <- MCForeign
    VaultOf <- MCVaultOf
    NamedVault <- MCNamedVault
    DemoStore <- MCDemo
    Item <- MCItem
    Home <- MCHome
    CaseName <- MCCaseName
    NoCase = NoCase
    e1 = e1
    e2 = e2
    c1 = c1
    v1 = v1
    Exec = {e1}
    MaxTries = 1
    Requests <- AllRequests
    Policies <- AllPolicies
INVARIANTS
    TypeOK
    PassMeansGone
    PassExpiredBackups
    PassIsAttestable
PROPERTIES
    DestructionIsAuthorised
CHECK_DEADLOCK FALSE
