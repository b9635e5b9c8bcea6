CONSTANTS
    tokens = tokens
    legacy = legacy
    accounts = accounts
    hfx = hfx
    Registry <- MCRegistry
    Kind <- MCKind
    Config <- MCConfig
    MaxHeight = 12
SPECIFICATION Spec
INVARIANTS
    ActiveMigrationsInitialized
