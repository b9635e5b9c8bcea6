CONSTANTS
    a1 = a1
    a2 = a2
    anon = anon
    sym1 = sym1
    symX = symX
    srv = srv
    own = own
    other = other
    p1 = p1
    c1 = c1
    c2 = c2
    Absent = Absent
    Anonymous = anon
    Symbols <- MCSymbols
    SymbolInputs <- MCSymbolInputs
    Senders <- MCSenders
    ServerIdentity = srv
    TokenIdentity = Absent
    Owner <- MCOwner
    Maximum <- MCMaximum
    InitialBalance <- MCInitialBalance
    InitialSeed = 0
    Phrases = {p1}
    RawKeys = {}
    Creds = {c1, c2}
    TokenHeight = 1
    MaxAmount = 2
    MaxHeight = 2
    MaxSeed = 2
    Addrs <- MCAddrsAnon
    Blockchain = TRUE
    MaxOps = 4
SPECIFICATION Spec
INVARIANTS
    TypeOK
    SupplyCoversBalances
    SupplyWithinMaximum
    IdstoreSeedsUnique
