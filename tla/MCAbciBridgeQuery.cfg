CONSTANTS
    e1 = e1
    e2 = e2
    e3 = e3
    e4 = e4
    None = None
    BadTime = BadTime
    Envelope <- MCEnvelope
    Malformed <- MCMalformed
    NotMessage <- MCNotMessage
    Invalid <- MCInvalid
    Time <- MCTime
    TimestampOf <- MCTimestampOf
    Timeout = 1
    MaxHeight = 2
    MaxTxPerBlock = 1
    LegacyHeight = 1
    Commands <- MCCommands
SPECIFICATION Spec
INVARIANTS
    QueryReadOnly
