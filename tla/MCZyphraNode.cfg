SPECIFICATION Spec
CONSTANTS
    Nodes = {n1, n2}
    Strangers = {s}
    Error = Error
    Garbled = Garbled
    InvalidKey = InvalidKey
    NoHash = NoHash
    ADDRESS_LEN = 20
    SECRET_KEY_LENGTH = 32
    U64 = 4
    InitBalance = 2
    Amounts = {1}
    Payees = {n1, n2}
    Nonces = {0, 1}
    MaxTx = 2
    MaxRestarts = 1
    Lossy = TRUE
    MaxCredits = 2
SYMMETRY NodeSymmetry
INVARIANTS
    TypeOK
    CreditOnlyIssued
    AtMostOncePerPath
    ResponsesTruthful
    NoncesOfRun
    OwnBalanceAudit
PROPERTIES
    GossipNeverRepeats
