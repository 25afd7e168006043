SPECIFICATION Spec
CONSTANTS
    Nodes = {n1, n2}
    Strangers = {}
    Error = Error
    Garbled = Garbled
    InvalidKey = InvalidKey
    NoHash = NoHash
    ADDRESS_LEN = 20
    SECRET_KEY_LENGTH = 32
    U64 = 4
    InitBalance = 2
    Amounts = {1}
    Payees = {n1, n2}
    Nonces = {0, 1}
    MaxTx = 1
    MaxRestarts = 0
    Lossy = FALSE
    MaxCredits = 0
INVARIANT CreditedOnce
