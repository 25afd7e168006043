SPECIFICATION Spec
CONSTANTS
    Peers = {p1}
    Own = own
    Other = other
    Keys = {own, other}
    Clis <- OneCliEach
    Lines <- OneLineEach
    Credits = {0, 1}
    None = None
    Error = Error
    Garbled = Garbled
    InvalidKey = InvalidKey
    ADDRESS_LEN = 20
    SECRET_KEY_LENGTH = 32
    U64 = 3
    MaxConns = 2
    MaxSends = 2
INVARIANTS
    TypeOK
    LoopIsReady
    RestoredWallet
    TrackedAreConnected
    TrackedEverywhere
    BootstrapFollows
    OwnSendsAccepted
    ReportTruthful
CHECK_DEADLOCK FALSE
