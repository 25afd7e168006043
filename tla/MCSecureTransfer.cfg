SPECIFICATION FairSpec
CONSTANTS
    Receivers = {r1, r2}
    Senders = {s1, s2}
    NoOne = NoOne
    Retries = 2
    Backlog = 0
    MaxKills = 1
CHECK_DEADLOCK FALSE
INVARIANTS
    TypeOK
    SessionIntegrity
    OnlyKilledLeaveFile
PROPERTIES
    SendersEnd
    ReceiversEnd
    CompleteIsReceived
