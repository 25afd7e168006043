SPECIFICATION Spec
CONSTANTS
    Receivers = {r1, r2}
    Senders = {s1}
    NoOne = NoOne
    Retries = 2
    Backlog = 0
    MaxKills = 0
CHECK_DEADLOCK FALSE
INVARIANT SoleListenerReachable
