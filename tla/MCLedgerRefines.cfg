SPECIFICATION FairSpec
CONSTANTS
    a1 = a1
    a2 = a2
    t1 = t1
    t2 = t2
    Threads = {t1, t2}
    NoThread = NoThread
    Address = {a1, a2}
    NumShards = 1
    shard_of <- OneShard
    Amounts = {0, 1, 2}
    Nonces <- SmallNonces
    MaxCalls = 2
    MaxSupply = 3
    U64 = 4
CHECK_DEADLOCK FALSE
PROPERTIES
    RefinesAbstract
    CallsReturn
