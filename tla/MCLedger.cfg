SPECIFICATION Spec
CONSTANTS
    a1 = a1
    a2 = a2
    t1 = t1
    t2 = t2
    Threads = {t1, t2}
    NoThread = NoThread
    Address = {a1, a2}
    NumShards = 2
    shard_of <- TwoShards
    Amounts = {1, 3}
    Nonces <- TwoNonces
    MaxCalls = 3
    MaxSupply = 5
    U64 = 4
SYMMETRY ThreadSymmetry
CHECK_DEADLOCK FALSE
INVARIANTS
    TypeOK
    LockDiscipline
    NonceSequence
    Conservation
PROPERTIES
    NonceMonotone
