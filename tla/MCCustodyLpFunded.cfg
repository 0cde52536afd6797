SPECIFICATION PrincipalOnlySpec
CONSTANTS
    Users = {u1}
    Trader = u1
    Assets = {eth, usd}
    Pools = {p1}
    Lps = {l1}
    PubKeys = {key}
    Amounts = {1}
    MaxFelt = 1
    PoolUserCapacity = 1
    MaxPoolCells = 2
    LimbBits = 1
    MaxNonce = 1
    FieldPrime = 101
    NoPool = NoPool
    NoKey = NoKey
SYMMETRY Interchangeable
CHECK_DEADLOCK FALSE
INVARIANTS
    LpWithdrawalsFunded
