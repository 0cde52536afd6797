\* Trader and an LP with amounts up to two, or three users on two shards with single units.
SPECIFICATION BothCasesSpec
CONSTANTS
    Users = {u1, u2, u3}
    Trader = u1
    Assets = {eth, usd}
    Pools = {p1, p2}
    Lps = {l1}
    PubKeys = {key}
    Amounts = {1, 2}
    MaxFelt = 2
    PoolUserCapacity = 2
    MaxPoolCells = 3
    LimbBits = 1
    MaxNonce = 1
    FieldPrime = 101
    NoPool = NoPool
    NoKey = NoKey
SYMMETRY Interchangeable
CHECK_DEADLOCK FALSE
INVARIANTS
    NoOverdraft
    HoldingsOnRecord
PROPERTY ImplementsLedger
