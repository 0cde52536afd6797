\* The fees alone.
SPECIFICATION FeesSpec
CONSTANTS
  MaxNow = 2
  Requests = {r1, r2}
  RateKeys = {k1, k2, k3}
  RateLimit = 1
  MaxRateKeys = 1
  RateWindow = 2
  DbConcurrency = 1
  Users = {u1, u2}
  Traders = {u1, u2}
  Challenges = {q1, q2}
  Tokens = {t1, t2}
  ChallengeTtl = 1
  SessionTtl = 1
  ClientIds = {c1, c2}
  Intents = {i1, i2}
  Attempts = {a1, a2, a3}
  NonceLimit = 1
  QueueLimit = 1
  Orders = {o1}
  FeedCapacity = 3
  NoOrder = NoOrder
  s1 = s1
  s2 = s2
  f1 = f1
  f2 = f2
  f3 = f3
  f4 = f4
  Holders = {"u"}
  Assets = {"x", "y"}
  Usd = "usd"
  Prices = {3, 4}
  PriceScale = 2
  MaxMarks = 2
  Swaps = {s1, s2}
  Flows = {f1, f2, f3, f4}
  SwapOf <- MCSwapOf
  FlowOf <- MCFlowOf
  Validity = 1
  MaxSampleAge = 0
  Warmup = 1
  FutureSlack = 1
  NewsCapacity = 1
  MaxBatches = 2
  Coins = {x, y}
  Lps = {p, q}
  House = p
  Seed = 2
  Deposits = {1}
  Payouts = {1}
  AmountsIn = {2}
  MinOuts = {0, 3}
  RawOuts = {4}
  BackstopFee = 1
  ProtocolFee = 0
  VolatilityFee = 1
  LpFeeRate = 1
  FeePrecision = 4
  Modulus = 32
  MaxSwaps = 2
  MaxEvents = 3
  LimbBits = 2
  MaxNonce = 12
  FieldPrime = 101
CHECK_DEADLOCK FALSE
INVARIANT EngineFollowsStore
