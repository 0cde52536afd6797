\* Four background tasks, each alone, under the fairness of its loop.
SPECIFICATION WorkersSpec
CONSTANTS
  MaxNow = 2
  Users = {u1}
  Challenges = {k1}
  Tokens = {t1}
  ChallengeTtl = 1
  SessionTtl = 1
  Conns = {c1, c2}
  Public = Public
  IpOf <- MCIpOf
  GlobalCap = 2
  PerIpCap = 1
  MaxSubscriptions = 1
  PongTimeout = 0
  VaultNotes = {1, 2, 3, 4, 5, 6}
  NoteOf <- MCNoteOf
  NoTime = NoTime
  NoNote = NoNote
  Cold = Cold
  MaxCrashes = 2
  Tape <- MCTape
  BrokerCapacity = 1
  MinInterval = 2
  BpsThreshold = 2
  BpsDenominator = 10
  BacklogCapacity = 1
  MaxShards = 5
  UserCapacity = 2
  ReserveUsers = 1
  MaxUsers = 2
  MaxFaults = 2
CHECK_DEADLOCK FALSE
INVARIANTS
  ConnectionsWithinCap NoGhostSubscriptions
  NoFlowPassedOver MirrorFollowsChain
  PlacedShardsServed
PROPERTIES
  DeadSessionsLetGo FlowsGetCounted
  PricesReachClients CapacityRestored
