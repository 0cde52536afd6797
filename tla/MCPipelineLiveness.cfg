\* One process at a time with one crash, two orders of one shard that may share a
\* transaction; the outbox window holds every row.
CONSTANTS
  o1 = o1
  o2 = o2
  o3 = o3
  shardA = shardA
  shardB = shardB
  w1 = w1
  w2 = w2
  w3 = w3
  Nobody = Nobody
  Orders = {o1, o2}
  Workers = {w1, w2}
  QueueLimit = 2
  ClaimLimit = 2
  OutboxWindow = 6
  ShardOf <- MCShardOf
  MaxLive = 1
SPECIFICATION FairSpec
CHECK_DEADLOCK FALSE
INVARIANT NoOrderStranded
PROPERTIES
  SubmissionsFresh ImplementsOrderLife OrdersSettle OutcomesAnnounced
