\* The outbox window scaled down to one row, which one purged order fills.
CONSTANTS
  o1 = o1
  o2 = o2
  o3 = o3
  shardA = shardA
  shardB = shardB
  w1 = w1
  w2 = w2
  w3 = w3
  Nobody = Nobody
  Orders = {o1, o3}
  Workers = {w1, w2}
  QueueLimit = 2
  ClaimLimit = 2
  OutboxWindow = 1
  ShardOf <- MCShardOf
  MaxLive = 1
SPECIFICATION FairSpec
CHECK_DEADLOCK FALSE
PROPERTY OutcomesAnnounced
