\* Two overlapping processes take batches over from each other.
CONSTANTS
  o1 = o1
  o2 = o2
  o3 = o3
  shardA = shardA
  shardB = shardB
  w1 = w1
  w2 = w2
  w3 = w3
  Nobody = Nobody
  Orders = {o1, o2}
  Workers = {w1, w2}
  QueueLimit = 1
  ClaimLimit = 2
  OutboxWindow = 6
  ShardOf <- MCShardOf
  MaxLive = 2
SPECIFICATION Spec
SYMMETRY Alike
CHECK_DEADLOCK FALSE
PROPERTY OutcomesFinal
