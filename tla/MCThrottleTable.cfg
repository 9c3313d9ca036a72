SPECIFICATION Spec
CONSTANTS
    Request = {p1, p2, p3}
    Key = {k1, k2}
    Shard = {k1, k2}
    ShardOf <- MCShardOf
    Entry = {e1, e2, e3}
    Nil = Nil
    Limit = 1
    MaxTableSize = 1
    MaxArrivals = 5
CHECK_DEADLOCK FALSE
INVARIANTS
    KeyLimit
    TableExact
PROPERTY
    Drained
