SPECIFICATION FairSpec
CONSTANTS
    j1 = j1  j2 = j2  k1 = k1  k2 = k2
    t1 = t1  t2 = t2  t3 = t3
    w1 = w1  w2 = w2  d1 = d1  d2 = d2
    Jobs = {j1}  Keys = {k1}  KeyOf <- SameKey
    Workers = {w1}  Dispatchers = {d1}
    Tokens = {t1, t2, t3}  None = None
    MaxAttempts = 3  Lease = 2  Timeout = 1
    RetryDelay <- TwoDelays  EnqueueDelay = 1  BatchSize = 25
PROPERTIES EveryJobEnds
