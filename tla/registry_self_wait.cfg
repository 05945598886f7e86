\* Two callers race for one channel.
SPECIFICATION Spec
CONSTANTS
    t1 = t1  t2 = t2  c1 = c1  c2 = c2
    Thread = {t1, t2}
    Channel = {c1}
    Lease = {l1, l2}
    NoThread = NoThread
    NoLease = NoLease
    Shards = 1
    ShardOf <- OneShard
    Wants <- Contended
    FailingChannels = {}
    MaxTries = 1
INVARIANTS NoSelfWait
\* The registry can really stop: see registry_self_wait.cfg.
CHECK_DEADLOCK FALSE
