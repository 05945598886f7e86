\* Two callers, one moving between two channels, on two shards; one channel may fail to open.
SPECIFICATION FairSpec
CONSTANTS
    t1 = t1  t2 = t2  c1 = c1  c2 = c2
    Thread = {t1, t2}
    Channel = {c1, c2}
    Lease = {l1, l2, l3}
    NoThread = NoThread
    NoLease = NoLease
    Shards = 2
    ShardOf <- TwoShards
    Wants <- Overlapping
    FailingChannels = {c1}
    MaxTries = 1
INVARIANTS TypeOK MutualExclusion HolderRegistered OrphansOnlyAfterError KickHitsTheChannel
PROPERTIES ImplementsSingleSource EveryCallReturns
\* The registry can really stop: see registry_self_wait.cfg.
CHECK_DEADLOCK FALSE
