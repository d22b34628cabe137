\* One backup of two volumes; two backups that contend for the lock.
SPECIFICATION BackupsSpec
CONSTANTS
    Backups = {b1}
    Instances = {i1, i2}
    Volumes = {data, wal}
    None = None
    Faults = {"delete", "clusterDelete", "failover", "snapError", "timeout", "crash"}
    Contenders = {1, 2}
    NoHolder = NoHolder
    MaxCrashes = 1
INVARIANT SnapshotConsistent
PROPERTIES VerdictKept FinalizerReverts EveryoneGetsLease
CHECK_DEADLOCK FALSE
