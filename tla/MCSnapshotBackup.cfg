\* Two backups that contend for the instances of one cluster.
SPECIFICATION Spec
CONSTANTS
    Backups = {b1, b2}
    Instances = {i1, i2, i3}
    Volumes = {data}
    None = None
    Faults = {"delete", "clusterDelete", "disable", "failover", "snapError", "timeout", "crash"}
SYMMETRY Symmetry
INVARIANTS DownWhileRunning
CHECK_DEADLOCK FALSE
