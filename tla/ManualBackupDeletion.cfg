\* A backup deleted at any point, with its cluster or without.  Afterwards
\* nothing is left to do.
SPECIFICATION FairSpec
CONSTANTS
    Backups = {b1}
    Jobs = {j1, j2}
    None = None
    Faults = {"delete", "jobFails", "clusterDelete", "ttl"}
PROPERTIES
    DeletionEnds
CHECK_DEADLOCK FALSE
