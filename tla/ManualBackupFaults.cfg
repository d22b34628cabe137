\* One backup and everything that can happen to it.  After the deletion of the
\* cluster and of the backup nothing is left to do.
SPECIFICATION Spec
CONSTANTS
    Backups = {b1}
    Jobs = {j1, j2}
    None = None
    Faults = {"delete", "reject", "notReady", "jobFails", "jobLost", "clusterDelete", "crash"}
INVARIANTS
    SucceededByOwnJob
    InProgressOwned
CHECK_DEADLOCK FALSE
