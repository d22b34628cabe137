\* Jobs may finish before the backup controller has polled for them.
SPECIFICATION Spec
CONSTANTS
    Backups = {b1, b2}
    Jobs = {j1, j2, j3}
    None = None
    Faults = {"quickJobs"}
INVARIANTS
    OneJobPerBackup
