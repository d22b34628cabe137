\* Two requested backups, one after the other, and an operator that restarts.
SPECIFICATION FairSpec
CONSTANTS
    Backups = {b1, b2}
    Jobs = {j1, j2, j3}
    None = None
    Faults = {"expire", "crash"}
INVARIANTS
    OneJobPerBackup
    ExitIsClean
PROPERTIES
    LabelsStayOff
    RequestEnds
