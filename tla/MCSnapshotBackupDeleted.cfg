\* A backup deleted while its instance is being stopped.
SPECIFICATION FairSpec
CONSTANTS
    Backups = {b1}
    Instances = {i1, i2}
    Volumes = {data}
    None = None
    Faults = {"delete"}
PROPERTY SuspensionEnds
CHECK_DEADLOCK FALSE
