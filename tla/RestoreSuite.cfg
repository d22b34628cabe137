SPECIFICATION SuiteSpec
CONSTANTS
    Restores = {r1, r2}
    Boot = boot
    Instances = {i1, i2}
    None = None
    Scenarios = {{"crash", "jobFails"}, {"jobFails"}, {"delete"}, {"dataSource", "jobFails"}, {"dataSource", "crash"}}
    SnapshotScenarios = {{"crash", "prepareFails"}, {"recreate"}, {"delete", "deleteEarly"}, {"noBackup"}, {"pitr", "pitrFails", "delete"}, {"pitr", "prepareFails"}}
INVARIANTS SucceededRestored JobAlone RequestWithdrawn RestoresOnce SnapshotVolumesSafe
PROPERTIES SnapshotVerdict 
CHECK_DEADLOCK FALSE
