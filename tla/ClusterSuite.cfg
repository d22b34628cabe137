SPECIFICATION Spec
CONSTANTS
    None = None
    Nil = Nil
    Absent = Absent
    Members = {m1, m2, m3}
    MaxTimeline = 4
    SwitchoverFaults = {"crash", "failover", "misdirected"}
    Repos = {r1, r2}
    MaxVolume = 3
    RepositoryScenarios = {{"bucket", "jobFails"}, {"remove", "authorize"}, {"move", "crash"}, {"schedule", "unschedule"}, {"shutdown", "replace"}}
    Upgrades = {1, 2}
    Instances = {i1, i2, i3}
    UpgradeScenarios = {{"crash", "jobFails"}, {"again", "jobFails"}}
    Pair = {x1, x2}
    u1 = u1
    u2 = u2
    VolumeScenarios = {{"fill", "restart", "more"}, {"fill", "crash", "more"}, {"wal", "restart", "crash"}, {"wal", "no wal", "controlled", "restart"}, {"move", "crash", "evict"}, {"unlimit", "remove", "restart"}}
    SnapshotScenarios = {{"jobFails", "crash"}, {"snapshotFails", "crash"}, {"disable", "enable", "crash"}}
    EncryptionScenarios = {{"enable", "change", "crash"}, {"enable", "change", "restart"}, {"enable", "change", "execFails"}, {"enable", "change", "again"}, {"enable", "disable", "encrypt"}, {"enable", "disable", "reenable"}, {"standby", "source", "promote"}}
    ObjectScenarios = {{"password", "crash", "execFails", "init"}, {"add", "rollout", "crash", "execFails"}, {"pgadmin", "away", "password", "execFails"}, {"restore", "rotate", "failover", "bouncer"}, {"restore", "password", "add", "early"}, {"exporter", "bouncer", "failover", "crash"}}
    PgBouncerScenarios = {{"pause", "resume", "restart", "crash"}, {"pause", "evict", "crash"}, {"pause", "resume", "restart", "pauseFails"}, {"pause", "disable", "enable"}, {"pause", "resume", "evict"}, {"shutdown", "startup", "crash"}}
    CertificateScenarios = {{"absent", "up", "expire"}, {"down", "up"}, {"renew"}, {"absent", "rotate", "age"}, {"operatorOnly", "expire", "crash"}, {"userOnly"}, {"external", "down", "up"}, {"clusterIssuer", "absent", "up"}, {"customRoot", "age"}, {"customTLS"}, {"external", "to namespaced"}}
    LifecycleScenarios = {{"pause", "resume", "backup", "crash"}, {"unmanage", "manage", "pause"}, {"delete", "backup", "crash"}, {"ext", "backup"}, {"ext", "secret", "dropFails"}, {"schedule", "unlist", "crash"}, {"schedule", "delete"}, {"delete", "untracked"}}
    StandbyScenarios = {{"outage", "crash"}, {"promote", "crash", "conflict"}}
    ReplicaScenarios = {{"remove", "failover", "crash"}, {"pause", "remove", "resume"}, {"pause", "resume", "upgrade"}, {"pause", "resume", "crash"}, {"restore"}, {"jobFails", "remove"}, {"restart", "remove", "add"}}
INVARIANTS PrimarySafe SwitchoverOnce FirstBackupExists VolumesSafe KeyReachable RevisionTrue UpgradeOffline VolumesOutlivePods NoOrphanSlot ClusterSettles OperatorSettles
PROPERTIES TwoKeys RolloutSparesPrimary SnapshotSafe
CHECK_DEADLOCK FALSE
