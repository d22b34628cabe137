----------------------------- MODULE Encryption -----------------------------
(***************************************************************************)
(* Transparent data encryption with pg_tde                                 *)
(* (internal/controller/postgrescluster/postgres.go, internal/pgtde): the  *)
(* extension is installed and dropped, and its key provider follows the    *)
(* vault credentials of the spec in two phases, so that every instance can *)
(* read the credentials that the provider names, whenever it restarts.     *)
(***************************************************************************)
EXTENDS Naturals, FiniteSets

CONSTANTS
    Instances,
    MaxVault,   \* credentials are 1 .. MaxVault; 0: no vault in the spec
    None,
    Scenarios   \* sets of changes: what may happen in a behaviour

VARIABLES
    spec,       \* [enabled, vault, standby]
    enabled,    \* the condition PGTDEEnabled: "unknown", "true", "false"
    ready,      \* the condition PGTDEVaultProviderReady
    revision,   \* status.pgTDERevision: [vault, path] or None
    applied,    \* status.databaseRevision: the value of spec.enabled or None
    template,   \* of each instance: [vault, tde]
    pod,        \* [vault, tde, wal] of a running pod, or None
    walEncrypt, \* pg_tde.wal_encrypt in the configuration of Patroni
    staged,     \* credentials in the temporary file of each data volume, 0: none
    extension,  \* pg_tde is installed
    provider,   \* the key provider: [vault, path] or None
    key,        \* the default key is set
    tables,     \* there are encrypted tables
    leader,
    s, event, changes

status == <<enabled, ready, revision, applied>>
database == <<extension, provider, key, tables>>
vars == <<spec, status, template, pod, walEncrypt, staged, database, leader, s, event, changes>>

Idle == [pc |-> "idle"]
Standard(v) == [vault |-> v, path |-> "mount"]
Temp(v) == [vault |-> v, path |-> "temp"]

\* Pods run without encryption, or follow a source that may use it.
Init ==
    /\ changes \in Scenarios
    /\ spec = [enabled |-> "standby" \in changes,
               vault |-> IF "standby" \in changes THEN 1 ELSE 0, standby |-> "standby" \in changes]
    /\ enabled = "unknown" /\ ready = "unknown" /\ revision = None /\ applied = None
    /\ template = [i \in Instances |-> [vault |-> 0, tde |-> FALSE]]
    /\ pod = [i \in Instances |-> [vault |-> 0, tde |-> FALSE, wal |-> FALSE]]
    /\ walEncrypt = FALSE /\ staged = [i \in Instances |-> 0]
    /\ extension = FALSE /\ provider = None /\ key = FALSE /\ tables = FALSE
    /\ leader \in Instances
    /\ s = Idle /\ event = TRUE

-----------------------------------------------------------------------------
(* Where a change of the credentials stands, and the pod templates.        *)

\* VaultChangeFor.
Phase(v) ==
    IF revision = None THEN "InitialSetup"
    ELSE IF revision = Standard(v) THEN "Configured"
    ELSE IF revision = Temp(v) THEN "Finalize"
    ELSE "StageCredentials"

\* reconcileInstance keeps the volume that is mounted until the provider has been
\* pointed at other credentials, and until the extension has been dropped.
Held ==
    \/ s.spec.vault # 0 /\ Phase(s.spec.vault) = "StageCredentials"
    \/ ~s.spec.enabled /\ enabled = "true"

\* PreserveOldTDEVolume.
PreserveOldTDEVolume(i) ==
    IF Held /\ template[i].vault # 0 THEN template[i].vault ELSE s.spec.vault

\* PostgreSQLParameters: a standby encrypts as its source does.
PostgreSQLParameters ==
    /\ s.spec.enabled \/ enabled = "true"
    /\ IF s.spec.standby THEN enabled # "false" ELSE enabled = "true" /\ ready = "true"

Parameters ==
    /\ s.pc = "parameters"
    /\ walEncrypt' = PostgreSQLParameters
    /\ s' = [s EXCEPT !.pc = "instances"]
    /\ UNCHANGED <<status, template, staged, database, changes>>

\* A template that has just been written is not known to match its pod.
ReconcileInstance ==
    /\ s.pc = "instances"
    /\ IF s.todo = {} THEN s' = [s EXCEPT !.pc = "databases"] /\ UNCHANGED template
       ELSE \E i \in s.todo :
            LET t == [vault |-> PreserveOldTDEVolume(i), tde |-> s.spec.enabled \/ enabled = "true"]
            IN /\ template' = [template EXCEPT ![i] = t]
               /\ s' = [s EXCEPT !.todo = @ \ {i},
                                 !.written = IF t = template[i] THEN @ ELSE @ \union {i}]
    /\ UNCHANGED <<status, walEncrypt, staged, database, changes>>

\* PodMatchesPodTemplate, of the pods that were observed.
Matches(i) ==
    /\ i \notin s.written
    /\ ~(s.pods[i] = None) /\ template[i] = [vault |-> s.pods[i].vault, tde |-> s.pods[i].tde]

AllMatch == \A i \in Instances : Matches(i)

\* writablePod: the primary that was observed, if it still is.
Writable == ~spec.standby /\ s.leader = leader /\ pod[leader] # None

Change(what) == what \in changes /\ changes' = changes \ {what}

-----------------------------------------------------------------------------
(* reconcilePostgresDatabases: CREATE or DROP EXTENSION, which fails when the *)
(* library is not loaded or when there are encrypted tables. A failure leaves *)
(* the condition alone and is no error.                                    *)

\* The hash of the statements differs from the one that was applied.
DatabasesDue == AllMatch /\ Writable /\ applied # s.spec.enabled

\* enableInPostgreSQL, disableInPostgreSQL.
Succeeds == IF s.spec.enabled THEN pod[leader].tde ELSE ~tables

ReconcileExtension ==
    /\ s.pc = "databases"
    /\ IF DatabasesDue /\ Succeeds
       THEN extension' = s.spec.enabled /\ s' = [s EXCEPT !.pc = "report"]
       ELSE s' = [s EXCEPT !.pc = "providers"] /\ UNCHANGED extension
    /\ UNCHANGED <<status, walEncrypt, template, staged, provider, key, tables, changes>>

\* ReportExtension, with the revision of the databases.
ReportExtension ==
    /\ s.pc = "report"
    /\ enabled' = IF s.spec.enabled THEN "true" ELSE "false"
    /\ applied' = s.spec.enabled
    /\ s' = [s EXCEPT !.pc = "providers"]
    /\ UNCHANGED <<ready, revision, walEncrypt, template, staged, database, changes>>

\* The credentials that an instance finds where the provider says.
Reads(i) == IF provider.path = "mount" THEN pod[i].vault ELSE staged[i]

\* ReportStandby: the key that the provider of the source names, unless this cluster has
\* set up a provider itself.
ReportStandby ==
    IF ~s.spec.enabled \/ s.spec.vault = 0 \/ revision # None THEN ready
    ELSE IF ~extension \/ provider = None THEN "false"
    ELSE IF Reads(leader) = provider.vault THEN "true" ELSE "false"

\* reconcilePGTDEStandby: what the standby leader says.
ReconcileStandby ==
    /\ s.pc = "providers" /\ s.spec.standby
    /\ IF pod[leader] = None \/ ~(s.spec.enabled \/ enabled = "true")
       THEN UNCHANGED <<enabled, ready>>
       ELSE /\ enabled' = IF extension THEN "true" ELSE "false"
            /\ ready' = ReportStandby
    /\ s' = Idle
    /\ UNCHANGED <<revision, applied, walEncrypt, template, staged, database, changes>>

-----------------------------------------------------------------------------
(* reconcilePGTDEProviders.                                                *)
AllRunning == \A i \in Instances : s.pods[i] # None

\* Nothing to configure: the next provider is set up as if it were the first.
Unconfigure ==
    /\ s.pc = "providers" /\ ~s.spec.standby
    /\ ~s.spec.enabled \/ s.spec.vault = 0
    /\ revision' = None /\ ready' = "unknown" /\ s' = Idle
    /\ UNCHANGED <<enabled, applied, walEncrypt, template, staged, database, changes>>

\* Everything is up to date, running and writable; and then what is to be done.
StartChange ==
    /\ s.pc = "providers" /\ ~s.spec.standby /\ s.spec.enabled /\ s.spec.vault # 0
    /\ IF ~AllMatch \/ ~AllRunning \/ (\E i \in Instances : ~s.pods[i].tde) \/ ~Writable
       THEN s' = Idle
       ELSE LET phase == Phase(s.spec.vault)
            IN s' = [s EXCEPT !.todo = Instances, !.pc =
                  CASE phase = "InitialSetup" -> "setup"
                    [] phase = "Finalize" -> "finalize"
                    [] phase = "StageCredentials" -> "stage"
                    [] phase = "Configured" -> IF ready = "true" THEN "done" ELSE "cleanup"]
    /\ UNCHANGED <<status, walEncrypt, template, staged, database, changes>>

\* A statement or a command of a pod fails: ChangeFailed, and an error.
Fail ==
    /\ s' = Idle /\ ready' = "false"
    /\ UNCHANGED <<enabled, revision, applied, walEncrypt, template>>

\* stagePGTDEVaultCredentials, writeTempFile: on every data volume.
Stage ==
    /\ s.pc = "stage" /\ s.todo # {}
    /\ \E i \in s.todo :
        \/ /\ pod[i] # None /\ staged' = [staged EXCEPT ![i] = s.spec.vault]
           /\ s' = [s EXCEPT !.todo = @ \ {i}]
           /\ UNCHANGED <<status, walEncrypt, template, changes>>
        \/ pod[i] = None /\ Fail /\ UNCHANGED <<staged, changes>>
        \/ Change("execFails") /\ Fail /\ UNCHANGED staged
    /\ UNCHANGED database

\* Mutant: one instance has the credentials.
StagedAny == Cardinality(s.todo) < Cardinality(Instances)

\* The provider is pointed at temporary files once every instance has its copy.
Staged == s.todo = {}

\* addVaultProvider, createGlobalKey, setDefaultKey; or changeVaultProvider. The
\* statement checks the credentials on the primary.
ReconcileVaultProvider(target) ==
    LET found == IF ~Writable THEN 0
                 ELSE IF target.path = "mount" THEN pod[leader].vault ELSE staged[leader]
    IN \/ /\ found = target.vault
          /\ provider' = target /\ key' = TRUE
          /\ s' = [s EXCEPT !.pc = IF s.pc = "finalize" THEN "cleanup" ELSE "done",
                            !.revision = target]
          /\ UNCHANGED <<status, walEncrypt, template, changes>>
       \/ found # target.vault /\ Fail /\ UNCHANGED <<provider, key, changes>>
       \/ Change("execFails") /\ Fail /\ UNCHANGED <<provider, key>>

ChangeProvider ==
    /\ \/ s.pc \in {"setup", "finalize"} /\ ReconcileVaultProvider(Standard(s.spec.vault))
       \/ s.pc = "stage" /\ Staged /\ ReconcileVaultProvider(Temp(s.spec.vault))
    /\ UNCHANGED <<staged, extension, tables>>

\* cleanupTempPGTDEFiles: a pod that fails is logged.
Cleanup ==
    /\ s.pc = "cleanup"
    /\ IF s.todo = {}
       THEN s' = [s EXCEPT !.pc = "done"] /\ UNCHANGED staged
       ELSE \E i \in s.todo :
            /\ s' = [s EXCEPT !.todo = @ \ {i}]
            /\ staged' = IF pod[i] = None THEN staged ELSE [staged EXCEPT ![i] = 0]
    /\ UNCHANGED <<status, walEncrypt, template, database, changes>>

\* The revision and the condition, in one patch.
PatchStatus ==
    /\ s.pc = "done"
    /\ revision' = IF s.revision = None THEN revision ELSE s.revision
    /\ ready' = IF revision'.path = "temp" THEN "false" ELSE "true"
    /\ s' = Idle
    /\ UNCHANGED <<enabled, applied, walEncrypt, template, staged, database, changes>>

Wake ==
    /\ s = Idle /\ event
    /\ s' = [pc |-> "parameters", spec |-> spec, pods |-> pod, leader |-> leader, todo |-> Instances,
             written |-> {}, revision |-> None]
    /\ UNCHANGED <<status, walEncrypt, template, staged, database, changes>>

Reconcile ==
    /\ \/ Wake \/ Parameters \/ ReconcileInstance \/ ReconcileExtension \/ ReportExtension
       \/ ReconcileStandby \/ Unconfigure \/ StartChange \/ Stage \/ ChangeProvider
       \/ Cleanup \/ PatchStatus
    /\ event' = IF s = Idle THEN FALSE
                ELSE event \/ status' # status \/ template' # template \/ walEncrypt' # walEncrypt
    /\ UNCHANGED <<spec, pod, leader>>

-----------------------------------------------------------------------------
(* The pods, Patroni and the source of a standby.                          *)

\* The rollout takes one instance down at a time.
Stop(i) ==
    /\ \A j \in Instances : pod[j] # None
    /\ \/ template[i] # [vault |-> pod[i].vault, tde |-> pod[i].tde] /\ UNCHANGED changes
       \/ Change("restart")
    /\ pod' = [pod EXCEPT ![i] = None]
    /\ \E l \in Instances : leader' = l /\ (i # leader => l = leader)
    /\ UNCHANGED <<spec, walEncrypt, staged, database>>

Start(i) ==
    /\ pod[i] = None
    /\ pod' = [pod EXCEPT ![i] =
          [vault |-> template[i].vault, tde |-> template[i].tde, wal |-> walEncrypt]]
    /\ UNCHANGED <<spec, leader, walEncrypt, staged, database, changes>>

\* handlePatroniRestarts: a parameter that is read at startup has changed.
Restart(i) ==
    /\ pod[i] # None /\ pod[i].wal # walEncrypt /\ pod[i].tde
    /\ pod' = [pod EXCEPT ![i].wal = walEncrypt]
    /\ UNCHANGED <<spec, leader, walEncrypt, staged, database, changes>>

\* CREATE EXTENSION and the provider of the source arrive with the replicated data.
Source ==
    /\ spec.standby /\ Change("source")
    /\ \A i \in Instances : template[i] = [vault |-> 1, tde |-> TRUE]
                            /\ pod[i] # None /\ pod[i].vault = 1
    /\ extension' = TRUE /\ provider' = Standard(1) /\ key' = TRUE
    /\ UNCHANGED <<spec, pod, leader, walEncrypt, staged, tables>>

World ==
    /\ Source \/ \E i \in Instances : Stop(i) \/ Start(i) \/ Restart(i)
    /\ event' = TRUE
    /\ UNCHANGED <<status, template, s>>

-----------------------------------------------------------------------------
(* Users and faults.                                                       *)
Edit ==
    /\ \/ /\ Change("enable") \/ Change("reenable")
          /\ ~spec.enabled
          /\ spec' = [spec EXCEPT !.enabled = TRUE, !.vault = IF @ = 0 THEN 1 ELSE @]
          /\ UNCHANGED tables
       \/ /\ Change("change") \/ Change("again")
          /\ 0 < spec.vault /\ spec.vault < MaxVault
          /\ "early" \in changes \/ revision = Standard(spec.vault)
          /\ spec' = [spec EXCEPT !.vault = @ + 1]
          /\ UNCHANGED tables
       \/ /\ Change("disable") /\ spec.enabled /\ ("early" \in changes \/ ready = "true")
          /\ spec' = [spec EXCEPT !.enabled = FALSE]
          /\ UNCHANGED tables
       \/ /\ Change("promote") /\ spec.standby /\ extension
          /\ spec' = [spec EXCEPT !.standby = FALSE]
          /\ UNCHANGED tables
       \/ /\ Change("encrypt") /\ key /\ extension
          /\ tables' = TRUE /\ UNCHANGED spec
    /\ event' = TRUE
    /\ UNCHANGED <<status, template, pod, walEncrypt, staged, extension, provider, key, leader, s>>

Crash ==
    /\ Change("crash") /\ s # Idle
    /\ s' = Idle /\ event' = TRUE
    /\ UNCHANGED <<spec, status, template, pod, walEncrypt, staged, database, leader>>

\* The controller is called again after an error, and by the resync of its cache.
Retry ==
    /\ s = Idle /\ ready = "false" /\ ~event
    /\ event' = TRUE
    /\ UNCHANGED <<spec, status, template, pod, walEncrypt, staged, database, leader, s, changes>>

Next == Reconcile \/ World \/ Edit \/ Crash \/ Retry

Spec == Init /\ [][Next]_vars

-----------------------------------------------------------------------------
(* Properties.                                                             *)

\* Every instance that runs reads, where the key provider says, the credentials that it
\* names: a replica that is promoted and a pod that restarts find the key at every step
\* of a change of the credentials.
KeyReachable ==
    extension /\ provider # None
        => \A i \in Instances : pod[i] # None => Reads(i) = provider.vault

\* When nothing is left to do, the provider names the mounted credentials of the spec,
\* and the status says so.
EncryptionSettles ==
    ~ENABLED <<Reconcile \/ World \/ Retry>>_vars =>
        /\ spec.enabled /\ ~spec.standby =>
              /\ extension /\ provider = Standard(spec.vault) /\ key
              /\ revision = provider /\ ready = "true" /\ enabled = "true"
              /\ \A i \in Instances : pod[i].vault = spec.vault /\ pod[i].wal
        /\ ~spec.enabled /\ ~tables => ~extension
        /\ extension => \A i \in Instances : pod[i].tde
=============================================================================
