--------------------------- MODULE DatabaseObjects ---------------------------
(***************************************************************************)
(* What the postgrescluster reconciler writes inside PostgreSQL: databases, *)
(* users, the role of PgBouncer, the role of the exporter, the init SQL,    *)
(* and the users of pgAdmin.  Each kind is written by SQL whose hash goes   *)
(* to the status once it has run, and is not run again while the hash is    *)
(* the same; the database, meanwhile, may be restored, or fail over.        *)
(*                                                                          *)
(* A hash is represented by what the SQL installs: a set of pairs of a name *)
(* and the password its verifier was made from.                             *)
(***************************************************************************)
EXTENDS Naturals, FiniteSets, TLC

CONSTANTS
    First, Second,  \* PostgreSQL users: the one of the spec, one that may be added
    MaxPassword,    \* how many passwords are generated or chosen
    None,
    Scenarios       \* sets of changes: what may happen in a behaviour

Users == {First, Second}
Owners == Users \cup {"bouncer", "exporter"}   \* who has a Secret
Kinds == {"databases", "users", "pgadmin", "bouncer", "exporter"}

VARIABLES
    spec,       \* [users, pgadmin, bouncer, exporter, init]
    secrets,    \* Secrets by owner: [password, verifier, labelled] or None; 0 is empty
    data,       \* what the primary (for "pgadmin": pgAdmin) holds, by kind; "init": runs
    backup,     \* the data of the latest backup, or None
    writable,   \* there is a primary the reconciler can run SQL in
    rollout,    \* some Pod does not match its template yet
    status,     \* the recorded hashes by kind, None when unset; "init": TRUE once it has run
    s,          \* the reconciler: [pc], with the spec and the status it has read
    event,      \* something for it to do
    next,       \* the next password
    changes

vars == <<spec, secrets, data, backup, writable, rollout, status, s, event, next, changes>>
world == <<spec, backup, writable, rollout, changes>>

NoStatus == [k \in Kinds |-> None] @@ [init |-> FALSE]
NoData == [k \in Kinds |-> {}] @@ [init |-> 0]

Init ==
    /\ changes \in Scenarios
    /\ spec = [users |-> {First}, pgadmin |-> "pgadmin" \notin changes, bouncer |-> TRUE,
               exporter |-> TRUE, init |-> "init" \in changes]
    /\ secrets = [o \in Owners |-> None]
    /\ data = NoData /\ backup = None
    /\ writable = TRUE /\ rollout = FALSE
    /\ status = NoStatus
    /\ s = [pc |-> "idle", spec |-> spec, status |-> NoStatus]
    /\ event = TRUE /\ next = 1

-----------------------------------------------------------------------------
(* Secrets.                                                                *)
\* updateCustomSecretLabels: a Secret written by hand is labelled, so that it is found.
updateCustomSecretLabels(secret) == IF secret = None THEN None ELSE [secret EXCEPT !.labelled = TRUE]

New(password) == [password |-> password, verifier |-> password, labelled |-> TRUE]

\* generatePostgresUserSecret: keeps the password and the verifier it finds,
\* and makes the one that is missing.
generatePostgresUserSecret(secret, fresh) ==
    IF secret = None \/ secret.password = 0 \/ ~secret.labelled THEN New(fresh)
    ELSE IF secret.verifier = 0 THEN [secret EXCEPT !.verifier = secret.password]
    ELSE secret

\* reconcileMonitoringSecret does the same for the exporter.
reconcileMonitoringSecret(secret, fresh) == generatePostgresUserSecret(secret, fresh)

\* pgbouncer.Secret generates both when either is missing.
PGBouncerSecret(secret, fresh) ==
    IF secret = None \/ 0 \in {secret.password, secret.verifier}
    THEN New(fresh) ELSE secret

\* reconcilePostgresUserSecrets.
reconcilePostgresUserSecrets(secret, fresh) ==
    generatePostgresUserSecret(updateCustomSecretLabels(secret), fresh)

Fresh(o) == secrets[o] = None \/ secrets[o].password = 0

\* The Secrets of the owners in os, written with passwords from `next' on.  A
\* Secret that is no longer specified has no controller and is kept
\* (K8SPG-328, K8SPG-330); only the exporter's is deleted.
Write(os, Make(_, _)) ==
    LET new == {o \in os : Fresh(o)}
    IN  /\ next + Cardinality(new) <= MaxPassword + 1
        /\ \E order \in [new -> next..MaxPassword] :
            /\ \A o, p \in new : o # p => order[o] # order[p]
            /\ \A o \in new : order[o] < next + Cardinality(new)
            /\ secrets' = [o \in Owners |-> IF o \notin os THEN secrets[o]
                             ELSE Make(secrets[o], IF o \in new THEN order[o] ELSE 0)]
        /\ next' = next + Cardinality(new)

-----------------------------------------------------------------------------
(* Reconcile: the steps run in order, an error skips the rest, and the      *)
(* status is patched either way.                                            *)
Verifiers(os) == {<<o, secrets'[o].verifier>> : o \in os}

Recorded(kind, want) == s.status[kind] = want

Record(kind, want, pc) == s' = [s EXCEPT !.pc = pc, !.status[kind] = want]

Proceed(pc) == s' = [s EXCEPT !.pc = pc]

\* What the reconciler runs in a Pod fails, before it has changed anything.
ExecFails ==
    /\ "execFails" \in changes /\ changes' = changes \ {"execFails"}
    /\ Proceed("patch") /\ event' = TRUE
    /\ UNCHANGED <<spec, backup, writable, rollout, data, status>>

Reconcile ==
    /\ s.pc = "idle" /\ event
    /\ event' = FALSE
    /\ s' = [pc |-> "secrets", spec |-> spec, status |-> status]
    /\ UNCHANGED <<world, secrets, data, status, next>>

\* reconcileMonitoringSecret comes before anything is written to PostgreSQL.
MonitoringSecret ==
    /\ s.pc = "secrets"
    /\ IF s.spec.exporter THEN Write({"exporter"}, reconcileMonitoringSecret)
       ELSE secrets' = [secrets EXCEPT !["exporter"] = None] /\ UNCHANGED next
    /\ Proceed("databases")
    /\ UNCHANGED <<world, data, status, event>>

\* CreateDatabasesInPostgreSQL: nothing is ever dropped.
CreateDatabasesInPostgreSQL(want) == data["databases"] \cup want

\* reconcilePostgresDatabases waits for a rollout to end (K8SPG-377) and patches
\* the status itself.
Databases ==
    /\ s.pc = "databases"
    /\ LET want == {<<u, 0>> : u \in s.spec.users}
       IN  \/ /\ rollout \/ ~writable \/ Recorded("databases", want)
              /\ Proceed("users")
              /\ UNCHANGED <<world, data, status, event>>
           \/ /\ ~rollout /\ writable /\ ~Recorded("databases", want)
              /\ data' = [data EXCEPT !["databases"] = CreateDatabasesInPostgreSQL(want)]
              /\ Record("databases", want, "users")
              /\ status' = s'.status
              /\ UNCHANGED <<world, event>>
           \/ ~rollout /\ writable /\ ~Recorded("databases", want) /\ ExecFails
    /\ UNCHANGED <<secrets, next>>

Named(pairs) == {p[1] : p \in pairs}

Upsert(have, want) == {p \in have : p[1] \notin Named(want)} \cup want

\* Whom the SQL grants public schema access (GrantPublicSchemaAccess).
Granted == IF "grant" \in changes THEN {First} ELSE {}

\* WriteUsersInPostgreSQL: one transaction creates the users, sets their
\* passwords and grants them their databases, all of which must exist.
Transaction(want) ==
    IF Named(want) \subseteq Named(data["databases"]) THEN Upsert(data["users"], want) ELSE data["users"]

\* grantUserAccessToPublicSchemaInPostgreSQL, in what the transaction left.
grantUserAccess(u, users) == u \in Named(users) \cap Named(data["databases"])

\* Mutant: records the users whether or not the SQL has run.
WriteUsersFailsNever(want, users) == FALSE

\* The error WriteUsersInPostgreSQL returns is the one of what it ran last.
WriteUsersFails(want, users) ==
    IF Granted \cap s.spec.users = {} THEN ~(want \subseteq users)
    ELSE \E u \in Granted \cap s.spec.users : ~grantUserAccess(u, users)

\* reconcilePostgresUserSecrets, then reconcilePostgresUsersInPostgreSQL.
PostgresUsers ==
    /\ s.pc = "users"
    /\ Write(s.spec.users, reconcilePostgresUserSecrets)
    /\ LET want == Verifiers(s.spec.users)
           users == Transaction(want)
       IN  \/ /\ ~writable \/ Recorded("users", want)
              /\ Proceed("pgadmin")
              /\ UNCHANGED <<world, data, event>>
           \/ /\ writable /\ ~Recorded("users", want)
              /\ data' = [data EXCEPT !["users"] = users]
              /\ IF WriteUsersFails(want, users)
                 THEN Proceed("patch") /\ event' = TRUE
                 ELSE Record("users", want, "pgadmin") /\ UNCHANGED event
              /\ UNCHANGED world
           \/ writable /\ ~Recorded("users", want) /\ ExecFails
    /\ UNCHANGED status

\* WriteUsersInPGAdmin.
WriteUsersInPGAdmin(want) == Upsert(data["pgadmin"], want)

\* The Pod of pgAdmin is missing or terminates; the reconciler hears when it is back.
PGAdminAway ==
    /\ "away" \in changes /\ changes' = changes \ {"away"}
    /\ Proceed("bouncer") /\ event' = TRUE
    /\ UNCHANGED <<spec, backup, writable, rollout, data>>

\* reconcilePGAdminUsers copies the same users, with their passwords, into pgAdmin.
PGAdminUsers ==
    /\ s.pc = "pgadmin"
    /\ LET want == {<<u, secrets[u].password>> : u \in s.spec.users}
       IN  \/ /\ ~s.spec.pgadmin
              /\ Record("pgadmin", None, "bouncer")
              /\ UNCHANGED <<world, data, event>>
           \/ s.spec.pgadmin /\ PGAdminAway
           \/ /\ s.spec.pgadmin /\ Recorded("pgadmin", want)
              /\ Proceed("bouncer")
              /\ UNCHANGED <<world, data, event>>
           \/ /\ s.spec.pgadmin /\ ~Recorded("pgadmin", want)
              /\ data' = [data EXCEPT !["pgadmin"] = WriteUsersInPGAdmin(want)]
              /\ Record("pgadmin", want, "bouncer")
              /\ UNCHANGED <<world, event>>
           \/ s.spec.pgadmin /\ ~Recorded("pgadmin", want) /\ ExecFails
    /\ UNCHANGED <<secrets, status, next>>

\* EnableInPostgreSQL, DisableInPostgreSQL.
EnableInPostgreSQL == Verifiers({"bouncer"})
DisableInPostgreSQL == {}

\* reconcilePGBouncerSecret, then reconcilePGBouncerInPostgreSQL.
PGBouncerInPostgreSQL ==
    /\ s.pc = "bouncer"
    /\ IF s.spec.bouncer THEN Write({"bouncer"}, PGBouncerSecret) ELSE UNCHANGED <<secrets, next>>
    /\ LET want == IF s.spec.bouncer THEN EnableInPostgreSQL ELSE DisableInPostgreSQL
       IN  \/ /\ ~writable \/ Recorded("bouncer", want)
              /\ Proceed("exporter")
              /\ UNCHANGED <<world, data, event>>
           \/ /\ writable /\ ~Recorded("bouncer", want)
              /\ data' = [data EXCEPT !["bouncer"] = want]
              /\ Record("bouncer", want, "exporter")
              /\ UNCHANGED <<world, event>>
           \/ writable /\ ~Recorded("bouncer", want) /\ ExecFails
    /\ UNCHANGED status

EnableExporterInPostgreSQL == {<<"exporter", secrets["exporter"].verifier>>}

\* Leaves a role that cannot log in.
DisableExporterInPostgreSQL == {}

ExporterSQL == IF s.spec.exporter THEN EnableExporterInPostgreSQL ELSE DisableExporterInPostgreSQL

\* reconcilePGMonitorExporter.
PGMonitorExporter ==
    /\ s.pc = "exporter"
    /\ \/ /\ ~writable \/ Recorded("exporter", ExporterSQL)
          /\ Proceed("init")
          /\ UNCHANGED <<world, data, event>>
       \/ /\ writable /\ ~Recorded("exporter", ExporterSQL)
          /\ data' = [data EXCEPT !["exporter"] = ExporterSQL]
          /\ Record("exporter", ExporterSQL, "init")
          /\ UNCHANGED <<world, event>>
       \/ writable /\ ~Recorded("exporter", ExporterSQL) /\ ExecFails
    /\ UNCHANGED <<secrets, status, next>>

\* reconcileDatabaseInitSQL.
DatabaseInitSQL ==
    /\ s.pc = "init"
    /\ \/ ~s.spec.init /\ Record("init", FALSE, "patch") /\ UNCHANGED <<world, data, event>>
       \/ /\ s.spec.init /\ (s.status["init"] \/ ~writable)
          /\ Proceed("patch")
          /\ UNCHANGED <<world, data, event>>
       \/ /\ s.spec.init /\ ~s.status["init"] /\ writable
          /\ data' = [data EXCEPT !["init"] = IF @ < 2 THEN @ + 1 ELSE @]
          /\ Record("init", TRUE, "patch")
          /\ UNCHANGED <<world, event>>
       \/ s.spec.init /\ ~s.status["init"] /\ writable /\ ExecFails
    /\ UNCHANGED <<secrets, status, next>>

\* The end of Reconcile.
PatchStatus ==
    /\ s.pc = "patch"
    /\ status' = s.status
    /\ Proceed("idle")
    /\ UNCHANGED <<world, secrets, data, event, next>>

-----------------------------------------------------------------------------
(* The world.                                                              *)
Quiet == s.pc = "idle" /\ ~event /\ ~rollout /\ writable

Change(c) == c \in changes /\ changes' = changes \ {c} /\ event' = TRUE

\* A password is chosen, by writing it and emptying the verifier.
ChoosePassword ==
    /\ Change("password") /\ secrets[First] # None /\ next <= MaxPassword
    /\ secrets' = [secrets EXCEPT ![First].password = next, ![First].verifier = 0]
    /\ next' = next + 1
    /\ UNCHANGED <<spec, data, backup, writable, rollout, status, s>>

\* The Secret of PgBouncer is deleted, for a new password.
Rotate ==
    /\ Change("rotate") /\ secrets["bouncer"] # None
    /\ secrets' = [secrets EXCEPT !["bouncer"] = None]
    /\ UNCHANGED <<spec, data, backup, writable, rollout, status, s, next>>

\* A user is added, with a Secret written by hand or without one.
AddUser ==
    /\ Change("add")
    /\ spec' = [spec EXCEPT !.users = Users]
    /\ \/ UNCHANGED <<secrets, next>>
       \/ /\ next <= MaxPassword /\ next' = next + 1
          /\ secrets' = [secrets EXCEPT ![Second] = [password |-> next, verifier |-> 0, labelled |-> FALSE]]
    /\ UNCHANGED <<data, backup, writable, rollout, status, s>>

Toggle(c) ==
    /\ Change(c)
    /\ spec' = [spec EXCEPT ![c] = ~@]
    /\ UNCHANGED <<secrets, data, backup, writable, rollout, status, s, next>>

\* A change of the Pod template, and the end of its rollout.
StartRollout ==
    /\ Change("rollout") /\ rollout' = TRUE
    /\ UNCHANGED <<spec, secrets, data, backup, writable, status, s, next>>

EndRollout ==
    /\ rollout /\ rollout' = FALSE /\ event' = TRUE
    /\ UNCHANGED <<spec, secrets, data, backup, writable, status, s, next, changes>>

\* The primary is lost, and an up-to-date replica takes over.
LosePrimary ==
    /\ Change("failover") /\ writable /\ writable' = FALSE
    /\ UNCHANGED <<spec, secrets, data, backup, rollout, status, s, next>>

Promote ==
    /\ ~writable /\ s.pc = "idle" /\ writable' = TRUE /\ event' = TRUE
    /\ UNCHANGED <<spec, secrets, data, backup, rollout, status, s, next, changes>>

\* A backup of the settled database, or ("early") of one still being written to.
TakeBackup ==
    /\ "restore" \in changes /\ backup = None /\ backup' = data
    /\ "early" \in changes \/ (Quiet /\ data["users"] # {})
    /\ UNCHANGED <<spec, secrets, data, writable, rollout, status, s, event, next, changes>>

\* Mutant: keeps the hash of PgBouncer over a restore.
ResetByRestoreNot == status

\* prepareForRestore: the contents of the database change, so the hashes of
\* PgBouncer and the exporter are forgotten.
ResetByRestore == [status EXCEPT !["bouncer"] = None, !["exporter"] = None]

\* An in-place restore: another reconcile than the one above.
PrepareForRestore ==
    /\ s.pc = "idle" /\ backup # None /\ Change("restore")
    /\ status' = ResetByRestore
    /\ writable' = FALSE
    /\ data' = [backup EXCEPT !["pgadmin"] = data["pgadmin"]]
    /\ UNCHANGED <<spec, secrets, backup, rollout, s, next>>

\* The operator restarts.
Crash ==
    /\ s.pc # "idle" /\ Change("crash")
    /\ Proceed("idle")
    /\ UNCHANGED <<spec, secrets, data, backup, writable, rollout, status, next>>

Step ==
    Reconcile \/ MonitoringSecret \/ Databases \/ PostgresUsers \/ PGAdminUsers \/ PGBouncerInPostgreSQL
    \/ PGMonitorExporter \/ DatabaseInitSQL \/ PatchStatus

World ==
    ChoosePassword \/ Rotate \/ AddUser \/ (\E c \in {"pgadmin", "bouncer", "exporter"} : Toggle(c))
    \/ StartRollout \/ EndRollout \/ LosePrimary \/ Promote \/ TakeBackup \/ PrepareForRestore \/ Crash

Next == Step \/ World

Spec == Init /\ [][Next]_vars

-----------------------------------------------------------------------------
\* What the SQL of a kind would install now.
Wanted(k) ==
    CASE k = "databases" -> {<<u, 0>> : u \in spec.users}
      [] k = "users"     -> {<<u, secrets[u].verifier>> : u \in {v \in spec.users : secrets[v] # None}}
      [] k = "pgadmin"   -> {<<u, secrets[u].password>> : u \in {v \in spec.users : secrets[v] # None}}
      [] OTHER           -> {<<o, secrets[o].verifier>> : o \in {o \in {k} : spec[o] /\ secrets[o] # None}}

\* A restore has replaced the users or the databases, and their SQL has not run since.
Restored(k) ==
    /\ k \in {"databases", "users"}
    /\ backup # None /\ "restore" \notin changes /\ data[k] = backup[k]

\* `Status.UsersRevision identifies the users that have been installed into
\* PostgreSQL', and so do the other hashes: a hash that makes the reconciler skip
\* the SQL stands for what the database holds, through failing SQL, crashes,
\* rollouts and failovers, and those that prepareForRestore resets through restores
\* too.  The hashes of users and databases it keeps, although the restored ones may
\* be older: for these nothing is promised until their SQL changes.  A hash that runs
\* ahead of the database is never corrected, since the SQL is not run again.
RevisionTrue ==
    \A k \in Kinds : status[k] = Wanted(k) /\ ~Restored(k) =>
        IF k \in {"bouncer", "exporter"} THEN data[k] = Wanted(k) ELSE Wanted(k) \subseteq data[k]

LogsIn(o, roles) == secrets[o] # None /\ <<o, secrets[o].password>> \in roles

\* Once the reconciler has nothing more to do, every specified user can log in
\* with the password in its Secret, directly and from pgAdmin, PgBouncer and the
\* exporter can if they are enabled and cannot otherwise, and the init SQL has run.
\* The users of a restored backup are as RevisionTrue says.
AccessSettles ==
    Quiet =>
        /\ \A u \in spec.users :
            /\ LogsIn(u, data["users"]) \/ Restored("users")
            /\ spec.pgadmin => LogsIn(u, data["pgadmin"])
        /\ IF spec.bouncer THEN LogsIn("bouncer", data["bouncer"]) ELSE data["bouncer"] = {}
        /\ IF spec.exporter THEN LogsIn("exporter", data["exporter"]) ELSE data["exporter"] = {}
        /\ spec.init => data["init"] > 0
=============================================================================
