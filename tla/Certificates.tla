----------------------------- MODULE Certificates -----------------------------
(***************************************************************************)
(* TLS: the root authority and the leaves it signs                          *)
(* (internal/controller/postgrescluster/pki.go, instance.go, patroni.go,    *)
(* pgbackrest.go, pgbouncer.go; internal/pki; percona/certmanager).  The    *)
(* operator signs with its own root, or asks cert-manager to; which of the  *)
(* two is decided anew for every Secret, while cert-manager comes and goes. *)
(* An authority is a number: its private key.                               *)
(***************************************************************************)
EXTENDS Naturals, Sequences

CONSTANTS
    MaxAuthority,   \* bound on the authorities generated
    None,
    Scenarios       \* sets of words: how the cluster is made and what may happen

VARIABLES
    spec,       \* [policy, issuer (spec.tls.issuerConf), customRoot, customTLS]
    ready,      \* what certmanager.Check finds: the webhook answers
    root,       \* the root CA Secret: [crt, tls, valid], or None
    caCert,     \* the Certificate of the CA exists
    issuer,     \* the CA-backed Issuer exists
    certs,      \* the issuerRef of each leaf's Certificate; None: no Certificate
    issued,     \* the leaf cert-manager keeps in a place of its own, or None
    mounted,    \* the leaf and the authority the Pods mount, or None
    last,       \* the last authority generated
    started,    \* the StatefulSet of the instance exists
    s,          \* the reconciler
    event,      \* "none", "change", or "retry": the last pass failed and changed nothing
    changes

vars == <<spec, ready, root, caCert, issuer, certs, issued, mounted, last, started, s, event, changes>>
managed == <<caCert, issuer, certs>>

\* The Secrets with a leaf, in the order Reconcile visits them.
Order == <<"replication", "cluster", "instance", "backrest", "bouncer">>
Leaves == {Order[i] : i \in 1..5}

\* Authorities the operator did not generate: the user's and an external issuer's.
User == MaxAuthority + 1
External == MaxAuthority + 2

Word(w) == w \in changes

Init ==
    /\ changes \in Scenarios
    /\ spec = [policy |-> IF Word("operatorOnly") THEN "operatorProvidedOnly"
                          ELSE IF Word("userOnly") THEN "userProvidedOnly" ELSE "auto",
               issuer |-> IF Word("external") THEN "external"
                          ELSE IF Word("clusterIssuer") THEN "cluster" ELSE "namespaced",
               customRoot |-> Word("customRoot"), customTLS |-> Word("customTLS")]
    /\ ready = ~Word("absent")
    /\ root = IF Word("customRoot") THEN [crt |-> User, tls |-> None, valid |-> TRUE] ELSE None
    /\ caCert = FALSE /\ issuer = FALSE
    /\ certs = [x \in Leaves |-> None]
    /\ issued = [x \in Leaves |-> None]
    /\ mounted = [x \in Leaves |-> None]
    /\ last = 0 /\ started = FALSE
    /\ s = [pc |-> "idle"] /\ event = "change"

-----------------------------------------------------------------------------
(* What is decided for every Secret.                                       *)

\* ResolveIssuerMode: only the policy auto looks at issuerConf.
Mode == IF spec.policy = "auto" THEN spec.issuer ELSE "namespaced"

\* shouldUseCertManager: not ready is the same as not installed.
UseCertManager == spec.policy = "auto" /\ ready

\* The Secret carries cert-manager.io/certificate-name.
Annotated == root # None /\ root.tls # None

\* isRootCACertManagerManaged.
Signer ==
    IF spec.customRoot THEN "operator"
    ELSE IF Mode # "namespaced" THEN (IF UseCertManager THEN "cert-manager" ELSE "error")
    ELSE IF UseCertManager /\ (root = None \/ Annotated) THEN "cert-manager" ELSE "operator"

-----------------------------------------------------------------------------
(* The reconciler.                                                         *)

\* customTLSSecret, which goes with customReplicationTLSSecret.
UserTLS(x) == spec.customTLS /\ x \in {"cluster", "replication"}

\* userProvidedOnly: Reconcile returns until every Secret is there; that of the instance
\* is asked for once its StatefulSet, and with it its name, exists.
SecretsReady ==
    spec.policy = "userProvidedOnly" =>
        /\ root # None
        /\ \A x \in Leaves : mounted[x] # None \/ (x = "instance" /\ ~started)

\* reconcileTLSCondition.
Reconcile ==
    /\ s.pc = "idle" /\ event # "none" /\ event' = "none"
    /\ s' = IF SecretsReady THEN [pc |-> "root", ca |-> None, dirty |-> FALSE] ELSE s
    /\ UNCHANGED <<started, spec, ready, root, managed, issued, mounted, last, changes>>

\* The pass ends; one that failed is tried again.
Failed ==
    /\ s' = [pc |-> "idle"]
    /\ event' = IF event = "change" \/ s.dirty THEN "change" ELSE "retry"

\* The pass goes on to the n-th Secret, or ends.  The Secrets, Certificates and Issuers
\* it has written are watched: they start another one.
GoOn(n, changed) ==
    IF n <= 5
    THEN s' = [s EXCEPT !.pc = Order[n], !.dirty = @ \/ changed] /\ UNCHANGED event
    ELSE s' = [pc |-> "idle"] /\ event' = IF s.dirty \/ changed THEN "change" ELSE event

\* ApplyCAIssuer and ApplyCACertificate.
ApplyCA == caCert' = TRUE /\ UNCHANGED <<issuer, certs>>

\* reconcileCertManagerRootCertificate without a Secret to return.
RequestRoot ==
    /\ s.pc = "root" /\ root = None /\ Mode # "external" /\ UseCertManager
    /\ ApplyCA
    /\ s' = [pc |-> "idle"]
    /\ event' = IF event = "change" \/ ~caCert THEN "change" ELSE "retry"
    /\ UNCHANGED <<started, spec, ready, root, issued, mounted, last, changes>>

\* The authority of a Secret that is used as it is: the user's, cert-manager's.
UsedAsIs ==
    \/ spec.policy = "userProvidedOnly"
    \/ spec.customRoot
    \/ spec.policy = "auto" /\ Annotated

\* An external issuer has no root here.  What cert-manager manages is applied before
\* the root is found to be invalid.
AdoptRoot ==
    /\ s.pc = "root"
    /\ \/ Mode = "external"
       \/ root # None /\ UsedAsIs
    /\ IF Mode # "external" /\ Annotated /\ UseCertManager /\ ~spec.customRoot
       THEN ApplyCA ELSE UNCHANGED managed
    /\ IF Mode # "external" /\ ~root.valid /\ ~spec.customRoot
       THEN Failed
       ELSE /\ s' = [s EXCEPT !.pc = Order[1],
                              !.ca = IF Mode = "external" THEN None
                                     ELSE IF spec.policy = "auto" /\ Annotated THEN root.tls ELSE root.crt]
            /\ UNCHANGED event
    /\ UNCHANGED <<started, spec, ready, root, issued, mounted, last, changes>>

\* RootIsValid, of the operator's own root.
RootIsValid == root # None /\ root.crt # None /\ root.valid

\* The cluster-scoped CA has no fallback; otherwise the operator reads or makes its own root.
OwnRoot ==
    /\ s.pc = "root" /\ Mode # "external"
    /\ ~(root = None /\ UseCertManager) /\ ~(root # None /\ UsedAsIs)
    /\ \/ /\ Mode = "cluster" /\ Failed /\ UNCHANGED last
       \/ /\ Mode # "cluster" /\ RootIsValid
          /\ s' = [s EXCEPT !.pc = "write root", !.ca = root.crt]
          /\ UNCHANGED <<event, last>>
       \/ /\ Mode # "cluster" /\ ~RootIsValid /\ last < MaxAuthority
          /\ last' = last + 1
          /\ s' = [s EXCEPT !.pc = "write root", !.ca = last']
          /\ UNCHANGED event
    /\ UNCHANGED <<started, spec, ready, root, managed, issued, mounted, changes>>

\* The apply of the root Secret, which leaves cert-manager's keys alone.
WriteRoot ==
    /\ s.pc = "write root"
    /\ root' = [crt |-> s.ca, tls |-> IF root = None THEN None ELSE root.tls, valid |-> TRUE]
    /\ s' = [s EXCEPT !.pc = Order[1], !.dirty = @ \/ root' # root]
    /\ UNCHANGED <<started, spec, ready, managed, issued, mounted, last, event, changes>>

-----------------------------------------------------------------------------
(* The leaves.                                                             *)

\* cert-manager and the operator give these the same common name.
SameSubject == {"replication", "backrest"}

\* Mutant: a leaf is kept whoever signed it.
LeafIsValidAny(x, leaf) == leaf # None /\ ~leaf.due

\* leafIsValid and hasSubject.
LeafIsValid(x, leaf) ==
    /\ leaf # None /\ leaf.signer = s.ca /\ ~leaf.due
    /\ leaf.by = "operator" \/ x \in SameSubject

\* RegenerateLeafWhenNecessary; the authority is written next to the leaf every time.
Regenerate(x) ==
    IF LeafIsValid(x, mounted[x]) THEN [mounted[x] EXCEPT !.ca = s.ca]
    ELSE [signer |-> s.ca, ca |-> s.ca, by |-> "operator", due |-> FALSE]

\* The Apply...Certificate functions: created, or given the wanted issuerRef.
ApplyCertificate(x) ==
    certs' = [certs EXCEPT ![x] = IF Mode = "external" THEN "external" ELSE "managed"]

\* ApplyIssuer goes with the cluster's certificate.
ApplyIssuer(x) == issuer' = (issuer \/ (x = "cluster" /\ Mode # "external"))

\* Without a root to sign with, GenerateLeafCertificate dereferences nil.
Sign(n) ==
    LET x == Order[n] IN
    IF s.ca = None THEN Failed /\ UNCHANGED mounted
    ELSE /\ mounted' = [mounted EXCEPT ![x] = Regenerate(x)]
         /\ GoOn(n + 1, mounted' # mounted)

\* instanceCACert, pgBackRestCACert, frontendAuthorityCert.
Authority(x) == IF s.ca # None THEN s.ca ELSE issued[x].signer

\* The Secrets that copy what cert-manager issued.
Copy(n) ==
    LET x == Order[n] IN
    /\ mounted' = [mounted EXCEPT ![x] = [issued[x] EXCEPT !.ca = Authority(x)]]
    /\ GoOn(n + 1, mounted' # mounted)

\* Until cert-manager has issued it, the operator signs.
CopyOrSign(n) == IF issued[Order[n]] # None THEN Copy(n) ELSE Sign(n)

\* customTLSSecret keeps cert-manager away from the instances and pgBackRest as well.
Custom(x) == spec.customTLS /\ x # "bouncer"

\* userProvidedOnly and customTLSSecret: what the user gave is used.
LeafOfUser(n) ==
    LET x == Order[n] IN
    /\ s.pc = x
    /\ spec.policy = "userProvidedOnly" \/ UserTLS(x)
    /\ IF mounted[x] = None /\ x # "instance" THEN Failed ELSE GoOn(n + 1, x = "instance" /\ ~started)
    /\ started' = (started \/ x = "instance")
    /\ UNCHANGED <<spec, ready, root, managed, issued, mounted, last, changes>>

\* The branch of each Secret for an authority that cert-manager manages.
LeafByCertManager(n) ==
    LET x == Order[n] IN
    /\ s.pc = x /\ spec.policy # "userProvidedOnly" /\ ~Custom(x)
    /\ Signer = "cert-manager"
    /\ ApplyCertificate(x) /\ ApplyIssuer(x) /\ UNCHANGED caCert
    /\ IF x \in {"replication", "cluster"} \/ (x = "instance" /\ issued[x] = None)
       THEN GoOn(n + 1, certs' # certs \/ issuer' # issuer) /\ UNCHANGED mounted
       ELSE CopyOrSign(n)
    /\ started' = (started \/ x = "instance")
    /\ UNCHANGED <<spec, ready, root, issued, last, changes>>

\* The internal branch, and the Certificates an earlier version left behind.
LeafByOperator(n) ==
    LET x == Order[n] IN
    /\ s.pc = x /\ spec.policy # "userProvidedOnly"
    /\ ~UserTLS(x)
    /\ Custom(x) \/ Signer = "operator"
    /\ IF UseCertManager /\ certs[x] # None
       THEN ApplyCertificate(x) /\ ApplyIssuer(x) /\ UNCHANGED caCert
       ELSE UNCHANGED managed
    /\ Sign(n)
    /\ started' = (started \/ x = "instance")
    /\ UNCHANGED <<spec, ready, root, issued, last, changes>>

\* issuerConf is set and cert-manager does not answer.  pgBackRest logs it and goes on.
LeafFails(n) ==
    LET x == Order[n] IN
    /\ s.pc = x /\ spec.policy # "userProvidedOnly" /\ ~Custom(x)
    /\ Signer = "error"
    /\ IF x = "backrest" THEN s' = [s EXCEPT !.pc = Order[n + 1]] /\ event' = (IF event = "none" THEN "retry" ELSE event)
       ELSE Failed
    /\ UNCHANGED <<started, spec, ready, root, managed, issued, mounted, last, changes>>

LeafStep(n) == LeafOfUser(n) \/ LeafByCertManager(n) \/ LeafByOperator(n) \/ LeafFails(n)

\* The five handlers; each decides for itself who signs.
ReplicationSecret == LeafStep(1)
ClusterCertificate == LeafStep(2)
InstanceCertificates == LeafStep(3)
PGBackRestSecret == LeafStep(4)
PGBouncerSecret == LeafStep(5)

-----------------------------------------------------------------------------
(* cert-manager: its controller also works while its webhook does not.     *)

IssueCANeeded == caCert /\ ~Annotated

IssueCA ==
    /\ IssueCANeeded /\ last < MaxAuthority
    /\ last' = last + 1 /\ event' = "change"
    /\ root' = [crt |-> IF root = None THEN None ELSE root.crt, tls |-> last', valid |-> TRUE]
    /\ UNCHANGED <<started, spec, ready, managed, issued, mounted, s, changes>>

\* What the leaf of x is signed with.
IssuerKey(x) ==
    IF certs[x] = "external" THEN External
    ELSE IF certs[x] = "managed" /\ issuer /\ Annotated THEN root.tls ELSE None

\* Where cert-manager keeps the leaf: Pods mount two of the Secrets as they are.
Kept(x) == IF x \in {"replication", "cluster"} THEN mounted[x] ELSE issued[x]

\* A leaf that is missing, due, not its own, or of another issuer is issued; one
\* whose authority has changed is not.
IssueNeeded(x) ==
    /\ IssuerKey(x) # None
    /\ ~(/\ Kept(x) # None
         /\ ~Kept(x).due /\ Kept(x).by = "cert-manager"
         /\ (Kept(x).signer = External) = (certs[x] = "external"))

Issue(x) ==
    /\ IssueNeeded(x)
    /\ LET leaf == [signer |-> IssuerKey(x), ca |-> IssuerKey(x), by |-> "cert-manager", due |-> FALSE] IN
       IF x \in {"replication", "cluster"}
       THEN mounted' = [mounted EXCEPT ![x] = leaf] /\ UNCHANGED issued
       ELSE issued' = [issued EXCEPT ![x] = leaf] /\ UNCHANGED mounted
    /\ event' = "change"
    /\ UNCHANGED <<started, spec, ready, root, managed, last, s, changes>>

\* RotationPolicyNever in ApplyCACertificate.
CAKey(old) == old

\* cert-manager renews its CA.
RenewCA ==
    /\ Word("renew") /\ caCert /\ Annotated /\ last < MaxAuthority
    /\ root' = [root EXCEPT !.tls = CAKey(root.tls), !.valid = TRUE]
    /\ last' = IF root'.tls > last THEN root'.tls ELSE last
    /\ event' = "change" /\ changes' = changes \ {"renew"}
    /\ UNCHANGED <<started, spec, ready, managed, issued, mounted, s>>

-----------------------------------------------------------------------------
(* The user, time and failures.                                            *)

Provide(x) ==
    /\ mounted[x] = None /\ s.pc = "idle" /\ (x = "instance" => started)
    /\ spec.policy = "userProvidedOnly" \/ UserTLS(x)
    /\ mounted' = [mounted EXCEPT ![x] = [signer |-> User, ca |-> User, by |-> "user", due |-> FALSE]]
    /\ event' = "change"
    /\ UNCHANGED <<started, spec, ready, root, managed, issued, last, s, changes>>

ProvideRoot ==
    /\ spec.policy = "userProvidedOnly" /\ root = None
    /\ root' = [crt |-> User, tls |-> None, valid |-> TRUE]
    /\ event' = "change"
    /\ UNCHANGED <<started, spec, ready, managed, issued, mounted, last, s, changes>>

\* The webhook of cert-manager stops and starts to answer; only a pass that is retried notices.
Flap ==
    \E w \in {"down", "up"} :
        /\ Word(w) /\ ready = (w = "down") /\ ready' = ~ready
        /\ changes' = changes \ {w}
        /\ event' = IF event = "retry" THEN "change" ELSE event
        /\ UNCHANGED <<started, spec, root, managed, issued, mounted, last, s>>

\* The user deletes the root Secret to have a new authority.
Rotate ==
    /\ Word("rotate") /\ root # None /\ ~spec.customRoot
    /\ root' = None /\ event' = "change" /\ changes' = changes \ {"rotate"}
    /\ UNCHANGED <<started, spec, ready, managed, issued, mounted, last, s>>

\* The operator's own root expires.
Expire ==
    /\ Word("expire") /\ root # None /\ root.crt # None /\ ~Annotated
    /\ root' = [root EXCEPT !.valid = FALSE]
    /\ event' = "change" /\ changes' = changes \ {"expire"}
    /\ UNCHANGED <<started, spec, ready, managed, issued, mounted, last, s>>

\* A leaf, wherever it is kept, comes to its renewal time.
Age(x) ==
    /\ Word("age") /\ mounted[x] # None /\ mounted[x].by # "user"
    /\ mounted' = [mounted EXCEPT ![x].due = TRUE]
    /\ issued' = [issued EXCEPT ![x] = IF @ = None THEN @ ELSE [@ EXCEPT !.due = TRUE]]
    /\ event' = "change" /\ changes' = changes \ {"age"}
    /\ UNCHANGED <<started, spec, ready, root, managed, last, s>>

\* spec.tls.issuerConf may change at any time; the copy of a running pass does not.
SetIssuer ==
    \E w \in {"to external", "to namespaced"} :
        /\ Word(w) /\ s.pc = "idle"
        /\ spec.issuer # (IF w = "to external" THEN "external" ELSE "namespaced")
        /\ spec' = [spec EXCEPT !.issuer = IF w = "to external" THEN "external" ELSE "namespaced"]
        /\ event' = "change" /\ changes' = changes \ {w}
        /\ UNCHANGED <<started, ready, root, managed, issued, mounted, last, s>>

Crash ==
    /\ Word("crash") /\ s.pc # "idle"
    /\ s' = [pc |-> "idle"] /\ event' = "change" /\ changes' = changes \ {"crash"}
    /\ UNCHANGED <<started, spec, ready, root, managed, issued, mounted, last>>

Next ==
    \/ Reconcile \/ RequestRoot \/ AdoptRoot \/ OwnRoot \/ WriteRoot
    \/ ReplicationSecret \/ ClusterCertificate \/ InstanceCertificates
    \/ PGBackRestSecret \/ PGBouncerSecret
    \/ IssueCA \/ RenewCA \/ (\E x \in Leaves : Issue(x) \/ Provide(x) \/ Age(x))
    \/ ProvideRoot \/ Flap \/ Rotate \/ Expire \/ SetIssuer \/ Crash

Spec == Init /\ [][Next]_vars

-----------------------------------------------------------------------------
(* Properties.                                                             *)

\* Nothing is left for the operator, cert-manager or the user to do.
Settled ==
    /\ s.pc = "idle" /\ event # "change"
    /\ ~IssueCANeeded /\ \A x \in Leaves : ~IssueNeeded(x)
    /\ spec.policy = "userProvidedOnly" => root # None
    /\ \A x \in Leaves : mounted[x] = None =>
           ~(spec.policy = "userProvidedOnly" \/ UserTLS(x))

\* Once everything is settled, whatever came and went meanwhile, every Secret is there,
\* no leaf is past its renewal time and the authority next to each leaf is the one
\* that signed it: PostgreSQL and its replicas, Patroni, pgBackRest and the
\* PgBouncer frontend each accept their peers.  All leaves the operator or cert-manager
\* signed have the same signer.
CertificatesSettle ==
    Settled /\ (spec.issuer = "namespaced" \/ ready) =>
        /\ \A x \in Leaves :
              /\ mounted[x] # None
              /\ mounted[x].ca = mounted[x].signer /\ ~mounted[x].due
        /\ \A x, y \in Leaves :
              mounted[x].by # "user" /\ mounted[y].by # "user" => mounted[x].signer = mounted[y].signer
=============================================================================
