------------------------- MODULE NamespaceSecretSync -------------------------
(***************************************************************************)
(* The Namespace Secret controller for one Namespace: Reconcile and        *)
(* SyncNamespaceSecret with its reads from a cache that lags behind the    *)
(* API server, its conditional writes, and around it users who edit the    *)
(* Secret, changes of configuration and credentials, failing calls and     *)
(* restarts of the process.  Namespaces share nothing but the two stores   *)
(* (the reported conflicts are kept per Namespace), and the work queue     *)
(* never hands one Namespace to two workers.                               *)
(***************************************************************************)
EXTENDS SecretBuilder, Sequences

CONSTANTS
    Configurations,  \* [target, registries]: is the Namespace selected, and for what
    Damages,         \* the kinds of edits users make
    MaxChanges,      \* bound: changes of the ConfigMap
    MaxTokens,       \* bound: credentials obtained
    MaxEdits,        \* bound: edits by users
    MaxErrors,       \* bound: failing calls
    MaxRestarts      \* bound: restarts of the process

ASSUME BoundsAssumption ==
    {MaxChanges, MaxTokens, MaxEdits, MaxErrors, MaxRestarts} \subseteq Nat

\* The parser gives no Domain to two registries.
ASSUME ConfigurationsAssumption ==
    /\ None \notin Configurations
    /\ \A c \in Configurations : \A j, k \in DOMAIN c.registries :
          j # k => c.registries[j].domains \cap c.registries[k].domains = {}

VARIABLES
    configMap,    \* the configuration in the cluster
    changes,      \* number of its changes so far
    snapshot,     \* config.Store: the configuration loaded, or None
    credentials,  \* credential.Store
    issued,       \* number of credentials obtained so far
    fanout,       \* a publication of all Namespaces is under way
    requested,    \* the Namespace is in the controller's queue
    namespace,    \* the Namespace exists
    secret,       \* the Secret on the API server, or None
    revision,     \* the last resourceVersion given
    cache,        \* the Secret in the informer cache
    watch,        \* versions the watch has not delivered yet
    edits, errors, restarts,
    pc,           \* where SyncNamespaceSecret is
    snap,         \* its local snapshot
    observed,     \* its local current Secret
    content,      \* its local content
    conflicts     \* UID of the conflict reported last, 0 for none

configVars == <<configMap, changes, snapshot, credentials, issued>>
serverVars == <<secret, revision, watch>>
localVars == <<pc, snap, observed, content>>
vars == <<configVars, fanout, requested, namespace, serverVars, cache,
          edits, errors, restarts, localVars, conflicts>>

NoContent == [docker |-> EmptyMap, state |-> EmptyMap, problem |-> FALSE]

ApiCalls == {"create", "update", "delete"}

NewSecret == [uid |-> 0, rv |-> 0, managed |-> FALSE, deleting |-> FALSE,
              extra |-> FALSE, docker |-> Absent, state |-> Absent]

Init ==
    /\ configMap \in Configurations
    /\ changes = 0 /\ issued = 0 /\ edits = 0 /\ errors = 0 /\ restarts = 0
    /\ snapshot = None /\ credentials = EmptyMap
    /\ fanout = FALSE /\ requested = TRUE /\ namespace = TRUE
    /\ secret = None /\ revision = 0 /\ cache = None /\ watch = <<>>
    /\ pc = "idle" /\ snap = None /\ observed = None /\ content = NoContent
    /\ conflicts = 0

-----------------------------------------------------------------------------
(* The API server: every write makes a new version, which the watch         *)
(* delivers later and in order.  The UID is the version of the creation.    *)

Put(object) ==
    LET new == revision + 1 IN
    /\ revision' = new
    /\ secret' = [uid |-> IF object.uid = 0 THEN new ELSE object.uid, rv |-> new,
                  managed |-> object.managed, deleting |-> object.deleting,
                  extra |-> object.extra, docker |-> object.docker,
                  state |-> object.state]
    /\ watch' = Append(watch, secret')

Remove ==
    /\ secret' = None
    /\ watch' = Append(watch, None)
    /\ UNCHANGED revision

\* The informer stores the version, then the event queues the Namespace.
WatchDelivers ==
    /\ watch # <<>>
    /\ cache' = Head(watch)
    /\ watch' = Tail(watch)
    /\ requested' = TRUE
    /\ UNCHANGED <<configVars, fanout, namespace, secret, revision, edits, errors,
                   restarts, localVars, conflicts>>

-----------------------------------------------------------------------------
(* Users.                                                                   *)

\* What an edit leaves of a Secret, by the kind of the edit.
Edited(kind) ==
    CASE kind = "disown"  -> {[secret EXCEPT !.managed = FALSE]}
      [] kind = "adopt"   -> {[secret EXCEPT !.managed = TRUE]}
      [] kind = "extra"   -> {[secret EXCEPT !.extra = TRUE]}
      [] kind = "garble"  -> {[secret EXCEPT !.docker = Unreadable]}
      [] kind = "auth"    -> {[secret EXCEPT !.docker = [@ EXCEPT ![d] = Unusable]] :
                                 d \in DOMAIN Decoded(secret.docker)}
      [] kind = "state"   -> {[secret EXCEPT !.state = [@ EXCEPT ![k] = Malformed]] :
                                 k \in DOMAIN Decoded(secret.state)}
      [] OTHER            -> {}

UserEdits(kind) ==
    /\ edits < MaxEdits
    /\ secret # None
    /\ \E object \in Edited(kind) : object # secret /\ Put(object)
    /\ edits' = edits + 1
    /\ UNCHANGED <<configVars, fanout, requested, namespace, cache, errors, restarts,
                   localVars, conflicts>>

UserDeletes ==
    /\ edits < MaxEdits
    /\ secret # None
    /\ Remove
    /\ edits' = edits + 1
    /\ UNCHANGED <<configVars, fanout, requested, namespace, cache, errors, restarts,
                   localVars, conflicts>>

\* A Secret of the same name that is not the controller's.
UserCreates ==
    /\ edits < MaxEdits
    /\ namespace
    /\ secret = None
    /\ Put(NewSecret)
    /\ edits' = edits + 1
    /\ UNCHANGED <<configVars, fanout, requested, namespace, cache, errors, restarts,
                   localVars, conflicts>>

\* The Namespace goes, after its Secrets, or comes; the event queues it.
NamespaceChanges ==
    /\ edits < MaxEdits
    /\ namespace => secret = None
    /\ namespace' = ~namespace
    /\ requested' = TRUE
    /\ edits' = edits + 1
    /\ UNCHANGED <<configVars, fanout, serverVars, cache, errors, restarts, localVars,
                   conflicts>>

-----------------------------------------------------------------------------
(* Configuration controller and credential scheduler, as far as they are    *)
(* visible here: a store changes, then all Namespaces are published.        *)

EditConfigMap(c) ==
    /\ changes < MaxChanges
    /\ c # configMap
    /\ configMap' = c
    /\ changes' = changes + 1
    /\ UNCHANGED <<snapshot, credentials, issued, fanout, requested, namespace,
                   serverVars, cache, edits, errors, restarts, localVars, conflicts>>

LoadConfiguration ==
    /\ snapshot # configMap
    /\ snapshot' = configMap
    /\ fanout' = TRUE
    /\ UNCHANGED <<configMap, changes, credentials, issued, requested, namespace,
                   serverVars, cache, edits, errors, restarts, localVars, conflicts>>

Acquire(k) ==
    LET n == issued + 1
        auth == snapshot.registries[k].auth
    IN
    /\ issued < MaxTokens
    /\ credentials' = [x \in DOMAIN credentials \cup {k} |->
           IF x = k THEN [auth |-> auth,
                          credential |-> [token |-> <<k, auth, n>>,
                                          refreshedAt |-> n, expiresAt |-> n + 1]]
           ELSE credentials[x]]
    /\ issued' = n
    /\ fanout' = TRUE
    /\ UNCHANGED <<configMap, changes, snapshot, requested, namespace, serverVars,
                   cache, edits, errors, restarts, localVars, conflicts>>

\* The scheduler drops the credential of a registry that is gone or changed.
RemoveCredential(k) ==
    /\ k \notin FreshKeys(snapshot.registries, credentials)
    /\ credentials' = Restrict(credentials, DOMAIN credentials \ {k})
    /\ UNCHANGED <<configMap, changes, snapshot, issued, fanout, requested, namespace,
                   serverVars, cache, edits, errors, restarts, localVars, conflicts>>

Publish ==
    /\ fanout
    /\ fanout' = FALSE
    /\ requested' = (requested \/ namespace)
    /\ UNCHANGED <<configVars, namespace, serverVars, cache, edits, errors, restarts,
                   localVars, conflicts>>

\* The stores, queues and locals of the process are lost; the new one lists
\* the cluster, which queues every Namespace.
Restart ==
    /\ restarts < MaxRestarts
    /\ restarts' = restarts + 1
    /\ snapshot' = None /\ credentials' = EmptyMap /\ conflicts' = 0
    /\ fanout' = FALSE /\ requested' = namespace
    /\ cache' = secret /\ watch' = <<>>
    /\ pc' = "idle" /\ snap' = None /\ observed' = None /\ content' = NoContent
    /\ UNCHANGED <<configMap, changes, issued, namespace, secret, revision, edits, errors>>

-----------------------------------------------------------------------------
(* SyncNamespaceSecret                                                      *)

\* An error has the request queued again.
Finish(again) ==
    /\ pc' = "idle"
    /\ snap' = None /\ observed' = None /\ content' = NoContent
    /\ requested' = (requested \/ again)

\* A request is dropped while no configuration is loaded.
Begin ==
    /\ pc = "idle"
    /\ requested
    /\ requested' = FALSE
    /\ snap' = snapshot
    /\ pc' = IF snapshot = None THEN "idle" ELSE "namespace"
    /\ UNCHANGED <<configVars, fanout, namespace, serverVars, cache, edits, errors,
                   restarts, observed, content, conflicts>>

GetNamespace ==
    /\ pc = "namespace"
    /\ IF namespace
       THEN /\ pc' = "secret"
            /\ UNCHANGED <<requested, snap, observed, content, conflicts>>
       ELSE /\ conflicts' = 0
            /\ Finish(FALSE)
    /\ UNCHANGED <<configVars, fanout, namespace, serverVars, cache, edits, errors,
                   restarts>>

GetSecret ==
    /\ pc = "secret"
    /\ observed' = cache
    /\ pc' = "decide"
    /\ UNCHANGED <<configVars, fanout, requested, namespace, serverVars, cache, edits,
                   errors, restarts, snap, content, conflicts>>

\* Mutant: the error of a failing call is dropped.
CallErrorDropped ==
    /\ pc \in {"namespace", "secret"} \cup ApiCalls
    /\ errors < MaxErrors
    /\ errors' = errors + 1
    /\ Finish(FALSE)
    /\ UNCHANGED <<configVars, fanout, namespace, serverVars, cache, edits, restarts,
                   conflicts>>

\* A failing read or call that had no effect.
CallFails ==
    /\ pc \in {"namespace", "secret"} \cup ApiCalls
    /\ errors < MaxErrors
    /\ errors' = errors + 1
    /\ Finish(TRUE)
    /\ UNCHANGED <<configVars, fanout, namespace, serverVars, cache, edits, restarts,
                   conflicts>>

\* Mutant: whatever has the fixed name is cleaned up.
UntargetedDeletesAll ==
    /\ pc = "decide"
    /\ ~snap.target
    /\ conflicts' = 0
    /\ IF observed = None
       THEN Finish(FALSE)
       ELSE pc' = "delete" /\ UNCHANGED <<requested, snap, observed, content>>
    /\ UNCHANGED <<configVars, fanout, namespace, serverVars, cache, edits, errors,
                   restarts>>

\* Outside the selection only a managed Secret is deleted.
Untargeted ==
    /\ pc = "decide"
    /\ ~snap.target
    /\ conflicts' = 0
    /\ IF observed = None \/ ~observed.managed
       THEN Finish(FALSE)
       ELSE pc' = "delete" /\ UNCHANGED <<requested, snap, observed, content>>
    /\ UNCHANGED <<configVars, fanout, namespace, serverVars, cache, edits, errors,
                   restarts>>

\* A Secret of somebody else is reported, and left alone.
OwnershipConflict ==
    /\ pc = "decide"
    /\ snap.target
    /\ observed # None /\ ~observed.managed
    /\ conflicts' = observed.uid
    /\ Finish(FALSE)
    /\ UNCHANGED <<configVars, fanout, namespace, serverVars, cache, edits, errors,
                   restarts>>

\* The content is built from the credentials of this moment.  Without any auth a
\* problem keeps the Secret as it is; otherwise an empty Secret is deleted.
BuildContent ==
    /\ pc = "decide"
    /\ snap.target
    /\ observed # None => observed.managed
    /\ conflicts' = 0
    /\ LET built == Build(snap.registries, credentials, observed)
           call == IF ~HasAuth(built)
                   THEN (IF built.problem \/ observed = None THEN "none" ELSE "delete")
                   ELSE IF observed = None THEN "create"
                   ELSE IF SecretMatches(observed, built) THEN "none"
                   ELSE "update"
       IN IF call = "none" THEN Finish(built.problem)
          ELSE /\ pc' = call
               /\ content' = built
               /\ UNCHANGED <<requested, snap, observed>>
    /\ UNCHANGED <<configVars, fanout, namespace, serverVars, cache, edits, errors,
                   restarts>>

\* A call that took effect but whose answer is lost returns an error.
Answered(lost) ==
    /\ lost => errors < MaxErrors
    /\ errors' = IF lost THEN errors + 1 ELSE errors

Create(lost) ==
    /\ pc = "create"
    /\ Answered(lost)
    /\ IF secret = None /\ namespace
       THEN /\ Put(ApplyContent(NewSecret, content))
            /\ Finish(content.problem \/ lost)
       ELSE /\ Finish(TRUE)
            /\ UNCHANGED serverVars
    /\ UNCHANGED <<configVars, fanout, namespace, cache, edits, restarts, conflicts>>

\* Mutant: the Secret is overwritten whatever its version.
UpdateUnconditional(lost) ==
    /\ pc = "update"
    /\ Answered(lost)
    /\ IF secret # None
       THEN /\ Put(ApplyContent([observed EXCEPT !.uid = secret.uid], content))
            /\ Finish(content.problem \/ lost)
       ELSE /\ Finish(TRUE)
            /\ UNCHANGED serverVars
    /\ UNCHANGED <<configVars, fanout, namespace, cache, edits, restarts, conflicts>>

\* The update carries the resourceVersion that was observed.
Update(lost) ==
    /\ pc = "update"
    /\ Answered(lost)
    /\ IF secret # None /\ secret.rv = observed.rv
       THEN /\ Put(ApplyContent(observed, content))
            /\ Finish(content.problem \/ lost)
       ELSE /\ Finish(TRUE)
            /\ UNCHANGED serverVars
    /\ UNCHANGED <<configVars, fanout, namespace, cache, edits, restarts, conflicts>>

\* Mutant: the Secret is deleted whatever its version.
DeleteByName(lost) ==
    /\ pc = "delete"
    /\ Answered(lost)
    /\ IF secret = None
       THEN Finish(lost) /\ UNCHANGED serverVars
       ELSE Remove /\ Finish(lost)
    /\ UNCHANGED <<configVars, fanout, namespace, cache, edits, restarts, conflicts>>

\* deleteObserved: preconditions on UID and resourceVersion; a Secret that is
\* already gone is no error.
Delete(lost) ==
    /\ pc = "delete"
    /\ Answered(lost)
    /\ IF secret = None
       THEN Finish(lost) /\ UNCHANGED serverVars
       ELSE IF secret.uid = observed.uid /\ secret.rv = observed.rv
       THEN Remove /\ Finish(lost)
       ELSE Finish(TRUE) /\ UNCHANGED serverVars
    /\ UNCHANGED <<configVars, fanout, namespace, cache, edits, restarts, conflicts>>

-----------------------------------------------------------------------------
SyncStep ==
    \/ Begin \/ GetNamespace \/ GetSecret
    \/ Untargeted \/ OwnershipConflict \/ BuildContent
    \/ Create(FALSE) \/ Update(FALSE) \/ Delete(FALSE)

SchedulerStep ==
    snapshot # None /\ (\/ \E k \in DOMAIN snapshot.registries : Acquire(k)
                        \/ \E k \in DOMAIN credentials : RemoveCredential(k))

UserStep ==
    \/ \E kind \in Damages : UserEdits(kind)
    \/ UserDeletes \/ UserCreates \/ NamespaceChanges

Next ==
    \/ SyncStep
    \/ Create(TRUE) \/ Update(TRUE) \/ Delete(TRUE) \/ CallFails
    \/ WatchDelivers \/ UserStep \/ SchedulerStep
    \/ \E c \in Configurations : EditConfigMap(c)
    \/ LoadConfiguration \/ Publish \/ Restart

Spec == Init /\ [][Next]_vars

\* The controller's worker runs, the watch delivers, and stores and fan-outs make
\* progress.  Nothing is assumed of users, and failures are finite (MaxErrors).
Fairness ==
    /\ WF_vars(SyncStep)
    /\ WF_vars(WatchDelivers)
    /\ WF_vars(LoadConfiguration)
    /\ WF_vars(Publish)

FairSpec == Spec /\ Fairness

-----------------------------------------------------------------------------
(* Properties                                                               *)

Version(v) ==
    v # None => /\ v.uid \in 1..v.rv /\ v.rv \in 1..revision
                /\ {v.managed, v.deleting, v.extra} \subseteq BOOLEAN

\* Types, and that versions and UIDs are those the server gave out.
TypeOK ==
    /\ configMap \in Configurations /\ snapshot \in Configurations \cup {None}
    /\ changes \in 0..MaxChanges /\ issued \in 0..MaxTokens
    /\ edits \in 0..MaxEdits /\ errors \in 0..MaxErrors /\ restarts \in 0..MaxRestarts
    /\ {fanout, requested, namespace} \subseteq BOOLEAN
    /\ pc \in {"idle", "namespace", "secret", "decide"} \cup ApiCalls
    /\ revision \in Nat
    /\ Version(secret) /\ Version(cache) /\ Version(observed)
    /\ \A i \in 1..Len(watch) : Version(watch[i])
    /\ conflicts \in 0..revision
    /\ pc # "idle" => snap \in Configurations
    /\ pc \in {"update", "delete"} => observed # None

\* A step of the controller, as opposed to one of anybody else.
ControllerStep == pc # pc'

\* A Secret that is not the controller's is never changed or deleted by it, even
\* if it lost its labels, or replaced a managed one, after it was read.
ForeignUntouched ==
    [][ControllerStep /\ secret # None /\ ~secret.managed => secret' = secret]_vars

\* What the controller replaces or deletes is exactly the version its decision was
\* based on: no edit made since the read is overwritten unseen.
NoBlindWrite ==
    [][ControllerStep /\ secret' # secret => secret = observed]_vars

Usable(envelope, x) ==
    envelope \notin {Absent, Unreadable} /\ x \in DOMAIN envelope
        /\ envelope[x] \notin {Malformed, Unusable}

\* The Secret lets pods pull from Domain d of registry k.
Serves(object, k, d) ==
    /\ object # None /\ object.managed
    /\ Usable(object.docker, d) /\ Usable(object.state, k)
    /\ CompleteState(object.state[k])

\* The controller never takes away the working auth of a Domain that is
\* configured for the same registry: not while the credential is pending after a
\* restart or a change of the AK/SK, nor because of damage to other records.
PullAccessKept ==
    [][ControllerStep /\ pc \in ApiCalls /\ snap.target =>
          \A k \in DOMAIN snap.registries : \A d \in snap.registries[k].domains :
              Serves(secret, k, d) => Serves(secret', k, d)]_vars

\* Nothing is under way any more.
Quiet ==
    /\ ~requested /\ ~fanout /\ pc = "idle" /\ watch = <<>>
    /\ snapshot = configMap /\ namespace

\* The Secret is what configuration and credentials call for.
Converged ==
    IF ~snapshot.target
    THEN secret = None \/ ~secret.managed
    ELSE IF secret # None /\ ~secret.managed
    THEN conflicts = secret.uid
    ELSE LET built == Build(snapshot.registries, credentials, secret) IN
         /\ ~built.problem
         /\ IF HasAuth(built) THEN secret # None /\ secret = ApplyContent(secret, built)
            ELSE secret = None

\* The controller only comes to rest when the Secret is right: no edit, change of
\* configuration or credential, failed call or restart is forgotten.
QuietIsConverged == Quiet => Converged

\* In the end the Secret carries the credential of every fresh registry on all its
\* Domains, and a Namespace that is not selected has no managed Secret.
Delivered ==
    <>[](\/ ~namespace
         \/ secret # None /\ ~secret.managed
         \/ ~configMap.target /\ secret = None
         \/ /\ configMap.target
            /\ \A k \in FreshKeys(configMap.registries, credentials) :
                  \A d \in configMap.registries[k].domains :
                     /\ secret # None
                     /\ Usable(secret.docker, d)
                     /\ secret.docker[d] = credentials[k].credential.token)

\* What the documentation promises of a Secret the controller has written: all
\* Domains of a registry carry the same user name and token.
OneTokenPerRegistry ==
    pc \in {"create", "update"} => \A k \in DOMAIN snap.registries :
        \A d, e \in snap.registries[k].domains \cap DOMAIN content.docker :
            content.docker[d] = content.docker[e]
=============================================================================
