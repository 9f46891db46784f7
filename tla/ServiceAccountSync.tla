-------------------------- MODULE ServiceAccountSync --------------------------
(***************************************************************************)
(* The ServiceAccount controller for the accounts of one Namespace:        *)
(* Reconcile and SyncServiceAccount with cached reads and optimistic       *)
(* locking, the wait for the managed Secret with its own back-off, and the *)
(* events that queue an account: its own, the Secret's (filtered by a      *)
(* predicate and mapped to the selected accounts) and the fan-out of a     *)
(* configuration.  Of the Secret only its use to an account is kept: it is *)
(* missing, foreign (not managed), incomplete (managed, but deleting or    *)
(* without content) or usable.                                             *)
(***************************************************************************)
EXTENDS Integers, Sequences, Functions

CONSTANTS
    ServiceAccounts,   \* names of accounts
    None,
    Managed,           \* the fixed Secret name
    ReferenceLists,    \* lists of imagePullSecrets users write
    ForeignSecrets,    \* may a Secret of somebody else take the name
    Selections,        \* configurations: the sets of accounts they select
    MaxChanges,        \* bound: changes of the configuration
    MaxSecretChanges,  \* bound: changes of the Secret
    MaxEdits,          \* bound: edits of accounts by users
    MaxErrors,         \* bound: failing calls
    MaxMapErrors,      \* bound: failing lists in the mapping of a Secret event
    MaxRestarts,       \* bound: restarts of the process
    MaxFailures        \* bound: the wait no longer grows (secretDependencyMaxDelay)

ASSUME AccountsAssumption ==
    /\ {MaxChanges, MaxSecretChanges, MaxEdits, MaxErrors, MaxMapErrors, MaxRestarts,
        MaxFailures} \subseteq Nat
    /\ MaxFailures > 0 /\ ForeignSecrets \in BOOLEAN
    /\ ReferenceLists \subseteq Seq(STRING)
    /\ Managed \in STRING
    /\ Selections \subseteq SUBSET ServiceAccounts /\ None \notin Selections

VARIABLES
    configMap, changes,
    snapshot,                 \* config.Store: the selection loaded, or None
    fanout,                   \* all ServiceAccounts are being published
    secret,                   \* the Secret on the API server
    secretCache,              \* ... in the informer cache
    secretWatch,              \* ... in versions not delivered yet
    secretChanges,
    accounts,                 \* accounts on the API server: [refs, rv] or None
    revision,                 \* the last resourceVersion given
    cached,                   \* accounts in the informer cache
    accountWatch,             \* per account, versions not delivered yet
    edits, errors, mapErrors, restarts,
    queue,                    \* requests in the controller's queue
    waiting,                  \* requests that come back after a delay
    failures,                 \* dependencyBackoff: failures of each account
    pc, snap, observed, want  \* per account: the running SyncServiceAccount

configVars == <<configMap, changes, snapshot>>
secretVars == <<secret, secretCache, secretWatch, secretChanges>>
serverVars == <<accounts, revision, accountWatch>>
localVars == <<pc, snap, observed, want>>
boundVars == <<edits, errors, mapErrors, restarts>>
vars == <<configVars, fanout, secretVars, serverVars, cached, boundVars,
          queue, waiting, failures, localVars>>

SecretKinds == {"missing", "foreign", "incomplete", "usable"}

IsManaged(kind) == kind \in {"incomplete", "usable"}

Const(value) == [s \in ServiceAccounts |-> value]

Init ==
    /\ configMap \in Selections /\ changes = 0 /\ snapshot = None /\ fanout = FALSE
    /\ secret = "missing" /\ secretCache = "missing" /\ secretWatch = <<>>
    /\ secretChanges = 0
    /\ \E refs \in ReferenceLists : accounts = Const([refs |-> refs, rv |-> 0])
    /\ revision = 0 /\ cached = accounts /\ accountWatch = Const(<<>>)
    /\ edits = 0 /\ errors = 0 /\ mapErrors = 0 /\ restarts = 0
    /\ queue = ServiceAccounts /\ waiting = {} /\ failures = Const(0)
    /\ pc = Const("idle") /\ snap = Const({}) /\ observed = Const(None)
    /\ want = Const(FALSE)

-----------------------------------------------------------------------------
(* The API server and its users                                             *)

PutAccount(s, refs) ==
    LET new == revision + 1 IN
    /\ revision' = new
    /\ accounts' = [accounts EXCEPT ![s] = [refs |-> refs, rv |-> new]]
    /\ accountWatch' = [accountWatch EXCEPT ![s] = Append(@, [refs |-> refs, rv |-> new])]

UserWritesAccount(s, refs) ==
    /\ edits < MaxEdits
    /\ accounts[s] # None => accounts[s].refs # refs
    /\ PutAccount(s, refs)
    /\ edits' = edits + 1
    /\ UNCHANGED <<configVars, fanout, secretVars, cached, errors, mapErrors, restarts,
                   queue, waiting, failures, localVars>>

UserDeletesAccount(s) ==
    /\ edits < MaxEdits
    /\ accounts[s] # None
    /\ accounts' = [accounts EXCEPT ![s] = None]
    /\ accountWatch' = [accountWatch EXCEPT ![s] = Append(@, None)]
    /\ edits' = edits + 1
    /\ UNCHANGED <<configVars, fanout, secretVars, revision, cached, errors, mapErrors,
                   restarts, queue, waiting, failures, localVars>>

\* The Namespace controller or a user changes the Secret.
SecretChanges(kind) ==
    /\ secretChanges < MaxSecretChanges
    /\ kind # secret
    /\ kind = "foreign" => ForeignSecrets
    /\ secret' = kind
    /\ secretWatch' = Append(secretWatch, kind)
    /\ secretChanges' = secretChanges + 1
    /\ UNCHANGED <<configVars, fanout, secretCache, serverVars, cached, boundVars,
                   queue, waiting, failures, localVars>>

-----------------------------------------------------------------------------
(* Events                                                                   *)

\* Any event of an account queues it, after the cache has taken it over.
AccountEvent(s) ==
    /\ accountWatch[s] # <<>>
    /\ cached' = [cached EXCEPT ![s] = Head(accountWatch[s])]
    /\ accountWatch' = [accountWatch EXCEPT ![s] = Tail(@)]
    /\ queue' = queue \cup {s}
    /\ UNCHANGED <<configVars, fanout, secretVars, accounts, revision, boundVars,
                   waiting, failures, localVars>>

\* Mutant: only the creation of a Secret is of interest.
PredicateCreateOnly(old, new) == old = "missing"

\* serviceAccountSecretPredicate: creations, and updates that change the owner.
Predicate(old, new) ==
    \/ old = "missing"
    \/ new # "missing" /\ IsManaged(old) # IsManaged(new)

\* Selected accounts in the cache, by the configuration of this moment.
MappedAccounts ==
    IF snapshot = None THEN {} ELSE {s \in snapshot : cached[s] # None}

\* The watch delivers a version of the Secret, or after a gap only a later one;
\* the mapping's list may fail, which drops the event.
SecretEvent(n, fails) ==
    LET new == secretWatch[n] IN
    /\ fails => mapErrors < MaxMapErrors
    /\ secretCache' = new
    /\ secretWatch' = SubSeq(secretWatch, n + 1, Len(secretWatch))
    /\ mapErrors' = IF fails THEN mapErrors + 1 ELSE mapErrors
    /\ queue' = IF ~fails /\ new # secretCache /\ Predicate(secretCache, new)
                THEN queue \cup MappedAccounts ELSE queue
    /\ UNCHANGED <<configVars, fanout, secret, secretChanges, serverVars, cached,
                   edits, errors, restarts, waiting, failures, localVars>>

EditConfigMap(selection) ==
    /\ changes < MaxChanges
    /\ selection # configMap
    /\ configMap' = selection
    /\ changes' = changes + 1
    /\ UNCHANGED <<snapshot, fanout, secretVars, serverVars, cached, boundVars, queue,
                   waiting, failures, localVars>>

LoadConfiguration ==
    /\ snapshot # configMap
    /\ snapshot' = configMap
    /\ fanout' = TRUE
    /\ UNCHANGED <<configMap, changes, secretVars, serverVars, cached, boundVars, queue,
                   waiting, failures, localVars>>

\* PublishAllServiceAccounts queues every account, selected or not.
Publish ==
    /\ fanout
    /\ fanout' = FALSE
    /\ queue' = queue \cup {s \in ServiceAccounts : cached[s] # None}
    /\ UNCHANGED <<configVars, secretVars, serverVars, cached, boundVars, waiting,
                   failures, localVars>>

WaitEnds(s) ==
    /\ s \in waiting
    /\ waiting' = waiting \ {s}
    /\ queue' = queue \cup {s}
    /\ UNCHANGED <<configVars, fanout, secretVars, serverVars, cached, boundVars,
                   failures, localVars>>

\* A new process lists the cluster, which queues every account.
Restart ==
    /\ restarts < MaxRestarts
    /\ restarts' = restarts + 1
    /\ snapshot' = None /\ fanout' = FALSE
    /\ secretCache' = secret /\ secretWatch' = <<>>
    /\ cached' = accounts /\ accountWatch' = Const(<<>>)
    /\ queue' = {s \in ServiceAccounts : accounts[s] # None}
    /\ waiting' = {} /\ failures' = Const(0)
    /\ pc' = Const("idle") /\ snap' = Const({}) /\ observed' = Const(None)
    /\ want' = Const(FALSE)
    /\ UNCHANGED <<configMap, changes, secret, secretChanges, accounts, revision, edits,
                   errors, mapErrors>>

-----------------------------------------------------------------------------
(* SyncServiceAccount and the Reconcile around it                           *)

Return(s) ==
    /\ pc' = [pc EXCEPT ![s] = "idle"]
    /\ snap' = [snap EXCEPT ![s] = {}]
    /\ observed' = [observed EXCEPT ![s] = None]
    /\ want' = [want EXCEPT ![s] = FALSE]

\* Mutant: a success does not forget the waits.
SucceedKeepsCount(s) ==
    /\ Return(s)
    /\ UNCHANGED <<queue, waiting, failures>>

\* Success: the waits of the account are forgotten.
Succeed(s) ==
    /\ Return(s)
    /\ failures' = [failures EXCEPT ![s] = 0]
    /\ UNCHANGED <<queue, waiting>>

\* Any other error queues the request again and keeps the count.
Fail(s) ==
    /\ Return(s)
    /\ queue' = queue \cup {s}
    /\ UNCHANGED <<waiting, failures>>

\* Mutant: the result carries no RequeueAfter.
NotReadyDropped(s) ==
    /\ Return(s)
    /\ failures' = [failures EXCEPT ![s] = IF @ < MaxFailures THEN @ + 1 ELSE @]
    /\ UNCHANGED <<queue, waiting>>

\* ErrManagedSecretNotReady: not an error, but a longer and longer wait.
NotReady(s) ==
    /\ Return(s)
    /\ failures' = [failures EXCEPT ![s] = IF @ < MaxFailures THEN @ + 1 ELSE @]
    /\ waiting' = waiting \cup {s}
    /\ UNCHANGED queue

Goto(s, label) == pc' = [pc EXCEPT ![s] = label]

\* Without a configuration the request is dropped.
Begin(s) ==
    /\ s \in queue
    /\ pc[s] = "idle"
    /\ queue' = queue \ {s}
    /\ IF snapshot = None
       THEN failures' = [failures EXCEPT ![s] = 0] /\ UNCHANGED <<pc, snap>>
       ELSE /\ snap' = [snap EXCEPT ![s] = snapshot]
            /\ Goto(s, "account")
            /\ UNCHANGED failures
    /\ UNCHANGED <<configVars, fanout, secretVars, serverVars, cached, boundVars,
                   waiting, observed, want>>

GetAccount(s) ==
    /\ pc[s] = "account"
    /\ IF cached[s] = None
       THEN Succeed(s)
       ELSE /\ observed' = [observed EXCEPT ![s] = cached[s]]
            /\ Goto(s, IF s \in snap[s] THEN "secret" ELSE "patch")
            /\ UNCHANGED <<snap, want, queue, waiting, failures>>
    /\ UNCHANGED <<configVars, fanout, secretVars, serverVars, cached, boundVars>>

\* Mutant: a Secret that is not ready is taken for one that must not be referenced.
GetSecretNotReadyRemoves(s) ==
    /\ pc[s] = "secret"
    /\ want' = [want EXCEPT ![s] = secretCache = "usable"]
    /\ Goto(s, "patch")
    /\ UNCHANGED <<snap, observed, queue, waiting, failures>>
    /\ UNCHANGED <<configVars, fanout, secretVars, serverVars, cached, boundVars>>

\* A selected account waits for a Secret that is missing or incomplete and must
\* not refer to a foreign one.
GetSecret(s) ==
    /\ pc[s] = "secret"
    /\ IF secretCache \in {"missing", "incomplete"}
       THEN NotReady(s)
       ELSE /\ want' = [want EXCEPT ![s] = secretCache = "usable"]
            /\ Goto(s, "patch")
            /\ UNCHANGED <<snap, observed, queue, waiting, failures>>
    /\ UNCHANGED <<configVars, fanout, secretVars, serverVars, cached, boundVars>>

\* reconcileReferences: one pass over the list that drops the fixed name, or keeps
\* its first occurrence; a wanted one that was not there goes to the end.
ReconcileReferences(current, reference) ==
    LET pass[i \in 0..Len(current)] ==
            IF i = 0 THEN <<>>
            ELSE IF current[i] # Managed THEN Append(pass[i - 1], current[i])
            ELSE IF reference /\ Managed \notin Range(pass[i - 1])
                 THEN Append(pass[i - 1], Managed)
            ELSE pass[i - 1]
        result == pass[Len(current)]
    IN IF reference /\ Managed \notin Range(result) THEN Append(result, Managed) ELSE result

\* Mutant: the patch carries no resourceVersion.
PatchUnlocked(s) ==
    /\ pc[s] = "patch"
    /\ LET desired == ReconcileReferences(observed[s].refs, want[s]) IN
       IF desired = observed[s].refs
       THEN Succeed(s) /\ UNCHANGED serverVars
       ELSE IF accounts[s] # None
       THEN PutAccount(s, desired) /\ Succeed(s)
       ELSE Fail(s) /\ UNCHANGED serverVars
    /\ UNCHANGED <<configVars, fanout, secretVars, cached, boundVars>>

\* The merge patch replaces the whole list, under the observed resourceVersion.
Patch(s) ==
    /\ pc[s] = "patch"
    /\ LET desired == ReconcileReferences(observed[s].refs, want[s]) IN
       IF desired = observed[s].refs
       THEN Succeed(s) /\ UNCHANGED serverVars
       ELSE IF accounts[s] # None /\ accounts[s].rv = observed[s].rv
       THEN PutAccount(s, desired) /\ Succeed(s)
       ELSE Fail(s) /\ UNCHANGED serverVars
    /\ UNCHANGED <<configVars, fanout, secretVars, cached, boundVars>>

\* A read or the patch fails without effect.
CallFails(s) ==
    /\ pc[s] # "idle"
    /\ errors < MaxErrors
    /\ errors' = errors + 1
    /\ Fail(s)
    /\ UNCHANGED <<configVars, fanout, secretVars, serverVars, cached, edits, mapErrors,
                   restarts>>

\* The patch takes effect, but its answer is lost.
PatchAnswerLost(s) ==
    /\ pc[s] = "patch"
    /\ errors < MaxErrors
    /\ errors' = errors + 1
    /\ accounts[s] # None /\ accounts[s].rv = observed[s].rv
    /\ LET desired == ReconcileReferences(observed[s].refs, want[s]) IN
       desired # observed[s].refs /\ PutAccount(s, desired)
    /\ Fail(s)
    /\ UNCHANGED <<configVars, fanout, secretVars, cached, edits, mapErrors, restarts>>

-----------------------------------------------------------------------------
SyncStep(s) == Begin(s) \/ GetAccount(s) \/ GetSecret(s) \/ Patch(s)

Next ==
    \/ \E s \in ServiceAccounts :
          \/ SyncStep(s) \/ CallFails(s) \/ PatchAnswerLost(s)
          \/ WaitEnds(s) \/ AccountEvent(s)
          \/ UserDeletesAccount(s)
          \/ \E refs \in ReferenceLists : UserWritesAccount(s, refs)
    \/ \E kind \in SecretKinds : SecretChanges(kind)
    \/ \E n \in 1..Len(secretWatch), fails \in BOOLEAN : SecretEvent(n, fails)
    \/ \E selection \in Selections : EditConfigMap(selection)
    \/ LoadConfiguration \/ Publish \/ Restart

Spec == Init /\ [][Next]_vars

\* Workers run, waits end, watches deliver and fan-outs proceed; failures are
\* finite in number and users are free.
Fairness ==
    /\ \A s \in ServiceAccounts :
          WF_vars(SyncStep(s)) /\ WF_vars(WaitEnds(s)) /\ WF_vars(AccountEvent(s))
    /\ WF_vars(\E n \in 1..Len(secretWatch) : SecretEvent(n, FALSE))
    /\ WF_vars(LoadConfiguration) /\ WF_vars(Publish)

FairSpec == Spec /\ Fairness

-----------------------------------------------------------------------------
(* Properties                                                               *)

Account(v) == v # None => v.refs \in Seq(STRING) /\ v.rv \in 0..revision

\* Types; an account whose patch is due has been read.
TypeOK ==
    /\ configMap \in Selections /\ snapshot \in Selections \cup {None}
    /\ changes \in 0..MaxChanges /\ secretChanges \in 0..MaxSecretChanges
    /\ edits \in 0..MaxEdits /\ errors \in 0..MaxErrors
    /\ mapErrors \in 0..MaxMapErrors /\ restarts \in 0..MaxRestarts
    /\ secret \in SecretKinds /\ secretCache \in SecretKinds
    /\ secretWatch \in Seq(SecretKinds)
    /\ fanout \in BOOLEAN /\ revision \in Nat
    /\ queue \subseteq ServiceAccounts /\ waiting \subseteq ServiceAccounts
    /\ failures \in [ServiceAccounts -> 0..MaxFailures]
    /\ pc \in [ServiceAccounts -> {"idle", "account", "secret", "patch"}]
    /\ \A s \in ServiceAccounts :
          /\ Account(accounts[s]) /\ Account(cached[s]) /\ Account(observed[s])
          /\ \A i \in 1..Len(accountWatch[s]) : Account(accountWatch[s][i])
          /\ want[s] \in BOOLEAN
          /\ pc[s] \in {"secret", "patch"} => observed[s] # None

\* The list without the fixed name, in its order.
Others(refs) ==
    LET kept[i \in 0..Len(refs)] ==
            IF i = 0 THEN <<>>
            ELSE IF refs[i] # Managed THEN Append(kept[i - 1], refs[i])
            ELSE kept[i - 1]
    IN kept[Len(refs)]

\* The controller leaves all other references as they are, in their order, even
\* those a user adds or removes between its read and its patch.
OthersKept ==
    [][\A s \in ServiceAccounts :
          pc[s] # pc'[s] /\ accounts[s] # None =>
              /\ accounts'[s] # None
              /\ Others(accounts'[s].refs) = Others(accounts[s].refs)]_vars

\* No back-off outlives its cause: an account that waited is waiting, queued or
\* being reconciled, or its count is back to zero, deleted accounts included.
NoLeakedBackoff ==
    \A s \in ServiceAccounts :
        failures[s] > 0 => s \in waiting \cup queue \/ pc[s] # "idle" \/ accountWatch[s] # <<>>

Quiet ==
    /\ queue = {} /\ pc = Const("idle") /\ ~fanout /\ snapshot = configMap
    /\ secretWatch = <<>> /\ accountWatch = Const(<<>>)

References(s) ==
    IF accounts[s] = None THEN {}
    ELSE {i \in 1..Len(accounts[s].refs) : accounts[s].refs[i] = Managed}

ReferredOnce(s) == \E i \in References(s) : References(s) = {i}

\* An account not selected, or facing a foreign Secret, does not refer to it.  A
\* selected one refers to the managed Secret once, or will be tried again: no
\* event tells of an incomplete Secret that becomes usable.  Nothing is needed
\* while the Secret is missing, since its creation is an event.
Settled(s) ==
    accounts[s] # None =>
        IF s \notin configMap \/ secret = "foreign" THEN References(s) = {}
        ELSE secret # "missing" => ReferredOnce(s) \/ s \in waiting

\* The controller comes to rest only when every account is right.
QuietIsSettled == Quiet => \A s \in ServiceAccounts : Settled(s)

\* Every account selected at last gets its reference to a Secret that is usable at
\* last, and loses it to one that is foreign at last.
Injected ==
    \A s \in ServiceAccounts :
        /\ <>[](accounts[s] # None /\ s \in configMap /\ secret = "usable")
              => <>[]ReferredOnce(s)
        /\ <>[](accounts[s] # None /\ (s \notin configMap \/ secret = "foreign"))
              => <>[](References(s) = {})

\* A selected account that refers to the Secret keeps doing so while the Secret is
\* only ever missing, incomplete or usable.
ReferenceKept ==
    [][\A s \in ServiceAccounts :
          /\ pc[s] # pc'[s]
          /\ accounts[s] # None /\ References(s) # {}
          /\ ~ForeignSecrets /\ \A selection \in Selections : s \in selection
          => References(s)' # {}]_vars
=============================================================================
