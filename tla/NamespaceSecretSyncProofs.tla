---------------------- MODULE NamespaceSecretSyncProofs ----------------------
(***************************************************************************)
(* The Namespace Secret controller for any configurations, kinds of edits  *)
(* and bounds: ownership and optimistic concurrency, that it only comes to *)
(* rest when the Secret is right, and that pull access is kept, which      *)
(* follows from what Build makes of the Secret.                            *)
(***************************************************************************)
EXTENDS NamespaceSecretSync, TLAPS

\* A version that was read or is on its way was given out by the server, and it is
\* the present Secret if it has its resourceVersion.
Given(v) ==
    v # None => /\ v.rv \in Nat
                /\ v.rv <= revision
                /\ (secret # None /\ secret.rv = v.rv) => secret = v

\* The inductive invariant behind the conditional writes: resourceVersions identify
\* versions, and a call is only under way for what was observed.
VersionsOK ==
    /\ revision \in Nat
    /\ Given(secret) /\ Given(cache) /\ Given(observed)
    /\ \E T : watch \in Seq(T)
    /\ \A i \in 1..Len(watch) : Given(watch[i])
    /\ pc = "create" => observed = None
    /\ pc \in {"update", "delete"} => observed # None /\ observed.managed

-----------------------------------------------------------------------------
\* A new version keeps everything that was given out behind the server.
LEMMA PutGiven ==
    ASSUME VersionsOK, NEW object, Put(object),
           NEW v, Given(v)
    PROVE  v # None => /\ v.rv \in Nat
                       /\ v.rv <= revision'
                       /\ secret' # None /\ secret'.rv = v.rv => secret' = v
BY DEF VersionsOK, Given, Put

\* The version that is put itself is given out.
LEMMA PutNew ==
    ASSUME VersionsOK, NEW object, Put(object)
    PROVE  /\ revision' \in Nat
           /\ secret'.rv = revision'
           /\ \E T : watch' \in Seq(T)
           /\ Len(watch') = Len(watch) + 1
           /\ \A i \in 1..Len(watch) : watch'[i] = watch[i]
           /\ watch'[Len(watch) + 1] = secret'
<1>1. revision' \in Nat /\ secret'.rv = revision'
  BY DEF VersionsOK, Put
<1>2. PICK T : watch \in Seq(T)
  BY DEF VersionsOK
<1>3. watch' = Append(watch, secret') /\ watch \in Seq(T \cup {secret'})
  BY <1>2 DEF Put
<1>4. watch' \in Seq(T \cup {secret'})
  BY <1>3
<1> QED
  BY <1>1, <1>3, <1>4

\* A deletion, and what it leaves in the watch.
LEMMA RemoveGone ==
    ASSUME VersionsOK, Remove
    PROVE  /\ secret' = None /\ revision' = revision
           /\ \E T : watch' \in Seq(T)
           /\ \A i \in 1..Len(watch') : watch'[i] = None \/ Given(watch'[i])
<1>1. PICK T : watch \in Seq(T)
  BY DEF VersionsOK
<1>2. watch' = Append(watch, None) /\ watch \in Seq(T \cup {None})
  BY <1>1 DEF Remove
<1>3. watch' \in Seq(T \cup {None})
  BY <1>2
<1>4. \A i \in 1..Len(watch') : watch'[i] = None \/ Given(watch'[i])
  BY <1>2 DEF VersionsOK
<1> QED
  BY <1>3, <1>4 DEF Remove

\* The parts of VersionsOK that are about the server's side.
ServerOK ==
    /\ revision \in Nat
    /\ Given(secret) /\ Given(cache)
    /\ \E T : watch \in Seq(T)
    /\ \A i \in 1..Len(watch) : Given(watch[i])

\* A write by anybody keeps the server's side and what was observed.
LEMMA WriteStep ==
    ASSUME VersionsOK, UNCHANGED cache,
           (\E object : Put(object)) \/ Remove
    PROVE  ServerOK' /\ (UNCHANGED observed => Given(observed)')
<1>1. CASE \E object : Put(object)
  <2>1. PICK object : Put(object)
    BY <1>1
  <2>2. Given(cache)' /\ (UNCHANGED observed => Given(observed)')
    BY <2>1, PutGiven DEF VersionsOK, Given
  <2>3. revision' \in Nat /\ Given(secret)' /\ \E T : watch' \in Seq(T)
    BY <2>1, PutNew DEF Given
  <2>4. \A i \in 1..Len(watch') : Given(watch[i])'
    <3> SUFFICES ASSUME NEW i \in 1..Len(watch')
                 PROVE  Given(watch[i])'
      OBVIOUS
    <3>1. CASE i = Len(watch) + 1
      BY <2>1, <2>3, <3>1, PutNew DEF Given
    <3>2. CASE i # Len(watch) + 1
      <4>1. i \in 1..Len(watch) /\ watch'[i] = watch[i]
        <5>1. Len(watch) \in Nat
          BY DEF VersionsOK
        <5> QED
          BY <2>1, <3>2, <5>1, PutNew
      <4>2. Given(watch[i])
        BY <4>1 DEF VersionsOK
      <4> QED
        BY <2>1, <4>1, <4>2, PutGiven DEF Given
    <3> QED
      BY <3>1, <3>2
  <2> QED
    BY <2>2, <2>3, <2>4 DEF ServerOK
<1>2. CASE Remove
  BY <1>2, RemoveGone DEF VersionsOK, ServerOK, Given
<1> QED
  BY <1>1, <1>2

\* The part of VersionsOK that is about the call under way.
CallOK ==
    /\ Given(observed)
    /\ pc = "create" => observed = None
    /\ pc \in {"update", "delete"} => observed # None /\ observed.managed

\* A step that leaves the server and the cache alone keeps what was given out.
LEMMA NoWriteStep ==
    ASSUME VersionsOK, UNCHANGED <<serverVars, cache>>
    PROVE  /\ ServerOK'
           /\ (observed' = None \/ Given(observed')) => Given(observed)'
BY DEF VersionsOK, ServerOK, Given, serverVars

\* Together the two parts make VersionsOK.
LEMMA Parts == ServerOK' /\ CallOK' => VersionsOK'
BY DEF ServerOK, CallOK, VersionsOK

LEMMA VersionsInit == Init => VersionsOK
<1> SUFFICES ASSUME Init PROVE VersionsOK
  OBVIOUS
<1>1. watch \in Seq({}) /\ Len(watch) = 0
  BY DEF Init
<1> QED
  BY <1>1 DEF Init, VersionsOK, Given

\* Every step keeps the versions apart.
LEMMA VersionsStep == VersionsOK /\ [Next]_vars => VersionsOK'
<1> SUFFICES ASSUME VersionsOK, [Next]_vars PROVE VersionsOK'
  OBVIOUS
\* Steps of others that touch neither the server nor the call.
<1>1. CASE UNCHANGED <<serverVars, cache, observed, pc>>
  BY <1>1, NoWriteStep, Parts DEF VersionsOK, CallOK
<1>2. CASE \/ NamespaceChanges \/ SchedulerStep
           \/ \E c \in Configurations : EditConfigMap(c)
           \/ LoadConfiguration \/ Publish \/ UNCHANGED vars
  <2>1. UNCHANGED <<serverVars, cache, observed, pc>>
    BY <1>2 DEF NamespaceChanges, SchedulerStep, Acquire, RemoveCredential,
                EditConfigMap, LoadConfiguration, Publish, vars, localVars, serverVars
  <2> QED
    BY <2>1, <1>1
\* The watch: the head of the versions under way becomes the cache.
<1>3. CASE WatchDelivers
  <2>1. PICK T : watch \in Seq(T)
    BY DEF VersionsOK
  <2>2. /\ watch # <<>> /\ cache' = watch[1] /\ watch' = Tail(watch)
        /\ UNCHANGED <<secret, revision, observed, pc>>
    BY <1>3 DEF WatchDelivers, localVars
  <2>3. /\ watch' \in Seq(T) /\ Len(watch) \in Nat /\ Len(watch) # 0
        /\ Len(watch') = Len(watch) - 1
        /\ \A i \in 1..Len(watch') : watch'[i] = watch[i + 1]
    BY <2>1, <2>2
  <2>4. \A i \in 1..Len(watch) : Given(watch[i])
    BY DEF VersionsOK
  <2>5. Given(cache)'
    <3>1. 1 \in 1..Len(watch)
      BY <2>3
    <3>2. Given(watch[1])
      BY <2>4, <3>1
    <3> QED
      BY <2>2, <3>2 DEF Given
  <2>6. \A i \in 1..Len(watch') : Given(watch[i])'
    <3> SUFFICES ASSUME NEW i \in 1..Len(watch') PROVE Given(watch[i])'
      OBVIOUS
    <3>1. i + 1 \in 1..Len(watch) /\ watch'[i] = watch[i + 1]
      BY <2>3
    <3>2. Given(watch[i + 1])
      BY <2>4, <3>1
    <3> QED
      BY <2>2, <3>1, <3>2 DEF Given
  <2>7. revision' \in Nat /\ Given(secret)' /\ Given(observed)'
    BY <2>2 DEF VersionsOK, Given
  <2>8. CallOK'
    BY <2>2, <2>7 DEF VersionsOK, CallOK
  <2> QED
    BY <2>3, <2>5, <2>6, <2>7, <2>8, Parts DEF ServerOK
\* Users write.
<1>4. CASE (\E kind \in Damages : UserEdits(kind)) \/ UserDeletes \/ UserCreates
  <2>1. UNCHANGED <<cache, observed, pc>>
    BY <1>4 DEF UserEdits, UserDeletes, UserCreates, localVars
  <2>2. (\E object : Put(object)) \/ Remove
    BY <1>4 DEF UserEdits, UserDeletes, UserCreates
  <2>3. ServerOK' /\ Given(observed)'
    BY <2>1, <2>2, WriteStep
  <2> QED
    BY <2>1, <2>3, Parts DEF VersionsOK, CallOK
\* The controller reads and decides.
<1>5. CASE Begin \/ GetNamespace \/ CallFails \/ OwnershipConflict
  <2>1. /\ UNCHANGED <<serverVars, cache>>
        /\ pc' \in {"idle", "namespace", "secret"}
        /\ observed' \in {None, observed}
    BY <1>5 DEF Begin, GetNamespace, CallFails, OwnershipConflict, Finish
  <2> QED
    BY <2>1, NoWriteStep, Parts DEF VersionsOK, CallOK
<1>6. CASE GetSecret
  <2>1. UNCHANGED <<serverVars, cache>> /\ pc' = "decide" /\ observed' = cache
    BY <1>6 DEF GetSecret
  <2> QED
    BY <2>1, NoWriteStep, Parts DEF VersionsOK, CallOK
<1>7. CASE Untargeted
  <2>1. /\ UNCHANGED <<serverVars, cache>>
        /\ \/ pc' = "idle" /\ observed' = None
           \/ pc' = "delete" /\ observed' = observed /\ observed # None /\ observed.managed
    BY <1>7 DEF Untargeted, Finish
  <2> QED
    BY <2>1, NoWriteStep, Parts DEF VersionsOK, CallOK
<1>8. CASE BuildContent
  <2>1. /\ UNCHANGED <<serverVars, cache>>
        /\ \/ pc' = "idle" /\ observed' = None
           \/ pc' = "create" /\ observed' = observed /\ observed = None
           \/ pc' \in {"update", "delete"} /\ observed' = observed
              /\ observed # None /\ observed.managed
    BY <1>8 DEF BuildContent, Finish
  <2> QED
    BY <2>1, NoWriteStep, Parts DEF VersionsOK, CallOK
\* The controller writes.
<1>9. CASE \E lost \in BOOLEAN : Create(lost) \/ Update(lost) \/ Delete(lost)
  <2>1. PICK lost \in BOOLEAN : Create(lost) \/ Update(lost) \/ Delete(lost)
    BY <1>9
  <2>2. UNCHANGED cache /\ pc' = "idle" /\ observed' = None
    BY <2>1 DEF Create, Update, Delete, Finish
  <2>3. \/ UNCHANGED serverVars
        \/ \E object : Put(object)
        \/ Remove
    BY <2>1 DEF Create, Update, Delete
  <2>4. ServerOK'
    BY <2>2, <2>3, WriteStep, NoWriteStep
  <2>5. CallOK'
    BY <2>2 DEF CallOK, Given
  <2> QED
    BY <2>4, <2>5, Parts
<1>10. CASE Restart
  <2>1. /\ cache' = secret /\ watch' = <<>> /\ pc' = "idle" /\ observed' = None
        /\ UNCHANGED <<secret, revision>>
    BY <1>10 DEF Restart
  <2>2. watch' \in Seq({}) /\ Len(watch') = 0
    BY <2>1
  <2> QED
    BY <2>1, <2>2 DEF VersionsOK, Given
<1> QED
  BY <1>2, <1>3, <1>4, <1>5, <1>6, <1>7, <1>8, <1>9, <1>10
     DEF Next, SyncStep, UserStep

\* Under the invariant a step of the controller writes only over what it observed,
\* and what it observed then is its own.
LEMMA WritesObserved ==
    ASSUME VersionsOK, [Next]_vars, pc # pc'
    PROVE  /\ secret' # secret => secret = observed
           /\ secret # None /\ ~secret.managed => secret' = secret
<1>1. CASE UNCHANGED secret
  BY <1>1
<1>2. CASE \E lost \in BOOLEAN : Create(lost)
  <2>1. pc = "create" /\ (secret = None \/ secret' = secret)
    BY <1>2 DEF Create, serverVars
  <2> QED
    BY <2>1 DEF VersionsOK
<1>3. CASE \E lost \in BOOLEAN : Update(lost)
  <2>1. /\ pc = "update"
        /\ (secret # None /\ secret.rv = observed.rv) \/ secret' = secret
    BY <1>3 DEF Update, serverVars
  <2> QED
    BY <2>1 DEF VersionsOK, Given
<1>4. CASE \E lost \in BOOLEAN : Delete(lost)
  <2>1. /\ pc = "delete"
        /\ (secret # None /\ secret.rv = observed.rv) \/ secret' = secret
    BY <1>4 DEF Delete, serverVars
  <2> QED
    BY <2>1 DEF VersionsOK, Given
<1>5. CASE \/ Begin \/ GetNamespace \/ GetSecret \/ CallFails
           \/ Untargeted \/ OwnershipConflict \/ BuildContent \/ Restart
  <2>1. UNCHANGED secret
    BY <1>5 DEF Begin, GetNamespace, GetSecret, CallFails, Untargeted,
                OwnershipConflict, BuildContent, Restart, serverVars
  <2> QED
    BY <2>1
\* All other steps leave pc alone.
<1>6. CASE \/ WatchDelivers \/ UserStep \/ SchedulerStep
           \/ \E c \in Configurations : EditConfigMap(c)
           \/ LoadConfiguration \/ Publish \/ UNCHANGED vars
  <2>1. UNCHANGED pc
    BY <1>6 DEF WatchDelivers, UserStep, UserEdits, UserDeletes, UserCreates,
                NamespaceChanges, SchedulerStep, Acquire, RemoveCredential,
                EditConfigMap, LoadConfiguration, Publish, vars, localVars
  <2> QED
    BY <2>1
<1> QED
  BY <1>2, <1>3, <1>4, <1>5, <1>6 DEF Next, SyncStep

-----------------------------------------------------------------------------
\* resourceVersions identify versions, in every reachable state: whatever the cache
\* lags behind or a call was decided on was once the Secret, and still is if the
\* resourceVersion is the present one.
THEOREM VersionsCorrect == Spec => []VersionsOK
BY VersionsInit, VersionsStep, PTL DEF Spec

\* SyncNamespaceSecret with its conditional Update and Delete never overwrites or
\* deletes a version other than the one its decision was based on.
THEOREM NoBlindWriteCorrect == Spec => NoBlindWrite
<1>1. VersionsOK /\ [Next]_vars =>
          [ControllerStep /\ secret' # secret => secret = observed]_vars
  BY WritesObserved DEF ControllerStep
<1> QED
  BY <1>1, VersionsCorrect, PTL DEF Spec, NoBlindWrite

\* A Secret that does not carry the controller's labels is never changed or deleted
\* by it, whatever happened between the read and the write.
THEOREM ForeignUntouchedCorrect == Spec => ForeignUntouched
<1>1. VersionsOK /\ [Next]_vars =>
          [ControllerStep /\ secret # None /\ ~secret.managed => secret' = secret]_vars
  BY WritesObserved DEF ControllerStep
<1> QED
  BY <1>1, VersionsCorrect, PTL DEF Spec, ForeignUntouched

-----------------------------------------------------------------------------
(* The controller comes to rest only when the Secret is right.  Whatever    *)
(* makes the Secret wrong leaves a trace: a request, a publication, a       *)
(* version the watch still has to deliver, or a snapshot still to load.     *)

\* The last version under way, or else the cached one, is the Secret.
CacheOK ==
    /\ \E T : watch \in Seq(T)
    /\ IF watch = <<>> THEN cache = secret ELSE watch[Len(watch)] = secret

\* Something will have the Namespace reconciled again.
Unsettled == requested \/ fanout \/ watch # <<>> \/ ~namespace \/ snapshot = None

\* A reconciliation under way works on the present configuration and Secret, and
\* none is needed otherwise.
RestOK ==
    \/ Unsettled
    \/ pc = "idle" /\ Converged
    \/ pc \in {"namespace", "secret"} /\ snap = snapshot
    \/ pc \in {"decide"} \cup ApiCalls /\ snap = snapshot /\ observed = secret

LEMMA CacheInit == Init => CacheOK
BY DEF Init, CacheOK

LEMMA PutCache ==
    ASSUME CacheOK, (\E object : Put(object)) \/ Remove
    PROVE  CacheOK' /\ watch' # <<>>
<1>1. PICK T : watch \in Seq(T)
  BY DEF CacheOK
<1>2. watch' = Append(watch, secret') /\ watch \in Seq(T \cup {secret'})
  BY <1>1 DEF Put, Remove
<1>3. /\ watch' \in Seq(T \cup {secret'}) /\ Len(watch') = Len(watch) + 1
      /\ watch'[Len(watch')] = secret' /\ watch' # <<>>
  BY <1>2
<1> QED
  BY <1>3 DEF CacheOK

\* Who writes the Secret or moves the cache.
LEMMA ServerCases ==
    ASSUME [Next]_vars
    PROVE  \/ UNCHANGED <<serverVars, cache>>
           \/ UNCHANGED cache /\ ((\E object : Put(object)) \/ Remove)
           \/ WatchDelivers
           \/ Restart
<1>1. CASE SyncStep \/ Create(TRUE) \/ Update(TRUE) \/ Delete(TRUE) \/ CallFails
  BY <1>1 DEF SyncStep, Begin, GetNamespace, GetSecret, CallFails, Untargeted,
     OwnershipConflict, BuildContent, Create, Update, Delete
<1>2. CASE UserStep
  BY <1>2 DEF UserStep, UserEdits, UserDeletes, UserCreates, NamespaceChanges
<1>3. CASE SchedulerStep \/ (\E c \in Configurations : EditConfigMap(c))
           \/ LoadConfiguration \/ Publish \/ UNCHANGED vars
  BY <1>3 DEF SchedulerStep, Acquire, RemoveCredential, EditConfigMap, LoadConfiguration,
     Publish, vars
<1> QED
  BY <1>1, <1>2, <1>3 DEF Next

LEMMA CacheStep ==
    ASSUME CacheOK, [Next]_vars
    PROVE  CacheOK'
<1>1. CASE UNCHANGED <<serverVars, cache>>
  BY <1>1 DEF CacheOK, serverVars
<1>2. CASE UNCHANGED cache /\ ((\E object : Put(object)) \/ Remove)
  BY <1>2, PutCache
<1>3. CASE WatchDelivers
  <2>1. PICK T : watch \in Seq(T)
    BY DEF CacheOK
  <2>2. watch # <<>> /\ cache' = watch[1] /\ watch' = Tail(watch) /\ secret' = secret
    BY <1>3 DEF WatchDelivers
  <2>3. watch' \in Seq(T) /\ Len(watch) \in Nat \ {0} /\ Len(watch') = Len(watch) - 1
        /\ \A i \in 1..Len(watch') : watch'[i] = watch[i + 1]
    BY <2>1, <2>2
  <2>4. CASE Len(watch) = 1
    <3>1. watch' = <<>>
      BY <2>3, <2>4
    <3> QED
      BY <2>2, <2>3, <2>4, <3>1 DEF CacheOK
  <2>5. CASE Len(watch) # 1
    <3>1. watch' # <<>> /\ Len(watch') \in 1..Len(watch')
      BY <2>3, <2>5
    <3>2. watch'[Len(watch')] = watch[Len(watch)]
      BY <2>3, <3>1
    <3> QED
      BY <2>2, <2>3, <3>1, <3>2 DEF CacheOK
  <2> QED
    BY <2>4, <2>5
<1>4. CASE Restart
  BY <1>4 DEF Restart, CacheOK
<1> QED
  BY <1>1, <1>2, <1>3, <1>4, ServerCases

\* Dropping a credential that does not match the configuration changes no content.
LEMMA BuildIgnoresStale ==
    ASSUME NEW registries, NEW creds, NEW existing,
           NEW k, k \notin FreshKeys(registries, creds)
    PROVE  Build(registries, Restrict(creds, DOMAIN creds \ {k}), existing)
             = Build(registries, creds, existing)
<1> DEFINE rest == Restrict(creds, DOMAIN creds \ {k})
<1>1. DOMAIN rest = DOMAIN creds \ {k} /\ \A x \in DOMAIN rest : rest[x] = creds[x]
  BY DEF Restrict
<1>2. FreshKeys(registries, rest) = FreshKeys(registries, creds)
  BY <1>1 DEF FreshKeys
<1>3. \A x \in FreshKeys(registries, creds) : rest[x] = creds[x]
  BY <1>1, <1>2 DEF FreshKeys
<1> DEFINE fresh == FreshKeys(registries, creds)
           pending == DOMAIN registries \ fresh
           old == Known(pending, existing)
           served == [x \in DOMAIN registries |->
                         IF x \in fresh THEN registries[x].domains
                         ELSE RetainedDomains(x, registries[x], old)]
           owner(d) == CHOOSE x \in DOMAIN registries : d \in registries[x].domains
           docker(c) == [d \in UNION Range(served) |->
                            IF owner(d) \in fresh THEN c[owner(d)].credential.token
                            ELSE old.auths[d]]
           state(c) == [x \in {x \in DOMAIN registries : served[x] # {}} |->
                           IF x \in fresh
                           THEN RegistryState(x, registries[x], c[x].credential)
                           ELSE old.states[x]]
           problem == \/ old.problem
                      \/ \E x \in pending : RetentionProblem(x, registries[x], old)
<1> HIDE DEF rest
<1>4. ASSUME NEW c, FreshKeys(registries, c) = fresh
      PROVE  Build(registries, c, existing)
               = [docker |-> docker(c), state |-> state(c), problem |-> problem]
  BY <1>4 DEF Build
<1>5. docker(rest) = docker(creds)
  <2> HIDE DEF fresh, owner, old, served
  <2> QED
    BY <1>3 DEF fresh
<1>6. state(rest) = state(creds)
  <2> HIDE DEF fresh, owner, old, served
  <2> QED
    BY <1>3 DEF fresh
<1>7. Build(registries, rest, existing) = Build(registries, creds, existing)
  <2> HIDE DEF docker, state, problem
  <2> QED
    BY <1>2, <1>4, <1>5, <1>6
<1> QED
  BY <1>7 DEF rest

\* Once something is to be done, only the start of a reconciliation ends that.
LEMMA UnsettledStep ==
    ASSUME [Next]_vars, Unsettled, ~Begin, configMap # None
    PROVE  Unsettled'
<1> USE DEF configVars, serverVars, localVars
<1>1. CASE SyncStep \/ Create(TRUE) \/ Update(TRUE) \/ Delete(TRUE) \/ CallFails
  <2>1. UNCHANGED <<fanout, namespace, snapshot>>
    BY <1>1 DEF SyncStep, GetNamespace, GetSecret, CallFails, Untargeted,
       OwnershipConflict, BuildContent, Create, Update, Delete
  <2>3. requested => requested'
    <3>1. UNCHANGED requested \/ \E again : Finish(again)
      BY <1>1 DEF SyncStep, GetNamespace, GetSecret, CallFails, Untargeted,
         OwnershipConflict, BuildContent, Create, Update, Delete
    <3> QED
      BY <3>1 DEF Finish
  <2>2. watch # <<>> => watch' # <<>>
    <3>1. UNCHANGED watch \/ (\E object : Put(object)) \/ Remove
      BY <1>1 DEF SyncStep, GetNamespace, GetSecret, CallFails, Untargeted,
         OwnershipConflict, BuildContent, Create, Update, Delete
    <3> QED
      BY <3>1 DEF Put, Remove
  <2> QED
    BY <2>1, <2>2, <2>3 DEF Unsettled
<1>2. CASE WatchDelivers \/ NamespaceChanges \/ Publish \/ LoadConfiguration \/ Restart
  BY <1>2 DEF Unsettled, WatchDelivers, NamespaceChanges, Publish, LoadConfiguration, Restart
<1>3. CASE UNCHANGED <<requested, fanout, namespace, snapshot>> /\ (watch # <<>> => watch' # <<>>)
  BY <1>3 DEF Unsettled
<1>4. CASE SchedulerStep
  <2>1. CASE \E k \in DOMAIN snapshot.registries : Acquire(k)
    BY <2>1 DEF Unsettled, Acquire
  <2>2. CASE \E k \in DOMAIN credentials : RemoveCredential(k)
    BY <2>2 DEF Unsettled, RemoveCredential
  <2> QED
    BY <1>4, <2>1, <2>2 DEF SchedulerStep
<1>6. CASE (\E c \in Configurations : EditConfigMap(c)) \/ UNCHANGED vars
  BY <1>6 DEF Unsettled, EditConfigMap, vars
<1>5. CASE (\E kind \in Damages : UserEdits(kind)) \/ UserDeletes \/ UserCreates
  <2>1. watch # <<>> => watch' # <<>>
    BY <1>5 DEF UserEdits, UserDeletes, UserCreates, Put, Remove
  <2>2. UNCHANGED <<requested, fanout, namespace, snapshot>>
    BY <1>5 DEF UserEdits, UserDeletes, UserCreates
  <2> QED
    BY <1>3, <2>1, <2>2
<1> QED
  BY <1>1, <1>2, <1>4, <1>5, <1>6 DEF Next, UserStep

\* A finished reconciliation leaves the Secret right, or leaves something to do.
LEMMA DecideRests ==
    ASSUME CacheOK, RestOK, ~Unsettled, Untargeted \/ OwnershipConflict \/ BuildContent
    PROVE  RestOK'
<1>1. /\ pc = "decide" /\ snap = snapshot /\ observed = secret
      /\ UNCHANGED <<secret, snapshot, credentials, fanout, namespace, watch>>
  BY DEF RestOK, Untargeted, OwnershipConflict, BuildContent, ApiCalls, configVars,
     serverVars
<1>2. CASE Untargeted
  <2>1. CASE pc' = "delete" /\ UNCHANGED <<snap, observed>>
    BY <1>1, <2>1 DEF RestOK, ApiCalls
  <2>2. CASE pc' = "idle" /\ (observed = None \/ ~observed.managed)
    BY <1>1, <1>2, <2>2 DEF RestOK, Converged, Untargeted
  <2> QED
    BY <1>2, <2>1, <2>2 DEF Untargeted, Finish
<1>3. CASE OwnershipConflict
  BY <1>1, <1>3 DEF RestOK, Converged, OwnershipConflict, Finish
<1>4. CASE BuildContent
  <2> DEFINE built == Build(snap.registries, credentials, observed)
  <2>1. CASE pc' \in ApiCalls /\ UNCHANGED <<snap, observed>>
    BY <1>1, <2>1 DEF RestOK
  <2>2. CASE /\ Finish(built.problem)
             /\ IF HasAuth(built) THEN observed # None /\ SecretMatches(observed, built)
                ELSE built.problem \/ observed = None
    <3>1. CASE built.problem
      BY <2>2, <3>1 DEF RestOK, Unsettled, Finish
    <3>2. CASE ~built.problem
      <4>1. snap.target /\ (observed # None => observed.managed)
        BY <1>4 DEF BuildContent
      <4>2. built = Build(snapshot.registries, credentials, secret)
        BY <1>1
      <4>3. pc' = "idle"
        BY <2>2 DEF Finish
      <4> HIDE DEF built
      <4>4. Converged
        BY <1>1, <2>2, <3>2, <4>1, <4>2 DEF Converged, SecretMatches
      <4>5. snapshot.target /\ (secret # None => secret.managed)
        BY <1>1, <4>1
      <4>6. Converged'
        BY <1>1, <4>4, <4>5 DEF Converged
      <4> QED
        BY <4>3, <4>6 DEF RestOK
    <3> QED
      BY <3>1, <3>2
  <2> QED
    <3> HIDE DEF built
    <3>1. \/ pc' \in ApiCalls /\ UNCHANGED <<snap, observed>>
          \/ /\ Finish(built.problem)
             /\ IF HasAuth(built) THEN observed # None /\ SecretMatches(observed, built)
                ELSE built.problem \/ observed = None
      BY <1>4 DEF BuildContent, ApiCalls, built
    <3> QED
      BY <2>1, <2>2, <3>1
<1> QED
  BY <1>2, <1>3, <1>4

LEMMA RestStep ==
    ASSUME VersionsOK, CacheOK, RestOK, configMap # None, [Next]_vars
    PROVE  RestOK'
<1> USE DEF configVars, serverVars, localVars
<1>1. CASE Begin
  BY <1>1 DEF Begin, RestOK, Unsettled
<1>2. CASE Unsettled /\ ~Begin
  BY <1>2, UnsettledStep DEF RestOK
<1>3. CASE ~Unsettled /\ ~Begin
  <2>1. CASE GetNamespace
    BY <1>3, <2>1 DEF GetNamespace, RestOK, Unsettled, ApiCalls
  <2>2. CASE GetSecret
    <3>1. cache = secret
      BY <1>3 DEF CacheOK, Unsettled
    <3> QED
      BY <1>3, <2>2, <3>1 DEF GetSecret, RestOK, ApiCalls
  <2>3. CASE Untargeted \/ OwnershipConflict \/ BuildContent
    BY <1>3, <2>3, DecideRests
  <2>4. ASSUME NEW lost \in BOOLEAN, Create(lost) \/ Update(lost) \/ Delete(lost)
        PROVE  RestOK'
    <3>1. pc \in ApiCalls /\ observed = secret
      BY <1>3, <2>4 DEF RestOK, Create, Update, Delete, ApiCalls
    <3>2. CASE (\E object : Put(object)) \/ Remove
      BY <3>2, PutCache DEF RestOK, Unsettled
    <3>3. CASE Finish(TRUE)
      BY <3>3 DEF Finish, RestOK, Unsettled
    <3> QED
      BY <2>4, <3>1, <3>2, <3>3 DEF VersionsOK, Create, Update, Delete
  <2>5. CASE CallFails
    BY <2>5 DEF CallFails, Finish, RestOK, Unsettled
  <2>6. CASE WatchDelivers \/ NamespaceChanges \/ LoadConfiguration \/ Restart
    BY <2>6 DEF WatchDelivers, NamespaceChanges, LoadConfiguration, Restart, RestOK,
       Unsettled
  <2>7. CASE (\E kind \in Damages : UserEdits(kind)) \/ UserDeletes \/ UserCreates
    <3>1. (\E object : Put(object)) \/ Remove
      BY <2>7 DEF UserEdits, UserDeletes, UserCreates
    <3> QED
      BY <3>1, PutCache DEF RestOK, Unsettled
  <2>8. CASE SchedulerStep
    <3>1. CASE \E k \in DOMAIN snapshot.registries : Acquire(k)
      BY <3>1 DEF Acquire, RestOK, Unsettled
    <3>2. ASSUME NEW k \in DOMAIN credentials, RemoveCredential(k) PROVE RestOK'
      <4>1. /\ UNCHANGED <<secret, snapshot, conflicts, pc, snap, observed>>
            /\ credentials' = Restrict(credentials, DOMAIN credentials \ {k})
            /\ k \notin FreshKeys(snapshot.registries, credentials)
        BY <3>2 DEF RemoveCredential
      <4>2. Build(snapshot.registries, credentials', secret)
              = Build(snapshot.registries, credentials, secret)
        BY <4>1, BuildIgnoresStale
      <4>3. Converged => Converged'
        BY <4>1, <4>2 DEF Converged
      <4> QED
        BY <1>3, <4>1, <4>3 DEF RestOK
    <3> QED
      BY <2>8, <3>1, <3>2 DEF SchedulerStep
  <2>9. CASE (\E c \in Configurations : EditConfigMap(c)) \/ UNCHANGED vars
    <3>1. UNCHANGED <<secret, snapshot, conflicts, credentials, pc, snap, observed>>
      BY <2>9 DEF EditConfigMap, vars
    <3>2. Converged => Converged'
      BY <3>1 DEF Converged
    <3> QED
      BY <1>3, <3>1, <3>2 DEF RestOK
  <2> QED
    BY <1>3, <2>1, <2>2, <2>3, <2>4, <2>5, <2>6, <2>7, <2>8, <2>9
       DEF Next, SyncStep, UserStep, Publish, Unsettled
<1> QED
  BY <1>1, <1>2, <1>3

\* The controller only comes to rest when the Secret is what configuration and
\* credentials call for: no edit, lost answer, failed call, stale read, restart or
\* credential is forgotten, for any configurations and any number of them.
THEOREM QuietIsConvergedCorrect == Spec => []QuietIsConverged
<1> DEFINE ConfigOK == configMap \in Configurations
<1>1. Init => CacheOK /\ RestOK /\ ConfigOK
  BY CacheInit DEF Init, RestOK, Unsettled
<1>2. ConfigOK => configMap # None
  BY ConfigurationsAssumption
<1>3. ConfigOK /\ [Next]_vars => ConfigOK'
  BY DEF Next, SyncStep, Begin, GetNamespace, GetSecret, CallFails, Untargeted,
     OwnershipConflict, BuildContent, Create, Update, Delete, WatchDelivers, UserStep,
     UserEdits, UserDeletes, UserCreates, NamespaceChanges, SchedulerStep, Acquire,
     RemoveCredential, EditConfigMap, LoadConfiguration, Publish, Restart, vars, configVars
<1>4. VersionsOK /\ CacheOK /\ RestOK /\ ConfigOK /\ [Next]_vars => CacheOK' /\ RestOK'
  BY <1>2, CacheStep, RestStep
<1>5. RestOK /\ ConfigOK => QuietIsConverged
  BY <1>2 DEF RestOK, Unsettled, QuietIsConverged, Quiet, ApiCalls
<1> HIDE DEF ConfigOK
<1> QED
  BY <1>1, <1>3, <1>4, <1>5, VersionsCorrect, PTL DEF Spec

-----------------------------------------------------------------------------
(* Pull access is kept: what Build makes of a Secret serves whatever the    *)
(* Secret served before.                                                    *)

\* The markers of a damaged Secret are not themselves maps, records or tuples.
MarkersApart ==
    \A f : f = [x \in DOMAIN f |-> f[x]]
              => f \notin {None, Absent, Unreadable, Malformed, Unusable}

\* A token the scheduler stores is one the provider returned, with its times.
TokenOK(credential) ==
    /\ \E a, b, c : credential.token = <<a, b, c>>
    /\ credential.refreshedAt \in Nat \ {0}
    /\ credential.expiresAt = credential.refreshedAt + 1

CredentialsOK ==
    /\ issued \in Nat
    /\ \A k \in DOMAIN credentials : TokenOK(credentials[k].credential)

\* What a content does for Domain d of registry k.
ContentServes(c, k, d) ==
    /\ Usable(c.docker, d) /\ Usable(c.state, k)
    /\ CompleteState(c.state[k])

\* One registry at a time: each fresh one serves all its Domains, each pending one
\* those that the Secret served.
LEMMA BuildServes ==
    ASSUME MarkersApart,
           NEW registries, NEW creds, NEW existing,
           \A j, k \in DOMAIN registries :
               j # k => registries[j].domains \cap registries[k].domains = {},
           \A k \in DOMAIN creds : TokenOK(creds[k].credential),
           NEW k \in DOMAIN registries, NEW d \in registries[k].domains,
           Serves(existing, k, d)
    PROVE  LET built == Build(registries, creds, existing) IN
           d \in DOMAIN built.docker /\ ContentServes(built, k, d)
<1> DEFINE fresh == FreshKeys(registries, creds)
           pending == DOMAIN registries \ fresh
           old == Known(pending, existing)
           served == [x \in DOMAIN registries |->
                         IF x \in fresh THEN registries[x].domains
                         ELSE RetainedDomains(x, registries[x], old)]
           owner(e) == CHOOSE x \in DOMAIN registries : e \in registries[x].domains
           docker == [e \in UNION Range(served) |->
                            IF owner(e) \in fresh THEN creds[owner(e)].credential.token
                            ELSE old.auths[e]]
           state == [x \in {x \in DOMAIN registries : served[x] # {}} |->
                           IF x \in fresh
                           THEN RegistryState(x, registries[x], creds[x].credential)
                           ELSE old.states[x]]
           problem == \/ old.problem
                      \/ \E x \in pending : RetentionProblem(x, registries[x], old)
           built == Build(registries, creds, existing)
<1>1. built = [docker |-> docker, state |-> state, problem |-> problem]
  BY DEF Build
<1>2. built.docker = docker /\ built.state = state
  <2> HIDE DEF docker, state, problem, built
  <2> QED
    BY <1>1
<1>3. owner(d) = k
  <2>1. \E x \in DOMAIN registries : d \in registries[x].domains
    OBVIOUS
  <2>2. owner(d) \in DOMAIN registries /\ d \in registries[owner(d)].domains
    BY <2>1
  <2> HIDE DEF owner
  <2> QED
    BY <2>2
<1>4. docker \notin {Absent, Unreadable} /\ state \notin {Absent, Unreadable}
  <2>1. docker = [x \in DOMAIN docker |-> docker[x]] /\ state = [x \in DOMAIN state |-> state[x]]
    <3> HIDE DEF fresh, old, served, owner
    <3> QED
      OBVIOUS
  <2> HIDE DEF docker, state
  <2> QED
    BY <2>1 DEF MarkersApart
<1>5. k \in fresh =>
        d \in DOMAIN docker /\ Usable(docker, d) /\ Usable(state, k) /\ CompleteState(state[k])
  <2>0. HAVE k \in fresh
  <2>1. TokenOK(creds[k].credential)
    BY <2>0 DEF FreshKeys
  <2>2. d \in served[k] /\ d \in UNION Range(served)
    BY <2>0 DEF Range
  <2>3. docker[d] = creds[k].credential.token
    <3> HIDE DEF served, owner, fresh
    <3> QED
      BY <1>3, <2>0, <2>2
  <2>4. docker[d] \notin {Malformed, Unusable}
    <3>1. PICK a, b, c : creds[k].credential.token = <<a, b, c>>
      BY <2>1 DEF TokenOK
    <3>2. <<a, b, c>> = [x \in DOMAIN <<a, b, c>> |-> <<a, b, c>>[x]]
      OBVIOUS
    <3> QED
      BY <2>3, <3>1, <3>2 DEF MarkersApart
  <2> DEFINE s == RegistryState(k, registries[k], creds[k].credential)
  <2>5. k \in DOMAIN state /\ state[k] = s
    <3> HIDE DEF served, fresh, s
    <3> QED
      BY <2>0, <2>2 DEF s
  <2>6. /\ s.refreshedAt = creds[k].credential.refreshedAt
        /\ s.expiresAt = creds[k].credential.expiresAt
        /\ s.stateHash = <<k, registries[k], creds[k].credential>>
        /\ s = [x \in DOMAIN s |-> s[x]]
    BY DEF RegistryState, StateHash
  <2>7. <<k, registries[k], creds[k].credential>> # <<>>
    OBVIOUS
  <2>8. s \notin {Malformed, Unusable}
    <3> HIDE DEF s
    <3> QED
      BY <2>6 DEF MarkersApart
  <2>9. CompleteState(s)
    <3> HIDE DEF s
    <3> QED
      BY <2>1, <2>6, <2>7 DEF CompleteState, TokenOK, NoHash
  <2>10. d \in DOMAIN docker
    <3> HIDE DEF served, owner, fresh, old
    <3> QED
      BY <2>2
  <2> HIDE DEF docker, state, s
  <2>11. Usable(docker, d)
    BY <1>4, <2>4, <2>10 DEF Usable
  <2>12. Usable(state, k) /\ CompleteState(state[k])
    BY <1>4, <2>5, <2>8, <2>9 DEF Usable
  <2> QED
    BY <2>10, <2>11, <2>12
<1>6. k \notin fresh =>
        d \in DOMAIN docker /\ Usable(docker, d) /\ Usable(state, k) /\ CompleteState(state[k])
  <2>0. HAVE k \notin fresh
  <2>1. old = ParseExisting(existing)
    BY <2>0 DEF Known, Serves
  <2>2. old.auths = Decoded(existing.docker) /\ old.states = Decoded(existing.state)
    BY <2>1 DEF ParseExisting
  <2>3. /\ d \in DOMAIN old.auths /\ old.auths[d] = existing.docker[d]
        /\ k \in DOMAIN old.states /\ old.states[k] = existing.state[k]
    BY <2>2 DEF Serves, Usable, Decoded, RestrictValues, Restrict
  <2>4. d \in RetainedDomains(k, registries[k], old)
    <3> HIDE DEF old
    <3> QED
      BY <2>3 DEF RetainedDomains, Serves, Usable
  <2>5. d \in served[k] /\ d \in UNION Range(served)
    <3> HIDE DEF old, fresh
    <3> QED
      BY <2>0, <2>4 DEF Range
  <2>6. docker[d] = existing.docker[d] /\ d \in DOMAIN docker
    <3> HIDE DEF old, fresh, served, owner
    <3> QED
      BY <1>3, <2>0, <2>3, <2>5
  <2>7. k \in DOMAIN state /\ state[k] = existing.state[k]
    <3> HIDE DEF old, fresh, served, owner
    <3> QED
      BY <2>0, <2>3, <2>5
  <2> HIDE DEF docker, state
  <2>8. Usable(docker, d)
    BY <1>4, <2>6 DEF Usable, Serves
  <2>9. Usable(state, k) /\ CompleteState(state[k])
    BY <1>4, <2>7 DEF Usable, Serves
  <2> QED
    BY <2>6, <2>8, <2>9
<1>7. d \in DOMAIN docker /\ Usable(docker, d) /\ Usable(state, k) /\ CompleteState(state[k])
  <2> HIDE DEF fresh, docker, state
  <2> QED
    BY <1>5, <1>6
<1>8. d \in DOMAIN built.docker /\ ContentServes(built, k, d)
  <2> HIDE DEF docker, state, built
  <2> QED
    BY <1>2, <1>7 DEF ContentServes
<1> QED
  BY <1>8 DEF built

-----------------------------------------------------------------------------
\* Every version has the fields that a write replaces.
Shaped(v) == v # None => {"managed", "extra", "docker", "state"} \subseteq DOMAIN v

ShapesOK ==
    /\ Shaped(secret) /\ Shaped(cache) /\ Shaped(observed)
    /\ \A i \in 1..Len(watch) : Shaped(watch[i])

\* A call that is under way leaves every Domain of the configuration served that the
\* Secret it was decided on serves.
CallServes ==
    /\ configMap \in Configurations /\ snapshot \in Configurations \cup {None}
    /\ pc # "idle" => snap \in Configurations
    /\ pc \in {"update", "delete"} /\ snap.target =>
          \A k \in DOMAIN snap.registries : \A d \in snap.registries[k].domains :
              Serves(observed, k, d) => pc = "update" /\ ContentServes(content, k, d)

LEMMA PullInit == Init => ShapesOK /\ CredentialsOK /\ CallServes
<1> SUFFICES ASSUME Init PROVE ShapesOK /\ CredentialsOK /\ CallServes
  OBVIOUS
<1>1. Len(watch) = 0 /\ DOMAIN credentials = {}
  BY DEF Init, EmptyMap
<1> QED
  BY <1>1 DEF Init, ShapesOK, Shaped, CredentialsOK, CallServes

\* What the controller observed is what the cache had.
LEMMA ObservedCases ==
    ASSUME [Next]_vars
    PROVE  observed' \in {None, observed, cache}
<1>1. CASE SyncStep \/ Create(TRUE) \/ Update(TRUE) \/ Delete(TRUE) \/ CallFails
  BY <1>1 DEF SyncStep, Begin, GetNamespace, GetSecret, CallFails, Untargeted,
     OwnershipConflict, BuildContent, Create, Update, Delete, Finish
<1>2. CASE UserStep \/ WatchDelivers \/ Restart
  BY <1>2 DEF UserStep, UserEdits, UserDeletes, UserCreates, NamespaceChanges,
     WatchDelivers, Restart, localVars
<1>3. CASE SchedulerStep \/ (\E c \in Configurations : EditConfigMap(c))
           \/ LoadConfiguration \/ Publish \/ UNCHANGED vars
  BY <1>3 DEF SchedulerStep, Acquire, RemoveCredential, EditConfigMap, LoadConfiguration,
     Publish, vars, localVars
<1> QED
  BY <1>1, <1>2, <1>3 DEF Next

LEMMA ShapesStep ==
    ASSUME VersionsOK, ShapesOK, [Next]_vars
    PROVE  ShapesOK'
<1>0. PICK T : watch \in Seq(T)
  BY DEF VersionsOK
<1>1. Shaped(observed')
  BY ObservedCases DEF ShapesOK, Shaped
<1>2. CASE UNCHANGED <<serverVars, cache>>
  BY <1>1, <1>2 DEF ShapesOK, Shaped, serverVars
<1>3. CASE UNCHANGED cache /\ ((\E object : Put(object)) \/ Remove)
  <2>1. Shaped(secret')
    BY <1>3 DEF Put, Remove, Shaped
  <2>2. watch' = Append(watch, secret')
    BY <1>3 DEF Put, Remove
  <2>3. \A i \in 1..Len(watch') : watch'[i] = secret' \/ (i \in 1..Len(watch) /\ watch'[i] = watch[i])
    BY <1>0, <2>2
  <2> QED
    BY <1>1, <1>3, <2>1, <2>3 DEF ShapesOK, Shaped
<1>4. CASE WatchDelivers
  <2>1. watch # <<>> /\ cache' = watch[1] /\ watch' = Tail(watch) /\ UNCHANGED secret
    BY <1>4 DEF WatchDelivers
  <2>2. 1 \in 1..Len(watch) /\ \A i \in 1..Len(watch') : i + 1 \in 1..Len(watch) /\ watch'[i] = watch[i + 1]
    BY <1>0, <2>1
  <2>3. Shaped(cache') /\ Shaped(secret')
    BY <2>1, <2>2 DEF ShapesOK
  <2>4. \A i \in 1..Len(watch') : Shaped(watch'[i])
    BY <2>2 DEF ShapesOK
  <2> QED
    BY <1>1, <2>3, <2>4 DEF ShapesOK, Shaped
<1>5. CASE Restart
  <2>1. cache' = secret /\ UNCHANGED secret /\ Len(watch') = 0
    BY <1>5 DEF Restart
  <2> QED
    BY <1>1, <2>1 DEF ShapesOK, Shaped
<1> QED
  BY <1>2, <1>3, <1>4, <1>5, ServerCases

\* The store only ever has tokens with their times.
LEMMA CredentialsStep ==
    ASSUME CredentialsOK, [Next]_vars
    PROVE  CredentialsOK'
<1>1. CASE UNCHANGED <<credentials, issued>>
  BY <1>1 DEF CredentialsOK, TokenOK
<1>2. ASSUME NEW k, Acquire(k) PROVE CredentialsOK'
  <2>1. /\ DOMAIN credentials' = DOMAIN credentials \cup {k}
        /\ issued' = issued + 1
        /\ credentials'[k].credential =
              [token |-> <<k, snapshot.registries[k].auth, issued + 1>>,
               refreshedAt |-> issued + 1, expiresAt |-> issued + 1 + 1]
        /\ \A x \in DOMAIN credentials \ {k} : credentials'[x] = credentials[x]
    BY <1>2 DEF Acquire
  <2>2. TokenOK(credentials'[k].credential)
    BY <2>1 DEF CredentialsOK, TokenOK
  <2> QED
    BY <2>1, <2>2 DEF CredentialsOK, TokenOK
<1>3. ASSUME NEW k, RemoveCredential(k) PROVE CredentialsOK'
  <2>1. /\ UNCHANGED issued
        /\ \A x \in DOMAIN credentials' : x \in DOMAIN credentials /\ credentials'[x] = credentials[x]
    BY <1>3 DEF RemoveCredential, Restrict
  <2> QED
    BY <2>1 DEF CredentialsOK, TokenOK
<1>4. CASE Restart
  <2>1. UNCHANGED issued /\ DOMAIN credentials' = {}
    BY <1>4 DEF Restart, EmptyMap
  <2> QED
    BY <2>1 DEF CredentialsOK, TokenOK
<1>5. CASE SyncStep \/ Create(TRUE) \/ Update(TRUE) \/ Delete(TRUE) \/ CallFails
  <2>1. UNCHANGED <<credentials, issued>>
    BY <1>5 DEF SyncStep, Begin, GetNamespace, GetSecret, CallFails, Untargeted,
       OwnershipConflict, BuildContent, Create, Update, Delete, configVars
  <2> QED
    BY <1>1, <2>1
<1>6. CASE \/ UserStep \/ WatchDelivers \/ (\E c \in Configurations : EditConfigMap(c))
           \/ LoadConfiguration \/ Publish \/ UNCHANGED vars
  <2>1. UNCHANGED <<credentials, issued>>
    BY <1>6 DEF UserStep, UserEdits, UserDeletes, UserCreates, NamespaceChanges,
       WatchDelivers, EditConfigMap, LoadConfiguration, Publish, vars, configVars
  <2> QED
    BY <1>1, <2>1
<1> QED
  BY <1>2, <1>3, <1>4, <1>5, <1>6 DEF Next, SchedulerStep

\* Every decision keeps what the Secret serves.
LEMMA CallServesStep ==
    ASSUME MarkersApart, CredentialsOK, CallServes, [Next]_vars
    PROVE  CallServes'
<1>1. configMap' \in Configurations /\ snapshot' \in Configurations \cup {None}
  <2>1. CASE SyncStep \/ Create(TRUE) \/ Update(TRUE) \/ Delete(TRUE) \/ CallFails
    BY <2>1 DEF SyncStep, Begin, GetNamespace, GetSecret, CallFails, Untargeted,
       OwnershipConflict, BuildContent, Create, Update, Delete, configVars, CallServes
  <2>2. CASE UserStep \/ WatchDelivers \/ Restart \/ Publish \/ UNCHANGED vars
    BY <2>2 DEF UserStep, UserEdits, UserDeletes, UserCreates, NamespaceChanges,
       WatchDelivers, Restart, Publish, vars, configVars, CallServes
  <2>3. CASE SchedulerStep \/ (\E c \in Configurations : EditConfigMap(c)) \/ LoadConfiguration
    BY <2>3 DEF SchedulerStep, Acquire, RemoveCredential, EditConfigMap, LoadConfiguration,
       CallServes
  <2> QED
    BY <2>1, <2>2, <2>3 DEF Next
<1>2. CASE UNCHANGED localVars
  BY <1>1, <1>2 DEF CallServes, localVars, Serves, ContentServes
<1>3. CASE pc' = "idle"
  BY <1>1, <1>3 DEF CallServes
<1>4. CASE Begin \/ GetNamespace \/ GetSecret
  <2>1. /\ pc' \in {"idle", "namespace", "secret", "decide"}
        /\ pc' # "idle" => snap' \in Configurations
    BY <1>4 DEF Begin, GetNamespace, GetSecret, Finish, CallServes
  <2> QED
    BY <1>1, <2>1 DEF CallServes
<1>5. CASE Untargeted
  <2>1. pc' = "idle" \/ (~snap.target /\ pc # "idle" /\ UNCHANGED snap)
    BY <1>5 DEF Untargeted, Finish
  <2> QED
    BY <1>1, <1>3, <2>1 DEF CallServes
<1>6. CASE BuildContent
  <2> DEFINE built == Build(snap.registries, credentials, observed)
  <2>1. \/ pc' = "idle"
        \/ pc' = "create" /\ UNCHANGED <<snap, observed>> /\ pc # "idle"
        \/ /\ pc' \in {"update", "delete"} /\ UNCHANGED <<snap, observed>> /\ pc # "idle"
           /\ pc' = "delete" => ~HasAuth(built)
           /\ content' = built
    <3> HIDE DEF built
    <3> QED
      BY <1>6 DEF BuildContent, Finish, built
  <2>2. CASE /\ pc' \in {"update", "delete"} /\ UNCHANGED <<snap, observed>> /\ pc # "idle"
             /\ pc' = "delete" => ~HasAuth(built)
             /\ content' = built
    <3>1. snap \in Configurations
      BY <2>2 DEF CallServes
    <3>2. ASSUME NEW k \in DOMAIN snap.registries, NEW d \in snap.registries[k].domains,
                 Serves(observed, k, d)
          PROVE  pc' = "update" /\ ContentServes(content', k, d)
      <4>1. d \in DOMAIN built.docker /\ ContentServes(built, k, d)
        BY <3>1, <3>2, BuildServes, ConfigurationsAssumption DEF CredentialsOK
      <4> HIDE DEF built
      <4> QED
        BY <2>2, <4>1 DEF HasAuth
    <3> HIDE DEF built
    <3> QED
      BY <1>1, <2>2, <3>1, <3>2 DEF CallServes, Serves, ContentServes
  <2>3. CASE pc' = "create" /\ UNCHANGED <<snap, observed>> /\ pc # "idle"
    BY <1>1, <2>3 DEF CallServes
  <2> HIDE DEF built
  <2> QED
    BY <1>3, <2>1, <2>2, <2>3
<1>7. CASE CallFails \/ OwnershipConflict \/ Restart
  BY <1>3, <1>7 DEF CallFails, OwnershipConflict, Restart, Finish
<1>8. ASSUME NEW lost, Create(lost) \/ Update(lost) \/ Delete(lost) PROVE CallServes'
  BY <1>3, <1>8 DEF Create, Update, Delete, Finish
<1>9. CASE \/ UserStep \/ WatchDelivers \/ SchedulerStep \/ UNCHANGED vars
           \/ (\E c \in Configurations : EditConfigMap(c)) \/ LoadConfiguration \/ Publish
  <2>1. UNCHANGED localVars
    BY <1>9 DEF UserStep, UserEdits, UserDeletes, UserCreates, NamespaceChanges,
       WatchDelivers, SchedulerStep, Acquire, RemoveCredential, EditConfigMap,
       LoadConfiguration, Publish, vars
  <2> QED
    BY <1>2, <2>1
<1> QED
  BY <1>4, <1>5, <1>6, <1>7, <1>8, <1>9 DEF Next, SyncStep

\* A call only takes effect on the Secret it was decided on, and then serves what
\* that one served.
LEMMA CallsKeepAccess ==
    ASSUME MarkersApart, VersionsOK, ShapesOK, CallServes, [Next]_vars, pc # pc',
           pc \in ApiCalls, snap.target,
           NEW k \in DOMAIN snap.registries, NEW d \in snap.registries[k].domains,
           Serves(secret, k, d)
    PROVE  Serves(secret', k, d)
<1>1. CASE secret' = secret
  BY <1>1
<1>2. CASE secret' # secret
  <2>1. secret = observed /\ secret # None
    BY <1>2, WritesObserved DEF Serves
  <2>2. pc = "update" /\ ContentServes(content, k, d)
    BY <2>1 DEF CallServes, VersionsOK, ApiCalls
  <2>3. Put(ApplyContent(observed, content))
    <3>1. \/ \E lost \in BOOLEAN : Update(lost)
          \/ UNCHANGED secret \/ UNCHANGED pc
      BY <2>2 DEF Next, SyncStep, Begin, GetNamespace, GetSecret, CallFails, Untargeted,
         OwnershipConflict, BuildContent, Create, Delete, WatchDelivers, UserStep,
         UserEdits, UserDeletes, UserCreates, NamespaceChanges, SchedulerStep, Acquire,
         RemoveCredential, EditConfigMap, LoadConfiguration, Publish, Restart, vars,
         localVars, serverVars
    <3> QED
      BY <1>2, <3>1 DEF Update, serverVars
  <2>4. /\ secret'.managed = ApplyContent(observed, content).managed
        /\ secret'.docker = ApplyContent(observed, content).docker
        /\ secret'.state = ApplyContent(observed, content).state
        /\ secret'.rv = revision + 1
    BY <2>3 DEF Put
  <2>5. /\ ApplyContent(observed, content).managed = TRUE
        /\ ApplyContent(observed, content).docker = content.docker
        /\ ApplyContent(observed, content).state = content.state
    BY <2>1 DEF ApplyContent, ShapesOK, Shaped
  <2>6. secret' # None
    <3>1. secret' = [x \in DOMAIN secret' |-> secret'[x]]
      BY <2>3 DEF Put
    <3> QED
      BY <3>1 DEF MarkersApart
  <2> QED
    BY <2>2, <2>4, <2>5, <2>6 DEF Serves, ContentServes
<1> QED
  BY <1>1, <1>2

\* An update or a deletion never takes away the working auth of a Domain that is
\* configured for the same registry: SyncNamespaceSecret writes what Build made of
\* the very Secret that it replaces, and Build serves what that one served.
THEOREM PullAccessKeptCorrect == MarkersApart => (Spec => PullAccessKept)
<1> SUFFICES ASSUME MarkersApart PROVE Spec => PullAccessKept
  OBVIOUS
<1>1. VersionsOK /\ ShapesOK /\ CredentialsOK /\ CallServes /\ [Next]_vars
        => ShapesOK' /\ CredentialsOK' /\ CallServes'
  BY ShapesStep, CredentialsStep, CallServesStep
<1>2. VersionsOK /\ ShapesOK /\ CallServes /\ [Next]_vars =>
        [ControllerStep /\ pc \in ApiCalls /\ snap.target =>
          \A k \in DOMAIN snap.registries : \A d \in snap.registries[k].domains :
              Serves(secret, k, d) => Serves(secret', k, d)]_vars
  BY CallsKeepAccess DEF ControllerStep
<1> QED
  BY <1>1, <1>2, PullInit, VersionsCorrect, PTL DEF Spec, PullAccessKept
=============================================================================
