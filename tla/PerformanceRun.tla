--------------------------- MODULE PerformanceRun ---------------------------
(***************************************************************************)
(* One run of cmd/perf-driver against the controller under test:           *)
(* runBenchmark and its deferred clean-up (main.go), the convergence       *)
(* tracker fed by informers (tracker.go, observer.go) and the resources    *)
(* injected while the expiry refresh is in progress (mutation.go).         *)
(*                                                                         *)
(* The controller is what the driver sees of it: each start and each       *)
(* refresh of its mock provider brings a token of a new generation, and it *)
(* writes the current generation to the Secrets of the configured          *)
(* Namespaces and refers to them from their ServiceAccounts.  A Secret is  *)
(* identified with its generation (secretFingerprint).  The accounts of a  *)
(* prepared Namespace are one; those of the injected one are kept apart.   *)
(***************************************************************************)
EXTENDS RunParallel

CONSTANTS
    NamespaceCount,    \* prepared Namespaces, in the order of their names
    TriggerPercent,    \* --injection-percent
    LateAccounts,      \* targetServiceAccounts of the injected Namespace
    Commands,          \* command lines to run
    Leftovers,         \* Namespaces an earlier run may have left
    MaxRestarts        \* bound: crashes of the controller, for each command line

Targets == 1..NamespaceCount
Late == NamespaceCount + 1
All == Targets \cup {Late}

ASSUME RunAssumption ==
    /\ NamespaceCount \in Nat \ {0}
    /\ Items = All /\ None \notin {"ok", "error"}
    /\ TriggerPercent \in 1..99
    /\ MaxRestarts \in [Commands -> Nat] /\ Leftovers \subseteq SUBSET All
    /\ Commands \subseteq [cleanupOnly : BOOLEAN, reuse : BOOLEAN, keep : BOOLEAN,
                           retain : BOOLEAN, inject : BOOLEAN, namespaceOnly : BOOLEAN]
    /\ \A c \in Commands : c.namespaceOnly => c.inject

VARIABLES
    options, stage,    \* the command line; where runBenchmark is
    ending,            \* in the deferred clean-up (or in cleanupOnly)
    failed, success,   \* returnErr # nil; summary.Success
    exists,            \* labelled Namespaces: "absent", "active" or "terminating"
    secret,            \* generation of each managed Secret, 0 if there is none
    refs,              \* prepared Namespaces whose accounts refer to it
    writable,          \* Namespaces with the writer's RoleBinding
    configured,        \* Namespaces the ConfigMap selects
    lateAccount,       \* the injected account of a prepared Namespace
    late,              \* the accounts of the injected Namespace
    replicas, running, \* the controller's Deployment and Pod
    token, due,        \* generation of its token; the clock makes it refresh
    restarts,
    pending,           \* versions of each Secret on their way to the informer's handler
    phase, phaseDone,  \* tracker.current: its kind, and whether done is closed
    baseline,          \* baselineSecrets
    recorded,          \* secretFingerprints of the phase (0: no duration yet)
    patched,           \* serviceAccountDurations of the phase
    mutation,          \* trackedConcurrentMutation
    injector,          \* the goroutine of runConcurrentMutation
    outcome,           \* mutationResults
    accountMaker, namespaceMaker,  \* the two creating goroutines
    todo, got          \* accounts still to ensure, and the one read for an update

clusterVars == <<exists, secret, refs, writable, configured, lateAccount, late>>
controllerVars == <<replicas, running, token, due, restarts>>
phaseVars == <<phase, phaseDone, baseline, recorded, patched>>
makerVars == <<accountMaker, namespaceMaker, todo, got>>
injectorVars == <<injector, outcome>>
trackerVars == <<pending, phaseVars, mutation>>
injectionVars == <<injectorVars, makerVars>>
mainVars == <<options, stage, ending, failed, success>>
vars == <<mainVars, clusterVars, controllerVars, trackerVars, injectionVars, poolVars>>

\* From startConvergenceObserver to the return of runBenchmark.
Observing == phase # "none" /\ ~ending /\ stage # "returned"

\* The generation a controller of an earlier run left behind.
OldToken == 1

NoMutation ==
    [active |-> FALSE, existing |-> 0, expected |-> 0, accountCreated |-> FALSE,
     accountReady |-> FALSE, created |-> FALSE, prerequisites |-> FALSE, secret |-> 0,
     ready |-> {}, stale |-> {}, done |-> FALSE]

NoAccount == [exists |-> FALSE, labelled |-> FALSE, ref |-> FALSE]

\* A dataset of an earlier run may be there, served by a controller that still runs.
Init ==
    /\ options \in Commands
    /\ stage = "scaleDown" /\ ending = options.cleanupOnly
    /\ failed = FALSE /\ success = FALSE
    /\ \E left \in Leftovers :
          /\ exists = [n \in All |-> IF n \in left THEN "active" ELSE "absent"]
          /\ secret = [n \in All |-> IF n \in left THEN OldToken ELSE 0]
          /\ refs = left \cap Targets
          /\ writable = left /\ configured = left
          /\ late = [a \in LateAccounts |->
                        [exists |-> Late \in left, labelled |-> Late \in left, ref |-> Late \in left]]
    /\ lateAccount = NoAccount
    /\ replicas = 1 /\ running = TRUE /\ token = OldToken /\ due = FALSE /\ restarts = 0
    /\ pending = [n \in All |-> {}]
    /\ phase = "none" /\ phaseDone = FALSE
    /\ baseline = [n \in Targets |-> 0] /\ recorded = [n \in Targets |-> 0]
    /\ patched = {}
    /\ mutation = NoMutation
    /\ injector = "none" /\ outcome = None
    /\ accountMaker = "off" /\ namespaceMaker = "off" /\ todo = {} /\ got = None
    /\ PoolInit

-----------------------------------------------------------------------------
(* The controller under test and the cluster                                *)

ControllerStarts ==
    /\ replicas = 1 /\ ~running
    /\ running' = TRUE /\ token' = token + 1 /\ due' = FALSE
    /\ UNCHANGED <<mainVars, clusterVars, replicas, restarts, trackerVars, injectionVars,
                   poolVars>>

ControllerStops ==
    /\ replicas = 0 /\ running
    /\ running' = FALSE
    /\ UNCHANGED <<mainVars, clusterVars, replicas, token, due, restarts, trackerVars,
                   injectionVars, poolVars>>

\* A restarted controller asks for a new token and its clock is that of the host.
ControllerRestarts ==
    /\ running /\ replicas = 1 /\ phase # "none" /\ restarts < MaxRestarts[options]
    /\ restarts' = restarts + 1
    /\ token' = token + 1 /\ due' = FALSE
    /\ UNCHANGED <<mainVars, clusterVars, replicas, running, trackerVars, injectionVars,
                   poolVars>>

CredentialRefreshes ==
    /\ running /\ due
    /\ token' = token + 1 /\ due' = FALSE
    /\ UNCHANGED <<mainVars, clusterVars, replicas, running, restarts, trackerVars,
                   injectionVars, poolVars>>

WritesSecret(n) ==
    /\ running /\ n \in configured \cap writable
    /\ exists[n] = "active" /\ secret[n] # token
    /\ secret' = [secret EXCEPT ![n] = token]
    /\ pending' = IF Observing THEN [pending EXCEPT ![n] = @ \cup {token}] ELSE pending
    /\ UNCHANGED <<mainVars, exists, refs, writable, configured, lateAccount, late,
                   controllerVars, phaseVars, mutation, injectionVars, poolVars>>

PatchesAccounts(n) ==
    /\ running /\ n \in (configured \cap writable \cap Targets) \ refs
    /\ exists[n] = "active" /\ secret[n] # 0
    /\ refs' = refs \cup {n}
    /\ UNCHANGED <<mainVars, exists, secret, writable, configured, lateAccount, late,
                   controllerVars, trackerVars, injectionVars, poolVars>>

\* The injected accounts are patched as soon as they exist, labelled or not.
PatchesInjected ==
    /\ running
    /\ \/ /\ lateAccount.exists /\ ~lateAccount.ref
          /\ lateAccount' = [lateAccount EXCEPT !.ref = TRUE]
          /\ UNCHANGED late
       \/ \E a \in LateAccounts :
          /\ late[a].exists /\ ~late[a].ref
          /\ Late \in configured \cap writable /\ secret[Late] # 0
          /\ exists[Late] = "active"
          /\ late' = [late EXCEPT ![a].ref = TRUE]
          /\ UNCHANGED lateAccount
    /\ UNCHANGED <<mainVars, exists, secret, refs, writable, configured, controllerVars,
                   trackerVars, injectionVars, poolVars>>

\* Kubernetes itself gives a new Namespace its default account.
AccountAppears(a) ==
    /\ exists[Late] = "active" /\ a = "default" /\ ~late[a].exists
    /\ late' = [late EXCEPT ![a].exists = TRUE]
    /\ UNCHANGED <<mainVars, exists, secret, refs, writable, configured, lateAccount,
                   controllerVars, trackerVars, injectionVars, poolVars>>

\* The content of a deleted Namespace goes with it.  (Once the tracker is discarded
\* nothing asks for the injected account of a prepared one.)
NamespaceVanishes(n) ==
    /\ exists[n] = "terminating"
    /\ exists' = [exists EXCEPT ![n] = "absent"]
    /\ secret' = [secret EXCEPT ![n] = 0]
    /\ refs' = refs \ {n} /\ writable' = writable \ {n}
    /\ late' = IF n = Late THEN [a \in LateAccounts |-> NoAccount] ELSE late
    /\ lateAccount' = IF n = mutation.existing THEN NoAccount ELSE lateAccount
    /\ UNCHANGED <<mainVars, configured, controllerVars, trackerVars, injectionVars,
                   poolVars>>

Environment ==
    \/ ControllerStarts \/ ControllerStops \/ ControllerRestarts \/ CredentialRefreshes
    \/ \E n \in All : WritesSecret(n) \/ PatchesAccounts(n) \/ NamespaceVanishes(n)
    \/ PatchesInjected
    \/ \E a \in LateAccounts : AccountAppears(a)

-----------------------------------------------------------------------------
(* The convergence tracker                                                  *)

Count(map) == Cardinality({n \in Targets : map[n] # 0})

\* maybeCompleteLocked
Completed(kind, fingerprints, accounts) ==
    /\ Count(fingerprints) = NamespaceCount
    /\ kind = "initial" => accounts = Targets

\* start
TrackerStart(kind) ==
    /\ phase' = kind /\ phaseDone' = FALSE
    /\ recorded' = [n \in Targets |-> 0] /\ patched' = {}
    /\ UNCHANGED baseline

\* maybeCompleteMutationLocked
MutationCompleted(m) ==
    IF /\ m.existing # 0 => m.accountCreated /\ m.accountReady
       /\ m.created /\ m.prerequisites /\ m.secret # 0
       /\ m.ready = LateAccounts
    THEN [m EXCEPT !.done = TRUE] ELSE m

\* observeMutationSecretLocked
MutationSeesSecret(m, n, generation) ==
    IF ~m.active \/ n # Late THEN m
    ELSE IF generation # m.expected THEN [m EXCEPT !.stale = @ \cup {generation}]
    ELSE MutationCompleted([m EXCEPT !.secret = generation])

\* Mutant: in the expiry phase the fingerprint is not compared with the baseline.
ObserveAnySecret(n, generation) ==
    /\ mutation' = MutationSeesSecret(mutation, n, generation)
    /\ IF n \in Targets /\ phase # "none"
       THEN /\ baseline' = IF phase = "initial" THEN [baseline EXCEPT ![n] = generation]
                           ELSE baseline
            /\ recorded' = IF recorded[n] = 0
                           THEN [recorded EXCEPT ![n] = generation] ELSE recorded
            /\ phaseDone' = (phaseDone \/ Completed(phase, recorded', patched))
       ELSE UNCHANGED <<baseline, recorded, phaseDone>>
    /\ UNCHANGED <<phase, patched>>

\* observeSecret
ObserveSecret(n, generation) ==
    /\ mutation' = MutationSeesSecret(mutation, n, generation)
    /\ IF /\ n \in Targets
          /\ \/ phase = "initial"
             \/ phase = "expiry" /\ baseline[n] \notin {0, generation}
       THEN /\ baseline' = IF phase = "initial" THEN [baseline EXCEPT ![n] = generation]
                           ELSE baseline
            /\ recorded' = IF recorded[n] = 0
                           THEN [recorded EXCEPT ![n] = generation] ELSE recorded
            /\ phaseDone' = (phaseDone \/ Completed(phase, recorded', patched))
       ELSE UNCHANGED <<baseline, recorded, phaseDone>>
    /\ UNCHANGED <<phase, patched>>

Deliverable(n) == IF pending[n] = {} THEN {secret[n]} \ {0} ELSE pending[n]

\* The informer delivers the versions of a Secret in order, may skip some, and
\* delivers the current one again after a new list.
SecretDelivered(n, generation) ==
    /\ Observing /\ exists[n] = "active"
    /\ generation \in Deliverable(n)
    /\ pending' = [pending EXCEPT ![n] = {g \in @ : g > generation}]
    /\ ObserveSecret(n, generation)
    /\ UNCHANGED <<mainVars, clusterVars, controllerVars, injectionVars, poolVars>>

\* observeServiceAccount for an account that refers to the Secret; the informer
\* selects accounts by their label.
AccountsDelivered(n) ==
    /\ Observing /\ phase = "initial" /\ n \in refs \ patched
    /\ patched' = patched \cup {n}
    /\ phaseDone' = (phaseDone \/ Completed(phase, recorded, patched'))
    /\ UNCHANGED <<mainVars, clusterVars, controllerVars, pending, phase, baseline,
                   recorded, mutation, injectionVars, poolVars>>

\* observeMutationServiceAccountLocked
InjectedDelivered ==
    /\ Observing /\ mutation.active
    /\ \/ /\ lateAccount.ref /\ ~mutation.accountReady
          /\ mutation' = MutationCompleted([mutation EXCEPT !.accountReady = TRUE])
       \/ \E a \in LateAccounts \ mutation.ready :
          /\ late[a].labelled /\ late[a].ref
          /\ mutation' = MutationCompleted([mutation EXCEPT !.ready = @ \cup {a}])
    /\ UNCHANGED <<mainVars, clusterVars, controllerVars, pending, phaseVars, injectionVars,
                   poolVars>>

Informers ==
    \/ \E n \in All : \E generation \in Deliverable(n) :
          SecretDelivered(n, generation)
    \/ \E n \in Targets : AccountsDelivered(n)
    \/ InjectedDelivered

-----------------------------------------------------------------------------
(* runConcurrentMutation                                                    *)

InjectorEnds(verdict) ==
    /\ injector' = "sent" /\ outcome' = verdict
    /\ UNCHANGED <<mainVars, clusterVars, controllerVars, trackerVars, makerVars, poolVars>>

Threshold == (NamespaceCount * TriggerPercent + 99) \div 100

\* waitForMutationTrigger and startConcurrentMutation; the fingerprint expected of
\* the new Namespace is that of the first refreshed Namespace by name.
InjectionTriggered ==
    /\ injector = "trigger"
    /\ Count(recorded) \in Threshold..(NamespaceCount - 1)
    /\ LET candidate == CHOOSE n \in Targets :
              recorded[n] # 0 /\ \A m \in Targets : recorded[m] # 0 => n <= m
       IN  mutation' = [NoMutation EXCEPT !.active = TRUE, !.expected = recorded[candidate],
                           !.existing = IF options.namespaceOnly THEN 0 ELSE candidate]
    /\ injector' = "creating"
    /\ accountMaker' = IF options.namespaceOnly THEN "done" ELSE "create"
    /\ namespaceMaker' = "create"
    /\ UNCHANGED <<mainVars, clusterVars, controllerVars, pending, phaseVars, outcome, todo,
                   got, poolVars>>

\* The refresh is complete already, or the time is up.
InjectionMissed ==
    /\ injector = "trigger"
    /\ InjectorEnds("error")

\* createLateServiceAccount: the request, then the mark.
CreatesAccount ==
    /\ accountMaker = "create" /\ ~lateAccount.exists
    /\ exists[mutation.existing] = "active"
    /\ lateAccount' = [lateAccount EXCEPT !.exists = TRUE]
    /\ accountMaker' = "mark"
    /\ UNCHANGED <<mainVars, exists, secret, refs, writable, configured, late,
                   controllerVars, trackerVars, injectorVars, namespaceMaker, todo, got,
                   poolVars>>

\* Mutant: the mark does not look whether everything else is ready already.
MarksAccountOnly ==
    /\ accountMaker = "mark"
    /\ mutation' = [mutation EXCEPT !.accountCreated = TRUE]
    /\ accountMaker' = "done"
    /\ UNCHANGED <<mainVars, clusterVars, controllerVars, pending, phaseVars, injectorVars,
                   namespaceMaker, todo, got, poolVars>>

MarksAccount ==
    /\ accountMaker = "mark"
    /\ mutation' = MutationCompleted([mutation EXCEPT !.accountCreated = TRUE])
    /\ accountMaker' = "done"
    /\ UNCHANGED <<mainVars, clusterVars, controllerVars, pending, phaseVars, injectorVars,
                   namespaceMaker, todo, got, poolVars>>

\* createLateNamespace: the Namespace, its mark, the RoleBinding, the accounts and
\* the mark of the prerequisites.
CreatesNamespace ==
    /\ namespaceMaker = "create" /\ exists[Late] = "absent"
    /\ exists' = [exists EXCEPT ![Late] = "active"]
    /\ namespaceMaker' = "mark"
    /\ UNCHANGED <<mainVars, secret, refs, writable, configured, lateAccount, late,
                   controllerVars, trackerVars, injectorVars, accountMaker, todo, got,
                   poolVars>>

MarksNamespace ==
    /\ namespaceMaker = "mark"
    /\ mutation' = MutationCompleted([mutation EXCEPT !.created = TRUE])
    /\ namespaceMaker' = "bind"
    /\ UNCHANGED <<mainVars, clusterVars, controllerVars, pending, phaseVars, injectorVars,
                   accountMaker, todo, got, poolVars>>

BindsWriter ==
    /\ namespaceMaker = "bind"
    /\ writable' = writable \cup {Late}
    /\ namespaceMaker' = "ensure" /\ todo' = LateAccounts
    /\ UNCHANGED <<mainVars, exists, secret, refs, configured, lateAccount, late,
                   controllerVars, trackerVars, injectorVars, accountMaker, got, poolVars>>

\* ensureServiceAccount creates a labelled account, or reads the one that is there ...
EnsuresAccount(a) ==
    /\ namespaceMaker = "ensure" /\ a \in todo
    /\ IF late[a].exists
       THEN /\ got' = [name |-> a, account |-> late[a]]
            /\ namespaceMaker' = "update"
            /\ UNCHANGED <<late, todo>>
       ELSE /\ late' = [late EXCEPT ![a] = [exists |-> TRUE, labelled |-> TRUE, ref |-> FALSE]]
            /\ todo' = todo \ {a}
            /\ UNCHANGED <<got, namespaceMaker>>
    /\ UNCHANGED <<mainVars, exists, secret, refs, writable, configured, lateAccount,
                   controllerVars, trackerVars, injectorVars, accountMaker, poolVars>>

\* Mutant: the managed reference is reset, as for prepared Namespaces.
LabelsAndResets ==
    /\ namespaceMaker = "update"
    /\ LET a == got.name IN
       IF late[a] = got.account
       THEN /\ late' = [late EXCEPT ![a] = [@ EXCEPT !.labelled = TRUE, !.ref = FALSE]]
            /\ todo' = todo \ {a}
       ELSE UNCHANGED <<late, todo>>
    /\ namespaceMaker' = "ensure" /\ got' = None
    /\ UNCHANGED <<mainVars, exists, secret, refs, writable, configured, lateAccount,
                   controllerVars, trackerVars, injectorVars, accountMaker, poolVars>>

\* ... and updates it with the label; a conflict makes it read again.
LabelsAccount ==
    /\ namespaceMaker = "update"
    /\ LET a == got.name IN
       IF late[a] = got.account
       THEN /\ late' = [late EXCEPT ![a] = [got.account EXCEPT !.labelled = TRUE]]
            /\ todo' = todo \ {a}
       ELSE UNCHANGED <<late, todo>>
    /\ namespaceMaker' = "ensure" /\ got' = None
    /\ UNCHANGED <<mainVars, exists, secret, refs, writable, configured, lateAccount,
                   controllerVars, trackerVars, injectorVars, accountMaker, poolVars>>

MarksPrerequisites ==
    /\ namespaceMaker = "ensure" /\ todo = {}
    /\ mutation' = MutationCompleted([mutation EXCEPT !.prerequisites = TRUE])
    /\ namespaceMaker' = "done"
    /\ UNCHANGED <<mainVars, clusterVars, controllerVars, pending, phaseVars, injectorVars,
                   accountMaker, todo, got, poolVars>>

\* A request fails or its context is done; it may have taken effect all the same, but no
\* later than its error (a server that carries out a request after the client gave it up
\* is not modelled).
MakerFails ==
    /\ \/ /\ accountMaker = "create" /\ accountMaker' = "error"
          /\ lateAccount' \in {lateAccount, [lateAccount EXCEPT !.exists = TRUE]}
          /\ UNCHANGED <<exists, namespaceMaker, todo, got>>
       \/ /\ namespaceMaker \in {"create", "bind", "ensure", "update"}
          /\ namespaceMaker' = "error" /\ todo' = {} /\ got' = None
          /\ \/ UNCHANGED exists
             \/ /\ namespaceMaker = "create" /\ exists[Late] = "absent"
                /\ exists' = [exists EXCEPT ![Late] = "active"]
          /\ UNCHANGED <<lateAccount, accountMaker>>
    /\ UNCHANGED <<mainVars, secret, refs, writable, configured, late, controllerVars,
                   trackerVars, injectorVars, poolVars>>

\* Both goroutines are waited for.
CreationsEnd ==
    /\ injector = "creating"
    /\ accountMaker \in {"done", "error"} /\ namespaceMaker \in {"done", "error"}
    /\ IF "error" \in {accountMaker, namespaceMaker}
       THEN injector' = "sent" /\ outcome' = "error"
       ELSE injector' = "waiting" /\ UNCHANGED outcome
    /\ UNCHANGED <<mainVars, clusterVars, controllerVars, trackerVars, makerVars, poolVars>>

InjectionReady ==
    /\ injector = "waiting" /\ mutation.done
    /\ InjectorEnds(IF mutation.stale # {} THEN "error" ELSE "ok")

InjectionTimesOut ==
    /\ injector = "waiting"
    /\ InjectorEnds("error")

Injecting ==
    \/ InjectionTriggered \/ InjectionMissed
    \/ CreatesAccount \/ MarksAccount
    \/ CreatesNamespace \/ MarksNamespace \/ BindsWriter
    \/ \E a \in LateAccounts : EnsuresAccount(a)
    \/ LabelsAccount \/ MarksPrerequisites
    \/ MakerFails \/ CreationsEnd \/ InjectionReady \/ InjectionTimesOut

-----------------------------------------------------------------------------
(* runBenchmark                                                             *)

Present == {n \in All : exists[n] # "absent"}

Go(next) == stage' = next /\ UNCHANGED <<options, ending, failed, success>>

\* setDeploymentReplicas(0) ...
ScaleDown ==
    /\ stage = "scaleDown"
    /\ replicas' = 0
    /\ Go("drain")
    /\ UNCHANGED <<clusterVars, running, token, due, restarts, trackerVars, injectionVars,
                   poolVars>>

\* Mutant: the Pod of the old controller is not waited for.
DrainUnwaited ==
    /\ stage = "drain"
    /\ Go(IF ending /\ options.retain /\ ~options.cleanupOnly THEN "returned"
          ELSE IF ~ending /\ options.reuse THEN "validate" ELSE "wipe")
    /\ UNCHANGED <<clusterVars, controllerVars, trackerVars, injectionVars, poolVars>>

\* ... and waitForControllerPods(false), both at the start and in the clean-up.
Drain ==
    /\ stage = "drain"
    /\ ~running
    /\ Go(IF ending /\ options.retain /\ ~options.cleanupOnly THEN "returned"
          ELSE IF ~ending /\ options.reuse THEN "validate" ELSE "wipe")
    /\ UNCHANGED <<clusterVars, controllerVars, trackerVars, injectionVars, poolVars>>

\* validateReusableDataset
Validate ==
    /\ stage = "validate"
    /\ Present \subseteq Targets
    /\ Go("prepare")
    /\ UNCHANGED <<clusterVars, controllerVars, trackerVars, injectionVars, poolVars>>

\* cleanupRun: delete what the list shows, then wait until a list is empty.
Wipe ==
    /\ stage = "wipe"
    /\ IF Present = {} THEN Go(IF ending THEN "cleaned" ELSE "prepare") /\ UNCHANGED poolVars
       ELSE Go("wiping") /\ Call(Present)
    /\ UNCHANGED <<clusterVars, controllerVars, trackerVars, injectionVars>>

Wiped ==
    /\ stage = "wiped"
    /\ Present = {}
    /\ Go(IF ending THEN "cleaned" ELSE "prepare")
    /\ UNCHANGED <<clusterVars, controllerVars, trackerVars, injectionVars, poolVars>>

\* prepareWorkload and resetManagedSecrets hand their Namespaces to runParallel.
Prepare ==
    /\ \/ stage = "prepare" /\ Go("preparing") /\ Call(Targets)
       \/ stage = "reset" /\ Go("resetting") /\ Call({n \in Targets : secret[n] # 0})
    /\ UNCHANGED <<clusterVars, controllerVars, trackerVars, injectionVars>>

PoolStages == {"wiping", "preparing", "resetting"}

\* The operation of one item takes effect.
Effect(n) ==
    CASE stage = "wiping" ->
            /\ exists' = [exists EXCEPT ![n] = IF @ = "active" THEN "terminating" ELSE @]
            /\ UNCHANGED <<secret, refs, writable>>
      [] stage = "preparing" ->
            /\ exists' = [exists EXCEPT ![n] = "active"]
            /\ refs' = refs \ {n} /\ writable' = writable \cup {n}
            /\ UNCHANGED secret
      [] stage = "resetting" ->
            /\ secret' = [secret EXCEPT ![n] = 0]
            /\ UNCHANGED <<exists, refs, writable>>

Operation(w) ==
    /\ stage \in PoolStages
    /\ \/ OperationSucceeds(w) /\ Effect(job[w])
       \/ /\ \E e \in Errors : OperationFails(w, e)
          /\ Effect(job[w]) \/ UNCHANGED <<exists, secret, refs, writable>>
    /\ UNCHANGED <<mainVars, configured, lateAccount, late, controllerVars, trackerVars,
                   injectionVars>>

PoolRuns ==
    /\ PoolInternal \/ Interrupt
    /\ UNCHANGED <<mainVars, clusterVars, controllerVars, trackerVars, injectionVars>>

PoolSucceeds ==
    /\ stage \in PoolStages /\ result = "nil"
    /\ Go(CASE stage = "wiping" -> "wiped" [] stage = "preparing" -> "reset"
            [] stage = "resetting" -> "configure")
    /\ UNCHANGED <<clusterVars, controllerVars, trackerVars, injectionVars, poolVars>>

\* The Namespace to be injected is selected from the start.
Selected == IF options.inject THEN All ELSE Targets

\* configureTargets
Configure ==
    /\ stage = "configure"
    /\ configured' = Selected
    /\ Go("observe")
    /\ UNCHANGED <<exists, secret, refs, writable, lateAccount, late, controllerVars,
                   trackerVars, injectionVars, poolVars>>

\* startConvergenceObserver waits for the caches, not for their handlers: what the
\* first list showed may still be on its way when the initial phase starts.
Observe ==
    /\ stage = "observe"
    /\ pending' = [n \in All |-> {secret[n]} \ {0}]
    /\ TrackerStart("initial")
    /\ Go("scaleUp")
    /\ UNCHANGED <<clusterVars, controllerVars, mutation, injectionVars, poolVars>>

ScaleUp ==
    /\ stage = "scaleUp"
    /\ replicas' = 1
    /\ Go("waitInitial")
    /\ UNCHANGED <<clusterVars, running, token, due, restarts, trackerVars, injectionVars,
                   poolVars>>

\* waitForPhase, then waitForControllerPods(true) and the settling time.
PhaseWaited ==
    /\ \/ stage = "waitInitial" /\ phaseDone /\ Go("ready")
       \/ stage = "ready" /\ running /\ Go("expiry")
       \/ stage = "waitExpiry" /\ phaseDone /\ Go("collect")
    /\ UNCHANGED <<clusterVars, controllerVars, trackerVars, injectionVars, poolVars>>

\* The expiry phase starts, and an event that was stamped before is dropped.
StartExpiry ==
    /\ stage = "expiry"
    /\ TrackerStart("expiry")
    /\ \/ UNCHANGED pending
       \/ \E n \in Targets : \E generation \in pending[n] :
             pending' = [pending EXCEPT ![n] = {g \in @ : g > generation}]
    /\ injector' = IF options.inject THEN "trigger" ELSE "none"
    /\ Go("advance")
    /\ UNCHANGED <<clusterVars, controllerVars, mutation, outcome, makerVars, poolVars>>

\* The clock server of a running controller moves the clock past the refresh time.
ClockAdvances == running /\ due' = TRUE

\* advanceControllerClock
Advance ==
    /\ stage = "advance"
    /\ ClockAdvances
    /\ Go("waitExpiry")
    /\ UNCHANGED <<clusterVars, replicas, running, token, restarts, trackerVars,
                   injectionVars, poolVars>>

\* The outcome of the injection is received; an error ends the run.
Collect ==
    /\ stage = "collect"
    /\ options.inject => outcome = "ok"
    /\ injector' = IF options.inject THEN "collected" ELSE injector
    /\ Go("verify")
    /\ UNCHANGED <<clusterVars, controllerVars, trackerVars, outcome, makerVars, poolVars>>

\* verifyFinalState and verifyConcurrentMutationFinalState
Verified ==
    /\ \A n \in Targets : secret[n] # 0 /\ n \in refs
    /\ options.inject => /\ mutation.existing # 0 => lateAccount.ref
                         /\ secret[Late] = mutation.expected
                         /\ \A a \in LateAccounts : late[a].ref

\* The observers stop, and the tracker goes with runBenchmark.
Discard ==
    /\ pending' = [n \in All |-> {}]
    /\ phase' = "none" /\ phaseDone' = FALSE
    /\ baseline' = [n \in Targets |-> 0] /\ recorded' = [n \in Targets |-> 0]
    /\ patched' = {}
    /\ mutation' = NoMutation

\* runBenchmark returns, which runs the deferred clean-up.
Exit(isFailed) ==
    /\ failed' = (failed \/ isFailed) /\ success' = ~isFailed
    /\ IF options.keep THEN stage' = "returned" /\ UNCHANGED ending
       ELSE stage' = "scaleDown" /\ ending' = TRUE
    /\ UNCHANGED options

Verify ==
    /\ stage = "verify"
    /\ Verified
    /\ Exit(FALSE)
    /\ UNCHANGED <<clusterVars, controllerVars, trackerVars, injectionVars, poolVars>>

SetupStages == {"scaleDown", "drain", "validate", "wipe", "wiping", "wiped"}
InjectedStages == {"advance", "waitExpiry"}

\* An API call fails (it may have taken effect all the same), a deadline passes or the
\* process is interrupted.  Before the clean-up is deferred, and in the clean-up, this
\* ends the run at once.
Fails ==
    /\ stage \notin {"returned", "cleaned", "abort", "collect"}
    /\ stage \in PoolStages => result \in Errors
    /\ ~(stage \in InjectedStages /\ options.inject)
    /\ Discard
    /\ IF stage \in SetupStages
       THEN /\ failed' = TRUE /\ success' = FALSE /\ stage' = "returned"
            /\ UNCHANGED <<options, ending>>
       ELSE Exit(TRUE)
    /\ \/ UNCHANGED <<configured, replicas, due>>
       \/ stage = "scaleDown" /\ replicas' = 0 /\ UNCHANGED <<configured, due>>
       \/ stage = "scaleUp" /\ replicas' = 1 /\ UNCHANGED <<configured, due>>
       \/ stage = "advance" /\ ClockAdvances /\ UNCHANGED <<configured, replicas>>
       \/ stage = "configure" /\ configured' = Selected /\ UNCHANGED <<replicas, due>>
    /\ UNCHANGED <<exists, secret, refs, writable, lateAccount, late, running, token,
                   restarts, injectionVars, poolVars>>

\* In the expiry phase the injection is cancelled first ...
FailsInjected ==
    /\ stage \in InjectedStages /\ options.inject
    /\ due' \in IF stage = "advance" THEN {due, running} ELSE {due}
    /\ Go("abort")
    /\ UNCHANGED <<clusterVars, replicas, running, token, restarts, trackerVars,
                   injectionVars, poolVars>>

\* Mutant: the outcome of a cancelled injection is not waited for.
AbortUnwaited ==
    /\ stage = "abort"
    /\ UNCHANGED injector
    /\ Exit(TRUE)
    /\ UNCHANGED <<clusterVars, controllerVars, trackerVars, outcome, makerVars, poolVars>>

\* ... and its outcome received.
Abort ==
    /\ \/ stage = "abort"
       \/ stage = "collect" /\ options.inject /\ outcome = "error"
    /\ injector = "sent"
    /\ injector' = "collected"
    /\ Discard /\ Exit(TRUE)
    /\ UNCHANGED <<clusterVars, controllerVars, outcome, makerVars, poolVars>>

Main ==
    \/ ScaleDown \/ Drain \/ Validate \/ Wipe \/ Wiped \/ Prepare \/ PoolSucceeds
    \/ Configure \/ Observe \/ ScaleUp \/ PhaseWaited \/ StartExpiry \/ Advance
    \/ Collect \/ Verify \/ Fails \/ FailsInjected \/ Abort

Next ==
    \/ Environment \/ Informers \/ Injecting \/ Main
    \/ \E w \in Workers : Operation(w)
    \/ PoolRuns

Spec == Init /\ [][Next]_vars

\* Stages that wait for the answer to a request without a deadline: neither the context
\* of runBenchmark and cleanupOnly nor the client has one, and the timers of
\* waitForControllerPods and waitForPhase are looked at between requests only.  The
\* requests of cleanupRun and of the whole deferred clean-up end with cleanupCtx.
AwaitsAnswer ==
    /\ stage \in {"scaleDown", "drain", "validate", "reset", "configure", "scaleUp",
                  "waitInitial", "ready", "advance", "waitExpiry", "verify"}
    /\ ending => options.cleanupOnly

\* The driver's goroutines and timers run on, and a request whose context has a
\* deadline or is cancelled ends.  Nobody has to interrupt the run.
DriverProgress ==
    /\ WF_vars(Main /\ ~AwaitsAnswer) /\ WF_vars(Injecting) /\ WF_vars(MakerFails)
    /\ WF_vars(PoolRuns /\ UNCHANGED interrupted)
    /\ \A w \in Workers : WF_vars(Operation(w) /\ (stage = "wiping" \/ ContextDone))

\* Assumed of the API server, and for POST /advance of the controller behind it: every
\* other request is answered in the end, by success or by an error.
RequestsAnswered ==
    /\ WF_vars(Main /\ AwaitsAnswer)
    /\ \A w \in Workers : WF_vars(Operation(w) /\ stage # "wiping")

Fairness == DriverProgress /\ RequestsAnswered

FairSpec == Spec /\ Fairness

-----------------------------------------------------------------------------
(* Properties                                                               *)

Returned == stage \in {"returned", "cleaned"}

Generations == 0..(OldToken + MaxRestarts[options] + 3)

TypeOK ==
    /\ PoolTypeOK
    /\ options \in Commands /\ {ending, failed, success, running, due, phaseDone}
                                    \subseteq BOOLEAN
    /\ exists \in [All -> {"absent", "active", "terminating"}]
    /\ secret \in [All -> Generations] /\ pending \in [All -> SUBSET Generations]
    /\ token \in Generations /\ replicas \in 0..1
    /\ refs \subseteq Targets /\ patched \subseteq Targets
    /\ writable \subseteq All /\ configured \subseteq All
    /\ baseline \in [Targets -> Generations] /\ recorded \in [Targets -> Generations]
    /\ phase \in {"none", "initial", "expiry"}
    /\ mutation.ready \subseteq LateAccounts /\ mutation.stale \subseteq Generations
    /\ injector \in {"none", "trigger", "creating", "waiting", "sent", "collected"}
    /\ outcome \in {None, "ok", "error"}

\* No completion is missed, whatever the order of informer events and of the marks
\* the creating goroutines set: the tracker's done channels are closed as soon as
\* what they stand for is there.
NoMissedCompletion ==
    /\ (phase # "none" /\ Completed(phase, recorded, patched)) => phaseDone
    /\ (mutation.active /\ MutationCompleted(mutation).done) => mutation.done

\* A successful run has seen every prepared Namespace get a credential of its own
\* controller and then move to a newer one: nothing that an earlier controller left, or
\* still wrote, counted, and nothing went wrong in the clean-up.
SuccessIsEarned ==
    success /\ Returned =>
        /\ ~failed
        /\ \A n \in Targets : recorded[n] > baseline[n] /\ baseline[n] > OldToken
        /\ ~options.keep /\ ~options.retain => Present = {}

\* As long as the controller does not restart, what the expiry phase counts is the
\* generation that the advanced clock brings, the injected resources are held against
\* this generation, and the injected Namespace never shows an earlier one.
RefreshFollowsAdvance ==
    phase = "expiry" /\ restarts = 0 =>
        /\ \A n \in Targets : recorded[n] \in {0, OldToken + 2}
        /\ mutation.active => mutation.expected = OldToken + 2 /\ mutation.stale = {}

\* When the run returns its goroutines have ended, and a completed clean-up leaves no
\* Namespace of the dataset behind, not even one injected while the run failed.
NothingLeftBehind ==
    Returned => /\ injector \in {"none", "collected"}
                /\ stage = "cleaned" => Present = {}

\* Labelling the accounts of the injected Namespace never takes away the reference
\* that the controller may already have put there.
LabellingKeepsReference ==
    [][\A a \in LateAccounts : late[a].ref /\ exists[Late]' = "active" => late[a]'.ref]_vars

\* The run returns if every request it makes is answered in the end, whatever the answers
\* and whether or not the controller starts, refreshes or writes anything: no wait for
\* the cluster, the pool or the injection is without an end.  (RequestsAnswered is needed:
\* a controller that accepts POST /advance and never answers holds the run until it is
\* interrupted.)
RunReturns == <>Returned
=============================================================================
