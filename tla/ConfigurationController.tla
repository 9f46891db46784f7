----------------------- MODULE ConfigurationController -----------------------
(***************************************************************************)
(* The configuration controller of internal/controller, the configuration  *)
(* store of internal/config, and the fan-out that tells every Namespace    *)
(* and ServiceAccount of a new configuration: event channels of bounded    *)
(* capacity, the queues of the leader-only resource controllers, and the   *)
(* notification of the credential scheduler; and the client tuning of      *)
(* internal/kubeclient, read at startup and updated by the reconciler.     *)
(*                                                                         *)
(* A configuration is a pair: business (selectors and registries) and      *)
(* runtime (the overrides of QPS, burst and workers, 0 for an absent one). *)
(* What Parse accepts is an input here.                                    *)
(***************************************************************************)
EXTENDS Integers, Sequences, FiniteSets

CONSTANTS
    Configurations,   \* configurations Parse accepts
    Fallback,         \* Settings of the command line
    Namespaces,       \* Namespace objects
    ServiceAccounts,  \* ServiceAccount objects
    None,
    Buffer,           \* capacity of each event channel (controllerEventBuffer)
    MaxEdits,         \* bound: changes of the ConfigMap
    MaxFaults,        \* bound: failing API calls and restarts of the process
    Rejections        \* may the ConfigMap become invalid or be deleted

ASSUME ControllerAssumption ==
    /\ Buffer \in Nat \ {0}
    /\ MaxEdits \in Nat /\ MaxFaults \in Nat
    /\ Rejections \in BOOLEAN
    /\ \A c \in Configurations :
          /\ c = [business |-> c.business, runtime |-> c.runtime]
          /\ c.business # None /\ c.runtime # None
          /\ c.runtime \in [qps : Nat, burst : Nat, workers : Nat]
    /\ Fallback \in [qps : Nat \ {0}, burst : Nat \ {0}, namespaceWorkers : Nat \ {0},
                      serviceAccountWorkers : Nat \ {0}]
    /\ Namespaces \cap ServiceAccounts = {}

VARIABLES
    configMap,      \* the ConfigMap in the informer cache
    edits,          \* number of its versions so far
    faults,         \* number of failed API calls and restarts so far
    startedAt,      \* number of versions when the process started
    requested,      \* the configuration queue holds the ConfigMap's request
    pc,             \* where Reconcile is
    object,         \* the version it works on
    todo,           \* objects of the list it has not sent yet
    current,        \* Store.current
    valid,          \* Store.valid
    tuning,         \* kubeclient.Runtime
    lastRejection,  \* the rejection reported last
    pendingFanout,  \* ConfigurationReconciler.pendingFanout
    warned,         \* versions a Warning event was recorded for, in order
    notified,       \* the scheduler's configurationChanges holds its element
    schedulerSees,  \* business configuration the scheduler loaded last
    cached,         \* Namespaces and ServiceAccounts in the informer cache
    channel,        \* the two event channels
    queue,          \* requests in the resource controllers' queues
    working,        \* business configuration an object is being reconciled with
    served,         \* business configuration it was last reconciled with
    leader          \* this replica leads, so resource controllers run

cmVars == <<configMap, edits, startedAt>>
reconcilerVars == <<requested, pc, object, todo, lastRejection, pendingFanout, warned>>
storeVars == <<current, valid, tuning>>
schedulerVars == <<notified, schedulerSees>>
resourceVars == <<cached, channel, queue, working, served, leader>>
vars == <<cmVars, faults, reconcilerVars, storeVars, schedulerVars, resourceVars>>

-----------------------------------------------------------------------------
Objects == Namespaces \cup ServiceAccounts
Kinds == {"namespaces", "serviceAccounts"}
OfKind(kind) == IF kind = "namespaces" THEN Namespaces ELSE ServiceAccounts

Businesses == {c.business : c \in Configurations}
NoConfiguration == [business |-> None, runtime |-> None]

\* A ConfigMap: missing, one that Parse rejects, or one that it accepts.
Missing == [kind |-> "missing", config |-> NoConfiguration, version |-> 0]
ConfigMaps(version) ==
    [kind : {"valid"}, config : Configurations, version : {version}]
        \cup IF Rejections
             THEN {Missing, [kind |-> "invalid", config |-> NoConfiguration,
                             version |-> version]}
             ELSE {}

AnyConfigMap == {Missing} \cup UNION {ConfigMaps(version) : version \in 1..MaxEdits}

\* lastRejection: nothing, a missing ConfigMap, or the version of an invalid one.
NoRejection == 0
MissingRejection == -1

Settings == [qps : Nat \ {0}, burst : Nat \ {0}, namespaceWorkers : Nat \ {0},
             serviceAccountWorkers : Nat \ {0}]
Tunings == [current : Settings, desired : Settings,
            limiter : [qps : Nat \ {0}, burst : Nat \ {0}]]

Pcs == {"idle", "get", "parse", "apply", "notify", "fanout",
        "sendNamespaces", "listServiceAccounts", "sendServiceAccounts"}

\* Types; the event channels hold objects of their kind, at most Buffer of them.
TypeOK ==
    /\ configMap \in AnyConfigMap
    /\ edits \in 0..MaxEdits
    /\ faults \in 0..MaxFaults
    /\ requested \in BOOLEAN
    /\ pc \in Pcs
    /\ object \in AnyConfigMap
    /\ todo \subseteq Objects
    /\ current \in Configurations \cup {NoConfiguration}
    /\ valid \in BOOLEAN
    /\ tuning \in Tunings
    /\ startedAt \in 0..MaxEdits
    /\ lastRejection \in -1..MaxEdits
    /\ pendingFanout \in BOOLEAN
    /\ warned \in Seq(1..MaxEdits)
    /\ notified \in BOOLEAN
    /\ schedulerSees \in Businesses \cup {None}
    /\ cached \subseteq Objects
    /\ channel \in [Kinds -> Seq(Objects)]
    /\ \A kind \in Kinds : /\ channel[kind] \in Seq(OfKind(kind))
                           /\ Len(channel[kind]) <= Buffer
    /\ queue \subseteq Objects
    /\ working \in [Objects -> Businesses \cup {None}]
    /\ served \in [Objects -> Businesses \cup {None}]
    /\ leader \in BOOLEAN

-----------------------------------------------------------------------------
(* Client tuning (internal/kubeclient)                                      *)

\* Settings.resolve; with overrides that Parse accepts and a valid fallback it
\* returns no error.
Resolve(overrides) ==
    LET override(value, otherwise) == IF value # 0 THEN value ELSE otherwise IN
    [qps |-> override(overrides.qps, Fallback.qps),
     burst |-> override(overrides.burst, Fallback.burst),
     namespaceWorkers |-> override(overrides.workers, Fallback.namespaceWorkers),
     serviceAccountWorkers |-> override(overrides.workers, Fallback.serviceAccountWorkers)]

Rate(settings) == [qps |-> settings.qps, burst |-> settings.burst]

\* Mutant: the process starts with the settings of its command line.
BootstrapFallback(cm) == [current |-> Fallback, desired |-> Fallback, limiter |-> Rate(Fallback)]

\* Bootstrap and NewRuntime: a missing or invalid ConfigMap means the fallback.
Bootstrap(cm) ==
    LET settings == IF cm.kind = "valid" THEN Resolve(cm.config.runtime) ELSE Fallback
    IN  [current |-> settings, desired |-> settings, limiter |-> Rate(settings)]

\* Runtime.Apply: the rate changes in place, the workers stay until a restart.
Retuned(t, overrides) ==
    LET next == Resolve(overrides) IN
    [current |-> [t.current EXCEPT !.qps = next.qps, !.burst = next.burst],
     desired |-> next,
     limiter |-> IF Rate(next) # Rate(t.current) THEN Rate(next) ELSE t.limiter]

Init ==
    /\ configMap = Missing /\ edits = 0 /\ faults = 0
    /\ requested = FALSE /\ pc = "idle" /\ object = Missing /\ todo = {}
    /\ current = NoConfiguration /\ valid = FALSE
    /\ tuning = Bootstrap(configMap) /\ startedAt = 0
    /\ lastRejection = NoRejection /\ pendingFanout = FALSE /\ warned = <<>>
    /\ notified = FALSE /\ schedulerSees = None
    /\ cached = {} /\ queue = {}
    /\ channel = [kind \in Kinds |-> <<>>]
    /\ working = [o \in Objects |-> None] /\ served = [o \in Objects |-> None]
    /\ leader = FALSE

-----------------------------------------------------------------------------
(* The cluster, the watches and the leader election.                        *)

\* The watch delivers another version of the ConfigMap.
EditConfigMap(cm) ==
    /\ edits < MaxEdits
    /\ cm \in ConfigMaps(edits + 1)
    /\ cm # configMap
    /\ configMap' = cm
    /\ edits' = edits + 1
    /\ requested' = TRUE
    /\ UNCHANGED <<faults, startedAt, pc, object, todo, lastRejection,
                   pendingFanout, warned, storeVars, schedulerVars, resourceVars>>

\* A Namespace or ServiceAccount appears in the cache and its Create event puts
\* it on its controller's queue.
Create(o) ==
    /\ o \notin cached
    /\ cached' = cached \cup {o}
    /\ queue' = queue \cup {o}
    /\ UNCHANGED <<cmVars, faults, reconcilerVars, storeVars, schedulerVars, channel,
                   working, served, leader>>

Elected ==
    /\ ~leader
    /\ leader' = TRUE
    /\ UNCHANGED <<cmVars, faults, reconcilerVars, storeVars, schedulerVars, cached,
                   channel, queue, working, served>>

\* The process ends and starts again: the tuning is read from the ConfigMap, the rest
\* of its memory is empty, and the first lists of the informers put every object on
\* its queue.
Restart ==
    /\ faults < MaxFaults
    /\ faults' = faults + 1 /\ startedAt' = edits
    /\ tuning' = Bootstrap(configMap)
    /\ requested' = (configMap.kind # "missing")
    /\ pc' = "idle" /\ object' = Missing /\ todo' = {}
    /\ current' = NoConfiguration /\ valid' = FALSE
    /\ lastRejection' = NoRejection /\ pendingFanout' = FALSE /\ warned' = <<>>
    /\ notified' = FALSE /\ schedulerSees' = None
    /\ queue' = cached /\ channel' = [kind \in Kinds |-> <<>>]
    /\ working' = [o \in Objects |-> None] /\ leader' = FALSE
    /\ UNCHANGED <<configMap, edits, cached, served>>

-----------------------------------------------------------------------------
(* ConfigurationReconciler.Reconcile                                        *)

Finish(again) ==
    /\ pc' = "idle"
    /\ object' = Missing
    /\ todo' = {}
    /\ requested' = (requested \/ again)

\* Mutant: the error of a failing read is dropped.
ReadErrorDropped ==
    /\ faults < MaxFaults
    /\ faults' = faults + 1
    /\ Finish(FALSE)
    /\ UNCHANGED <<cmVars, lastRejection, pendingFanout, warned, storeVars,
                   schedulerVars, resourceVars>>

\* A failing read is returned as an error and the request is queued again.
ReadFails ==
    /\ faults < MaxFaults
    /\ faults' = faults + 1
    /\ Finish(TRUE)
    /\ UNCHANGED <<cmVars, lastRejection, pendingFanout, warned, storeVars,
                   schedulerVars, resourceVars>>

Begin ==
    /\ pc = "idle"
    /\ requested
    /\ requested' = FALSE
    /\ pc' = "get"
    /\ UNCHANGED <<cmVars, faults, object, todo, lastRejection, pendingFanout, warned,
                   storeVars, schedulerVars, resourceVars>>

GetFails == pc = "get" /\ ReadFails

\* A missing ConfigMap only makes the state of the configuration invalid.
GetMissing ==
    /\ pc = "get"
    /\ configMap.kind = "missing"
    /\ valid' = FALSE
    /\ lastRejection' = MissingRejection
    /\ Finish(FALSE)
    /\ UNCHANGED <<cmVars, faults, pendingFanout, warned, current, tuning,
                   schedulerVars, resourceVars>>

GetConfigMap ==
    /\ pc = "get"
    /\ configMap.kind # "missing"
    /\ object' = configMap
    /\ pc' = "parse"
    /\ UNCHANGED <<cmVars, faults, requested, todo, lastRejection, pendingFanout,
                   warned, storeVars, schedulerVars, resourceVars>>

\* Mutant: the reported version is not remembered.
RejectForgetful ==
    /\ pc = "parse"
    /\ object.kind = "invalid"
    /\ valid' = FALSE
    /\ warned' = Append(warned, object.version)
    /\ Finish(FALSE)
    /\ UNCHANGED <<cmVars, faults, lastRejection, pendingFanout, current, tuning,
                   schedulerVars, resourceVars>>

\* A version that Parse or RuntimeUpdater.Apply rejects is reported once.
Reject ==
    /\ pc = "parse"
    /\ object.kind = "invalid"
    /\ valid' = FALSE
    /\ warned' = IF lastRejection = object.version THEN warned
                 ELSE Append(warned, object.version)
    /\ lastRejection' = object.version
    /\ Finish(FALSE)
    /\ UNCHANGED <<cmVars, faults, pendingFanout, current, tuning, schedulerVars,
                   resourceVars>>

\* The tuning takes effect before the store changes.
ApplyRuntime ==
    /\ pc = "parse"
    /\ object.kind = "valid"
    /\ tuning' = Retuned(tuning, object.config.runtime)
    /\ lastRejection' = NoRejection
    /\ pc' = "apply"
    /\ UNCHANGED <<cmVars, faults, requested, object, todo, pendingFanout, warned,
                   current, valid, schedulerVars, resourceVars>>

\* Mutant: an update decides alone whether a fan-out is pending.
ApplyForgetsFanout ==
    /\ pc = "apply"
    /\ valid' = TRUE
    /\ current' = object.config
    /\ LET businessChanged == current.business # object.config.business IN
       /\ pendingFanout' = businessChanged
       /\ pc' = IF businessChanged THEN "notify" ELSE "fanout"
    /\ UNCHANGED <<cmVars, faults, requested, object, todo, lastRejection, warned,
                   tuning, schedulerVars, resourceVars>>

\* Mutant: the scheduler is not notified while a fan-out is still pending.
ApplyNotifiesOnce ==
    /\ pc = "apply"
    /\ valid' = TRUE
    /\ current' = object.config
    /\ LET businessChanged == current.business # object.config.business IN
       /\ pendingFanout' = (pendingFanout \/ businessChanged)
       /\ pc' = IF businessChanged /\ ~pendingFanout THEN "notify" ELSE "fanout"
    /\ UNCHANGED <<cmVars, faults, requested, object, todo, lastRejection, warned,
                   tuning, schedulerVars, resourceVars>>

\* Mutant: the store takes configurations with equal business parts for equal.
ApplyComparesBusiness ==
    /\ pc = "apply"
    /\ valid' = TRUE
    /\ LET businessChanged == current.business # object.config.business IN
       /\ current' = IF businessChanged THEN object.config ELSE current
       /\ pendingFanout' = (pendingFanout \/ businessChanged)
       /\ pc' = IF businessChanged THEN "notify" ELSE "fanout"
    /\ UNCHANGED <<cmVars, faults, requested, object, todo, lastRejection, warned,
                   tuning, schedulerVars, resourceVars>>

\* Store.Apply replaces the snapshot unless it is equal; a business change makes
\* a fan-out pending and has the scheduler notified.
Apply ==
    /\ pc = "apply"
    /\ valid' = TRUE
    /\ current' = object.config
    /\ LET businessChanged == current.business # object.config.business IN
       /\ pendingFanout' = (pendingFanout \/ businessChanged)
       /\ pc' = IF businessChanged THEN "notify" ELSE "fanout"
    /\ UNCHANGED <<cmVars, faults, requested, object, todo, lastRejection, warned,
                   tuning, schedulerVars, resourceVars>>

NotifyConfigurationChanged ==
    /\ pc = "notify"
    /\ notified' = TRUE
    /\ pc' = "fanout"
    /\ UNCHANGED <<cmVars, faults, requested, object, todo, lastRejection,
                   pendingFanout, warned, storeVars, schedulerSees, resourceVars>>

NoFanout ==
    /\ pc = "fanout"
    /\ ~pendingFanout
    /\ Finish(FALSE)
    /\ UNCHANGED <<cmVars, faults, lastRejection, pendingFanout, warned, storeVars,
                   schedulerVars, resourceVars>>

\* PublishAllNamespaces and PublishAllServiceAccounts list the cache ...
ListNamespaces ==
    /\ pc = "fanout"
    /\ pendingFanout
    /\ todo' = cached \cap Namespaces
    /\ pc' = "sendNamespaces"
    /\ UNCHANGED <<cmVars, faults, requested, object, lastRejection, pendingFanout,
                   warned, storeVars, schedulerVars, resourceVars>>

ListServiceAccounts ==
    /\ pc = "listServiceAccounts"
    /\ todo' = cached \cap ServiceAccounts
    /\ pc' = "sendServiceAccounts"
    /\ UNCHANGED <<cmVars, faults, requested, object, lastRejection, pendingFanout,
                   warned, storeVars, schedulerVars, resourceVars>>

ListFails ==
    /\ \/ pc = "fanout" /\ pendingFanout
       \/ pc = "listServiceAccounts"
    /\ ReadFails

\* ... and send one event per object, waiting while the channel is full.
Send(kind, o) ==
    /\ pc = IF kind = "namespaces" THEN "sendNamespaces" ELSE "sendServiceAccounts"
    /\ o \in todo
    /\ Len(channel[kind]) < Buffer
    /\ channel' = [channel EXCEPT ![kind] = Append(@, o)]
    /\ todo' = todo \ {o}
    /\ UNCHANGED <<cmVars, faults, requested, pc, object, lastRejection, pendingFanout,
                   warned, storeVars, schedulerVars, cached, queue, working, served,
                   leader>>

NamespacesSent ==
    /\ pc = "sendNamespaces"
    /\ todo = {}
    /\ pc' = "listServiceAccounts"
    /\ UNCHANGED <<cmVars, faults, requested, object, todo, lastRejection,
                   pendingFanout, warned, storeVars, schedulerVars, resourceVars>>

FanoutDone ==
    /\ pc = "sendServiceAccounts"
    /\ todo = {}
    /\ pendingFanout' = FALSE
    /\ Finish(FALSE)
    /\ UNCHANGED <<cmVars, faults, lastRejection, warned, storeVars, schedulerVars,
                   resourceVars>>

-----------------------------------------------------------------------------
(* The receivers.                                                           *)

\* The scheduler takes the notification and loads the store.
SchedulerLoads ==
    /\ notified
    /\ notified' = FALSE
    /\ schedulerSees' = current.business
    /\ UNCHANGED <<cmVars, faults, reconcilerVars, storeVars, resourceVars>>

\* The channel source, which runs on followers too, queues a received object.
Receive(kind) ==
    /\ channel[kind] # <<>>
    /\ queue' = queue \cup {Head(channel[kind])}
    /\ channel' = [channel EXCEPT ![kind] = Tail(@)]
    /\ UNCHANGED <<cmVars, faults, reconcilerVars, storeVars, schedulerVars, cached,
                   working, served, leader>>

\* A resource controller takes a request; it is dropped while no configuration
\* is loaded, and otherwise works with the snapshot of this moment.
ReconcileBegin(o) ==
    /\ leader
    /\ o \in queue
    /\ working[o] = None
    /\ queue' = queue \ {o}
    /\ working' = [working EXCEPT ![o] = current.business]
    /\ UNCHANGED <<cmVars, faults, reconcilerVars, storeVars, schedulerVars, cached,
                   channel, served, leader>>

ReconcileEnd(o) ==
    /\ working[o] # None
    /\ served' = [served EXCEPT ![o] = working[o]]
    /\ working' = [working EXCEPT ![o] = None]
    /\ UNCHANGED <<cmVars, faults, reconcilerVars, storeVars, schedulerVars, cached,
                   channel, queue, leader>>

\* A failing reconciliation is queued again.
ReconcileFails(o) ==
    /\ working[o] # None
    /\ faults < MaxFaults
    /\ faults' = faults + 1
    /\ working' = [working EXCEPT ![o] = None]
    /\ queue' = queue \cup {o}
    /\ UNCHANGED <<cmVars, reconcilerVars, storeVars, schedulerVars, cached, channel,
                   served, leader>>

-----------------------------------------------------------------------------
ReconcilerStep ==
    \/ Begin \/ GetMissing \/ GetConfigMap \/ Reject \/ ApplyRuntime \/ Apply
    \/ NotifyConfigurationChanged \/ NoFanout \/ ListNamespaces
    \/ \E kind \in Kinds, o \in Objects : Send(kind, o)
    \/ NamespacesSent \/ ListServiceAccounts \/ FanoutDone

Next ==
    \/ \E cm \in ConfigMaps(edits + 1) : EditConfigMap(cm)
    \/ \E o \in Objects : Create(o)
    \/ Elected \/ Restart
    \/ ReconcilerStep
    \/ GetFails \/ ListFails
    \/ SchedulerLoads
    \/ \E kind \in Kinds : Receive(kind)
    \/ \E o \in Objects : ReconcileBegin(o) \/ ReconcileEnd(o) \/ ReconcileFails(o)

Spec == Init /\ [][Next]_vars

\* Every controller that can run does; faults are finitely many (MaxFaults), and
\* a leader is elected at last.
Fairness ==
    /\ WF_vars(ReconcilerStep)
    /\ WF_vars(Elected)
    /\ WF_vars(SchedulerLoads)
    /\ \A kind \in Kinds : WF_vars(Receive(kind))
    /\ \A o \in Objects : WF_vars(ReconcileBegin(o)) /\ WF_vars(ReconcileEnd(o))

FairSpec == Spec /\ Fairness

-----------------------------------------------------------------------------
(* Properties                                                               *)

InChannel(o) == \E kind \in Kinds : \E i \in 1..Len(channel[kind]) : channel[kind][i] = o

\* No Namespace or ServiceAccount is forgotten: one that was not reconciled with
\* the applied configuration is on its way to be, or a fan-out is remembered as
\* pending, across failures in the middle of it, later tuning updates and objects
\* that appear between the two lists.
FanoutRemembered ==
    current.business # None => \A o \in cached :
        \/ served[o] = current.business /\ working[o] \in {None, current.business}
        \/ working[o] = current.business
        \/ o \in queue
        \/ InChannel(o)
        \/ pendingFanout

\* Notifications coalesce without being lost: when none is waiting or about to
\* be sent, the scheduler has loaded the configuration that is in the store.
SchedulerInformed ==
    ~notified /\ pc # "notify" => schedulerSees = current.business

\* The bucket of the business client has the rate in force, and once a configuration
\* is stored this rate and the desired settings are those it asks for, whenever no
\* reconciliation is between RuntimeUpdater.Apply and Store.Apply.
TuningInStep ==
    /\ tuning.limiter = Rate(tuning.current)
    /\ pc # "apply" /\ current # NoConfiguration =>
          /\ tuning.desired = Resolve(current.runtime)
          /\ tuning.limiter = Rate(tuning.desired)

\* One restart is enough for a new number of workers: as long as the ConfigMap is the
\* valid one the process started with, nothing it asks for needs another restart.
OneRestartSuffices ==
    startedAt = edits /\ configMap.kind = "valid"
        => tuning.current = Resolve(configMap.config.runtime)

\* A process reports a rejected version by one Warning event, however often it is
\* reconciled.
WarnedOnce ==
    \A i, j \in 1..Len(warned) : warned[i] = warned[j] => i = j

\* A valid ConfigMap that stays finally governs every Namespace and ServiceAccount, and
\* the scheduler, even after a failure or a restart half way through the fan-out and
\* whatever the version before it was.
ValidConfigServed ==
    \A b \in Businesses :
        <>[](configMap.kind = "valid" /\ configMap.config.business = b)
            => <>[](schedulerSees = b /\ \A o \in cached : served[o] = b)

\* The documented promise: after a publishing error the mark is kept and the retry
\* goes on publishing, so a fan-out that is pending is completed in the end.
PendingFanoutCompletes == pendingFanout ~> ~pendingFanout
=============================================================================
