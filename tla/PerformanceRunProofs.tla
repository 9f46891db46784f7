------------------------ MODULE PerformanceRunProofs ------------------------
(***************************************************************************)
(* Proofs about PerformanceRun for any number of prepared Namespaces,      *)
(* workers, command lines and crashes of the controller.  The calls of     *)
(* runParallel are those of RunParallel, so that its theorems hold of the  *)
(* run; the tracker misses no completion; a completed clean-up leaves      *)
(* nothing behind; a success is earned; and without a crash what the       *)
(* expiry phase counts is the refresh that the clock brought.              *)
(***************************************************************************)
EXTENDS PerformanceRun, RunParallelProofs, WellFoundedInduction

-----------------------------------------------------------------------------
(* The calls of runParallel                                                 *)

\* Every step of the run is a step of RunParallel or leaves its variables alone.
LEMMA PoolStep == [Next]_vars => [PoolNext]_poolVars
<1> SUFFICES ASSUME Next \/ UNCHANGED vars PROVE PoolNext \/ UNCHANGED poolVars
  OBVIOUS
<1>1. CASE UNCHANGED vars
  BY <1>1 DEF vars
<1>2. CASE Environment
  BY <1>2 DEF Environment, ControllerStarts, ControllerStops, ControllerRestarts,
              CredentialRefreshes, WritesSecret, PatchesAccounts, PatchesInjected,
              AccountAppears, NamespaceVanishes
<1>3. CASE Informers
  BY <1>3 DEF Informers, SecretDelivered, AccountsDelivered, InjectedDelivered
<1>4. CASE Injecting
  <2>1. CASE \/ CreatesAccount \/ MarksAccount \/ CreatesNamespace \/ MarksNamespace
             \/ BindsWriter \/ MarksPrerequisites \/ LabelsAccount
    BY <2>1 DEF CreatesAccount, MarksAccount, CreatesNamespace, MarksNamespace, BindsWriter,
                MarksPrerequisites, LabelsAccount
  <2>2. ASSUME NEW a \in LateAccounts, EnsuresAccount(a) PROVE PoolNext \/ UNCHANGED poolVars
    BY <2>2 DEF EnsuresAccount
  <2>3. CASE MakerFails \/ CreationsEnd
    BY <2>3 DEF MakerFails, CreationsEnd
  <2>4. CASE \/ InjectionTriggered \/ InjectionMissed \/ InjectionReady
             \/ InjectionTimesOut
    BY <2>4 DEF InjectionTriggered, InjectionMissed, InjectionReady, InjectionTimesOut,
                InjectorEnds
  <2> QED
    BY <1>4, <2>1, <2>2, <2>3, <2>4 DEF Injecting
<1>5. CASE Wipe
  <2>1. Present \in SUBSET Items
    BY RunAssumption DEF Present
  <2> QED
    BY <1>5, <2>1 DEF Wipe, PoolNext
<1>6. CASE Prepare
  <2>1. Targets \in SUBSET Items /\ {n \in Targets : secret[n] # 0} \in SUBSET Items
    BY RunAssumption DEF All
  <2> QED
    BY <1>6, <2>1 DEF Prepare, PoolNext
<1>7. CASE \/ ScaleDown \/ Drain \/ Validate \/ Wiped \/ PoolSucceeds \/ Configure
           \/ Observe \/ ScaleUp \/ PhaseWaited \/ StartExpiry \/ Advance \/ Collect
           \/ Verify \/ Fails \/ FailsInjected \/ Abort
  BY <1>7 DEF ScaleDown, Drain, Validate, Wiped, PoolSucceeds, Configure, Observe,
              ScaleUp, PhaseWaited, StartExpiry, Advance, Collect, Verify, Fails,
              FailsInjected, Abort
<1>8. ASSUME NEW w \in Workers, Operation(w) PROVE PoolNext \/ UNCHANGED poolVars
  BY <1>8 DEF Operation, PoolNext
<1>9. CASE PoolRuns
  BY <1>9 DEF PoolRuns, PoolNext
<1> QED
  BY <1>1, <1>2, <1>3, <1>4, <1>5, <1>6, <1>7, <1>8, <1>9 DEF Next, Main

\* What the run does with its pool is a behaviour of runParallel, one call after the
\* other: no call starts while one is in progress.
THEOREM RunCallsRunParallel == Spec => PoolSpec
<1>1. Init => PoolInit
  BY DEF Init
<1> QED
  BY <1>1, PoolStep, PTL DEF Spec, PoolSpec

\* A call of runParallel in a run (prepareWorkload, resetManagedSecrets, cleanupRun)
\* fails with the error that stopped it, never with a cancellation this error caused.
THEOREM RunRootCauseCorrect == Spec => []RootCause
BY RunCallsRunParallel, RootCauseCorrect, PTL

\* Each call of runParallel in a run keeps the promise of ParallelBatch: when it
\* returns nil every Namespace it was given has been dealt with, each exactly once.
THEOREM RunBatchCorrect == Spec => BatchImplemented
BY RunCallsRunParallel, RunParallelImplementsBatch, PTL

\* A call that returned nil has completed every item.
NilIsAll == result = "nil" => done = batch

LEMMA NilIsAllNext == NilIsAll /\ PoolInv /\ [PoolNext]_poolVars => NilIsAll'
<1> SUFFICES ASSUME NilIsAll, PoolInv, [PoolNext]_poolVars PROVE NilIsAll'
  OBVIOUS
<1>1. [Batch!BatchNext]_(Batch!batchVars)
  BY BatchStep
<1> QED
  BY <1>1 DEF NilIsAll, Batch!BatchNext, Batch!batchVars, Batch!Begin, Batch!Complete,
              Batch!End

\* The invariant of the pool, in a run.
PoolFacts == PoolInv /\ NilIsAll

LEMMA PoolFactsCorrect == Spec => []PoolFacts
<1>1. PoolInit => NilIsAll
  BY DEF PoolInit, NilIsAll
<1>2. PoolSpec => []PoolFacts
  BY <1>1, NilIsAllNext, PoolInvariant, PTL DEF PoolSpec, PoolFacts
<1> QED
  BY <1>2, RunCallsRunParallel, PTL

-----------------------------------------------------------------------------
(* What each part of the run leaves alone                                   *)

LEMMA EnvironmentFrame ==
    Environment => UNCHANGED <<mainVars, configured, replicas, phaseVars, mutation,
                               injectionVars, poolVars>>
BY DEF Environment, ControllerStarts, ControllerStops, ControllerRestarts,
       CredentialRefreshes, WritesSecret, PatchesAccounts, PatchesInjected, AccountAppears,
       NamespaceVanishes, clusterVars, controllerVars, trackerVars

LEMMA InformersFrame ==
    Informers => UNCHANGED <<mainVars, clusterVars, controllerVars, phase, injectionVars,
                             poolVars>>
BY DEF Informers, SecretDelivered, ObserveSecret, AccountsDelivered, InjectedDelivered,
       phaseVars

LEMMA InjectingFrame ==
    Injecting => UNCHANGED <<mainVars, secret, refs, configured, controllerVars, pending,
                             phaseVars, poolVars>>
<1> SUFFICES ASSUME Injecting
             PROVE  UNCHANGED <<mainVars, secret, refs, configured, controllerVars, pending,
                                phaseVars, poolVars>>
  OBVIOUS
<1> USE DEF clusterVars, trackerVars
<1>1. CASE CreatesAccount \/ MarksAccount \/ CreatesNamespace \/ MarksNamespace
  BY <1>1 DEF CreatesAccount, MarksAccount, CreatesNamespace, MarksNamespace
<1>2. CASE BindsWriter \/ MarksPrerequisites \/ LabelsAccount
  BY <1>2 DEF BindsWriter, MarksPrerequisites, LabelsAccount
<1>3. CASE \E a \in LateAccounts : EnsuresAccount(a)
  BY <1>3 DEF EnsuresAccount
<1>4. CASE MakerFails \/ CreationsEnd
  BY <1>4 DEF MakerFails, CreationsEnd
<1>5. CASE InjectionTriggered \/ InjectionMissed \/ InjectionReady \/ InjectionTimesOut
  BY <1>5 DEF InjectionTriggered, InjectionMissed, InjectionReady, InjectionTimesOut,
              InjectorEnds
<1> QED
  BY <1>1, <1>2, <1>3, <1>4, <1>5 DEF Injecting

LEMMA MainFrame ==
    Main => UNCHANGED <<exists, secret, refs, writable, lateAccount, late, running, token,
                        restarts, makerVars>>
BY DEF Main, ScaleDown, Drain, Validate, Wipe, Wiped, Prepare, PoolSucceeds, Configure,
       Observe, ScaleUp, PhaseWaited, StartExpiry, Advance, Collect, Verify, Fails,
       FailsInjected, Abort, clusterVars, controllerVars, injectionVars

LEMMA OperationFrame ==
    ASSUME NEW w \in Workers, Operation(w)
    PROVE  /\ UNCHANGED <<mainVars, configured, lateAccount, late, controllerVars,
                          trackerVars, injectionVars>>
           /\ stage \in PoolStages /\ worker[w] = "working"
           /\ \/ OperationSucceeds(w) /\ Effect(job[w])
              \/ UNCHANGED done /\ UNCHANGED batch /\ Effect(job[w])
              \/ UNCHANGED <<done, batch, exists, secret, refs, writable>>
BY DEF Operation, OperationSucceeds, OperationFails

LEMMA PoolRunsFrame ==
    PoolRuns => UNCHANGED <<mainVars, clusterVars, controllerVars, trackerVars,
                            injectionVars, batch, done>>
BY DEF PoolRuns, PoolInternal, Hand, FeederEnds, Report, Cancel, WorkerEnds, Return,
       Interrupt

-----------------------------------------------------------------------------
(* Counting                                                                 *)

LEMMA CountFacts ==
    ASSUME NEW map, Count(map) = NamespaceCount
    PROVE  \A n \in Targets : map[n] # 0
<1> DEFINE T == {n \in Targets : map[n] # 0}
<1>1. IsFiniteSet(Targets) /\ Cardinality(Targets) = NamespaceCount
  BY FS_Interval, RunAssumption DEF Targets
<1>2. Cardinality(T) = Cardinality(Targets) /\ T \subseteq Targets
  BY <1>1 DEF Count
<1>3. T = Targets
  <2> HIDE DEF T
  <2> QED
    BY <1>1, <1>2, FS_Subset
<1> QED
  BY <1>3

\* Nothing is counted when the tracker starts.
LEMMA CountNothing == Count([n \in Targets |-> 0]) = 0
<1>1. {n \in Targets : [m \in Targets |-> 0][n] # 0} = {}
  OBVIOUS
<1> QED
  BY <1>1, FS_EmptySet DEF Count

LEMMA Least ==
    ASSUME NEW T, T \subseteq Nat, T # {}
    PROVE  \E n \in T : \A m \in T : n <= m
<1> DEFINE R == {p \in Nat \X Nat : p[1] < p[2]}
<1>1. IsWellFoundedOn(R, Nat)
  BY NatLessThanWellFounded DEF OpToRel
<1>2. PICK n \in T : \A m \in T : <<m, n>> \notin R
  <2> HIDE DEF R
  <2> QED
    BY <1>1, WFMin
<1>3. \A m \in T : ~(m < n)
  BY <1>2
<1> QED
  BY <1>3

\* The threshold of the injection is at least one Namespace.
LEMMA ThresholdPositive == Threshold \in Nat /\ Threshold >= 1
<1>1. NamespaceCount \in Nat /\ NamespaceCount >= 1
      /\ TriggerPercent \in Nat /\ TriggerPercent >= 1
  BY RunAssumption
<1>2. PICK x \in Nat : x = NamespaceCount * TriggerPercent
  BY <1>1
<1>3. x >= 1
  BY <1>1, <1>2
<1>4. (x + 99) \div 100 \in Nat /\ (x + 99) \div 100 >= 1
  BY <1>3
<1> QED
  BY <1>2, <1>4 DEF Threshold

\* The trigger takes a Namespace that is refreshed.
LEMMA Triggered ==
    ASSUME InjectionTriggered
    PROVE  \E c \in Targets :
              /\ recorded[c] # 0
              /\ mutation' = [active |-> TRUE, existing |-> IF options.namespaceOnly THEN 0 ELSE c,
                              expected |-> recorded[c], accountCreated |-> FALSE,
                              accountReady |-> FALSE, created |-> FALSE,
                              prerequisites |-> FALSE, secret |-> 0, ready |-> {},
                              stale |-> {}, done |-> FALSE]
<1> DEFINE T == {n \in Targets : recorded[n] # 0}
           First(n) == recorded[n] # 0 /\ \A m \in Targets : recorded[m] # 0 => n <= m
<1>1. T # {}
  <2>1. Cardinality(T) >= 1
    BY ThresholdPositive, RunAssumption DEF InjectionTriggered, Count
  <2> QED
    BY <2>1, FS_EmptySet
<1>2. \E n \in Targets : First(n)
  <2>1. T \subseteq Nat
    BY RunAssumption DEF Targets
  <2>2. PICK n \in T : \A m \in T : n <= m
    <3> HIDE DEF T
    <3> QED
      BY <1>1, <2>1, Least
  <2> QED
    BY <2>2
<1>3. PICK c : c = CHOOSE n \in Targets : First(n)
  OBVIOUS
<1>4. c \in Targets /\ First(c)
  BY <1>2, <1>3
<1>5. mutation' = [NoMutation EXCEPT !.active = TRUE, !.expected = recorded[c],
                       !.existing = IF options.namespaceOnly THEN 0 ELSE c]
  BY <1>3 DEF InjectionTriggered
<1> QED
  BY <1>4, <1>5 DEF NoMutation

-----------------------------------------------------------------------------
(* The inductive invariant                                                  *)

\* The parts of runBenchmark: the dataset is set up, the controller is observed in
\* one phase and then in the other, and what it created is cleaned up.
DatasetStages == {"prepare", "preparing", "reset", "resetting", "configure", "observe"}
FirstStages == {"scaleUp", "waitInitial", "ready", "expiry"}
SecondStages == {"advance", "waitExpiry", "abort", "collect", "verify"}
ObservedStages == FirstStages \cup SecondStages
CleanupStages == {"scaleDown", "drain", "wipe", "wiping", "wiped", "cleaned", "returned"}
Stages == CleanupStages \cup {"validate"} \cup DatasetStages \cup ObservedStages

Known == 0..token
AccountType == [exists : BOOLEAN, labelled : BOOLEAN, ref : BOOLEAN]
MutationType ==
    [active : BOOLEAN, existing : 0..NamespaceCount, expected : Nat,
     accountCreated : BOOLEAN, accountReady : BOOLEAN, created : BOOLEAN,
     prerequisites : BOOLEAN, secret : Nat, ready : SUBSET LateAccounts,
     stale : SUBSET Nat, done : BOOLEAN]

MainType ==
    /\ options \in Commands /\ stage \in Stages
    /\ ending \in BOOLEAN /\ failed \in BOOLEAN /\ success \in BOOLEAN

ControllerType ==
    /\ replicas \in 0..1 /\ running \in BOOLEAN /\ due \in BOOLEAN
    /\ token \in Nat /\ restarts \in Nat

ClusterType ==
    /\ exists \in [All -> {"absent", "active", "terminating"}]
    /\ secret \in [All -> Known]
    /\ refs \subseteq Targets /\ writable \subseteq All /\ configured \subseteq All
    /\ lateAccount \in AccountType /\ late \in [LateAccounts -> AccountType]

TrackerType ==
    /\ pending \in [All -> SUBSET Known]
    /\ phase \in {"none", "initial", "expiry"} /\ phaseDone \in BOOLEAN
    /\ baseline \in [Targets -> Known] /\ recorded \in [Targets -> Known]
    /\ patched \subseteq Targets
    /\ mutation \in MutationType /\ mutation.stale \subseteq Known

InjectionType ==
    /\ injector \in {"none", "trigger", "creating", "waiting", "sent", "collected"}
    /\ outcome \in {None, "ok", "error"}
    /\ accountMaker \in {"off", "create", "mark", "done", "error"}
    /\ namespaceMaker \in {"off", "create", "mark", "bind", "ensure", "update", "done",
                           "error"}
    /\ todo \subseteq LateAccounts
    /\ got \in {None} \cup [name : LateAccounts, account : AccountType]

Shapes == MainType /\ ControllerType /\ ClusterType /\ TrackerType /\ InjectionType

\* Where the goroutines are, and the tracker's phase, by the stage of runBenchmark.
Ended == {"off", "done", "error"}
PlacesOK ==
    /\ ending => stage \in CleanupStages
    /\ stage = "cleaned" => ending
    /\ stage \in FirstStages => phase = "initial"
    /\ stage \in SecondStages => phase = "expiry"
    /\ stage \notin ObservedStages /\ phase # "none" => ending \/ stage = "returned"
    /\ injector \in {"trigger", "creating", "waiting", "sent"} =>
          stage \in SecondStages \ {"verify"} /\ options.inject
    /\ outcome # None => injector \in {"sent", "collected"}
    /\ injector = "collected" => stage = "verify" \/ ending \/ stage = "returned"
    /\ injector # "creating" => accountMaker \in Ended /\ namespaceMaker \in Ended
    /\ injector = "creating" => mutation.active
    /\ mutation.active => phase = "expiry"
    /\ stage = "cleaned" => Present = {}

\* A reference is that of an account that exists.
AccountsOK == \A a \in LateAccounts : late[a].ref => late[a].exists

\* The controller's token counts its starts, refreshes and crashes.
TokenOK ==
    /\ ~ending /\ stage \in {"scaleDown", "drain", "validate", "wipe", "wiping", "wiped"}
          => token = OldToken /\ ~due /\ restarts = 0
    /\ ~ending /\ stage = "scaleDown" => running /\ replicas = 1
    /\ ~ending /\ stage = "drain" => replicas = 0
    /\ ~ending /\ stage \in {"validate", "wipe", "wiping", "wiped"} =>
          replicas = 0 /\ ~running
    /\ stage \in DatasetStages \cup {"scaleUp"} =>
          /\ token = OldToken /\ ~due /\ restarts = 0
          /\ replicas = 0 /\ ~running
    /\ stage \in ObservedStages /\ running => token > OldToken
    /\ stage \in ObservedStages /\ ~running => token = OldToken /\ ~due /\ restarts = 0
    /\ stage \in ObservedStages \ {"scaleUp"} => replicas = 1
    /\ stage \in FirstStages \cup {"advance"} =>
          ~due /\ (running => token <= OldToken + 1 + restarts)
    /\ restarts <= MaxRestarts[options]
    /\ token <= OldToken + 2 + restarts
    /\ due \/ (replicas = 1 /\ ~running) => token <= OldToken + 1 + restarts

\* Before the controller starts no Secret is left of an earlier one.
DatasetOK ==
    /\ \A n \in All : exists[n] = "absent" => secret[n] = 0
    /\ stage \in DatasetStages => exists[Late] = "absent"
    /\ stage = "preparing" => batch \subseteq Targets
    /\ stage = "resetting" => \A n \in Targets : secret[n] # 0 => n \in batch \ done
    /\ stage \in {"configure", "observe"} => \A n \in Targets : secret[n] = 0

\* What is there of a Namespace, and what is on its way to the handlers, are versions of
\* the observed controller, the first the newest.
Arrived(n) ==
    /\ secret[n] # 0 => secret[n] > OldToken
    /\ \A g \in pending[n] : g > OldToken /\ (secret[n] # 0 => g <= secret[n])

\* What the handlers have seen of it is not newer, and what they count in the expiry
\* phase is newer than what they saw before.
Tracked(n) ==
    /\ baseline[n] # 0 => baseline[n] > OldToken
    /\ \A g \in pending[n] : baseline[n] <= g
    /\ secret[n] # 0 => baseline[n] <= secret[n]
    /\ recorded[n] # 0 => baseline[n] # 0
    /\ phase = "expiry" /\ recorded[n] # 0 => recorded[n] > baseline[n]

VersionsOK ==
    /\ stage \in ObservedStages =>
          /\ \A n \in All : Arrived(n)
          /\ \A n \in Targets : Tracked(n)
          /\ phaseDone \/ stage \in {"collect", "verify"} =>
                \A n \in Targets : recorded[n] # 0
    /\ stage \notin ObservedStages \cup {"returned"} /\ ~ending =>
          \A n \in Targets : baseline[n] = 0

\* A success stands for what the two phases saw.
SuccessOK ==
    /\ success => /\ ending \/ stage = "returned"
                  /\ ~failed
                  /\ \A n \in Targets : recorded[n] > baseline[n] /\ baseline[n] > OldToken
                  /\ stage = "returned" => options.keep \/ options.retain
    /\ failed => ending \/ stage = "returned"

\* Without a crash there are two generations, the second for the advanced clock, and
\* the injected Namespace exists only under the second.
RefreshOK ==
    /\ RefreshFollowsAdvance
    /\ stage \in ObservedStages /\ restarts = 0 =>
          /\ \A n \in Targets : baseline[n] \in {0, OldToken + 1}
          /\ exists[Late] # "absent" => mutation.active
          /\ mutation.active => token = OldToken + 2
          /\ secret[Late] \in {0, OldToken + 2} /\ pending[Late] \subseteq {OldToken + 2}

-----------------------------------------------------------------------------
(* Types                                                                    *)

LEMMA ShapesInit == Init => Shapes
<1> SUFFICES ASSUME Init PROVE Shapes
  OBVIOUS
<1> USE RunAssumption, PoolAssumption
<1>1. MainType /\ ControllerType /\ InjectionType
  <2>1. options \in Commands /\ ending = options.cleanupOnly
    BY DEF Init
  <2>2. options.cleanupOnly \in BOOLEAN
    BY <2>1
  <2>3. MainType
    BY <2>1, <2>2 DEF Init, MainType, Stages, CleanupStages
  <2>4. ControllerType
    <3>1. replicas \in 0..1 /\ token \in Nat /\ restarts \in Nat
      BY DEF Init, OldToken
    <3>2. running \in BOOLEAN /\ due \in BOOLEAN
      BY Zenon DEF Init
    <3> QED
      BY <3>1, <3>2 DEF ControllerType
  <2>5. InjectionType
    BY DEF Init, InjectionType
  <2> QED
    BY <2>3, <2>4, <2>5
<1>2. PICK left \in Leftovers :
          /\ exists = [n \in All |-> IF n \in left THEN "active" ELSE "absent"]
          /\ secret = [n \in All |-> IF n \in left THEN OldToken ELSE 0]
          /\ refs = left \cap Targets
          /\ writable = left /\ configured = left
          /\ late = [a \in LateAccounts |->
                        [exists |-> Late \in left, labelled |-> Late \in left, ref |-> Late \in left]]
  BY DEF Init
<1>3. ClusterType
  <2>1. token = 1 /\ lateAccount = NoAccount
    BY DEF Init, OldToken
  <2>2. left \subseteq All
    OBVIOUS
  <2>3. (Late \in left) \in BOOLEAN
    OBVIOUS
  <2>4. late \in [LateAccounts -> AccountType] /\ lateAccount \in AccountType
    BY <1>2, <2>1, <2>3 DEF AccountType, NoAccount
  <2> QED
    BY <1>2, <2>1, <2>2, <2>4 DEF ClusterType, Known, OldToken
<1>4. TrackerType
  <2>1. NoMutation \in MutationType
    BY DEF NoMutation, MutationType
  <2>2. mutation \in MutationType /\ mutation.stale \subseteq Known
    BY <2>1 DEF Init, NoMutation
  <2>3. 0 \in Known
    BY DEF Init, Known, OldToken
  <2> QED
    BY <2>2, <2>3 DEF Init, TrackerType
<1> QED
  BY <1>1, <1>3, <1>4 DEF Shapes

LEMMA MainTypeNext == MainType /\ [Next]_vars => MainType'
<1> SUFFICES ASSUME MainType, Next \/ UNCHANGED vars PROVE MainType'
  OBVIOUS
<1> USE DEF MainType, Stages, CleanupStages, DatasetStages, ObservedStages, FirstStages,
            SecondStages
<1>1. CASE Main
  <2> USE DEF Go, Exit
  <2>1. CASE ScaleDown \/ Drain \/ Validate \/ Wipe \/ Wiped \/ Prepare
    BY <2>1 DEF ScaleDown, Drain, Validate, Wipe, Wiped, Prepare
  <2>2. CASE PoolSucceeds
    <3>1. stage' \in {"wiped", "reset", "configure"} /\ UNCHANGED <<options, ending, failed, success>>
      BY <2>2 DEF PoolSucceeds, PoolStages
    <3> QED
      BY <3>1
  <2>3. CASE Configure \/ Observe \/ ScaleUp \/ PhaseWaited \/ StartExpiry \/ Advance \/ Collect
    BY <2>3 DEF Configure, Observe, ScaleUp, PhaseWaited, StartExpiry, Advance, Collect
  <2>4. CASE Verify \/ Fails \/ FailsInjected \/ Abort
    BY <2>4 DEF Verify, Fails, FailsInjected, Abort
  <2> QED
    BY <1>1, <2>1, <2>2, <2>3, <2>4 DEF Main
<1>2. CASE UNCHANGED mainVars
  BY <1>2 DEF mainVars
<1> QED
  BY <1>1, <1>2, EnvironmentFrame, InformersFrame, InjectingFrame, OperationFrame,
     PoolRunsFrame DEF Next, vars

LEMMA ControllerTypeNext ==
    ControllerType /\ [Next]_vars => ControllerType' /\ token' >= token
<1> SUFFICES ASSUME ControllerType, Next \/ UNCHANGED vars
             PROVE  ControllerType' /\ token' >= token
  OBVIOUS
<1> USE DEF ControllerType
<1>1. CASE Environment
  <2>1. CASE \/ ControllerStarts \/ ControllerStops \/ ControllerRestarts
             \/ CredentialRefreshes
    <3>1. /\ running' = running \/ running' = TRUE \/ running' = FALSE
          /\ due' = due \/ due' = FALSE
      BY <2>1, Zenon DEF ControllerStarts, ControllerStops, ControllerRestarts,
                         CredentialRefreshes
    <3>2. /\ token' = token \/ token' = token + 1
          /\ restarts' = restarts \/ restarts' = restarts + 1
          /\ replicas' = replicas
      BY <2>1, Zenon DEF ControllerStarts, ControllerStops, ControllerRestarts,
                         CredentialRefreshes
    <3>3. running' \in BOOLEAN /\ due' \in BOOLEAN
      BY <3>1, Zenon
    <3>4. token' \in Nat /\ restarts' \in Nat /\ replicas' \in 0..1 /\ token' >= token
      BY <3>2
    <3> QED
      BY <3>3, <3>4
  <2>2. CASE UNCHANGED controllerVars
    BY <2>2 DEF controllerVars
  <2>3. \/ ControllerStarts \/ ControllerStops \/ ControllerRestarts
        \/ CredentialRefreshes \/ UNCHANGED controllerVars
    BY <1>1 DEF Environment, WritesSecret, PatchesAccounts, PatchesInjected,
                AccountAppears, NamespaceVanishes
  <2> QED
    BY <2>1, <2>2, <2>3
<1>2. CASE Main
  <2>1. replicas' \in {replicas, 0, 1} /\ (due' = due \/ due' = TRUE \/ due' = running)
    BY <1>2 DEF Main, ScaleDown, Drain, Validate, Wipe, Wiped, Prepare, PoolSucceeds,
           Configure, Observe, ScaleUp, PhaseWaited, StartExpiry, Advance, Collect, Verify,
           Fails, FailsInjected, Abort, controllerVars, ClockAdvances
  <2>2. due' \in BOOLEAN
    BY <2>1, Zenon
  <2> QED
    BY <1>2, <2>1, <2>2, MainFrame
<1>3. CASE UNCHANGED controllerVars
  BY <1>3 DEF controllerVars
<1> QED
  BY <1>1, <1>2, <1>3, InformersFrame, InjectingFrame, OperationFrame, PoolRunsFrame
     DEF Next, vars

LEMMA InjectionTypeNext == Shapes /\ [Next]_vars => InjectionType'
<1> SUFFICES ASSUME Shapes, Next \/ UNCHANGED vars PROVE InjectionType'
  OBVIOUS
<1> USE PoolAssumption DEF InjectionType, Shapes
<1>1. CASE Injecting
  <2> USE DEF injectorVars, makerVars
  <2>1. CASE CreatesAccount \/ MarksAccount \/ CreatesNamespace \/ MarksNamespace
    BY <2>1 DEF CreatesAccount, MarksAccount, CreatesNamespace, MarksNamespace
  <2>2. CASE BindsWriter \/ MarksPrerequisites \/ LabelsAccount
    BY <2>2 DEF BindsWriter, MarksPrerequisites, LabelsAccount
  <2>3. ASSUME NEW a \in LateAccounts, EnsuresAccount(a) PROVE InjectionType'
    BY <2>3 DEF EnsuresAccount, ClusterType
  <2>4. CASE MakerFails \/ CreationsEnd
    BY <2>4 DEF MakerFails, CreationsEnd
  <2>5. CASE InjectionTriggered \/ InjectionMissed \/ InjectionReady \/ InjectionTimesOut
    BY <2>5 DEF InjectionTriggered, InjectionMissed, InjectionReady, InjectionTimesOut,
                InjectorEnds
  <2> QED
    BY <1>1, <2>1, <2>2, <2>3, <2>4, <2>5 DEF Injecting
<1>2. CASE Main
  <2>1. injector' \in {injector, "none", "trigger", "collected"} /\ outcome' = outcome
    BY <1>2 DEF Main, ScaleDown, Drain, Validate, Wipe, Wiped, Prepare, PoolSucceeds,
           Configure, Observe, ScaleUp, PhaseWaited, StartExpiry, Advance, Collect, Verify,
           Fails, FailsInjected, Abort, injectionVars, injectorVars
  <2> QED
    BY <1>2, <2>1, MainFrame DEF makerVars
<1>3. CASE UNCHANGED injectionVars
  BY <1>3 DEF injectionVars, injectorVars, makerVars
<1> QED
  BY <1>1, <1>2, <1>3, EnvironmentFrame, InformersFrame, OperationFrame, PoolRunsFrame
     DEF Next, vars

LEMMA KnownGrows == ControllerType /\ [Next]_vars => Known \subseteq Known' /\ token \in Known'
BY ControllerTypeNext DEF ControllerType, Known

\* The item of a working goroutine is a Namespace of the call.
LEMMA JobOfBatch ==
    ASSUME PoolFacts, NEW w \in Workers, worker[w] = "working"
    PROVE  job[w] \in All /\ job[w] \in batch /\ job[w] \notin done
BY RunAssumption DEF PoolFacts, PoolInv, PoolTypeOK, HeldApart

LEMMA ClusterTypeNext == Shapes /\ PoolFacts /\ [Next]_vars => ClusterType'
<1> SUFFICES ASSUME Shapes, PoolFacts, Next \/ UNCHANGED vars PROVE ClusterType'
  OBVIOUS
<1>0. Known \subseteq Known' /\ token \in Known' /\ 0 \in Known'
  BY KnownGrows DEF Shapes, ControllerType, Known
<1> USE RunAssumption DEF ClusterType, Shapes, clusterVars
<1>1. CASE Environment
  <2>1. CASE \/ ControllerStarts \/ ControllerStops \/ ControllerRestarts
             \/ CredentialRefreshes
    BY <1>0, <2>1 DEF ControllerStarts, ControllerStops, ControllerRestarts,
                      CredentialRefreshes
  <2>2. ASSUME NEW n \in All, WritesSecret(n) PROVE ClusterType'
    BY <1>0, <2>2 DEF WritesSecret
  <2>3. ASSUME NEW n \in All, PatchesAccounts(n) PROVE ClusterType'
    BY <1>0, <2>3 DEF PatchesAccounts
  <2>4. ASSUME NEW n \in All, NamespaceVanishes(n) PROVE ClusterType'
    <3>1. late' \in [LateAccounts -> AccountType] /\ lateAccount' \in AccountType
      BY <2>4 DEF NamespaceVanishes, NoAccount, AccountType
    <3> QED
      BY <1>0, <2>4, <3>1 DEF NamespaceVanishes
  <2>5. CASE PatchesInjected
    <3>1. \/ lateAccount' = [lateAccount EXCEPT !.ref = TRUE] /\ UNCHANGED late
          \/ \E a \in LateAccounts :
                late' = [late EXCEPT ![a].ref = TRUE] /\ UNCHANGED lateAccount
      BY <2>5 DEF PatchesInjected
    <3>2. [lateAccount EXCEPT !.ref = TRUE] \in AccountType
      BY DEF AccountType
    <3>3. ASSUME NEW a \in LateAccounts, late' = [late EXCEPT ![a].ref = TRUE]
          PROVE  late' \in [LateAccounts -> AccountType]
      <4>1. [late[a] EXCEPT !.ref = TRUE] \in AccountType
        BY DEF AccountType
      <4> QED
        BY <3>3, <4>1
    <3>4. late' \in [LateAccounts -> AccountType] /\ lateAccount' \in AccountType
      BY <3>1, <3>2, <3>3
    <3> QED
      BY <1>0, <2>5, <3>4 DEF PatchesInjected
  <2>6. ASSUME NEW a \in LateAccounts, AccountAppears(a) PROVE ClusterType'
    <3>1. late' \in [LateAccounts -> AccountType]
      BY <2>6 DEF AccountAppears, AccountType
    <3> QED
      BY <1>0, <2>6, <3>1 DEF AccountAppears
  <2> QED
    BY <1>1, <2>1, <2>2, <2>3, <2>4, <2>5, <2>6 DEF Environment
<1>2. CASE Injecting
  <2>0. secret' \in [All -> Known'] /\ refs' \subseteq Targets /\ configured' \subseteq All
    BY <1>0, <1>2, InjectingFrame
  <2>1. CASE CreatesAccount \/ CreatesNamespace \/ BindsWriter
    <3>1. Late \in All
      BY DEF All
    <3>2. [lateAccount EXCEPT !.exists = TRUE] \in AccountType
      BY DEF AccountType
    <3>3. CASE CreatesAccount
      BY <2>0, <3>2, <3>3 DEF CreatesAccount
    <3>4. CASE CreatesNamespace \/ BindsWriter
      BY <2>0, <3>1, <3>4 DEF CreatesNamespace, BindsWriter
    <3> QED
      BY <2>1, <3>3, <3>4
  <2>2. ASSUME NEW a \in LateAccounts, EnsuresAccount(a) PROVE ClusterType'
    <3>1. late' \in [LateAccounts -> AccountType]
      <4>1. [exists |-> TRUE, labelled |-> TRUE, ref |-> FALSE] \in AccountType
        BY DEF AccountType
      <4> QED
        BY <2>2, <4>1 DEF EnsuresAccount
    <3> QED
      BY <2>0, <2>2, <3>1 DEF EnsuresAccount
  <2>3. CASE LabelsAccount
    <3>1. late' \in [LateAccounts -> AccountType]
      <4>1. PICK a, account : a = got.name /\ account = got.account
        OBVIOUS
      <4>2. \/ late' = late
            \/ late[a] = account /\ late' = [late EXCEPT ![a] = [account EXCEPT !.labelled = TRUE]]
        BY <2>3, <4>1 DEF LabelsAccount
      <4>3. ASSUME a \in LateAccounts, late[a] = account
            PROVE  [account EXCEPT !.labelled = TRUE] \in AccountType
        BY <4>3 DEF AccountType
      <4>4. CASE a \in LateAccounts
        BY <4>2, <4>3, <4>4
      <4> QED
        BY <4>2, <4>4
    <3> QED
      BY <2>0, <2>3, <3>1 DEF LabelsAccount
  <2>4. CASE MakerFails
    <3>1. /\ lateAccount' \in {lateAccount, [lateAccount EXCEPT !.exists = TRUE]}
          /\ exists' \in {exists, [exists EXCEPT ![Late] = "active"]}
      BY <2>4 DEF MakerFails
    <3>2. lateAccount' \in AccountType
      BY <3>1 DEF AccountType
    <3> QED
      BY <2>0, <2>4, <3>1, <3>2 DEF MakerFails
  <2>5. CASE UNCHANGED clusterVars
    BY <2>0, <2>5
  <2> QED
    BY <1>2, <2>1, <2>2, <2>3, <2>4, <2>5 DEF Injecting, InjectionTriggered,
       InjectionMissed, MarksAccount, MarksNamespace, MarksPrerequisites, CreationsEnd,
       InjectionReady, InjectionTimesOut, InjectorEnds
<1>3. CASE Main
  <2>1. configured' \in {configured, Targets, All}
    BY <1>3 DEF Main, ScaleDown, Drain, Validate, Wipe, Wiped, Prepare, PoolSucceeds,
           Configure, Observe, ScaleUp, PhaseWaited, StartExpiry, Advance, Collect, Verify,
           Fails, FailsInjected, Abort, Selected
  <2> QED
    BY <1>0, <1>3, <2>1, MainFrame DEF All
<1>4. ASSUME NEW w \in Workers, Operation(w) PROVE ClusterType'
  <2>1. job[w] \in All
    BY <1>4, OperationFrame, JobOfBatch
  <2>2. CASE Effect(job[w])
    <3>1. stage \in {"wiping", "preparing", "resetting"}
      BY <1>4, OperationFrame DEF PoolStages
    <3>2. /\ exists' \in [All -> {"absent", "active", "terminating"}]
          /\ secret' = secret \/ secret' = [secret EXCEPT ![job[w]] = 0]
          /\ refs' \subseteq refs /\ writable' \subseteq writable \cup {job[w]}
      BY <2>2, <3>1 DEF Effect
    <3>3. secret' \in [All -> Known']
      BY <1>0, <3>2
    <3> QED
      BY <1>4, <2>1, <3>2, <3>3, OperationFrame
  <2> QED
    BY <1>0, <1>4, <2>2, OperationFrame
<1>5. CASE UNCHANGED clusterVars
  BY <1>0, <1>5
<1> QED
  BY <1>1, <1>2, <1>3, <1>4, <1>5, InformersFrame, PoolRunsFrame DEF Next, vars

\* What MutationCompleted does: it sets done, and does so once for all.
LEMMA CompletionFacts ==
    ASSUME NEW m \in MutationType
    PROVE  /\ MutationCompleted(m) \in MutationType
           /\ MutationCompleted(m).active = m.active
           /\ MutationCompleted(m).expected = m.expected
           /\ MutationCompleted(m).stale = m.stale
           /\ MutationCompleted(MutationCompleted(m)).done => MutationCompleted(m).done
<1> DEFINE Ready(x) == /\ x.existing # 0 => x.accountCreated /\ x.accountReady
                       /\ x.created /\ x.prerequisites /\ x.secret # 0
                       /\ x.ready = LateAccounts
<1>1. CASE Ready(m)
  <2>1. PICK c : c = [m EXCEPT !.done = TRUE]
    OBVIOUS
  <2>2. MutationCompleted(m) = c
    BY <1>1, <2>1 DEF MutationCompleted
  <2>3. c \in MutationType /\ c.active = m.active /\ c.expected = m.expected
        /\ c.stale = m.stale /\ c.done
    BY <2>1 DEF MutationType
  <2> QED
    BY <2>2, <2>3
<1>2. CASE ~Ready(m)
  <2>1. MutationCompleted(m) = m
    BY <1>2 DEF MutationCompleted
  <2> QED
    BY <2>1
<1> QED
  BY <1>1, <1>2

\* A version of another generation is only noted; the expected one is recorded.
LEMMA SightingFacts ==
    ASSUME NEW m \in MutationType, NEW n, NEW g \in Nat
    PROVE  LET s == MutationSeesSecret(m, n, g)
           IN  /\ s \in MutationType /\ s.active = m.active /\ s.expected = m.expected
               /\ s.stale \subseteq m.stale \cup {g}
               /\ s.stale = m.stale \/ (m.active /\ n = Late /\ g # m.expected)
               /\ (m.active /\ MutationCompleted(m).done => m.done) =>
                  (s.active /\ MutationCompleted(s).done => s.done)
<1>1. CASE ~m.active \/ n # Late
  BY <1>1 DEF MutationSeesSecret
<1>2. CASE m.active /\ n = Late /\ g # m.expected
  <2>1. PICK s : s = [m EXCEPT !.stale = @ \cup {g}]
    OBVIOUS
  <2>2. MutationSeesSecret(m, n, g) = s
    BY <1>2, <2>1 DEF MutationSeesSecret
  <2>3. s \in MutationType /\ s.stale = m.stale \cup {g}
        /\ s.active = m.active /\ s.expected = m.expected /\ s.done = m.done
        /\ s.existing = m.existing /\ s.accountCreated = m.accountCreated
        /\ s.accountReady = m.accountReady /\ s.created = m.created
        /\ s.prerequisites = m.prerequisites /\ s.secret = m.secret /\ s.ready = m.ready
    BY <2>1 DEF MutationType
  <2>4. [s EXCEPT !.done = TRUE].done /\ [m EXCEPT !.done = TRUE].done
    BY <2>3 DEF MutationType
  <2>5. MutationCompleted(s).done => MutationCompleted(m).done \/ s.done
    BY <2>3, <2>4 DEF MutationCompleted
  <2> QED
    BY <1>2, <2>2, <2>3, <2>5
<1>3. CASE m.active /\ n = Late /\ g = m.expected
  <2>1. PICK t : t = [m EXCEPT !.secret = g]
    OBVIOUS
  <2>2. MutationSeesSecret(m, n, g) = MutationCompleted(t)
    BY <1>3, <2>1 DEF MutationSeesSecret
  <2>3. t \in MutationType /\ t.active = m.active /\ t.expected = m.expected
        /\ t.stale = m.stale
    BY <2>1 DEF MutationType
  <2> QED
    BY <2>2, <2>3, CompletionFacts
<1> QED
  BY <1>1, <1>2, <1>3 DEF MutationType

\* How the tracked injection changes: it starts, it is marked, it sees a version of a
\* Secret that was deliverable, or the tracker goes.
MutationStep ==
    \/ mutation' = mutation
    \/ /\ InjectionTriggered
       /\ \E c \in Targets : /\ recorded[c] # 0 /\ mutation'.expected = recorded[c]
                             /\ mutation'.stale = {} /\ mutation'.active
    \/ /\ Observing \/ injector = "creating"
       /\ mutation'.active = mutation.active /\ mutation'.expected = mutation.expected
       /\ mutation'.stale = mutation.stale
    \/ /\ Observing /\ mutation.active
       /\ mutation'.active = mutation.active /\ mutation'.expected = mutation.expected
       /\ \E g \in Deliverable(Late) :
             mutation'.stale \subseteq mutation.stale \cup {g} /\ g # mutation.expected
    \/ mutation' = NoMutation /\ phase' = "none"

\* The second half of NoMissedCompletion.
InjectionNotMissed == mutation.active /\ MutationCompleted(mutation).done => mutation.done

LEMMA MutationSteps ==
    Shapes /\ PlacesOK /\ [Next]_vars =>
        /\ mutation' \in MutationType
        /\ MutationStep
        /\ InjectionNotMissed => InjectionNotMissed'
<1> SUFFICES ASSUME Shapes, PlacesOK, Next \/ UNCHANGED vars
             PROVE  /\ mutation' \in MutationType
                    /\ MutationStep
                    /\ InjectionNotMissed => InjectionNotMissed'
  OBVIOUS
<1>0. mutation \in MutationType
  BY DEF Shapes, TrackerType
<1>1. CASE mutation' = mutation
  BY <1>0, <1>1 DEF MutationStep, InjectionNotMissed
<1>2. ASSUME NEW m \in MutationType, mutation' = MutationCompleted(m),
             m.active = mutation.active, m.expected = mutation.expected,
             m.stale = mutation.stale, Observing \/ injector = "creating"
      PROVE  /\ mutation' \in MutationType
             /\ MutationStep
             /\ InjectionNotMissed'
  BY <1>2, CompletionFacts DEF MutationStep, InjectionNotMissed
<1>3. ASSUME NEW n \in All, NEW g \in Deliverable(n), SecretDelivered(n, g)
      PROVE  /\ mutation' \in MutationType
             /\ MutationStep
             /\ InjectionNotMissed => InjectionNotMissed'
  <2>1. Observing /\ mutation' = MutationSeesSecret(mutation, n, g)
    BY <1>3 DEF SecretDelivered, ObserveSecret
  <2>2. g \in Nat
    BY DEF Deliverable, Shapes, ClusterType, TrackerType, ControllerType, Known
  <2>3. /\ mutation' \in MutationType
        /\ InjectionNotMissed => InjectionNotMissed'
        /\ mutation'.active = mutation.active /\ mutation'.expected = mutation.expected
        /\ mutation'.stale \subseteq mutation.stale \cup {g}
        /\ \/ mutation'.stale = mutation.stale
           \/ mutation.active /\ n = Late /\ g # mutation.expected
    BY <1>0, <2>1, <2>2, SightingFacts DEF InjectionNotMissed
  <2> QED
    BY <2>1, <2>3 DEF MutationStep
<1>4. CASE InjectedDelivered
  <2>0. Observing
    BY <1>4 DEF InjectedDelivered
  <2>1. CASE mutation' = MutationCompleted([mutation EXCEPT !.accountReady = TRUE])
    <3>1. PICK m : m = [mutation EXCEPT !.accountReady = TRUE]
      OBVIOUS
    <3>2. m \in MutationType /\ m.active = mutation.active /\ m.stale = mutation.stale
          /\ m.expected = mutation.expected
      BY <1>0, <3>1 DEF MutationType
    <3> QED
      BY <1>2, <2>0, <2>1, <3>1, <3>2
  <2>2. ASSUME NEW a \in LateAccounts,
               mutation' = MutationCompleted([mutation EXCEPT !.ready = @ \cup {a}])
        PROVE  /\ mutation' \in MutationType
               /\ MutationStep
               /\ InjectionNotMissed => InjectionNotMissed'
    <3>1. PICK m : m = [mutation EXCEPT !.ready = @ \cup {a}]
      OBVIOUS
    <3>2. m \in MutationType /\ m.active = mutation.active /\ m.stale = mutation.stale
          /\ m.expected = mutation.expected
      BY <1>0, <3>1 DEF MutationType
    <3> QED
      BY <1>2, <2>0, <2>2, <3>1, <3>2
  <2> QED
    BY <1>4, <2>1, <2>2 DEF InjectedDelivered
<1>5. CASE MarksAccount \/ MarksNamespace \/ MarksPrerequisites
  <2>0. injector = "creating"
    BY <1>5 DEF MarksAccount, MarksNamespace, MarksPrerequisites, PlacesOK, Ended
  <2>1. CASE MarksAccount
    <3>1. PICK m : m = [mutation EXCEPT !.accountCreated = TRUE]
      OBVIOUS
    <3>2. m \in MutationType /\ m.active = mutation.active /\ m.stale = mutation.stale
          /\ m.expected = mutation.expected
      BY <1>0, <3>1 DEF MutationType
    <3> QED
      BY <1>2, <2>0, <2>1, <3>1, <3>2 DEF MarksAccount
  <2>2. CASE MarksNamespace
    <3>1. PICK m : m = [mutation EXCEPT !.created = TRUE]
      OBVIOUS
    <3>2. m \in MutationType /\ m.active = mutation.active /\ m.stale = mutation.stale
          /\ m.expected = mutation.expected
      BY <1>0, <3>1 DEF MutationType
    <3> QED
      BY <1>2, <2>0, <2>2, <3>1, <3>2 DEF MarksNamespace
  <2>3. CASE MarksPrerequisites
    <3>1. PICK m : m = [mutation EXCEPT !.prerequisites = TRUE]
      OBVIOUS
    <3>2. m \in MutationType /\ m.active = mutation.active /\ m.stale = mutation.stale
          /\ m.expected = mutation.expected
      BY <1>0, <3>1 DEF MutationType
    <3> QED
      BY <1>2, <2>0, <2>3, <3>1, <3>2 DEF MarksPrerequisites
  <2> QED
    BY <1>5, <2>1, <2>2, <2>3
<1>6. CASE InjectionTriggered
  <2>1. PICK c \in Targets :
           /\ recorded[c] # 0
           /\ mutation' = [active |-> TRUE, existing |-> IF options.namespaceOnly THEN 0 ELSE c,
                           expected |-> recorded[c], accountCreated |-> FALSE,
                           accountReady |-> FALSE, created |-> FALSE,
                           prerequisites |-> FALSE, secret |-> 0, ready |-> {},
                           stale |-> {}, done |-> FALSE]
    BY <1>6, Triggered
  <2>2. c \in 0..NamespaceCount /\ recorded[c] \in Nat
    BY RunAssumption DEF Targets, Shapes, TrackerType, Known, ControllerType
  <2>3. mutation' \in MutationType
    BY <2>1, <2>2, RunAssumption DEF MutationType
  <2>4. ~mutation'.done /\ ~mutation'.created /\ mutation'.active
        /\ mutation'.expected = recorded[c] /\ mutation'.stale = {}
    BY <2>1
  <2>5. MutationCompleted(mutation') = mutation'
    BY <2>4 DEF MutationCompleted
  <2> QED
    BY <1>6, <2>1, <2>3, <2>4, <2>5 DEF MutationStep, InjectionNotMissed
<1>7. CASE Discard
  <2>1. NoMutation \in MutationType /\ ~NoMutation.active
    BY RunAssumption DEF NoMutation, MutationType
  <2> QED
    BY <1>7, <2>1 DEF Discard, MutationStep, InjectionNotMissed
<1>8. CASE Environment
  BY <1>1, <1>8, EnvironmentFrame
<1>9. CASE Informers
  <2>1. ASSUME NEW n \in Targets, AccountsDelivered(n) PROVE mutation' = mutation
    BY <2>1 DEF AccountsDelivered
  <2> QED
    BY <1>1, <1>3, <1>4, <1>9, <2>1 DEF Informers
<1>10. CASE Injecting
  <2>1. \/ MarksAccount \/ MarksNamespace \/ MarksPrerequisites \/ InjectionTriggered
        \/ mutation' = mutation
    <3>1. CASE CreatesAccount \/ CreatesNamespace \/ BindsWriter \/ LabelsAccount
      BY <3>1 DEF CreatesAccount, CreatesNamespace, BindsWriter, LabelsAccount, trackerVars
    <3>2. CASE MakerFails \/ CreationsEnd \/ \E a \in LateAccounts : EnsuresAccount(a)
      BY <3>2 DEF MakerFails, CreationsEnd, EnsuresAccount, trackerVars
    <3>3. CASE InjectionMissed \/ InjectionReady \/ InjectionTimesOut
      BY <3>3 DEF InjectionMissed, InjectionReady, InjectionTimesOut, InjectorEnds,
                  trackerVars
    <3> QED
      BY <1>10, <3>1, <3>2, <3>3 DEF Injecting
  <2> QED
    BY <1>1, <1>5, <1>6, <2>1
<1>11. CASE Main
  <2>1. Discard \/ mutation' = mutation
    BY <1>11 DEF Main, ScaleDown, Drain, Validate, Wipe, Wiped, Prepare, PoolSucceeds,
           Configure, Observe, ScaleUp, PhaseWaited, StartExpiry, Advance, Collect, Verify,
           Fails, FailsInjected, Abort, trackerVars
  <2> QED
    BY <1>1, <1>7, <2>1
<1>12. CASE UNCHANGED trackerVars
  BY <1>1, <1>12 DEF trackerVars
<1> QED
  BY <1>8, <1>9, <1>10, <1>11, <1>12, OperationFrame, PoolRunsFrame DEF Next, vars

LEMMA TrackerTypeNext == Shapes /\ PlacesOK /\ [Next]_vars => TrackerType'
<1> SUFFICES ASSUME Shapes, PlacesOK, Next \/ UNCHANGED vars PROVE TrackerType'
  OBVIOUS
<1>0. Known \subseteq Known' /\ token \in Known' /\ 0 \in Known'
  BY KnownGrows DEF Shapes, ControllerType, Known
<1> USE DEF TrackerType, Shapes
<1>1. mutation' \in MutationType /\ mutation'.stale \subseteq Known'
  <2>1. mutation' \in MutationType /\ MutationStep
    BY MutationSteps
  <2>2. Deliverable(Late) \subseteq Known
    BY RunAssumption DEF Deliverable, ClusterType, All
  <2> QED
    BY <1>0, <2>1, <2>2 DEF MutationStep, NoMutation
<1>2. CASE Environment
  <2>1. ASSUME NEW n \in All, WritesSecret(n) PROVE pending' \in [All -> SUBSET Known']
    BY <1>0, <2>1 DEF WritesSecret
  <2>2. pending' \in [All -> SUBSET Known']
    BY <1>0, <1>2, <2>1 DEF Environment, ControllerStarts, ControllerStops,
           ControllerRestarts, CredentialRefreshes, PatchesAccounts, PatchesInjected,
           AccountAppears, NamespaceVanishes, trackerVars
  <2> QED
    BY <1>0, <1>1, <1>2, <2>2, EnvironmentFrame DEF phaseVars
<1>3. CASE Informers
  <2>1. ASSUME NEW n \in All, NEW g \in Deliverable(n), SecretDelivered(n, g)
        PROVE  TrackerType'
    <3>1. g \in Known
      BY DEF Deliverable, ClusterType
    <3>2. pending' \in [All -> SUBSET Known']
      BY <1>0, <2>1 DEF SecretDelivered
    <3>3. /\ baseline' = baseline \/ baseline' = [baseline EXCEPT ![n] = g]
          /\ recorded' = recorded \/ recorded' = [recorded EXCEPT ![n] = g]
          /\ patched' = patched /\ phase' = phase
      BY <2>1 DEF SecretDelivered, ObserveSecret
    <3>4. phaseDone' \in BOOLEAN
      BY <2>1, Zenon DEF SecretDelivered, ObserveSecret
    <3> QED
      BY <1>0, <1>1, <3>1, <3>2, <3>3, <3>4
  <2>2. ASSUME NEW n \in Targets, AccountsDelivered(n) PROVE TrackerType'
    <3>1. phaseDone' \in BOOLEAN
      BY <2>2, Zenon DEF AccountsDelivered
    <3> QED
      BY <1>0, <1>1, <2>2, <3>1 DEF AccountsDelivered
  <2>3. CASE InjectedDelivered
    BY <1>0, <1>1, <2>3 DEF InjectedDelivered, phaseVars
  <2> QED
    BY <1>3, <2>1, <2>2, <2>3 DEF Informers
<1>4. CASE Injecting
  BY <1>0, <1>1, <1>4, InjectingFrame DEF phaseVars
<1>5. CASE Main
  <2>1. CASE Observe
    BY <1>0, <1>1, <2>1 DEF Observe, TrackerStart, ClusterType
  <2>2. CASE StartExpiry
    <3>1. pending' \in [All -> SUBSET Known']
      BY <1>0, <2>2 DEF StartExpiry
    <3> QED
      BY <1>0, <1>1, <2>2, <3>1 DEF StartExpiry, TrackerStart
  <2>3. CASE Discard
    BY <1>0, <1>1, <2>3 DEF Discard
  <2>4. CASE UNCHANGED trackerVars
    BY <1>0, <1>1, <2>4 DEF trackerVars, phaseVars
  <2>5. Discard \/ Observe \/ StartExpiry \/ UNCHANGED trackerVars
    BY <1>5 DEF Main, ScaleDown, Drain, Validate, Wipe, Wiped, Prepare, PoolSucceeds,
           Configure, ScaleUp, PhaseWaited, Advance, Collect, Verify, Fails, FailsInjected,
           Abort
  <2> QED
    BY <2>1, <2>2, <2>3, <2>4, <2>5
<1>6. CASE UNCHANGED trackerVars
  BY <1>0, <1>1, <1>6 DEF trackerVars, phaseVars
<1> QED
  BY <1>2, <1>3, <1>4, <1>5, <1>6, OperationFrame, PoolRunsFrame DEF Next, vars

LEMMA ShapesNext == Shapes /\ PlacesOK /\ PoolFacts /\ [Next]_vars => Shapes'
BY MainTypeNext, ControllerTypeNext, ClusterTypeNext, TrackerTypeNext, InjectionTypeNext
   DEF Shapes

-----------------------------------------------------------------------------
(* The goroutines and the clean-up                                          *)

LEMMA PlacesInit == Init => PlacesOK
BY DEF Init, PlacesOK, CleanupStages, FirstStages, SecondStages, ObservedStages, Ended,
       NoMutation

\* How the set of Namespaces that exist may grow.
LEMMA PresentSteps ==
    Shapes /\ PlacesOK /\ PoolFacts /\ [Next]_vars =>
        Present' \subseteq Present \/ injector = "creating" \/ stage = "preparing"
<1> SUFFICES ASSUME Shapes, PlacesOK, PoolFacts, Next \/ UNCHANGED vars,
                    injector # "creating", stage # "preparing"
             PROVE  Present' \subseteq Present
  OBVIOUS
<1> USE DEF Present, Shapes, ClusterType
<1>1. CASE UNCHANGED exists
  BY <1>1
<1>2. ASSUME NEW n \in All, NamespaceVanishes(n) PROVE Present' \subseteq Present
  BY <1>2 DEF NamespaceVanishes
<1>3. CASE Environment
  BY <1>1, <1>2, <1>3 DEF Environment, ControllerStarts, ControllerStops,
     ControllerRestarts, CredentialRefreshes, WritesSecret, PatchesAccounts,
     PatchesInjected, AccountAppears, clusterVars
<1>4. CASE Injecting
  <2>1. accountMaker \in Ended /\ namespaceMaker \in Ended
    BY DEF PlacesOK
  <2>2. CASE InjectionTriggered \/ InjectionMissed \/ InjectionReady \/ InjectionTimesOut
    BY <1>1, <2>2 DEF InjectionTriggered, InjectionMissed, InjectionReady,
                      InjectionTimesOut, InjectorEnds, clusterVars
  <2> QED
    BY <1>4, <2>1, <2>2 DEF Injecting, CreatesAccount, MarksAccount, CreatesNamespace,
       MarksNamespace, BindsWriter, EnsuresAccount, LabelsAccount, MarksPrerequisites,
       MakerFails, CreationsEnd, Ended
<1>5. ASSUME NEW w \in Workers, Operation(w) PROVE Present' \subseteq Present
  <2>1. CASE Effect(job[w])
    <3>1. stage \in {"wiping", "resetting"}
      BY <1>5, OperationFrame DEF PoolStages
    <3>2. \/ exists' = [exists EXCEPT ![job[w]] = IF @ = "active" THEN "terminating" ELSE @]
          \/ exists' = exists
      BY <2>1, <3>1 DEF Effect
    <3> QED
      BY <3>2
  <2> QED
    BY <1>1, <1>5, <2>1, OperationFrame
<1> QED
  BY <1>1, <1>3, <1>4, <1>5, InformersFrame, MainFrame, PoolRunsFrame
     DEF Next, vars, clusterVars

LEMMA PlacesNext == Shapes /\ PlacesOK /\ PoolFacts /\ [Next]_vars => PlacesOK'
<1> SUFFICES ASSUME Shapes, PlacesOK, PoolFacts, Next \/ UNCHANGED vars PROVE PlacesOK'
  OBVIOUS
<1> USE RunAssumption DEF CleanupStages, FirstStages, SecondStages, ObservedStages, Ended
<1>1. Present' \subseteq Present \/ injector = "creating" \/ stage = "preparing"
  BY PresentSteps
<1>2. mutation' \in MutationType /\ MutationStep
  BY MutationSteps
<1>a. ~NoMutation.active /\ (InjectionTriggered => injector' # injector)
  BY DEF NoMutation, InjectionTriggered
<1>3. CASE UNCHANGED <<mainVars, phase, injectionVars>>
  <2>1. mutation'.active => mutation.active
    BY <1>a, <1>2, <1>3 DEF MutationStep, injectionVars, injectorVars
  <2>2. injector = "creating" => mutation'.active
    BY <1>a, <1>2, <1>3 DEF MutationStep, PlacesOK, injectionVars, injectorVars
  <2> QED
    BY <1>1, <1>3, <2>1, <2>2 DEF PlacesOK, mainVars, injectionVars, injectorVars, makerVars
<1>4. CASE Injecting
  <2>0. UNCHANGED <<options, stage, ending, failed, success, phase>>
    BY <1>4, InjectingFrame DEF mainVars, phaseVars
  <2>1. CASE InjectionTriggered
    BY <1>1, <1>2, <2>0, <2>1, Triggered DEF InjectionTriggered, PlacesOK
  <2>2. CASE InjectionMissed \/ InjectionReady \/ InjectionTimesOut \/ CreationsEnd
    BY <1>1, <2>0, <2>2 DEF InjectionMissed, InjectionReady, InjectionTimesOut,
       InjectorEnds, CreationsEnd, PlacesOK, makerVars, trackerVars
  <2>3. CASE UNCHANGED injectorVars
    <3>1. mutation'.active => mutation.active
      BY <1>a, <1>2, <2>3 DEF MutationStep, injectorVars
    <3>2. injector = "creating" => mutation'.active
      BY <1>a, <1>2, <2>0, <2>3 DEF MutationStep, PlacesOK, injectorVars
    <3>3. injector # "creating" => accountMaker' \in Ended /\ namespaceMaker' \in Ended
      BY <1>4, <2>3 DEF Injecting, CreatesAccount, MarksAccount, CreatesNamespace,
         MarksNamespace, BindsWriter, EnsuresAccount, LabelsAccount, MarksPrerequisites,
         MakerFails, InjectionTriggered, InjectionMissed, InjectionReady,
         InjectionTimesOut, InjectorEnds, CreationsEnd, PlacesOK, injectorVars, makerVars
    <3> QED
      BY <1>1, <2>0, <2>3, <3>1, <3>2, <3>3 DEF PlacesOK, injectorVars
  <2>4. \/ InjectionTriggered \/ InjectionMissed \/ InjectionReady \/ InjectionTimesOut
        \/ CreationsEnd \/ UNCHANGED injectorVars
    BY <1>4 DEF Injecting, CreatesAccount, MarksAccount, CreatesNamespace, MarksNamespace,
       BindsWriter, EnsuresAccount, LabelsAccount, MarksPrerequisites, MakerFails
  <2> QED
    BY <2>1, <2>2, <2>3, <2>4
<1>5. CASE Main
  <2>0. UNCHANGED <<accountMaker, namespaceMaker>> /\ Present' = Present
    BY <1>5, MainFrame DEF makerVars, Present
  <2> USE <2>0 DEF PlacesOK, Go, trackerVars, phaseVars, injectionVars, injectorVars, makerVars
  <2>1. CASE ScaleDown \/ Drain \/ Validate
    BY <2>1 DEF ScaleDown, Drain, Validate
  <2>2. CASE Wipe \/ Wiped
    BY <2>2 DEF Wipe, Wiped
  <2>3. CASE Prepare \/ Configure
    BY <2>3 DEF Prepare, Configure
  <2>4. CASE PoolSucceeds
    BY <2>4 DEF PoolSucceeds, PoolStages
  <2>5. CASE Observe \/ ScaleUp
    BY <2>5 DEF Observe, ScaleUp, TrackerStart
  <2>6. CASE PhaseWaited \/ Advance
    BY <2>6 DEF PhaseWaited, Advance
  <2>7. CASE StartExpiry
    BY <2>7 DEF StartExpiry, TrackerStart
  <2>8. CASE Collect
    BY <2>8 DEF Collect
  <2>9. CASE Verify
    BY <2>9 DEF Verify, Exit
  <2>10. CASE Fails
    BY <2>10 DEF Fails, Exit, Discard, SetupStages, InjectedStages, NoMutation
  <2>11. CASE FailsInjected
    BY <2>11 DEF FailsInjected, InjectedStages
  <2>12. CASE Abort
    BY <2>12 DEF Abort, Exit, Discard, NoMutation
  <2> QED
    BY <1>5, <2>1, <2>2, <2>3, <2>4, <2>5, <2>6, <2>7, <2>8, <2>9, <2>10, <2>11, <2>12
       DEF Main
<1> QED
  BY <1>3, <1>4, <1>5, EnvironmentFrame, InformersFrame, OperationFrame, PoolRunsFrame
     DEF Next, vars, phaseVars, trackerVars

Base == Shapes /\ PlacesOK

LEMMA BaseCorrect == Spec => []Base
<1>1. Init => Base
  BY ShapesInit, PlacesInit DEF Base
<1>2. Base /\ PoolFacts /\ [Next]_vars => Base'
  BY ShapesNext, PlacesNext DEF Base
<1> QED
  BY <1>1, <1>2, PoolFactsCorrect, PTL DEF Spec

\* When runBenchmark has returned the goroutine of runConcurrentMutation and those it
\* waits for have ended, and a clean-up that completed has left no Namespace, the one
\* that was being injected included: nothing can create one any more.
THEOREM NothingLeftBehindCorrect == Spec => []NothingLeftBehind
<1>1. Base => NothingLeftBehind
  BY DEF Base, Shapes, InjectionType, PlacesOK, NothingLeftBehind, Returned, SecondStages
<1> QED
  BY <1>1, BaseCorrect, PTL

-----------------------------------------------------------------------------
(* The tracker's completions                                                *)

\* The first half of NoMissedCompletion.
PhaseNotMissed == phase # "none" /\ Completed(phase, recorded, patched) => phaseDone

LEMMA PhaseNotMissedNext == PhaseNotMissed /\ [Next]_vars => PhaseNotMissed'
<1> SUFFICES ASSUME PhaseNotMissed, Next \/ UNCHANGED vars PROVE PhaseNotMissed'
  OBVIOUS
<1>1. CASE UNCHANGED phaseVars
  BY <1>1 DEF phaseVars, PhaseNotMissed, Completed, Count
<1>2. ASSUME recorded' = [n \in Targets |-> 0] PROVE PhaseNotMissed'
  <2>1. Count(recorded') = 0 /\ NamespaceCount # 0
    BY <1>2, CountNothing, RunAssumption
  <2> QED
    BY <2>1 DEF PhaseNotMissed, Completed, Count
<1>3. CASE Informers
  <2>1. ASSUME NEW n \in All, NEW g \in Deliverable(n), SecretDelivered(n, g)
        PROVE  PhaseNotMissed'
    <3>1. CASE UNCHANGED phaseVars
      BY <1>1, <3>1
    <3>2. \/ /\ phaseDone' = (phaseDone \/ Completed(phase, recorded', patched))
             /\ UNCHANGED <<phase, patched>>
          \/ UNCHANGED phaseVars
      BY <2>1 DEF SecretDelivered, ObserveSecret, phaseVars
    <3>3. CASE /\ phaseDone' = (phaseDone \/ Completed(phase, recorded', patched))
               /\ UNCHANGED <<phase, patched>>
      BY <3>3 DEF PhaseNotMissed, Completed, Count
    <3> QED
      BY <3>1, <3>2, <3>3
  <2>2. ASSUME NEW n \in Targets, AccountsDelivered(n) PROVE PhaseNotMissed'
    <3>1. /\ phaseDone' = (phaseDone \/ Completed(phase, recorded, patched'))
          /\ UNCHANGED <<phase, recorded>>
      BY <2>2 DEF AccountsDelivered
    <3> QED
      BY <3>1 DEF PhaseNotMissed, Completed, Count
  <2>3. CASE InjectedDelivered
    BY <1>1, <2>3 DEF InjectedDelivered
  <2> QED
    BY <1>3, <2>1, <2>2, <2>3 DEF Informers
<1>4. CASE Main
  <2>1. recorded' = [n \in Targets |-> 0] \/ UNCHANGED phaseVars
    BY <1>4 DEF Main, ScaleDown, Drain, Validate, Wipe, Wiped, Prepare, PoolSucceeds,
           Configure, Observe, ScaleUp, PhaseWaited, StartExpiry, Advance, Collect, Verify,
           Fails, FailsInjected, Abort, trackerVars, TrackerStart, Discard
  <2> QED
    BY <1>1, <1>2, <2>1
<1> QED
  BY <1>1, <1>3, <1>4, EnvironmentFrame, InjectingFrame, OperationFrame, PoolRunsFrame
     DEF Next, vars, trackerVars

\* The tracker closes the done channel of a phase, and that of the injection, as soon as
\* the last thing they wait for is there, in whatever order the informers' events and
\* the marks of the creating goroutines come.
THEOREM NoMissedCompletionCorrect == Spec => []NoMissedCompletion
<1>1. Init => PhaseNotMissed /\ InjectionNotMissed
  BY DEF Init, PhaseNotMissed, InjectionNotMissed, NoMutation
<1>2. Base /\ InjectionNotMissed /\ [Next]_vars => InjectionNotMissed'
  BY MutationSteps DEF Base
<1>3. PhaseNotMissed /\ InjectionNotMissed => NoMissedCompletion
  BY DEF PhaseNotMissed, InjectionNotMissed, NoMissedCompletion
<1> QED
  BY <1>1, <1>2, <1>3, PhaseNotMissedNext, BaseCorrect, PTL DEF Spec

-----------------------------------------------------------------------------
(* The accounts of the injected Namespace                                   *)

\* No step takes a reference away while the Namespace stays.
KeepsReferences ==
    \A a \in LateAccounts : late[a].ref /\ exists'[Late] = "active" => late'[a].ref

LEMMA AccountSteps ==
    Base /\ AccountsOK /\ [Next]_vars => AccountsOK' /\ KeepsReferences
<1> SUFFICES ASSUME Base, AccountsOK, Next \/ UNCHANGED vars
             PROVE  AccountsOK' /\ KeepsReferences
  OBVIOUS
<1> USE DEF AccountsOK, KeepsReferences
<1>0. late \in [LateAccounts -> AccountType]
  BY DEF Base, Shapes, ClusterType
<1>1. CASE UNCHANGED late
  BY <1>1
<1>2. CASE Environment
  <2>1. ASSUME NEW n \in All, NamespaceVanishes(n) PROVE AccountsOK' /\ KeepsReferences
    <3>1. ~NoAccount.ref
      BY DEF NoAccount
    <3>2. CASE n = Late
      <4>1. late' = [a \in LateAccounts |-> NoAccount] /\ exists'[Late] = "absent"
        BY <2>1, <3>2 DEF NamespaceVanishes, Base, Shapes, ClusterType
      <4> QED
        BY <3>1, <4>1
    <3> QED
      BY <1>1, <2>1, <3>2 DEF NamespaceVanishes
  <2>2. CASE PatchesInjected
    <3>1. \/ UNCHANGED late
          \/ \E a \in LateAccounts : late[a].exists /\ late' = [late EXCEPT ![a].ref = TRUE]
      BY <2>2 DEF PatchesInjected
    <3>2. ASSUME NEW a \in LateAccounts, late[a].exists,
                 late' = [late EXCEPT ![a].ref = TRUE]
          PROVE  AccountsOK' /\ KeepsReferences
      BY <1>0, <3>2 DEF AccountType
    <3> QED
      BY <1>1, <3>1, <3>2
  <2>3. ASSUME NEW a \in LateAccounts, AccountAppears(a) PROVE AccountsOK' /\ KeepsReferences
    BY <1>0, <2>3 DEF AccountAppears, AccountType
  <2> QED
    BY <1>1, <1>2, <2>1, <2>2, <2>3 DEF Environment, ControllerStarts,
       ControllerStops, ControllerRestarts, CredentialRefreshes, WritesSecret,
       PatchesAccounts, clusterVars
<1>3. CASE Injecting
  <2>1. ASSUME NEW a \in LateAccounts, EnsuresAccount(a) PROVE AccountsOK' /\ KeepsReferences
    <3>1. CASE late[a].exists
      BY <2>1, <3>1 DEF EnsuresAccount
    <3>2. CASE ~late[a].exists
      BY <1>0, <2>1, <3>2 DEF EnsuresAccount
    <3> QED
      BY <3>1, <3>2
  <2>2. CASE LabelsAccount
    <3>1. PICK a, account : a = got.name /\ account = got.account
      OBVIOUS
    <3>2. \/ late' = late
          \/ late[a] = account /\ late' = [late EXCEPT ![a] = [account EXCEPT !.labelled = TRUE]]
      BY <2>2, <3>1 DEF LabelsAccount
    <3>3. ASSUME a \in LateAccounts, late[a] = account
          PROVE  /\ [account EXCEPT !.labelled = TRUE].ref = late[a].ref
                 /\ [account EXCEPT !.labelled = TRUE].exists = late[a].exists
      BY <1>0, <3>3 DEF AccountType
    <3>4. \A b \in LateAccounts : late'[b].ref = late[b].ref /\ late'[b].exists = late[b].exists
      BY <1>0, <3>2, <3>3
    <3> QED
      BY <2>2, <3>4 DEF LabelsAccount
  <2>3. UNCHANGED late \/ LabelsAccount \/ \E a \in LateAccounts : EnsuresAccount(a)
    <3>1. CASE CreatesAccount \/ MarksAccount \/ CreatesNamespace \/ MarksNamespace
      BY <3>1 DEF CreatesAccount, MarksAccount, CreatesNamespace, MarksNamespace, clusterVars
    <3>2. CASE BindsWriter \/ MarksPrerequisites \/ MakerFails
      BY <3>2 DEF BindsWriter, MarksPrerequisites, MakerFails, clusterVars
    <3>3. CASE \/ CreationsEnd \/ InjectionMissed \/ InjectionReady \/ InjectionTimesOut
               \/ InjectionTriggered
      BY <3>3 DEF CreationsEnd, InjectionMissed, InjectionReady, InjectionTimesOut,
         InjectorEnds, InjectionTriggered, clusterVars
    <3> QED
      BY <1>3, <3>1, <3>2, <3>3 DEF Injecting
  <2> QED
    BY <2>1, <2>2, <2>3
<1>4. CASE Informers \/ Main \/ PoolRuns \/ \E w \in Workers : Operation(w)
  BY <1>1, <1>4, InformersFrame, MainFrame, PoolRunsFrame, OperationFrame
     DEF clusterVars
<1> QED
  BY <1>1, <1>2, <1>3, <1>4 DEF Next, vars, clusterVars

\* ensureServiceAccount never takes away a reference that the controller has put into an
\* account of the injected Namespace, even when it labels an account it read before.
THEOREM LabellingKeepsReferenceCorrect == Spec => LabellingKeepsReference
<1>1. Init => AccountsOK
  BY DEF Init, AccountsOK
<1>2. KeepsReferences =>
          \A a \in LateAccounts : late[a].ref /\ exists[Late]' = "active" => late[a]'.ref
  BY DEF KeepsReferences
<1> QED
  BY <1>1, <1>2, AccountSteps, BaseCorrect, PTL DEF Spec, LabellingKeepsReference

-----------------------------------------------------------------------------
(* The controller's token                                                   *)

LEMMA TokenInit == Init => TokenOK
<1> SUFFICES ASSUME Init PROVE TokenOK
  OBVIOUS
<1>1. MaxRestarts[options] \in Nat
  BY RunAssumption DEF Init
<1> QED
  BY <1>1 DEF Init, TokenOK, OldToken, FirstStages, SecondStages, ObservedStages,
              DatasetStages

LEMMA TokenNext == Base /\ TokenOK /\ [Next]_vars => TokenOK'
<1> SUFFICES ASSUME Base, TokenOK, Next \/ UNCHANGED vars PROVE TokenOK'
  OBVIOUS
<1>0. /\ MaxRestarts[options] \in Nat /\ token \in Nat /\ restarts \in Nat
      /\ running \in BOOLEAN /\ due \in BOOLEAN /\ ending \in BOOLEAN
      /\ replicas \in 0..1 /\ stage \in Stages
  BY RunAssumption DEF Base, Shapes, MainType, ControllerType
<1> USE <1>0 DEF OldToken, FirstStages, SecondStages, ObservedStages, DatasetStages
<1>1. CASE UNCHANGED <<mainVars, controllerVars>>
  BY <1>1 DEF TokenOK, mainVars, controllerVars
<1>2. CASE Environment
  <2>0. UNCHANGED <<options, stage, ending, replicas>>
    BY <1>2, EnvironmentFrame DEF mainVars
  <2>1. CASE ControllerStarts
    BY <2>0, <2>1 DEF ControllerStarts, TokenOK
  <2>2. CASE ControllerStops
    <3>1. ~running' /\ UNCHANGED <<token, due, restarts>> /\ replicas = 0 /\ running
      BY <2>2 DEF ControllerStops
    <3>2. /\ stage \notin ObservedStages
          /\ ~ending => stage # "scaleDown"
      BY <3>1 DEF TokenOK
    <3> QED
      BY <2>0, <3>1, <3>2 DEF TokenOK
  <2>3. CASE ControllerRestarts
    <3>1. stage \in ObservedStages \/ ending \/ stage = "returned"
      BY <2>3 DEF ControllerRestarts, Base, PlacesOK
    <3> QED
      BY <2>0, <2>3, <3>1 DEF ControllerRestarts, TokenOK
  <2>4. CASE CredentialRefreshes
    BY <2>0, <2>4 DEF CredentialRefreshes, TokenOK
  <2> QED
    BY <1>1, <1>2, <2>1, <2>2, <2>3, <2>4 DEF Environment, WritesSecret, PatchesAccounts,
       PatchesInjected, AccountAppears, NamespaceVanishes
<1>3. CASE Main
  <2>0. UNCHANGED <<running, token, restarts>>
    BY <1>3, MainFrame
  <2>a. ending => stage \in CleanupStages
    BY DEF Base, PlacesOK
  <2> USE <2>0, <2>a DEF TokenOK, Go, controllerVars
  <2>1. CASE ScaleDown
    BY <2>1 DEF ScaleDown
  <2>2. CASE Drain \/ Validate
    <3>1. /\ stage' \in {"returned", "validate", "wipe", "prepare"} /\ ~running
          /\ UNCHANGED <<options, ending, replicas, due>>
          /\ stage' = "prepare" => stage = "validate"
          /\ stage \in {"drain", "validate"}
      BY <2>2 DEF Drain, Validate, CleanupStages
    <3> QED
      BY <3>1 DEF CleanupStages
  <2>3. CASE Wipe \/ Wiped
    BY <2>3 DEF Wipe, Wiped
  <2>4. CASE Prepare \/ Configure
    BY <2>4 DEF Prepare, Configure
  <2>5. CASE PoolSucceeds
    BY <2>5 DEF PoolSucceeds, PoolStages
  <2>6. CASE Observe
    BY <2>6 DEF Observe
  <2>7. CASE ScaleUp
    BY <2>7 DEF ScaleUp
  <2>8. CASE PhaseWaited
    BY <2>8 DEF PhaseWaited
  <2>9. CASE StartExpiry
    BY <2>9 DEF StartExpiry
  <2>10. CASE Advance
    BY <2>10 DEF Advance, ClockAdvances
  <2>11. CASE Collect
    BY <2>11 DEF Collect
  <2>12. CASE Verify
    BY <2>12 DEF Verify, Exit
  <2>13. CASE Fails
    <3>1. options' = options /\ (stage' = "returned" \/ (stage' = "scaleDown" /\ ending'))
      BY <2>13 DEF Fails, Exit
    <3>2. \/ UNCHANGED <<replicas, due>>
          \/ replicas' = 0 /\ UNCHANGED due
          \/ stage = "scaleUp" /\ UNCHANGED due
          \/ stage = "advance" /\ running /\ due' /\ UNCHANGED replicas
      BY <2>13 DEF Fails, ClockAdvances
    <3> QED
      BY <3>1, <3>2
  <2>14. CASE FailsInjected
    BY <2>14 DEF FailsInjected, InjectedStages
  <2>15. CASE Abort
    BY <2>15 DEF Abort, Exit
  <2> QED
    BY <1>3, <2>1, <2>2, <2>3, <2>4, <2>5, <2>6, <2>7, <2>8, <2>9, <2>10, <2>11, <2>12,
       <2>13, <2>14, <2>15 DEF Main
<1> QED
  BY <1>1, <1>2, <1>3, InformersFrame, InjectingFrame, OperationFrame, PoolRunsFrame
     DEF Next, vars

LEMMA TokenCorrect == Spec => []TokenOK
BY TokenInit, TokenNext, BaseCorrect, PTL DEF Spec

\* The variables of the run have their types; what the controller hands out and the
\* tracker records stays below the number of its starts, refreshes and crashes.
THEOREM RunTypeCorrect == Spec => []TypeOK
<1>1. Base /\ TokenOK /\ PoolFacts => TypeOK
  <2> SUFFICES ASSUME Base, TokenOK, PoolFacts PROVE TypeOK
    OBVIOUS
  <2>1. Known \subseteq Generations /\ token \in Generations
    BY RunAssumption DEF Base, Shapes, MainType, ControllerType, TokenOK, Known,
                         Generations, OldToken
  <2>2. {ending, failed, success, running, due, phaseDone} \subseteq BOOLEAN
    BY DEF Base, Shapes, MainType, ControllerType, TrackerType
  <2>3. mutation.ready \subseteq LateAccounts
    BY DEF Base, Shapes, TrackerType, MutationType
  <2> QED
    BY <2>1, <2>2, <2>3 DEF TypeOK, PoolFacts, PoolInv, Base, Shapes, MainType,
       ControllerType, ClusterType, TrackerType, InjectionType
<1> QED
  BY <1>1, BaseCorrect, TokenCorrect, PoolFactsCorrect, PTL

-----------------------------------------------------------------------------
(* The dataset                                                              *)

LEMMA LateApart == Late \in All /\ Late \notin Targets /\ Targets \subseteq All
BY RunAssumption DEF Late, All, Targets

LEMMA DatasetInit == Init => DatasetOK
<1> SUFFICES ASSUME Init PROVE DatasetOK
  OBVIOUS
<1>1. \E left \in Leftovers :
          /\ exists = [n \in All |-> IF n \in left THEN "active" ELSE "absent"]
          /\ secret = [n \in All |-> IF n \in left THEN OldToken ELSE 0]
  BY DEF Init
<1>2. stage = "scaleDown"
  BY DEF Init
<1> QED
  BY <1>1, <1>2 DEF DatasetOK, DatasetStages

LEMMA DatasetNext == Base /\ TokenOK /\ PoolFacts /\ DatasetOK /\ [Next]_vars => DatasetOK'
<1> SUFFICES ASSUME Base, TokenOK, PoolFacts, DatasetOK, Next \/ UNCHANGED vars
             PROVE  DatasetOK'
  OBVIOUS
<1> USE LateApart DEF DatasetStages
<1>0. exists \in [All -> {"absent", "active", "terminating"}] /\ DOMAIN secret = All
  BY DEF Base, Shapes, ClusterType
<1>1. CASE UNCHANGED <<stage, exists, secret, batch, done>>
  BY <1>1 DEF DatasetOK
<1>2. CASE Environment
  <2>0. UNCHANGED <<stage, batch, done>>
    BY <1>2, EnvironmentFrame DEF mainVars, poolVars
  <2>1. ASSUME NEW n \in All, WritesSecret(n) PROVE DatasetOK'
    <3>1. stage \notin DatasetStages
      BY <2>1 DEF WritesSecret, TokenOK
    <3> QED
      BY <1>0, <2>0, <2>1, <3>1 DEF WritesSecret, DatasetOK
  <2>2. ASSUME NEW n \in All, NamespaceVanishes(n) PROVE DatasetOK'
    BY <1>0, <2>0, <2>2 DEF NamespaceVanishes, DatasetOK
  <2> QED
    BY <1>1, <1>2, <2>0, <2>1, <2>2 DEF Environment, ControllerStarts, ControllerStops,
       ControllerRestarts, CredentialRefreshes, PatchesAccounts, PatchesInjected,
       AccountAppears, clusterVars
<1>3. CASE Injecting
  <2>0. UNCHANGED <<stage, secret, batch, done>>
    BY <1>3, InjectingFrame DEF mainVars, poolVars
  <2>1. exists' = exists
        \/ (injector = "creating" /\ exists' = [exists EXCEPT ![Late] = "active"])
    <3>1. namespaceMaker = "create" => injector = "creating"
      BY DEF Base, PlacesOK, Ended
    <3>2. CASE CreatesAccount \/ MarksAccount \/ CreatesNamespace \/ MarksNamespace
      BY <3>1, <3>2 DEF CreatesAccount, MarksAccount, CreatesNamespace, MarksNamespace,
                        clusterVars
    <3>3. CASE BindsWriter \/ MarksPrerequisites \/ MakerFails \/ LabelsAccount
      BY <3>1, <3>3 DEF BindsWriter, MarksPrerequisites, MakerFails, LabelsAccount,
                        clusterVars
    <3>4. CASE \/ CreationsEnd \/ InjectionMissed \/ InjectionReady \/ InjectionTimesOut
               \/ InjectionTriggered \/ \E a \in LateAccounts : EnsuresAccount(a)
      BY <3>4 DEF CreationsEnd, InjectionMissed, InjectionReady, InjectionTimesOut,
         InjectorEnds, InjectionTriggered, EnsuresAccount, clusterVars
    <3> QED
      BY <1>3, <3>2, <3>3, <3>4 DEF Injecting
  <2>2. injector = "creating" => stage \notin DatasetStages
    BY DEF Base, PlacesOK, SecondStages
  <2> QED
    BY <1>0, <2>0, <2>1, <2>2 DEF DatasetOK
<1>4. CASE Main
  <2>0. UNCHANGED <<exists, secret>>
    BY <1>4, MainFrame
  <2>1. CASE Validate \/ Wipe \/ Wiped
    <3>1. stage' = "prepare" => Late \notin Present
      BY <2>1 DEF Validate, Wipe, Wiped, Go
    <3>2. stage' \in {"prepare", "wiping", "cleaned"}
      BY <2>1 DEF Validate, Wipe, Wiped, Go
    <3> QED
      BY <2>0, <3>1, <3>2 DEF DatasetOK, Present
  <2>2. CASE Prepare
    BY <2>0, <2>2 DEF Prepare, Go, Call, DatasetOK
  <2>3. CASE PoolSucceeds
    <3>1. stage = "resetting" => done = batch
      BY <2>3 DEF PoolSucceeds, PoolFacts, NilIsAll
    <3>2. UNCHANGED <<batch, done>>
      BY <2>3 DEF PoolSucceeds, poolVars
    <3> QED
      BY <2>0, <2>3, <3>1, <3>2 DEF PoolSucceeds, PoolStages, Go, DatasetOK
  <2>4. CASE Configure
    BY <2>0, <2>4 DEF Configure, Go, DatasetOK
  <2>5. CASE stage' \notin DatasetStages
    BY <2>0, <2>5 DEF DatasetOK
  <2>6. \/ Validate \/ Wipe \/ Wiped \/ Prepare \/ PoolSucceeds \/ Configure
        \/ stage' \notin DatasetStages
    BY <1>4 DEF Main, ScaleDown, Drain, Observe, ScaleUp, PhaseWaited, StartExpiry, Advance,
       Collect, Verify, Fails, FailsInjected, Abort, Go, Exit
  <2> QED
    BY <2>1, <2>2, <2>3, <2>4, <2>5, <2>6
<1>5. ASSUME NEW w \in Workers, Operation(w) PROVE DatasetOK'
  <2>0. stage' = stage /\ stage \in PoolStages /\ batch' = batch
        /\ job[w] \in All /\ job[w] \in batch
    BY <1>5, OperationFrame, JobOfBatch DEF mainVars, OperationSucceeds
  <2>1. CASE Effect(job[w])
    <3>1. done' \subseteq done \cup {job[w]}
      BY <1>5, OperationFrame DEF Operation, OperationSucceeds, OperationFails
    <3>2. CASE stage = "wiping"
      BY <1>0, <2>0, <2>1, <3>2 DEF Effect, DatasetOK
    <3>3. CASE stage = "preparing"
      <4>1. exists' = [exists EXCEPT ![job[w]] = "active"] /\ secret' = secret
        BY <2>1, <3>3 DEF Effect
      <4>2. job[w] # Late
        BY <2>0, <3>3 DEF DatasetOK
      <4> QED
        BY <1>0, <2>0, <3>3, <4>1, <4>2 DEF DatasetOK
    <3>4. CASE stage = "resetting"
      BY <1>0, <2>0, <2>1, <3>1, <3>4 DEF Effect, DatasetOK
    <3> QED
      BY <2>0, <3>2, <3>3, <3>4 DEF PoolStages
  <2> QED
    BY <1>1, <1>5, <2>0, <2>1, OperationFrame
<1> QED
  BY <1>1, <1>2, <1>3, <1>4, <1>5, InformersFrame, PoolRunsFrame
     DEF Next, vars, mainVars, clusterVars, poolVars

LEMMA DatasetCorrect == Spec => []DatasetOK
BY DatasetInit, DatasetNext, BaseCorrect, TokenCorrect, PoolFactsCorrect, PTL DEF Spec

-----------------------------------------------------------------------------
(* What the tracker counts                                                  *)

LEMMA VersionsInit == Init => VersionsOK
BY DEF Init, VersionsOK, ObservedStages, FirstStages, SecondStages

\* The handlers run only in the observed stages.
LEMMA ObservingPlaces ==
    Base => /\ Observing => stage \in ObservedStages /\ ~ending
            /\ stage \in ObservedStages => Observing /\ ~ending
BY DEF Base, PlacesOK, Observing, ObservedStages, FirstStages, SecondStages, CleanupStages

\* A version that the informer delivers lies between what was seen and what is there.
LEMMA DeliverableFacts ==
    ASSUME Base, VersionsOK, stage \in ObservedStages, NEW n \in All, NEW g \in Deliverable(n)
    PROVE  /\ g \in Known /\ g > OldToken
           /\ secret[n] # 0 => g <= secret[n]
           /\ n \in Targets => baseline[n] <= g
BY DEF Deliverable, Base, Shapes, ControllerType, ClusterType, TrackerType, VersionsOK,
       Arrived, Tracked, Known, OldToken

LEMMA VersionsNext ==
    Base /\ TokenOK /\ DatasetOK /\ VersionsOK /\ [Next]_vars => VersionsOK'
<1> SUFFICES ASSUME Base, TokenOK, DatasetOK, VersionsOK, Next \/ UNCHANGED vars
             PROVE  VersionsOK'
  OBVIOUS
<1>0. /\ token \in Nat /\ secret \in [All -> Known] /\ pending \in [All -> SUBSET Known]
      /\ baseline \in [Targets -> Known] /\ recorded \in [Targets -> Known]
      /\ Targets \subseteq All
  BY LateApart DEF Base, Shapes, ControllerType, ClusterType, TrackerType
<1>1. CASE UNCHANGED <<stage, ending, secret, pending, phaseVars>>
  BY <1>1 DEF VersionsOK, Arrived, Tracked, phaseVars
<1>2. CASE Environment
  <2>0. UNCHANGED <<stage, ending, phaseVars>>
    BY <1>2, EnvironmentFrame DEF mainVars
  <2>1. ASSUME NEW n \in All, WritesSecret(n) PROVE VersionsOK'
    <3>1. CASE stage \notin ObservedStages
      BY <2>0, <3>1 DEF VersionsOK, phaseVars
    <3>2. CASE stage \in ObservedStages
      <4>1. token > OldToken /\ Observing
        BY <2>1, <3>2, ObservingPlaces DEF WritesSecret, TokenOK
      <4>2. /\ secret' = [secret EXCEPT ![n] = token]
            /\ pending' = [pending EXCEPT ![n] = @ \cup {token}]
        BY <2>1, <4>1 DEF WritesSecret
      <4>3. \A m \in All : Arrived(m)'
        BY <1>0, <3>2, <4>1, <4>2 DEF VersionsOK, Arrived, Known, OldToken
      <4>4. \A m \in Targets : Tracked(m)'
        BY <1>0, <2>0, <3>2, <4>1, <4>2 DEF VersionsOK, Tracked, Known, OldToken, phaseVars
      <4> QED
        BY <2>0, <3>2, <4>3, <4>4 DEF VersionsOK, phaseVars
    <3> QED
      BY <3>1, <3>2
  <2>2. ASSUME NEW n \in All, NamespaceVanishes(n) PROVE VersionsOK'
    <3>1. secret' = [secret EXCEPT ![n] = 0] /\ pending' = pending
      BY <2>2 DEF NamespaceVanishes, trackerVars
    <3> QED
      BY <1>0, <2>0, <3>1 DEF VersionsOK, Arrived, Tracked, phaseVars
  <2> QED
    BY <1>1, <1>2, <2>0, <2>1, <2>2 DEF Environment, ControllerStarts, ControllerStops,
       ControllerRestarts, CredentialRefreshes, PatchesAccounts, PatchesInjected,
       AccountAppears, clusterVars, trackerVars
<1>3. CASE Informers
  <2>0. UNCHANGED <<stage, ending, secret, phase>>
    BY <1>3, InformersFrame DEF mainVars, clusterVars
  <2>1. ASSUME NEW n \in All, NEW g \in Deliverable(n), SecretDelivered(n, g)
        PROVE  VersionsOK'
    <3>1. stage \in ObservedStages
      BY <2>1, ObservingPlaces DEF SecretDelivered
    <3>2. /\ g \in Known /\ g > OldToken /\ g \in Nat /\ g # 0
          /\ secret[n] # 0 => g <= secret[n]
          /\ n \in Targets => baseline[n] <= g
      BY <1>0, <3>1, DeliverableFacts DEF Known, OldToken
    <3>3. pending' = [pending EXCEPT ![n] = {h \in @ : h > g}]
      BY <2>1 DEF SecretDelivered
    <3>4. \A m \in All : Arrived(m)'
      BY <1>0, <2>0, <3>1, <3>3 DEF VersionsOK, Arrived
    <3>5. CASE UNCHANGED phaseVars
      BY <1>0, <2>0, <3>1, <3>3, <3>4, <3>5 DEF VersionsOK, Tracked, phaseVars
    <3>6. CASE /\ n \in Targets
               /\ phase = "initial" \/ (phase = "expiry" /\ baseline[n] \notin {0, g})
               /\ baseline' = IF phase = "initial" THEN [baseline EXCEPT ![n] = g]
                              ELSE baseline
               /\ recorded' = IF recorded[n] = 0 THEN [recorded EXCEPT ![n] = g]
                              ELSE recorded
               /\ phaseDone' = (phaseDone \/ Completed(phase, recorded', patched))
      <4>1. \A m \in Targets : Tracked(m)'
        <5> TAKE m \in Targets
        <5>1. CASE m # n
          BY <1>0, <2>0, <3>1, <3>3, <3>6, <5>1 DEF VersionsOK, Tracked
        <5>2. CASE m = n /\ phase = "initial"
          <6>1. baseline'[m] = g /\ pending'[m] = {h \in pending[m] : h > g}
            BY <1>0, <3>3, <3>6, <5>2
          <6>2. phase' # "expiry"
            BY <2>0, <5>2
          <6> QED
            BY <1>0, <2>0, <3>2, <5>2, <6>1, <6>2 DEF Tracked, Known
        <5>3. CASE m = n /\ phase = "expiry"
          <6>1. baseline' = baseline /\ pending'[m] = {h \in pending[m] : h > g}
            BY <1>0, <3>3, <3>6, <5>3
          <6>2. recorded'[m] = IF recorded[m] = 0 THEN g ELSE recorded[m]
            BY <1>0, <3>6, <5>3
          <6>3. baseline[m] # 0 /\ baseline[m] < g
            BY <1>0, <3>2, <3>6, <5>3 DEF Known
          <6> QED
            BY <1>0, <2>0, <3>1, <6>1, <6>2, <6>3 DEF VersionsOK, Tracked, Known
        <5> QED
          BY <3>6, <5>1, <5>2, <5>3
      <4>2. \A m \in Targets : recorded[m] # 0 => recorded'[m] # 0
        BY <1>0, <3>2, <3>6
      <4>3. phaseDone' \/ stage \in {"collect", "verify"} => \A m \in Targets : recorded'[m] # 0
        BY <3>1, <3>6, <4>2, CountFacts DEF VersionsOK, Completed
      <4> QED
        BY <2>0, <3>1, <3>4, <4>1, <4>3 DEF VersionsOK
    <3> QED
      BY <2>1, <3>5, <3>6 DEF SecretDelivered, ObserveSecret, phaseVars
  <2>2. ASSUME NEW n \in Targets, AccountsDelivered(n) PROVE VersionsOK'
    <3>1. /\ phaseDone' = (phaseDone \/ Completed(phase, recorded, patched'))
          /\ UNCHANGED <<pending, baseline, recorded>>
      BY <2>2 DEF AccountsDelivered
    <3>2. Completed(phase, recorded, patched') => \A m \in Targets : recorded[m] # 0
      BY CountFacts DEF Completed
    <3> QED
      BY <2>0, <3>1, <3>2 DEF VersionsOK, Arrived, Tracked
  <2>3. CASE InjectedDelivered
    BY <1>1, <2>0, <2>3 DEF InjectedDelivered
  <2> QED
    BY <1>3, <2>1, <2>2, <2>3 DEF Informers
<1>4. CASE Injecting
  BY <1>1, <1>4, InjectingFrame DEF mainVars
<1>5. CASE Main
  <2>0. secret' = secret
    BY <1>5, MainFrame
  <2> USE DEF ObservedStages, FirstStages, SecondStages
  <2>1. CASE Observe
    <3>1. \A n \in All : secret[n] = 0
      <4>1. stage = "observe"
        BY <2>1 DEF Observe
      <4> QED
        BY <4>1 DEF DatasetOK, DatasetStages, All
    <3>2. \A n \in All : pending'[n] = {}
      BY <2>1, <3>1 DEF Observe
    <3>3. \A n \in Targets : baseline'[n] = 0 /\ recorded'[n] = 0
      BY <2>1, ObservingPlaces DEF Observe, TrackerStart, VersionsOK, Base, PlacesOK,
                                   CleanupStages
    <3>4. stage' = "scaleUp" /\ ~phaseDone'
      BY <2>1 DEF Observe, Go, TrackerStart
    <3> QED
      BY <1>0, <2>0, <3>1, <3>2, <3>3, <3>4 DEF VersionsOK, Arrived, Tracked
  <2>2. CASE StartExpiry
    <3>1. \A n \in All : pending'[n] \subseteq pending[n]
      BY <1>0, <2>2 DEF StartExpiry
    <3>2. \A n \in Targets : baseline'[n] = baseline[n] /\ recorded'[n] = 0
      BY <2>2 DEF StartExpiry, TrackerStart
    <3>3. stage = "expiry" /\ stage' = "advance" /\ ~phaseDone'
      BY <2>2 DEF StartExpiry, Go, TrackerStart
    <3> QED
      BY <1>0, <2>0, <3>1, <3>2, <3>3 DEF VersionsOK, Arrived, Tracked
  <2>3. CASE PhaseWaited \/ Collect \/ ScaleUp \/ Advance \/ FailsInjected
    <3>1. UNCHANGED <<pending, phaseVars>>
      BY <2>3 DEF PhaseWaited, Collect, ScaleUp, Advance, FailsInjected, trackerVars
    <3>2. /\ stage \in ObservedStages /\ stage' \in ObservedStages
          /\ stage' \in {"collect", "verify"} => phaseDone \/ stage = "collect"
      BY <2>3 DEF PhaseWaited, Collect, ScaleUp, Advance, FailsInjected, Go, InjectedStages
    <3> QED
      BY <2>0, <3>1, <3>2 DEF VersionsOK, Arrived, Tracked, phaseVars
  <2>4. CASE /\ UNCHANGED <<baseline, ending>> /\ stage \notin ObservedStages
             /\ stage # "returned" /\ stage' \notin ObservedStages
    BY <2>4 DEF VersionsOK
  <2>5. CASE stage' \notin ObservedStages /\ (ending' \/ stage' = "returned")
    BY <2>5 DEF VersionsOK
  <2>6. CASE ScaleDown \/ Drain \/ Validate \/ Wipe \/ Wiped \/ Prepare \/ Configure
    BY <2>4, <2>6 DEF ScaleDown, Drain, Validate, Wipe, Wiped, Prepare, Configure, Go,
                      trackerVars, phaseVars
  <2>7. CASE PoolSucceeds
    BY <2>4, <2>7 DEF PoolSucceeds, PoolStages, Go, trackerVars, phaseVars
  <2>8. CASE Verify \/ Fails \/ Abort
    BY <2>5, <2>8 DEF Verify, Fails, Abort, Exit
  <2> QED
    BY <1>5, <2>1, <2>2, <2>3, <2>6, <2>7, <2>8 DEF Main
<1>6. ASSUME NEW w \in Workers, Operation(w) PROVE VersionsOK'
  <2>1. stage \in PoolStages /\ UNCHANGED <<stage, ending, baseline>>
    BY <1>6, OperationFrame DEF mainVars, trackerVars, phaseVars
  <2> QED
    BY <2>1 DEF VersionsOK, PoolStages, ObservedStages, FirstStages, SecondStages
<1> QED
  BY <1>1, <1>2, <1>3, <1>4, <1>5, <1>6, PoolRunsFrame
     DEF Next, vars, mainVars, clusterVars, trackerVars

LEMMA VersionsCorrect == Spec => []VersionsOK
BY VersionsInit, VersionsNext, BaseCorrect, TokenCorrect, DatasetCorrect, PTL DEF Spec

LEMMA SuccessNext ==
    Base /\ VersionsOK /\ SuccessOK /\ [Next]_vars => SuccessOK'
<1> SUFFICES ASSUME Base, VersionsOK, SuccessOK, Next \/ UNCHANGED vars PROVE SuccessOK'
  OBVIOUS
<1>0. baseline \in [Targets -> Known] /\ recorded \in [Targets -> Known]
  BY DEF Base, Shapes, TrackerType
<1>1. CASE UNCHANGED <<mainVars, phaseVars>>
  BY <1>1 DEF SuccessOK, mainVars, phaseVars
<1>2. CASE Informers
  <2>1. CASE Observing
    <3>1. ~ending /\ stage # "returned"
      BY <2>1 DEF Observing
    <3> QED
      BY <1>2, <3>1, InformersFrame DEF SuccessOK, mainVars
  <2> QED
    BY <1>2, <2>1 DEF Informers, SecretDelivered, AccountsDelivered, InjectedDelivered
<1>3. CASE Main
  <2>0. ending => stage \in CleanupStages
    BY DEF Base, PlacesOK
  <2> USE DEF CleanupStages
  <2>1. CASE Observe \/ StartExpiry
    <3>1. ~ending /\ stage # "returned" /\ UNCHANGED <<failed, success>>
      BY <2>0, <2>1 DEF Observe, StartExpiry, Go
    <3> QED
      BY <3>1 DEF SuccessOK
  <2>2. CASE Verify
    <3>1. ~failed /\ stage = "verify" /\ phase = "expiry"
      BY <2>0, <2>2 DEF Verify, SuccessOK, Base, PlacesOK, SecondStages
    <3>2. \A n \in Targets : recorded[n] > baseline[n] /\ baseline[n] > OldToken
      BY <1>0, <3>1 DEF VersionsOK, Tracked, ObservedStages, SecondStages
    <3>3. /\ UNCHANGED <<recorded, baseline, options>> /\ ~failed'
          /\ \/ ending' /\ stage' = "scaleDown"
             \/ stage' = "returned" /\ options.keep
      <4>1. UNCHANGED <<recorded, baseline, options>> /\ Exit(FALSE)
        BY <2>2 DEF Verify, trackerVars, phaseVars, Exit
      <4>2. ~failed'
        BY <3>1, <4>1, Zenon DEF Exit
      <4>3. \/ ending' /\ stage' = "scaleDown"
            \/ stage' = "returned" /\ options.keep
        BY <4>1, Zenon DEF Exit
      <4> QED
        BY <4>1, <4>2, <4>3
    <3> QED
      BY <3>2, <3>3 DEF SuccessOK
  <2>3. CASE Fails \/ Abort
    <3>1. ~success' /\ (ending' \/ stage' = "returned")
      BY <2>3 DEF Fails, Abort, Exit
    <3> QED
      BY <3>1 DEF SuccessOK
  <2>4. CASE Drain
    <3>1. /\ UNCHANGED <<options, ending, failed, success, recorded, baseline>>
          /\ stage = "drain"
          /\ stage' = "returned" => options.retain
      BY <2>4 DEF Drain, Go, trackerVars, phaseVars
    <3> QED
      BY <3>1 DEF SuccessOK
  <2>5. CASE \/ ScaleDown \/ Validate \/ Wipe \/ Wiped \/ Prepare \/ PoolSucceeds
             \/ Configure \/ ScaleUp \/ PhaseWaited \/ Advance \/ Collect \/ FailsInjected
    <3>1. UNCHANGED <<options, ending, failed, success, recorded, baseline>>
      BY <2>5 DEF ScaleDown, Validate, Wipe, Wiped, Prepare, PoolSucceeds, Configure,
         ScaleUp, PhaseWaited, Advance, Collect, FailsInjected, Go, trackerVars, phaseVars
    <3>2. stage # "returned" /\ stage' # "returned"
      BY <2>5 DEF ScaleDown, Validate, Wipe, Wiped, Prepare, PoolSucceeds, PoolStages,
         Configure, ScaleUp, PhaseWaited, Advance, Collect, FailsInjected, InjectedStages, Go
    <3> QED
      BY <3>1, <3>2 DEF SuccessOK
  <2> QED
    BY <1>3, <2>1, <2>2, <2>3, <2>4, <2>5 DEF Main
<1> QED
  BY <1>1, <1>2, <1>3, EnvironmentFrame, InjectingFrame, OperationFrame, PoolRunsFrame
     DEF Next, vars, trackerVars

\* A run that reports success has seen every prepared Namespace with a credential of the
\* controller it started, and then with a newer one, however the controller crashed and
\* the informers skipped or repeated versions; its clean-up, if it had one, was complete.
THEOREM SuccessIsEarnedCorrect == Spec => []SuccessIsEarned
<1>1. Init => SuccessOK
  BY DEF Init, SuccessOK
<1>2. Base /\ SuccessOK => SuccessIsEarned
  BY DEF Base, PlacesOK, SuccessOK, SuccessIsEarned, Returned
<1> QED
  BY <1>1, <1>2, SuccessNext, BaseCorrect, VersionsCorrect, PTL DEF Spec

-----------------------------------------------------------------------------
(* Without a crash                                                          *)

LEMMA RefreshInit == Init => RefreshOK
BY DEF Init, RefreshOK, RefreshFollowsAdvance, ObservedStages, FirstStages, SecondStages

\* What the tracked injection is held against.
LEMMA RefreshMutation ==
    ASSUME Base, TokenOK, VersionsOK, RefreshOK, [Next]_vars, restarts = 0,
           phase = "expiry", mutation'.active
    PROVE  /\ mutation'.expected = OldToken + 2 /\ mutation'.stale = {}
           /\ mutation.active \/ stage \in ObservedStages
           /\ stage \in ObservedStages => token = OldToken + 2
<1>0. ~NoMutation.active /\ MutationStep /\ mutation \in MutationType
  BY MutationSteps DEF Base, Shapes, TrackerType, NoMutation
<1>1. CASE mutation' = mutation
  BY <1>1 DEF RefreshOK, RefreshFollowsAdvance
<1>2. CASE /\ InjectionTriggered
           /\ \E c \in Targets : /\ recorded[c] # 0 /\ mutation'.expected = recorded[c]
                                 /\ mutation'.stale = {} /\ mutation'.active
  <2>1. stage \in ObservedStages
    BY <1>2 DEF InjectionTriggered, Base, PlacesOK, ObservedStages, SecondStages
  <2>2. PICK c \in Targets : /\ recorded[c] # 0 /\ mutation'.expected = recorded[c]
                             /\ mutation'.stale = {}
    BY <1>2
  <2>3. recorded[c] = OldToken + 2 /\ recorded[c] \in Known
    BY <2>2 DEF RefreshOK, RefreshFollowsAdvance, Base, Shapes, TrackerType
  <2>4. token = OldToken + 2
    BY <2>3 DEF TokenOK, Known, Base, Shapes, ControllerType, OldToken
  <2> QED
    BY <2>1, <2>2, <2>3, <2>4
<1>3. CASE /\ mutation'.active = mutation.active /\ mutation'.expected = mutation.expected
           /\ mutation'.stale = mutation.stale
  BY <1>3 DEF RefreshOK, RefreshFollowsAdvance
<1>4. CASE /\ Observing /\ mutation.active
           /\ \E g \in Deliverable(Late) : g # mutation.expected
  <2>1. stage \in ObservedStages
    BY <1>4, ObservingPlaces
  <2>2. mutation.expected = OldToken + 2
    BY <1>4 DEF RefreshOK, RefreshFollowsAdvance
  <2>3. Deliverable(Late) \subseteq {OldToken + 2}
    BY <2>1 DEF Deliverable, RefreshOK
  <2> QED
    BY <1>4, <2>2, <2>3
<1> QED
  BY <1>0, <1>1, <1>2, <1>3, <1>4 DEF MutationStep

LEMMA RefreshNext ==
    Base /\ TokenOK /\ DatasetOK /\ VersionsOK /\ RefreshOK /\ [Next]_vars => RefreshOK'
<1> SUFFICES ASSUME Base, TokenOK, DatasetOK, VersionsOK, RefreshOK, Next \/ UNCHANGED vars,
                    restarts' = 0
             PROVE  RefreshOK'
  BY DEF RefreshOK, RefreshFollowsAdvance
<1>0. /\ token \in Nat /\ secret \in [All -> Known] /\ pending \in [All -> SUBSET Known]
      /\ baseline \in [Targets -> Known] /\ recorded \in [Targets -> Known]
      /\ exists \in [All -> {"absent", "active", "terminating"}] /\ restarts \in Nat
  BY DEF Base, Shapes, ControllerType, ClusterType, TrackerType
<1>1. restarts = 0
  <2>1. restarts' = restarts \/ restarts' = restarts + 1
    BY MainFrame, InformersFrame, InjectingFrame, OperationFrame, PoolRunsFrame
       DEF Next, vars, controllerVars, Environment, ControllerStarts, ControllerStops,
           ControllerRestarts, CredentialRefreshes, WritesSecret, PatchesAccounts,
           PatchesInjected, AccountAppears, NamespaceVanishes
  <2> QED
    BY <1>0, <2>1
<1>2. /\ token <= OldToken + 2
      /\ stage \in FirstStages => token <= OldToken + 1
      /\ due => token <= OldToken + 1
  BY <1>0, <1>1 DEF TokenOK, OldToken, ObservedStages, Base, Shapes, ControllerType
<1>3. phase = "expiry" /\ mutation'.active =>
         /\ mutation'.expected = OldToken + 2 /\ mutation'.stale = {}
         /\ mutation.active \/ stage \in ObservedStages
         /\ stage \in ObservedStages => token = OldToken + 2
  BY <1>1, RefreshMutation
<1>4. phase' = "expiry" => phase = "expiry" \/ StartExpiry
  BY EnvironmentFrame, InformersFrame, InjectingFrame, OperationFrame, PoolRunsFrame
     DEF Next, vars, trackerVars, phaseVars, Main, ScaleDown, Drain, Validate, Wipe, Wiped,
         Prepare, PoolSucceeds, Configure, Observe, ScaleUp, PhaseWaited, Advance, Collect,
         Verify, Fails, FailsInjected, Abort, TrackerStart, Discard
<1>5. token' >= token /\ token' \in Nat /\ token' <= OldToken + 2
  <2>1. ControllerType' /\ token' >= token
    BY ControllerTypeNext DEF Base, Shapes
  <2>2. TokenOK'
    BY TokenNext
  <2> QED
    BY <2>1, <2>2 DEF ControllerType, TokenOK, OldToken
<1>6. mutation.active /\ phase' # "none" => mutation'.active
  BY MutationSteps DEF MutationStep, Base
<1>7. mutation'.active => phase = "expiry"
  <2>1. ~NoMutation.active /\ MutationStep
    BY MutationSteps DEF Base, NoMutation
  <2>2. InjectionTriggered => phase = "expiry"
    BY DEF InjectionTriggered, Base, PlacesOK
  <2>3. mutation.active => phase = "expiry"
    BY DEF Base, PlacesOK
  <2> QED
    BY <2>1, <2>2, <2>3 DEF MutationStep
<1>8. mutation'.active /\ stage \in ObservedStages => token' = OldToken + 2
  BY <1>0, <1>3, <1>5, <1>7 DEF OldToken
<1>9. ASSUME phase' = "expiry" => \A n \in Targets : recorded'[n] \in {0, OldToken + 2}
      PROVE  RefreshFollowsAdvance'
  BY <1>3, <1>7, <1>9 DEF RefreshFollowsAdvance
<1>10. CASE UNCHANGED <<stage, exists, secret, pending, phaseVars>>
  BY <1>1, <1>6, <1>8, <1>9, <1>10 DEF RefreshOK, RefreshFollowsAdvance, phaseVars, Base,
     PlacesOK
<1>11. CASE Environment
  <2>0. UNCHANGED <<stage, phaseVars, mutation>>
    BY <1>11, EnvironmentFrame DEF mainVars
  <2>1. RefreshFollowsAdvance'
    BY <1>1, <1>9, <2>0 DEF RefreshOK, RefreshFollowsAdvance, phaseVars
  <2>2. ASSUME NEW n \in All, WritesSecret(n) PROVE RefreshOK'
    <3>1. /\ secret' = [secret EXCEPT ![n] = token] /\ exists' = exists
          /\ pending' = [pending EXCEPT ![n] = @ \cup {token}] \/ pending' = pending
          /\ exists[n] = "active"
      BY <2>2 DEF WritesSecret
    <3>2. n = Late /\ stage \in ObservedStages => token = OldToken + 2
      BY <1>1, <3>1 DEF RefreshOK
    <3> QED
      BY <1>0, <1>1, <1>8, <2>0, <2>1, <3>1, <3>2, LateApart DEF RefreshOK, phaseVars
  <2>3. ASSUME NEW n \in All, NamespaceVanishes(n) PROVE RefreshOK'
    <3>1. /\ secret' = [secret EXCEPT ![n] = 0] /\ pending' = pending
          /\ exists' = [exists EXCEPT ![n] = "absent"]
      BY <2>3 DEF NamespaceVanishes, trackerVars
    <3> QED
      BY <1>0, <1>1, <1>8, <2>0, <2>1, <3>1, LateApart DEF RefreshOK, phaseVars
  <2> QED
    BY <1>10, <1>11, <2>0, <2>2, <2>3 DEF Environment, ControllerStarts, ControllerStops,
       ControllerRestarts, CredentialRefreshes, PatchesAccounts, PatchesInjected,
       AccountAppears, clusterVars, trackerVars
<1>12. CASE Informers
  <2>0. UNCHANGED <<stage, exists, secret, phase>>
    BY <1>12, InformersFrame DEF mainVars, clusterVars
  <2>1. ASSUME NEW n \in All, NEW g \in Deliverable(n), SecretDelivered(n, g)
        PROVE  RefreshOK'
    <3>1. stage \in ObservedStages
      BY <2>1, ObservingPlaces DEF SecretDelivered
    <3>2. g \in {OldToken + 1, OldToken + 2} /\ g <= token
      BY <1>0, <1>2, <3>1, DeliverableFacts DEF Known, OldToken
    <3>3. pending' = [pending EXCEPT ![n] = {h \in @ : h > g}]
      BY <2>1 DEF SecretDelivered
    <3>4. phase = "initial" => g = OldToken + 1
      <4>1. phase = "initial" => stage \in FirstStages
        BY <3>1 DEF Base, PlacesOK, ObservedStages
      <4> QED
        BY <1>0, <1>2, <3>2, <4>1 DEF OldToken
    <3>5. /\ baseline' = baseline \/ (phase = "initial" /\ baseline' = [baseline EXCEPT ![n] = g])
          /\ \/ recorded' = recorded
             \/ /\ n \in Targets
                /\ phase = "expiry" => baseline[n] \notin {0, g}
                /\ recorded' = [recorded EXCEPT ![n] = g]
      BY <2>1 DEF SecretDelivered, ObserveSecret
    <3>6. \A m \in Targets : baseline[m] \in {0, OldToken + 1}
      BY <1>1, <3>1 DEF RefreshOK
    <3>7. \A m \in Targets : baseline'[m] \in {0, OldToken + 1}
      BY <1>0, <3>4, <3>5, <3>6
    <3>8. phase' = "expiry" => \A m \in Targets : recorded'[m] \in {0, OldToken + 2}
      BY <1>0, <1>1, <2>0, <3>2, <3>5, <3>6 DEF RefreshOK, RefreshFollowsAdvance
    <3>9. RefreshFollowsAdvance'
      BY <1>9, <3>8
    <3>10. phase' # "none"
      BY <2>0, <3>1 DEF Base, PlacesOK, ObservedStages
    <3> QED
      BY <1>0, <1>1, <1>6, <1>8, <2>0, <3>1, <3>3, <3>7, <3>9, <3>10, LateApart DEF RefreshOK
  <2>2. ASSUME NEW n \in Targets, AccountsDelivered(n) PROVE RefreshOK'
    <3>1. UNCHANGED <<pending, baseline, recorded, mutation>>
      BY <2>2 DEF AccountsDelivered
    <3>2. RefreshFollowsAdvance'
      BY <1>1, <1>9, <2>0, <3>1 DEF RefreshOK, RefreshFollowsAdvance
    <3> QED
      BY <1>1, <1>8, <2>0, <3>1, <3>2 DEF RefreshOK
  <2>3. CASE InjectedDelivered
    BY <1>10, <2>0, <2>3 DEF InjectedDelivered
  <2> QED
    BY <1>12, <2>1, <2>2, <2>3 DEF Informers
<1>13. CASE Injecting
  <2>0. UNCHANGED <<stage, secret, pending, phaseVars>>
    BY <1>13, InjectingFrame DEF mainVars
  <2>1. RefreshFollowsAdvance'
    BY <1>1, <1>9, <2>0 DEF RefreshOK, RefreshFollowsAdvance, phaseVars
  <2>2. exists'[Late] = exists[Late] \/ injector = "creating"
    BY <1>13 DEF Injecting, CreatesAccount, MarksAccount, CreatesNamespace,
       MarksNamespace, BindsWriter, EnsuresAccount, LabelsAccount, MarksPrerequisites,
       MakerFails, InjectionTriggered, InjectionMissed, InjectionReady,
       InjectionTimesOut, InjectorEnds, CreationsEnd, clusterVars, Base, PlacesOK, Ended
  <2>3. stage \in ObservedStages => phase' # "none"
    BY <2>0 DEF Base, PlacesOK, ObservedStages, phaseVars
  <2>4. injector = "creating" => mutation.active
    BY DEF Base, PlacesOK
  <2> QED
    BY <1>1, <1>6, <1>8, <2>0, <2>1, <2>2, <2>3, <2>4 DEF RefreshOK, phaseVars
<1>14. CASE Main
  <2>0. UNCHANGED <<exists, secret, token>>
    BY <1>14, MainFrame
  <2>1. CASE Observe
    <3>1. stage = "observe" /\ ~ending
      BY <2>1 DEF Observe, Base, PlacesOK, CleanupStages
    <3>2. exists[Late] = "absent" /\ secret[Late] = 0
      BY <3>1, LateApart DEF DatasetOK, DatasetStages
    <3>3. \A n \in Targets : baseline'[n] = 0
      BY <2>1, <3>1 DEF Observe, TrackerStart, VersionsOK, ObservedStages, FirstStages,
                        SecondStages
    <3>4. pending'[Late] = {} /\ phase' = "initial" /\ mutation' = mutation
      BY <2>1, <3>2, LateApart DEF Observe, TrackerStart
    <3>5. ~mutation.active
      BY <3>1 DEF Base, PlacesOK, ObservedStages, FirstStages, SecondStages
    <3> QED
      BY <2>0, <3>2, <3>3, <3>4, <3>5 DEF RefreshOK, RefreshFollowsAdvance
  <2>2. CASE StartExpiry
    <3>1. pending'[Late] \subseteq pending[Late]
      BY <1>0, <2>2, LateApart DEF StartExpiry
    <3>2. \A n \in Targets : baseline'[n] = baseline[n] /\ recorded'[n] = 0
      BY <2>2 DEF StartExpiry, TrackerStart
    <3>3. stage \in ObservedStages /\ mutation' = mutation
      BY <2>2 DEF StartExpiry, ObservedStages, FirstStages
    <3>4. RefreshFollowsAdvance'
      BY <1>9, <3>2
    <3> QED
      BY <1>1, <1>8, <2>0, <3>1, <3>2, <3>3, <3>4 DEF RefreshOK
  <2>3. CASE UNCHANGED trackerVars /\ (stage' \in ObservedStages => stage \in ObservedStages)
    <3>1. RefreshFollowsAdvance'
      BY <1>1, <1>9, <2>3 DEF RefreshOK, RefreshFollowsAdvance, phaseVars, trackerVars
    <3> QED
      BY <1>1, <1>8, <2>0, <2>3, <3>1 DEF RefreshOK, trackerVars, phaseVars
  <2>4. CASE Discard /\ stage' \notin ObservedStages
    BY <2>4 DEF Discard, RefreshOK, RefreshFollowsAdvance
  <2>5. CASE \/ ScaleDown \/ Drain \/ Validate \/ Wipe \/ Wiped \/ Prepare \/ PoolSucceeds
             \/ Configure \/ ScaleUp \/ PhaseWaited \/ Advance \/ Collect \/ Verify
             \/ FailsInjected
    BY <2>3, <2>5 DEF ScaleDown, Drain, Validate, Wipe, Wiped, Prepare, PoolSucceeds,
       PoolStages, Configure, ScaleUp, PhaseWaited, Advance, Collect, Verify, FailsInjected,
       InjectedStages, Go, Exit, ObservedStages, FirstStages, SecondStages
  <2>6. CASE Fails \/ Abort
    BY <2>4, <2>6 DEF Fails, Abort, Exit, ObservedStages, FirstStages, SecondStages
  <2> QED
    BY <1>14, <2>1, <2>2, <2>5, <2>6 DEF Main
<1>15. ASSUME NEW w \in Workers, Operation(w) PROVE RefreshOK'
  <2>1. stage' \notin ObservedStages /\ UNCHANGED phaseVars
    BY <1>15, OperationFrame DEF mainVars, trackerVars, PoolStages, ObservedStages,
       FirstStages, SecondStages
  <2>2. RefreshFollowsAdvance'
    BY <1>1, <1>9, <2>1 DEF RefreshOK, RefreshFollowsAdvance, phaseVars
  <2> QED
    BY <2>1, <2>2 DEF RefreshOK
<1> QED
  BY <1>10, <1>11, <1>12, <1>13, <1>14, <1>15, PoolRunsFrame
     DEF Next, vars, mainVars, clusterVars, trackerVars

\* Unless the controller crashes, the expiry phase counts only the generation that the
\* advanced clock brought, the injected resources are held against this generation, and
\* the injected Namespace never shows an earlier one.
THEOREM RefreshFollowsAdvanceCorrect == Spec => []RefreshFollowsAdvance
<1>1. RefreshOK => RefreshFollowsAdvance
  BY DEF RefreshOK
<1> QED
  BY <1>1, RefreshInit, RefreshNext, BaseCorrect, TokenCorrect, DatasetCorrect,
     VersionsCorrect, PTL DEF Spec
=============================================================================
