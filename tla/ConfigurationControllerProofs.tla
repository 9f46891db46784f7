-------------------- MODULE ConfigurationControllerProofs --------------------
(***************************************************************************)
(* Proofs about ConfigurationController for any configurations, objects,   *)
(* channel capacity and bounds.                                            *)
(***************************************************************************)
EXTENDS ConfigurationController, TLAPS

\* What the place of the reconciler says of its locals.
StageOK ==
    /\ pc = "apply" => object.kind = "valid"
    /\ pc = "sendNamespaces" => todo \subseteq Namespaces
    /\ pc = "sendServiceAccounts" => todo \subseteq ServiceAccounts

-----------------------------------------------------------------------------
(* Types                                                                    *)

LEMMA BoundsAreNumbers == MaxEdits \in Nat /\ MaxFaults \in Nat /\ Buffer \in Nat \ {0}
BY ControllerAssumption

\* What a ConfigMap that is not missing can be.
LEMMA ConfigMapFields ==
    ASSUME NEW cm \in AnyConfigMap
    PROVE  /\ cm.kind \in {"valid", "invalid", "missing"}
           /\ cm.kind = "valid" => cm.config \in Configurations
           /\ cm.kind # "missing" => cm.version \in 1..MaxEdits
           /\ cm.kind = "missing" => cm = Missing
<1>1. CASE cm = Missing
  BY <1>1 DEF Missing
<1>2. CASE cm # Missing
  <2>1. PICK v \in 1..MaxEdits : cm \in ConfigMaps(v)
    BY <1>2 DEF AnyConfigMap
  <2>2. \/ cm \in [kind : {"valid"}, config : Configurations, version : {v}]
        \/ cm = [kind |-> "invalid", config |-> NoConfiguration, version |-> v]
    BY <1>2, <2>1 DEF ConfigMaps
  <2> QED
    BY <2>2
<1> QED
  BY <1>1, <1>2

LEMMA MissingIsOne == Missing \in AnyConfigMap
BY Zenon DEF AnyConfigMap

\* The next version is one.
LEMMA NextConfigMap ==
    ASSUME NEW n \in 0..MaxEdits, n < MaxEdits, NEW cm \in ConfigMaps(n + 1)
    PROVE  /\ cm \in AnyConfigMap
           /\ cm.kind # "missing" => cm.version = n + 1
<1>1. n + 1 \in 1..MaxEdits
  BY ControllerAssumption
<1>2. cm \in AnyConfigMap
  BY <1>1 DEF AnyConfigMap
<1>3. cm.kind # "missing" => cm.version = n + 1
  BY DEF ConfigMaps, Missing
<1> QED
  BY <1>2, <1>3

\* Resolve and the changes of the tuning keep its type.
LEMMA ResolveType ==
    ASSUME NEW c \in Configurations
    PROVE  Resolve(c.runtime) \in Settings
<1>1. c.runtime \in [qps : Nat, burst : Nat, workers : Nat]
  BY ControllerAssumption
<1> QED
  BY <1>1, ControllerAssumption DEF Resolve, Settings

LEMMA BootstrapType ==
    ASSUME NEW cm \in AnyConfigMap
    PROVE  Bootstrap(cm) \in Tunings
<1>1. cm.kind = "valid" => Resolve(cm.config.runtime) \in Settings
  BY ConfigMapFields, ResolveType
<1>2. Fallback \in Settings
  BY ControllerAssumption DEF Settings
<1> QED
  BY <1>1, <1>2 DEF Bootstrap, Tunings, Rate, Settings

LEMMA RetunedType ==
    ASSUME NEW t \in Tunings, NEW c \in Configurations
    PROVE  Retuned(t, c.runtime) \in Tunings
<1>1. Resolve(c.runtime) \in Settings
  BY ResolveType
<1> QED
  BY <1>1 DEF Retuned, Tunings, Rate, Settings

LEMMA TypeInit == Init => TypeOK /\ StageOK
<1> SUFFICES ASSUME Init PROVE TypeOK /\ StageOK
  OBVIOUS
<1>1. Missing \in AnyConfigMap
  BY MissingIsOne
<1>2. tuning \in Tunings
  BY <1>1, BootstrapType DEF Init
<1>3. channel \in [Kinds -> Seq(Objects)] /\ \A kind \in Kinds : channel[kind] = << >>
  BY DEF Init
<1>4. << >> \in Seq(1..MaxEdits) /\ \A kind \in Kinds : << >> \in Seq(OfKind(kind))
  OBVIOUS
<1>5. \A kind \in Kinds : channel[kind] \in Seq(OfKind(kind)) /\ Len(channel[kind]) <= Buffer
  BY <1>3, <1>4, BoundsAreNumbers
<1>6. lastRejection \in -1..MaxEdits /\ edits \in 0..MaxEdits /\ startedAt \in 0..MaxEdits
  BY BoundsAreNumbers DEF Init, NoRejection
<1>7. /\ working \in [Objects -> Businesses \cup {None}]
      /\ served \in [Objects -> Businesses \cup {None}]
      /\ schedulerSees \in Businesses \cup {None}
  BY DEF Init
<1>8. /\ requested \in BOOLEAN /\ valid \in BOOLEAN /\ pendingFanout \in BOOLEAN
      /\ notified \in BOOLEAN /\ leader \in BOOLEAN
  BY Zenon DEF Init
<1>9. /\ configMap \in AnyConfigMap /\ object \in AnyConfigMap
      /\ current \in Configurations \cup {NoConfiguration}
  BY <1>1, Zenon DEF Init
<1>10. pc \in Pcs /\ faults \in 0..MaxFaults /\ todo \subseteq Objects
       /\ cached \subseteq Objects /\ queue \subseteq Objects
  BY BoundsAreNumbers DEF Init, Pcs
<1>11. warned \in Seq(1..MaxEdits)
  BY <1>4 DEF Init
<1>12. StageOK
  BY DEF Init, StageOK
<1> QED
  BY <1>2, <1>3, <1>5, <1>6, <1>7, <1>8, <1>9, <1>10, <1>11, <1>12, Zenon DEF TypeOK

LEMMA TypeNext == TypeOK /\ StageOK /\ [Next]_vars => TypeOK' /\ StageOK'
<1> SUFFICES ASSUME TypeOK, StageOK, [Next]_vars PROVE TypeOK' /\ StageOK'
  OBVIOUS
<1> USE BoundsAreNumbers
<1> USE DEF cmVars, reconcilerVars, storeVars, schedulerVars, resourceVars
<1>1. CASE UNCHANGED vars
  BY <1>1 DEF vars, TypeOK, StageOK
<1>2. ASSUME NEW cm \in ConfigMaps(edits + 1), EditConfigMap(cm) PROVE TypeOK' /\ StageOK'
  <2>1. cm \in AnyConfigMap
    BY <1>2, NextConfigMap DEF EditConfigMap, TypeOK
  <2> QED
    BY <1>2, <2>1 DEF EditConfigMap, TypeOK, StageOK
<1>3. ASSUME NEW o \in Objects, Create(o) PROVE TypeOK' /\ StageOK'
  BY <1>3 DEF Create, TypeOK, StageOK
<1>4. CASE Elected
  BY <1>4 DEF Elected, TypeOK, StageOK
<1>5. CASE Restart
  <2>1. tuning' \in Tunings
    BY <1>5, BootstrapType DEF Restart, TypeOK
  <2>2. channel' \in [Kinds -> Seq(Objects)] /\ \A kind \in Kinds : channel'[kind] = << >>
    BY <1>5 DEF Restart
  <2>3. << >> \in Seq(1..MaxEdits) /\ \A kind \in Kinds : << >> \in Seq(OfKind(kind))
    OBVIOUS
  <2>4. Missing \in AnyConfigMap
    BY MissingIsOne
  <2>5. requested' \in BOOLEAN
    BY <1>5, Zenon DEF Restart
  <2>6. lastRejection' \in -1..MaxEdits
    BY <1>5 DEF Restart, NoRejection
  <2>7. working' \in [Objects -> Businesses \cup {None}]
    BY <1>5 DEF Restart
  <2>8. warned' \in Seq(1..MaxEdits)
    BY <1>5, <2>3 DEF Restart
  <2>9. schedulerSees' \in Businesses \cup {None}
    BY <1>5 DEF Restart
  <2>10. \A kind \in Kinds : channel'[kind] \in Seq(OfKind(kind)) /\ Len(channel'[kind]) <= Buffer
    BY <2>2, <2>3
  <2>11. /\ valid' \in BOOLEAN /\ pendingFanout' \in BOOLEAN
         /\ notified' \in BOOLEAN /\ leader' \in BOOLEAN
    BY <1>5, Zenon DEF Restart
  <2>12. /\ object' \in AnyConfigMap /\ current' \in Configurations \cup {NoConfiguration}
    BY <1>5, <2>4, Zenon DEF Restart
  <2>13. /\ configMap' \in AnyConfigMap /\ edits' \in 0..MaxEdits /\ cached' \subseteq Objects
         /\ served' \in [Objects -> Businesses \cup {None}]
         /\ queue' \subseteq Objects /\ startedAt' \in 0..MaxEdits
    BY <1>5 DEF Restart, TypeOK
  <2>14. pc' \in Pcs /\ faults' \in 0..MaxFaults /\ todo' \subseteq Objects
    BY <1>5 DEF Restart, TypeOK, Pcs
  <2>15. StageOK'
    BY <1>5 DEF Restart, StageOK
  <2> QED
    BY <2>1, <2>2, <2>5, <2>6, <2>7, <2>8, <2>9, <2>10, <2>11, <2>12, <2>13, <2>14, <2>15,
       Zenon DEF TypeOK
<1>6. CASE Begin
  BY <1>6 DEF Begin, TypeOK, StageOK, Pcs
<1>7. CASE GetFails \/ ListFails
  <2>1. Missing \in AnyConfigMap
    BY MissingIsOne
  <2>2. requested' \in BOOLEAN
    BY <1>7, Zenon DEF GetFails, ListFails, ReadFails, Finish
  <2> QED
    BY <1>7, <2>1, <2>2 DEF GetFails, ListFails, ReadFails, Finish, TypeOK, StageOK, Pcs
<1>8. CASE GetMissing
  <2>1. Missing \in AnyConfigMap
    BY MissingIsOne
  <2>2. requested' \in BOOLEAN
    BY <1>8, Zenon DEF GetMissing, Finish
  <2>3. lastRejection' \in -1..MaxEdits
    BY <1>8 DEF GetMissing, MissingRejection
  <2> QED
    BY <1>8, <2>1, <2>2, <2>3 DEF GetMissing, Finish, TypeOK, StageOK, Pcs, MissingRejection
<1>9. CASE GetConfigMap
  BY <1>9 DEF GetConfigMap, TypeOK, StageOK, Pcs
<1>10. CASE Reject
  <2>1. object.version \in 1..MaxEdits /\ Missing \in AnyConfigMap
    BY <1>10, ConfigMapFields, MissingIsOne DEF Reject, TypeOK
  <2>2. Append(warned, object.version) \in Seq(1..MaxEdits)
    BY <2>1 DEF TypeOK
  <2>3. warned' \in Seq(1..MaxEdits)
    BY <1>10, <2>2 DEF Reject, TypeOK
  <2>4. requested' \in BOOLEAN
    BY <1>10, Zenon DEF Reject, Finish
  <2>5. lastRejection' \in -1..MaxEdits
    BY <1>10, <2>1 DEF Reject
  <2> QED
    BY <1>10, <2>1, <2>3, <2>4, <2>5 DEF Reject, Finish, TypeOK, StageOK, Pcs
<1>11. CASE ApplyRuntime
  <2>1. tuning' \in Tunings
    BY <1>11, ConfigMapFields, RetunedType DEF ApplyRuntime, TypeOK
  <2> QED
    BY <1>11, <2>1 DEF ApplyRuntime, TypeOK, StageOK, Pcs, NoRejection
<1>12. CASE Apply
  <2>1. object.config \in Configurations
    BY <1>12, ConfigMapFields DEF Apply, TypeOK, StageOK
  <2> QED
    BY <1>12, <2>1 DEF Apply, TypeOK, StageOK, Pcs
<1>13. CASE NotifyConfigurationChanged
  BY <1>13 DEF NotifyConfigurationChanged, TypeOK, StageOK, Pcs
<1>14. CASE NoFanout \/ FanoutDone
  <2>1. Missing \in AnyConfigMap
    BY MissingIsOne
  <2> QED
    BY <1>14, <2>1 DEF NoFanout, FanoutDone, Finish, TypeOK, StageOK, Pcs
<1>15. CASE ListNamespaces \/ ListServiceAccounts \/ NamespacesSent
  BY <1>15 DEF ListNamespaces, ListServiceAccounts, NamespacesSent, TypeOK, StageOK, Pcs
<1>16. ASSUME NEW kind \in Kinds, NEW o \in Objects, Send(kind, o) PROVE TypeOK' /\ StageOK'
  <2>1. o \in OfKind(kind)
    BY <1>16 DEF Send, StageOK, OfKind, Kinds
  <2>2. /\ channel'[kind] \in Seq(OfKind(kind)) /\ channel'[kind] \in Seq(Objects)
        /\ Len(channel'[kind]) <= Buffer
    BY <1>16, <2>1 DEF Send, TypeOK
  <2>3. /\ channel' \in [Kinds -> Seq(Objects)]
        /\ \A k \in Kinds : channel'[k] \in Seq(OfKind(k)) /\ Len(channel'[k]) <= Buffer
    BY <1>16, <2>2 DEF Send, TypeOK
  <2> QED
    BY <1>16, <2>3 DEF Send, TypeOK, StageOK
<1>17. CASE SchedulerLoads
  <2>1. current.business \in Businesses \cup {None}
    BY DEF TypeOK, Businesses, NoConfiguration
  <2> QED
    BY <1>17, <2>1 DEF SchedulerLoads, TypeOK, StageOK
<1>18. ASSUME NEW kind \in Kinds, Receive(kind) PROVE TypeOK' /\ StageOK'
  <2>1. Head(channel[kind]) \in Objects
    BY <1>18 DEF Receive, TypeOK
  <2>2. /\ Tail(channel[kind]) \in Seq(OfKind(kind)) /\ Tail(channel[kind]) \in Seq(Objects)
        /\ Len(Tail(channel[kind])) <= Buffer
    BY <1>18 DEF Receive, TypeOK
  <2>3. /\ channel' \in [Kinds -> Seq(Objects)]
        /\ \A k \in Kinds : channel'[k] \in Seq(OfKind(k)) /\ Len(channel'[k]) <= Buffer
    BY <1>18, <2>2 DEF Receive, TypeOK
  <2> QED
    BY <1>18, <2>1, <2>3 DEF Receive, TypeOK, StageOK
<1>19. ASSUME NEW o \in Objects, ReconcileBegin(o) \/ ReconcileEnd(o) \/ ReconcileFails(o)
       PROVE  TypeOK' /\ StageOK'
  <2>1. current.business \in Businesses \cup {None}
    BY DEF TypeOK, Businesses, NoConfiguration
  <2>2. CASE ReconcileBegin(o)
    BY <2>1, <2>2 DEF ReconcileBegin, TypeOK, StageOK
  <2>3. CASE ReconcileEnd(o)
    BY <2>3 DEF ReconcileEnd, TypeOK, StageOK
  <2>4. CASE ReconcileFails(o)
    BY <2>4 DEF ReconcileFails, TypeOK, StageOK
  <2> QED
    BY <1>19, <2>2, <2>3, <2>4
<1> QED
  BY <1>1, <1>2, <1>3, <1>4, <1>5, <1>6, <1>7, <1>8, <1>9, <1>10, <1>11, <1>12, <1>13,
     <1>14, <1>15, <1>16, <1>17, <1>18, <1>19 DEF Next, ReconcilerStep

\* Every variable of the configuration controller keeps its type, and the event
\* channels never hold more than their capacity.
THEOREM ControllerTypeCorrect == Spec => []TypeOK
<1>1. Spec => [](TypeOK /\ StageOK)
  BY TypeInit, TypeNext, PTL DEF Spec
<1> QED
  BY <1>1, PTL

-----------------------------------------------------------------------------
(* The notification of the scheduler                                        *)

\* A notification of the scheduler is never lost: SchedulerInformed is inductive, as
\* Apply leaves the business part alone or goes on to notify.
THEOREM SchedulerInformedCorrect == Spec => []SchedulerInformed
<1>1. Init => SchedulerInformed
  BY DEF Init, SchedulerInformed, NoConfiguration
<1>2. SchedulerInformed /\ [Next]_vars => SchedulerInformed'
  <2> SUFFICES ASSUME SchedulerInformed, [Next]_vars PROVE SchedulerInformed'
    OBVIOUS
  <2> USE DEF SchedulerInformed, cmVars, reconcilerVars, storeVars, schedulerVars, resourceVars
  <2>1. CASE UNCHANGED vars
    BY <2>1 DEF vars
  <2>2. CASE (\E cm \in ConfigMaps(edits + 1) : EditConfigMap(cm)) \/ (\E o \in Objects : Create(o))
             \/ Elected
    BY <2>2 DEF EditConfigMap, Create, Elected
  <2>3. CASE Restart
    BY <2>3 DEF Restart, NoConfiguration
  <2>4. CASE GetFails \/ ListFails
    BY <2>4 DEF GetFails, ListFails, ReadFails, Finish
  <2>5. CASE Begin \/ GetMissing \/ GetConfigMap \/ Reject \/ ApplyRuntime
    BY <2>5 DEF Begin, GetMissing, GetConfigMap, Reject, ApplyRuntime, Finish
  <2>6. CASE Apply
    BY <2>6 DEF Apply
  <2>7. CASE NotifyConfigurationChanged \/ NoFanout \/ ListNamespaces \/ NamespacesSent
             \/ ListServiceAccounts \/ FanoutDone
    BY <2>7 DEF NotifyConfigurationChanged, NoFanout, ListNamespaces, NamespacesSent,
                ListServiceAccounts, FanoutDone, Finish
  <2>8. CASE \E kind \in Kinds, o \in Objects : Send(kind, o)
    BY <2>8 DEF Send
  <2>9. CASE SchedulerLoads
    BY <2>9 DEF SchedulerLoads
  <2>10. CASE (\E kind \in Kinds : Receive(kind))
              \/ \E o \in Objects : ReconcileBegin(o) \/ ReconcileEnd(o) \/ ReconcileFails(o)
    BY <2>10 DEF Receive, ReconcileBegin, ReconcileEnd, ReconcileFails
  <2> QED
    BY <2>1, <2>2, <2>3, <2>4, <2>5, <2>6, <2>7, <2>8, <2>9, <2>10 DEF Next, ReconcilerStep
<1> QED
  BY <1>1, <1>2, PTL DEF Spec

-----------------------------------------------------------------------------
(* The tuning                                                               *)

\* Between RuntimeUpdater.Apply and Store.Apply the tuning is that of the version in
\* hand.
TuningInv ==
    /\ TuningInStep
    /\ pc = "apply" => /\ tuning.desired = Resolve(object.config.runtime)
                       /\ tuning.limiter = Rate(tuning.desired)

\* Versions only grow, and the one in hand is the ConfigMap unless that is newer.
VersionsOK ==
    /\ startedAt <= edits
    /\ configMap.kind # "missing" => configMap.version = edits
    /\ object.kind # "missing" =>
          /\ startedAt <= object.version /\ object.version <= edits
          /\ object.version = edits => object = configMap

\* A reported version that can be reconciled again is the one reported last.
ReportedOK ==
    /\ \A i \in 1..Len(warned) : warned[i] <= edits
    /\ object.kind # "missing" => \A i \in 1..Len(warned) : warned[i] <= object.version
    /\ configMap.kind = "invalid" => \A i \in 1..Len(warned) :
          warned[i] = configMap.version => lastRejection = configMap.version
    /\ object.kind = "invalid" => \A i \in 1..Len(warned) :
          warned[i] = object.version => lastRejection = object.version

VersionInv == VersionsOK /\ OneRestartSuffices /\ ReportedOK /\ WarnedOnce

\* What Runtime.Apply returns.
LEMMA RetunedFields ==
    ASSUME NEW t \in Tunings, NEW c \in Configurations, t.limiter = Rate(t.current)
    PROVE  LET next == Retuned(t, c.runtime) IN
           /\ next.desired = Resolve(c.runtime)
           /\ next.limiter = Rate(next.desired)
           /\ next.limiter = Rate(next.current)
           /\ t.current = Resolve(c.runtime) => next.current = t.current
<1>1. Resolve(c.runtime) \in Settings
  BY ResolveType
<1> QED
  BY <1>1 DEF Retuned, Tunings, Rate, Settings

LEMMA TuningInit == Init => TuningInv
BY DEF Init, TuningInv, TuningInStep, Bootstrap

LEMMA TuningNext == TypeOK /\ StageOK /\ TuningInv /\ [Next]_vars => TuningInv'
<1> SUFFICES ASSUME TypeOK, StageOK, TuningInv, [Next]_vars PROVE TuningInv'
  OBVIOUS
<1> USE DEF cmVars, reconcilerVars, storeVars, schedulerVars, resourceVars
<1>1. CASE UNCHANGED vars
  BY <1>1 DEF vars, TuningInv, TuningInStep
<1>2. CASE (\E cm \in ConfigMaps(edits + 1) : EditConfigMap(cm)) \/ (\E o \in Objects : Create(o))
           \/ Elected
  BY <1>2 DEF EditConfigMap, Create, Elected, TuningInv, TuningInStep
<1>3. CASE Restart
  BY <1>3 DEF Restart, Bootstrap, TuningInv, TuningInStep
<1>4. CASE GetFails \/ ListFails
  BY <1>4 DEF GetFails, ListFails, ReadFails, Finish, TuningInv, TuningInStep
<1>5. CASE Begin \/ GetMissing \/ GetConfigMap \/ Reject
  BY <1>5 DEF Begin, GetMissing, GetConfigMap, Reject, Finish, TuningInv, TuningInStep
<1>6. CASE ApplyRuntime
  <2>1. object.config \in Configurations /\ tuning \in Tunings
    BY <1>6, ConfigMapFields DEF ApplyRuntime, TypeOK
  <2>2. tuning.limiter = Rate(tuning.current)
    BY DEF TuningInv, TuningInStep
  <2>3. /\ tuning'.desired = Resolve(object.config.runtime)
        /\ tuning'.limiter = Rate(tuning'.desired)
        /\ tuning'.limiter = Rate(tuning'.current)
    BY <1>6, <2>1, <2>2, RetunedFields DEF ApplyRuntime
  <2> QED
    BY <1>6, <2>3 DEF ApplyRuntime, TuningInv, TuningInStep
<1>7. CASE Apply
  BY <1>7 DEF Apply, TuningInv, TuningInStep
<1>8. CASE NotifyConfigurationChanged \/ NoFanout \/ ListNamespaces \/ NamespacesSent
           \/ ListServiceAccounts \/ FanoutDone
  BY <1>8 DEF NotifyConfigurationChanged, NoFanout, ListNamespaces, NamespacesSent,
              ListServiceAccounts, FanoutDone, Finish, TuningInv, TuningInStep
<1>9. CASE \E kind \in Kinds, o \in Objects : Send(kind, o)
  BY <1>9 DEF Send, TuningInv, TuningInStep
<1>10. CASE SchedulerLoads \/ (\E kind \in Kinds : Receive(kind))
            \/ \E o \in Objects : ReconcileBegin(o) \/ ReconcileEnd(o) \/ ReconcileFails(o)
  BY <1>10 DEF SchedulerLoads, Receive, ReconcileBegin, ReconcileEnd, ReconcileFails,
               TuningInv, TuningInStep
<1> QED
  BY <1>1, <1>2, <1>3, <1>4, <1>5, <1>6, <1>7, <1>8, <1>9, <1>10 DEF Next, ReconcilerStep

\* The limiter has the rate in force, and a stored configuration the rate and the
\* settings it asks for: TuningInv adds what holds between the two assignments.
THEOREM TuningInStepCorrect == Spec => []TuningInStep
<1>1. Spec => [](TypeOK /\ StageOK /\ TuningInv)
  BY TypeInit, TypeNext, TuningInit, TuningNext, PTL DEF Spec
<1>2. TuningInv => TuningInStep
  BY DEF TuningInv
<1> QED
  BY <1>1, <1>2, PTL

-----------------------------------------------------------------------------
(* Versions                                                                 *)

LEMMA VersionInit == Init => VersionInv
BY DEF Init, VersionInv, VersionsOK, OneRestartSuffices, ReportedOK, WarnedOnce, Missing

\* A step that leaves the versions, the tuning and the reports alone, and the version
\* in hand too or drops it.
LEMMA VersionStutter ==
    ASSUME VersionInv,
           UNCHANGED <<configMap, edits, startedAt, tuning, lastRejection, warned>>,
           object' = object \/ object' = Missing
    PROVE  VersionInv'
BY DEF VersionInv, VersionsOK, OneRestartSuffices, ReportedOK, WarnedOnce, Missing

LEMMA VersionNext == TypeOK /\ StageOK /\ TuningInv /\ VersionInv /\ [Next]_vars => VersionInv'
<1> SUFFICES ASSUME TypeOK, StageOK, TuningInv, VersionInv, [Next]_vars PROVE VersionInv'
  OBVIOUS
<1> USE BoundsAreNumbers
<1> USE DEF cmVars, reconcilerVars, storeVars, schedulerVars, resourceVars
<1>1. /\ edits \in Nat /\ startedAt \in Nat /\ warned \in Seq(1..MaxEdits)
      /\ configMap \in AnyConfigMap /\ object \in AnyConfigMap /\ lastRejection \in Int
  BY DEF TypeOK
<1>2. \A i \in 1..Len(warned) : warned[i] \in Nat
  BY <1>1
<1>3. CASE UNCHANGED vars
  BY <1>3, VersionStutter DEF vars
<1>4. ASSUME NEW cm \in ConfigMaps(edits + 1), EditConfigMap(cm) PROVE VersionInv'
  <2>1. cm \in AnyConfigMap /\ (cm.kind # "missing" => cm.version = edits + 1)
    BY <1>4, NextConfigMap DEF EditConfigMap, TypeOK
  <2>2. object.kind # "missing" => object.version \in Nat
    BY <1>1, ConfigMapFields
  <2>3. VersionsOK'
    BY <1>1, <1>4, <2>1, <2>2 DEF EditConfigMap, VersionInv, VersionsOK
  <2>4. OneRestartSuffices'
    BY <1>1, <1>4 DEF EditConfigMap, VersionInv, VersionsOK, OneRestartSuffices
  <2>5. ReportedOK'
    BY <1>1, <1>2, <1>4, <2>1 DEF EditConfigMap, VersionInv, VersionsOK, ReportedOK
  <2> QED
    BY <1>4, <2>3, <2>4, <2>5 DEF EditConfigMap, VersionInv, WarnedOnce
<1>5. CASE (\E o \in Objects : Create(o)) \/ Elected
  BY <1>5, VersionStutter DEF Create, Elected
<1>6. CASE Restart
  <2>1. OneRestartSuffices'
    BY <1>6 DEF Restart, Bootstrap, OneRestartSuffices
  <2>2. warned' = << >> /\ object'.kind = "missing"
    BY <1>6 DEF Restart, Missing
  <2>3. VersionsOK'
    BY <1>1, <1>6, <2>2 DEF Restart, VersionInv, VersionsOK
  <2>4. ReportedOK' /\ WarnedOnce'
    BY <2>2 DEF ReportedOK, WarnedOnce
  <2> QED
    BY <2>1, <2>3, <2>4 DEF VersionInv
<1>7. CASE GetFails \/ ListFails
  BY <1>7, VersionStutter DEF GetFails, ListFails, ReadFails, Finish
<1>8. CASE Begin
  BY <1>8, VersionStutter DEF Begin
<1>9. CASE GetMissing
  BY <1>9 DEF GetMissing, Finish, VersionInv, VersionsOK, OneRestartSuffices, ReportedOK,
              WarnedOnce, Missing
<1>10. CASE GetConfigMap
  <2>1. configMap.version = edits
    BY <1>10 DEF GetConfigMap, VersionInv, VersionsOK
  <2>2. VersionsOK'
    BY <1>1, <1>10, <2>1 DEF GetConfigMap, VersionInv, VersionsOK
  <2>3. ReportedOK'
    BY <1>10, <2>1 DEF GetConfigMap, VersionInv, ReportedOK
  <2> QED
    BY <1>10, <2>2, <2>3 DEF GetConfigMap, VersionInv, OneRestartSuffices, WarnedOnce
<1>11. CASE Reject
  <2>1. /\ object'.kind = "missing" /\ object.version \in 1..MaxEdits /\ object.version <= edits
        /\ lastRejection' = object.version
    BY <1>1, <1>11, ConfigMapFields DEF Reject, Finish, Missing, VersionInv, VersionsOK
  <2>2. VersionsOK' /\ OneRestartSuffices'
    BY <1>11, <2>1 DEF Reject, VersionInv, VersionsOK, OneRestartSuffices
  <2>3. /\ Len(warned) <= Len(warned')
        /\ \A i \in 1..Len(warned) : warned'[i] = warned[i]
        /\ \A i \in 1..Len(warned') : i \notin 1..Len(warned) =>
              /\ i = Len(warned) + 1
              /\ warned'[i] = object.version
              /\ lastRejection # object.version
    BY <1>1, <1>11, <2>1 DEF Reject
  <2>4. \A i \in 1..Len(warned') : warned'[i] <= edits
    BY <1>1, <2>1, <2>3 DEF VersionInv, ReportedOK
  <2>5. ASSUME configMap.kind = "invalid", NEW i \in 1..Len(warned'), warned'[i] = configMap.version
        PROVE  object.version = configMap.version
    BY <1>1, <1>2, <1>11, <2>1, <2>3, <2>5 DEF Reject, VersionInv, VersionsOK, ReportedOK
  <2>6. ReportedOK'
    BY <1>11, <2>1, <2>4, <2>5 DEF Reject, ReportedOK
  <2>7. WarnedOnce'
    BY <1>1, <1>2, <1>11, <2>1, <2>3 DEF Reject, VersionInv, ReportedOK, WarnedOnce
  <2> QED
    BY <2>2, <2>6, <2>7 DEF VersionInv
<1>12. CASE ApplyRuntime
  <2>1. object.config \in Configurations /\ tuning \in Tunings /\ object.version \in Nat
    BY <1>12, ConfigMapFields DEF ApplyRuntime, TypeOK
  <2>2. tuning.current = Resolve(object.config.runtime) => tuning'.current = tuning.current
    BY <1>12, <2>1, RetunedFields DEF ApplyRuntime, TuningInv, TuningInStep
  <2>3. startedAt = edits => object = configMap
    BY <1>1, <1>12, <2>1 DEF ApplyRuntime, VersionInv, VersionsOK
  <2>4. OneRestartSuffices'
    BY <1>12, <2>2, <2>3 DEF ApplyRuntime, VersionInv, OneRestartSuffices
  <2>5. ASSUME configMap.kind = "invalid", NEW i \in 1..Len(warned) PROVE warned[i] # configMap.version
    BY <1>1, <1>2, <1>12, <2>1, <2>5 DEF ApplyRuntime, VersionInv, VersionsOK, ReportedOK
  <2>6. ReportedOK'
    BY <1>12, <2>5 DEF ApplyRuntime, VersionInv, ReportedOK
  <2> QED
    BY <1>12, <2>4, <2>6 DEF ApplyRuntime, VersionInv, VersionsOK, WarnedOnce
<1>13. CASE Apply
  BY <1>13, VersionStutter DEF Apply
<1>14. CASE NotifyConfigurationChanged \/ NoFanout \/ ListNamespaces \/ NamespacesSent
            \/ ListServiceAccounts \/ FanoutDone
  BY <1>14, VersionStutter DEF NotifyConfigurationChanged, NoFanout, ListNamespaces,
       NamespacesSent, ListServiceAccounts, FanoutDone, Finish
<1>15. CASE \E kind \in Kinds, o \in Objects : Send(kind, o)
  BY <1>15, VersionStutter DEF Send
<1>16. CASE SchedulerLoads \/ (\E kind \in Kinds : Receive(kind))
            \/ \E o \in Objects : ReconcileBegin(o) \/ ReconcileEnd(o) \/ ReconcileFails(o)
  BY <1>16, VersionStutter DEF SchedulerLoads, Receive, ReconcileBegin, ReconcileEnd, ReconcileFails
<1> QED
  BY <1>3, <1>4, <1>5, <1>6, <1>7, <1>8, <1>9, <1>10, <1>11, <1>12, <1>13, <1>14, <1>15, <1>16
     DEF Next, ReconcilerStep

LEMMA VersionCorrect == Spec => [](TypeOK /\ StageOK /\ TuningInv /\ VersionInv)
BY TypeInit, TypeNext, TuningInit, TuningNext, VersionInit, VersionNext, PTL DEF Spec

\* A restart brings the workers a valid ConfigMap asks for into force at once, and no
\* reconciliation of that ConfigMap takes them away: the reconciler cannot hold an
\* older version, as versions grow and a restart empties its hands.
THEOREM OneRestartSufficesCorrect == Spec => []OneRestartSuffices
<1>1. VersionInv => OneRestartSuffices
  BY DEF VersionInv
<1> QED
  BY <1>1, VersionCorrect, PTL

\* No version is reported twice: whatever was reported and can come back is the
\* rejection remembered, because only a newer version overwrites it.
THEOREM WarnedOnceCorrect == Spec => []WarnedOnce
<1>1. VersionInv => WarnedOnce
  BY DEF VersionInv
<1> QED
  BY <1>1, VersionCorrect, PTL

-----------------------------------------------------------------------------
(* The fan-out                                                              *)

\* An object is reconciled with the stored configuration, or will be.
Told(o) ==
    \/ served[o] = current.business /\ working[o] \in {None, current.business}
    \/ working[o] = current.business
    \/ o \in queue
    \/ InChannel(o)

\* How far a fan-out has come.
FanoutInv ==
    /\ FanoutRemembered
    /\ pc = "notify" => pendingFanout
    /\ pc = "sendNamespaces" => \A o \in cached \cap Namespaces : o \in todo \/ Told(o)
    /\ pc = "listServiceAccounts" => \A o \in cached \cap Namespaces : Told(o)
    /\ pc = "sendServiceAccounts" => \A o \in cached : o \in todo \/ Told(o)

\* Sending keeps what the channels hold and adds the object sent.
LEMMA SendInChannel ==
    ASSUME TypeOK, NEW kind \in Kinds, NEW x \in Objects, Send(kind, x)
    PROVE  InChannel(x)' /\ \A o \in Objects : InChannel(o) => InChannel(o)'
<1>1. /\ channel[kind] \in Seq(Objects)
      /\ channel'[kind] = Append(channel[kind], x)
      /\ \A k \in Kinds : k # kind => channel'[k] = channel[k]
  BY DEF TypeOK, Send
<1>2. /\ Len(channel'[kind]) = Len(channel[kind]) + 1
      /\ channel'[kind][Len(channel'[kind])] = x
      /\ \A i \in 1..Len(channel[kind]) :
            i \in 1..Len(channel'[kind]) /\ channel'[kind][i] = channel[kind][i]
  BY <1>1
<1>3. InChannel(x)'
  <2>1. Len(channel'[kind]) \in 1..Len(channel'[kind])
    BY <1>1, <1>2
  <2> QED
    BY <1>2, <2>1 DEF InChannel
<1>4. ASSUME NEW o \in Objects, InChannel(o) PROVE InChannel(o)'
  <2>1. PICK k \in Kinds : \E i \in 1..Len(channel[k]) : channel[k][i] = o
    BY <1>4 DEF InChannel
  <2>2. \E i \in 1..Len(channel'[k]) : channel'[k][i] = o
    BY <1>1, <1>2, <2>1
  <2> QED
    BY <2>2 DEF InChannel
<1> QED
  BY <1>3, <1>4

\* What leaves a channel is queued.
LEMMA ReceiveInChannel ==
    ASSUME TypeOK, NEW kind \in Kinds, Receive(kind)
    PROVE  \A o \in Objects : InChannel(o) => o \in queue' \/ InChannel(o)'
<1>1. /\ channel[kind] \in Seq(Objects) /\ channel[kind] # << >>
      /\ channel'[kind] = Tail(channel[kind])
      /\ Head(channel[kind]) \in queue'
      /\ \A k \in Kinds : k # kind => channel'[k] = channel[k]
  BY DEF TypeOK, Receive
<1>2. \A i \in 1..Len(channel[kind]) :
        \/ channel[kind][i] = Head(channel[kind])
        \/ i - 1 \in 1..Len(channel'[kind]) /\ channel'[kind][i - 1] = channel[kind][i]
  BY <1>1
<1>3. ASSUME NEW o \in Objects, InChannel(o) PROVE o \in queue' \/ InChannel(o)'
  <2>1. PICK k \in Kinds : \E i \in 1..Len(channel[k]) : channel[k][i] = o
    BY <1>3 DEF InChannel
  <2>2. o \in queue' \/ \E i \in 1..Len(channel'[k]) : channel'[k][i] = o
    BY <1>1, <1>2, <2>1
  <2> QED
    BY <2>2 DEF InChannel
<1> QED
  BY <1>3

\* A step that leaves the receivers and the store's business part alone.
LEMMA ToldStutter ==
    ASSUME NEW o, UNCHANGED <<channel, queue, working, served>>, current'.business = current.business
    PROVE  Told(o)' = Told(o)
BY DEF Told, InChannel

\* A step of the receivers never drops an object.
LEMMA ToldKept ==
    ASSUME TypeOK, NEW o \in Objects, Told(o), current' = current,
           \/ \E kind \in Kinds : Receive(kind)
           \/ \E x \in Objects : ReconcileBegin(x) \/ ReconcileEnd(x) \/ ReconcileFails(x)
    PROVE  Told(o)'
<1>1. ASSUME NEW kind \in Kinds, Receive(kind) PROVE Told(o)'
  <2>1. InChannel(o) => o \in queue' \/ InChannel(o)'
    BY <1>1, ReceiveInChannel
  <2> QED
    BY <1>1, <2>1 DEF Receive, Told
<1>2. ASSUME NEW x \in Objects, ReconcileBegin(x) \/ ReconcileEnd(x) \/ ReconcileFails(x)
      PROVE  Told(o)'
  <2>1. InChannel(o)' = InChannel(o)
    BY <1>2 DEF ReconcileBegin, ReconcileEnd, ReconcileFails, InChannel
  <2>2. CASE ReconcileBegin(x)
    BY <2>1, <2>2 DEF ReconcileBegin, Told, TypeOK
  <2>3. CASE ReconcileEnd(x)
    BY <2>1, <2>3 DEF ReconcileEnd, Told, TypeOK
  <2>4. CASE ReconcileFails(x)
    BY <2>1, <2>4 DEF ReconcileFails, Told, TypeOK
  <2> QED
    BY <1>2, <2>2, <2>3, <2>4
<1> QED
  BY <1>1, <1>2

LEMMA FanoutNext == TypeOK /\ StageOK /\ FanoutInv /\ [Next]_vars => FanoutInv'
<1> SUFFICES ASSUME TypeOK, StageOK, FanoutInv, [Next]_vars PROVE FanoutInv'
  OBVIOUS
<1> USE DEF cmVars, reconcilerVars, storeVars, schedulerVars, resourceVars
<1>1. cached \subseteq Objects /\ Objects = Namespaces \cup ServiceAccounts
  BY DEF TypeOK, Objects
<1>2. FanoutRemembered <=> (current.business # None => pendingFanout \/ \A o \in cached : Told(o))
  BY DEF FanoutRemembered, Told
<1>3. FanoutRemembered' <=> (current'.business # None => pendingFanout' \/ \A o \in cached' : Told(o)')
  BY DEF FanoutRemembered, Told
\* Steps outside the fan-out that the objects do not notice.
<1>4. ASSUME UNCHANGED <<cached, channel, queue, working, served>>,
             current'.business = current.business, pendingFanout' = pendingFanout,
             pc' \in {"idle", "get", "parse", "apply", "fanout"} \/ UNCHANGED <<pc, todo>>
      PROVE  FanoutInv'
  <2>1. \A o \in cached : Told(o)' = Told(o)
    BY <1>4, ToldStutter
  <2>2. FanoutRemembered'
    BY <1>2, <1>3, <1>4, <2>1 DEF FanoutInv
  <2> QED
    BY <1>4, <2>1, <2>2 DEF FanoutInv
<1>5. CASE UNCHANGED vars
  BY <1>4, <1>5 DEF vars
<1>6. CASE (\E cm \in ConfigMaps(edits + 1) : EditConfigMap(cm)) \/ Elected \/ SchedulerLoads
  BY <1>4, <1>6 DEF EditConfigMap, Elected, SchedulerLoads
<1>7. ASSUME NEW x \in Objects, Create(x) PROVE FanoutInv'
  <2>1. \A o \in cached : Told(o) => Told(o)'
    BY <1>7 DEF Create, Told, InChannel
  <2>2. Told(x)'
    BY <1>7 DEF Create, Told
  <2>3. FanoutRemembered'
    BY <1>2, <1>3, <1>7, <2>1, <2>2 DEF FanoutInv, Create
  <2> QED
    BY <1>7, <2>1, <2>2, <2>3 DEF FanoutInv, Create
<1>8. CASE Restart
  BY <1>8 DEF Restart, FanoutInv, FanoutRemembered, NoConfiguration
<1>9. CASE GetFails \/ ListFails
  BY <1>4, <1>9 DEF GetFails, ListFails, ReadFails, Finish
<1>10. CASE Begin \/ GetMissing \/ GetConfigMap \/ Reject \/ ApplyRuntime \/ NoFanout
            \/ NotifyConfigurationChanged
  BY <1>4, <1>10 DEF Begin, GetMissing, GetConfigMap, Reject, ApplyRuntime, NoFanout,
                     NotifyConfigurationChanged, Finish
<1>11. CASE Apply
  <2>1. CASE current.business # object.config.business
    <3>1. pendingFanout' /\ pc' = "notify"
      BY <1>11, <2>1 DEF Apply
    <3> QED
      BY <3>1 DEF FanoutInv, FanoutRemembered
  <2>2. CASE current.business = object.config.business
    <3>1. pendingFanout' = pendingFanout /\ pc' = "fanout"
      BY <1>11, <2>2 DEF Apply, TypeOK
    <3> QED
      BY <1>4, <1>11, <2>2, <3>1 DEF Apply
  <2> QED
    BY <2>1, <2>2
<1>12. CASE ListNamespaces
  <2>1. \A o \in cached : Told(o)' = Told(o)
    BY <1>12, ToldStutter DEF ListNamespaces
  <2>2. FanoutRemembered'
    BY <1>2, <1>3, <1>12, <2>1 DEF FanoutInv, ListNamespaces
  <2> QED
    BY <1>12, <2>1, <2>2 DEF FanoutInv, ListNamespaces
<1>13. CASE ListServiceAccounts
  <2>1. \A o \in cached : Told(o)' = Told(o)
    BY <1>13, ToldStutter DEF ListServiceAccounts
  <2>2. FanoutRemembered'
    BY <1>2, <1>3, <1>13, <2>1 DEF FanoutInv, ListServiceAccounts
  <2> QED
    BY <1>1, <1>13, <2>1, <2>2 DEF FanoutInv, ListServiceAccounts
<1>14. ASSUME NEW kind \in Kinds, NEW x \in Objects, Send(kind, x) PROVE FanoutInv'
  <2>1. InChannel(x)' /\ \A o \in Objects : InChannel(o) => InChannel(o)'
    BY <1>14, SendInChannel
  <2>2. Told(x)' /\ \A o \in cached : Told(o) => Told(o)'
    BY <1>1, <1>14, <2>1 DEF Send, Told
  <2>3. FanoutRemembered'
    BY <1>2, <1>3, <1>14, <2>2 DEF FanoutInv, Send
  <2> QED
    BY <1>14, <2>2, <2>3 DEF FanoutInv, Send
<1>15. CASE NamespacesSent
  <2>1. \A o \in cached : Told(o)' = Told(o)
    BY <1>15, ToldStutter DEF NamespacesSent
  <2>2. FanoutRemembered'
    BY <1>2, <1>3, <1>15, <2>1 DEF FanoutInv, NamespacesSent
  <2> QED
    BY <1>15, <2>1, <2>2 DEF FanoutInv, NamespacesSent
<1>16. CASE FanoutDone
  <2>1. \A o \in cached : Told(o)' = Told(o)
    BY <1>16, ToldStutter DEF FanoutDone
  <2>2. \A o \in cached : Told(o)
    BY <1>16 DEF FanoutInv, FanoutDone
  <2>3. FanoutRemembered'
    BY <1>3, <1>16, <2>1, <2>2 DEF FanoutDone
  <2> QED
    BY <1>16, <2>3 DEF FanoutInv, FanoutDone, Finish
<1>17. CASE (\E kind \in Kinds : Receive(kind))
            \/ \E x \in Objects : ReconcileBegin(x) \/ ReconcileEnd(x) \/ ReconcileFails(x)
  <2>1. UNCHANGED <<current, cached, pc, todo, pendingFanout>>
    BY <1>17 DEF Receive, ReconcileBegin, ReconcileEnd, ReconcileFails
  <2>2. \A o \in cached : Told(o) => Told(o)'
    BY <1>1, <1>17, <2>1, ToldKept
  <2>3. FanoutRemembered'
    BY <1>2, <1>3, <2>1, <2>2 DEF FanoutInv
  <2> QED
    BY <2>1, <2>2, <2>3 DEF FanoutInv
<1> QED
  BY <1>5, <1>6, <1>7, <1>8, <1>9, <1>10, <1>11, <1>12, <1>13, <1>14, <1>15, <1>16, <1>17
     DEF Next, ReconcilerStep

\* No object is left with an old configuration unless a fan-out is remembered: the
\* mark is removed only when every cached object is reconciled, queued or in a
\* channel, also those that appeared between the two lists.
THEOREM FanoutRememberedCorrect == Spec => []FanoutRemembered
<1>1. Init => FanoutInv
  BY DEF Init, FanoutInv, FanoutRemembered
<1>2. Spec => [](TypeOK /\ StageOK /\ FanoutInv)
  BY <1>1, TypeInit, TypeNext, FanoutNext, PTL DEF Spec
<1>3. FanoutInv => FanoutRemembered
  BY DEF FanoutInv
<1> QED
  BY <1>2, <1>3, PTL
=============================================================================
