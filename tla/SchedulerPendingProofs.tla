------------------------ MODULE SchedulerPendingProofs ------------------------
(***************************************************************************)
(* Proofs that the credential scheduler loses no work: what is not done    *)
(* yet is queued, in progress or has a wake-up, for every number of        *)
(* registries, AK/SK pairs, workers and configuration changes.             *)
(*                                                                         *)
(* The three invariants have the same form.  Of every key they say that    *)
(* the work is done, or that the queue, a worker or a timer has the key,   *)
(* or that the main loop will still queue it; of every worker they say     *)
(* what it has found out so far about its key, unless the key is queued    *)
(* again, so that a worker that ends well leaves the work done.            *)
(***************************************************************************)
EXTENDS CredentialSchedulerProofs

ScanPcs == {"scan", "add", "forgetPublished", "deleteForce", "forget"}

\* The pair the main loop has compared, or is comparing, for a key.
Seen(k) == IF mainPc \in ScanPcs THEN snapshot[k] ELSE known[k]

\* Between the mark of a forced refresh and the Add that follows it.
Marking(k) == mainPc = "add" /\ scanned = k

\* What the main loop knows of the configuration and of its own removals.
MainOK ==
    /\ shutdown => ctxDone
    /\ mainPc \in {"forgetPublished", "deleteForce", "forget"} => snapshot[scanned] = None
    /\ ~notifying /\ ~notified /\ mainPc \notin {"standby", "load"}
          => \A k \in Keys : Seen(k) = registries[k]

Retrying(k) == \E w \in Workers : pc[w] = "retry" /\ job[w].key = k
Soon(k) == timer[k] \in 0..RetryMaxDelay

\* The key is in progress or has a wake-up.
Awake(k) == k \in processing \/ Retrying(k) \/ Soon(k)

-----------------------------------------------------------------------------
(* What the steps leave alone.                                              *)

\* A step of a worker touches no key but its own and nothing of the main loop.
LEMMA WorkerFrame ==
  ASSUME TypeOK, ControlOK, NEW w \in Workers, WorkerStep(w)
  PROVE  /\ UNCHANGED <<configVars, notified, ctxDone, mainVars, shutdown>>
         /\ dirty \subseteq dirty'
         /\ \A v \in Workers : v # w => pc'[v] = pc[v] /\ job'[v] = job[v]
         /\ \A k \in Keys : k # job[w].key =>
               /\ store'[k] = store[k] /\ published'[k] = published[k]
               /\ force'[k] = force[k] /\ timer'[k] = timer[k]
               /\ k \in processing => k \in processing'
<1> USE DEF TypeOK, configVars, mainVars, queueVars, stateVars, workerVars, Goto
<1>1. CASE Exit(w) \/ LoadRegistry(w) \/ ReadForce(w) \/ Reuse(w) \/ Request(w)
  BY <1>1 DEF Exit, LoadRegistry, ReadForce, Reuse, Request
<1>2. CASE Cleanup(w)
  BY <1>2 DEF Cleanup
<1>3. CASE \E ttl \in Lifetimes : ProviderReturns(w, ttl)
  BY <1>3 DEF ProviderReturns
<1>4. CASE ProviderFails(w) \/ RejectToken(w) \/ Publish(w) \/ PublishFails(w)
  BY <1>4 DEF ProviderFails, RejectToken, Publish, PublishFails
<1>5. CASE Recheck(w)
  BY <1>5 DEF Recheck, Added
<1>6. CASE Install(w)
  BY <1>6 DEF Install
<1>7. CASE SkipPublish(w) \/ PublishSucceeds(w)
  BY <1>7 DEF SkipPublish, PublishSucceeds, Delayed
<1>8. CASE Done(w) \/ Forget(w)
  BY <1>8 DEF Done, Forget
<1>9. CASE AddRateLimited(w)
  BY <1>9 DEF AddRateLimited, Delayed
<1> QED
  BY <1>1, <1>2, <1>3, <1>4, <1>5, <1>6, <1>7, <1>8, <1>9 DEF WorkerStep

\* Steps of the main loop, of the configuration and of the manager.
MainSide ==
    \/ \E c \in [Keys -> Auths \cup {None}] : StoreApply(c)
    \/ NotifyConfigurationChanged
    \/ Start \/ Cancel
    \/ MainStep

\* They leave the workers and the timers alone and remove nothing from the queue.
LEMMA MainFrame ==
  ASSUME TypeOK, MainSide
  PROVE  /\ UNCHANGED <<timer, processing, job>>
         /\ dirty \subseteq dirty'
         /\ ctxDone => ctxDone'
         /\ \A w \in Workers : pc'[w] = pc[w] \/ (pc[w] = "new" /\ pc'[w] = "get")
<1> USE DEF TypeOK, configVars, mainVars, queueVars, stateVars, workerVars
<1>1. CASE \E c \in [Keys -> Auths \cup {None}] : StoreApply(c)
  BY <1>1 DEF StoreApply
<1>2. CASE NotifyConfigurationChanged \/ Start \/ Cancel
  BY <1>2 DEF NotifyConfigurationChanged, Start, Cancel
<1>3. CASE FinishReconcile
  BY <1>3 DEF FinishReconcile
<1>4. CASE ReceiveChange \/ LoadSnapshot \/ RemovePublished \/ RemoveForce
           \/ RemoveFailures \/ ShutDown \/ Stopped
  BY <1>4 DEF ReceiveChange, LoadSnapshot, RemovePublished, RemoveForce,
     RemoveFailures, ShutDown, Stopped
<1>5. CASE \E k \in Keys : AddRegistry(k) \/ MarkRegistry(k) \/ RemoveCredential(k)
  BY <1>5 DEF AddRegistry, MarkRegistry, RemoveCredential, Added
<1>6. CASE QueueMarked
  BY <1>6 DEF QueueMarked, Added
<1> QED
  BY <1>1, <1>2, <1>3, <1>4, <1>5, <1>6 DEF MainSide, MainStep

LEMMA StepCases ==
  ASSUME [Next]_vars
  PROVE  \/ MainSide
         \/ \E k \in Keys : TimerFires(k)
         \/ \E w \in Workers : WorkerStep(w)
         \/ \E w \in Workers, k \in Keys : Get(w, k)
         \/ Tick
         \/ UNCHANGED vars
BY DEF Next, MainSide

\* The fields of an entry and of a worker's locals.
LEMMA Fields ==
  ASSUME TypeOK
  PROVE  /\ \A k \in Keys : store[k].ttl \in Nat /\ store[k].rev \in Revisions \cup {0}
         /\ \A w \in Workers : /\ job[w].delay \in Nat /\ job[w].elapsed \in Nat
                               /\ job[w].ttl \in Nat /\ job[w].force \in Nat
                               /\ job[w].rev \in Revisions \cup {0}
BY DEF TypeOK, Entry, NoEntry, Job

-----------------------------------------------------------------------------
LEMMA MainOKStep ==
  ASSUME TypeOK, ControlOK, MainOK, [Next]_vars
  PROVE  MainOK'
<1> USE DEF TypeOK, MainOK, Seen, ScanPcs, configVars, mainVars, queueVars, stateVars,
        workerVars
<1>1. ASSUME NEW c \in [Keys -> Auths \cup {None}], StoreApply(c) PROVE MainOK'
  BY <1>1 DEF StoreApply
<1>2. CASE NotifyConfigurationChanged \/ Start \/ Cancel
  BY <1>2 DEF NotifyConfigurationChanged, Start, Cancel
<1>3. CASE ReceiveChange \/ ShutDown \/ Stopped
  BY <1>3 DEF ReceiveChange, ShutDown, Stopped
<1>4. CASE LoadSnapshot
  BY <1>4 DEF LoadSnapshot
<1>5. ASSUME NEW k \in Keys, AddRegistry(k) \/ MarkRegistry(k) PROVE MainOK'
  BY <1>5 DEF AddRegistry, MarkRegistry
<1>6. ASSUME NEW k \in Keys, RemoveCredential(k) PROVE MainOK'
  BY <1>6 DEF RemoveCredential
<1>7. CASE QueueMarked
  BY <1>7 DEF QueueMarked
<1>8. CASE RemovePublished \/ RemoveForce \/ RemoveFailures
  BY <1>8 DEF RemovePublished, RemoveForce, RemoveFailures
<1>9. CASE FinishReconcile
  BY <1>9 DEF FinishReconcile
<1>10. ASSUME UNCHANGED <<configVars, notified, ctxDone, mainVars, shutdown>> PROVE MainOK'
  BY <1>10
<1>11. ASSUME NEW k \in Keys, TimerFires(k) PROVE MainOK'
  BY <1>11, <1>10 DEF TimerFires
<1>12. ASSUME NEW w \in Workers, WorkerStep(w) PROVE MainOK'
  BY <1>12, <1>10, WorkerFrame
<1>13. ASSUME NEW w \in Workers, NEW k \in Keys, Get(w, k) PROVE MainOK'
  BY <1>13, <1>10 DEF Get
<1>14. CASE Tick \/ UNCHANGED vars
  BY <1>14, <1>10 DEF Tick, vars
<1> QED
  BY <1>1, <1>2, <1>3, <1>4, <1>5, <1>6, <1>7, <1>8, <1>9, <1>11, <1>12, <1>13, <1>14,
     StepCases DEF MainSide, MainStep

\* A key that is in progress or has a wake-up stays so until a timer or a failure
\* queues it, the scheduler stops, or its worker ends well.
LEMMA AwakeStep ==
  ASSUME TypeOK, ControlOK, MainOK, NEW k \in Keys, [Next]_vars, Awake(k)
  PROVE  \/ Awake(k)' \/ ctxDone' \/ k \in dirty'
         \/ \E w \in Workers : Done(w) /\ pc[w] = "succeed" /\ job[w].key = k
<1> USE DEF TypeOK, configVars, mainVars, queueVars, stateVars, workerVars
<1>1. CASE MainSide
  <2>1. Retrying(k) => Retrying(k)'
    BY <1>1, MainFrame DEF Retrying
  <2> QED
    BY <1>1, <2>1, MainFrame DEF Awake, Soon
<1>2. ASSUME NEW j \in Keys, TimerFires(j) PROVE Awake(k)' \/ k \in dirty'
  <2>1. CASE j = k
    BY <1>2, <2>1 DEF TimerFires, Added
  <2>2. CASE j # k
    BY <1>2, <2>2 DEF TimerFires, Awake, Retrying, Soon
  <2> QED
    BY <2>1, <2>2
<1>3. ASSUME NEW w \in Workers, WorkerStep(w)
      PROVE  \/ Awake(k)' \/ ctxDone' \/ k \in dirty'
             \/ Done(w) /\ pc[w] = "succeed" /\ job[w].key = k
  <2>1. CASE job[w].key # k
    <3>1. Retrying(k) => Retrying(k)'
      BY <1>3, <2>1, WorkerFrame DEF Retrying
    <3> QED
      BY <1>3, <2>1, <3>1, WorkerFrame DEF Awake, Soon
  <2>2. CASE job[w].key = k /\ Done(w) /\ pc[w] # "succeed"
    <3>1. ctxDone' \/ (pc'[w] = "retry" /\ job'[w].key = k)
      BY <2>2 DEF Done, Goto
    <3> QED
      BY <3>1 DEF Awake, Retrying
  <2>3. CASE job[w].key = k /\ AddRateLimited(w)
    <3>1. backoff[k] \in 0..RetryMaxDelay /\ RetryMaxDelay \in Nat
      BY OptionsAssumption DEF ValidOptions
    <3>2. ~shutdown \/ ctxDone'
      BY <2>3 DEF MainOK, AddRateLimited
    <3>3. CASE ~shutdown
      BY <2>3, <3>1, <3>3 DEF AddRateLimited, Delayed, NoTimer, Awake, Soon
    <3> QED
      BY <3>2, <3>3
  <2>4. CASE job[w].key = k /\ ~Done(w) /\ ~AddRateLimited(w)
    <3>1. processing' = processing /\ pc[w] # "retry"
          /\ (timer'[k] = timer[k]
              \/ (timer'[k] \in Nat /\ (timer[k] = NoTimer \/ timer'[k] <= timer[k])))
      <4>1. CASE SkipPublish(w) \/ PublishSucceeds(w)
        BY <2>4, <4>1, Fields DEF SkipPublish, PublishSucceeds, Delayed, NoTimer
      <4>2. CASE Exit(w) \/ LoadRegistry(w) \/ Cleanup(w) \/ ReadForce(w) \/ Reuse(w)
                 \/ Request(w)
        BY <4>2 DEF Exit, LoadRegistry, Cleanup, ReadForce, Reuse, Request
      <4>3. CASE \E ttl \in Lifetimes : ProviderReturns(w, ttl)
        BY <4>3 DEF ProviderReturns
      <4>4. CASE ProviderFails(w) \/ Recheck(w) \/ RejectToken(w) \/ Install(w) \/ Publish(w)
                 \/ PublishFails(w) \/ Forget(w)
        BY <4>4 DEF ProviderFails, Recheck, RejectToken, Install, Publish, PublishFails,
           Forget
      <4> QED
        BY <1>3, <2>4, <4>1, <4>2, <4>3, <4>4 DEF WorkerStep
    <3>2. Retrying(k) => Retrying(k)'
      BY <1>3, <3>1, WorkerFrame DEF Retrying
    <3>3. Soon(k) => Soon(k)'
      BY <3>1, OptionsAssumption DEF Soon, NoTimer, ValidOptions
    <3> QED
      BY <3>1, <3>2, <3>3 DEF Awake
  <2> QED
    BY <2>1, <2>2, <2>3, <2>4
<1>4. ASSUME NEW w \in Workers, NEW j \in Keys, Get(w, j) PROVE Awake(k)'
  BY <1>4 DEF Get, Goto, Awake, Retrying, Soon
<1>5. CASE Tick
  <2>1. Retrying(k) => Retrying(k)'
    BY <1>5 DEF Tick, MayTick, Waiting, Retrying
  <2>2. Soon(k) => Soon(k)'
    BY <1>5, OptionsAssumption DEF Tick, Soon, ValidOptions
  <2> QED
    BY <1>5, <2>1, <2>2 DEF Tick, Awake
<1>6. CASE UNCHANGED vars
  BY <1>6 DEF vars, Awake, Retrying, Soon
<1> QED
  BY <1>1, <1>2, <1>3, <1>4, <1>5, <1>6, StepCases

-----------------------------------------------------------------------------
(* A worker is alone with its key: until it moves, nobody else obtains or   *)
(* announces a credential for it, the key is not handed out again, and only *)
(* the main loop touches what is stored for it.                             *)

\* Steps that matter to worker w, which is inside refresh.
LEMMA AloneStep ==
  ASSUME TypeOK, ControlOK, SingleFlight, NEW w \in Workers, pc[w] \in Refreshing,
         [Next]_vars, ~WorkerStep(w)
  PROVE  LET k == job[w].key IN
         /\ pc'[w] = pc[w]
         /\ job'[w] = job[w] \/ Tick
         /\ job'[w].key = k
         /\ \A v \in Workers : ~Get(v, k)
         /\ \/ MainSide
            \/ Tick
            \/ /\ UNCHANGED <<configVars, notified, ctxDone, mainVars, shutdown>>
               /\ store'[k] = store[k] /\ published'[k] = published[k]
               /\ force'[k] = force[k]
               /\ k \in dirty => k \in dirty'
               /\ \/ timer'[k] = timer[k]
                  \/ timer'[k] \in Nat /\ (timer[k] = NoTimer \/ timer'[k] <= timer[k])
                  \/ k \in dirty' \/ ctxDone'
<1> DEFINE k == job[w].key
<1> USE DEF TypeOK, configVars, mainVars, queueVars, stateVars, workerVars
<1>0. k \in Keys /\ k \in processing
  BY DEF ControlOK, SingleFlight
<1>1. \A v \in Workers : ~Get(v, k)
  BY <1>0 DEF Get, Available
<1>2. CASE MainSide
  BY <1>1, <1>2, MainFrame DEF Refreshing
<1>3. ASSUME NEW j \in Keys, TimerFires(j)
      PROVE  timer'[k] = timer[k] \/ k \in dirty' \/ ctxDone'
  BY <1>0, <1>3 DEF TimerFires, Added
<1>4. ASSUME NEW v \in Workers, WorkerStep(v)
      PROVE  /\ pc'[w] = pc[w] /\ job'[w] = job[w]
             /\ UNCHANGED <<configVars, notified, ctxDone, mainVars, shutdown>>
             /\ store'[k] = store[k] /\ published'[k] = published[k]
             /\ force'[k] = force[k]
             /\ k \in dirty => k \in dirty'
             /\ \/ timer'[k] = timer[k]
                \/ timer'[k] \in Nat /\ (timer[k] = NoTimer \/ timer'[k] <= timer[k])
  <2>1. v # w
    BY <1>4
  <2>2. CASE job[v].key # k
    BY <1>0, <1>4, <2>1, <2>2, WorkerFrame
  <2>3. CASE job[v].key = k
    <3>1. pc[v] \notin Refreshing
      BY <2>1, <2>3 DEF SingleFlight
    <3>2. Exit(v) \/ Forget(v) \/ AddRateLimited(v)
      BY <1>4, <3>1 DEF WorkerStep, LoadRegistry, Cleanup, ReadForce, Reuse, Request,
         ProviderReturns, ProviderFails, Recheck, RejectToken, Install, SkipPublish, Publish,
         PublishSucceeds, PublishFails, Done, Refreshing
    <3>3. CASE Exit(v) \/ Forget(v)
      BY <1>4, <2>1, <3>3, WorkerFrame DEF Exit, Forget
    <3>4. CASE AddRateLimited(v)
      <4>1. backoff[k] \in Nat
        BY <1>0, OptionsAssumption DEF ValidOptions
      <4>2. UNCHANGED <<store, published, force>>
        BY <3>4 DEF AddRateLimited
      <4>3. \/ timer'[k] = timer[k]
            \/ timer'[k] \in Nat /\ (timer[k] = NoTimer \/ timer'[k] <= timer[k])
        BY <1>0, <2>3, <3>4, <4>1 DEF AddRateLimited, Delayed, NoTimer
      <4> QED
        BY <1>0, <1>4, <2>1, <4>2, <4>3, WorkerFrame
    <3> QED
      BY <3>2, <3>3, <3>4
  <2> QED
    BY <2>2, <2>3
<1>5. ASSUME NEW v \in Workers, NEW j \in Keys, Get(v, j)
      PROVE  v # w /\ j # k
  BY <1>1, <1>5 DEF Get, Refreshing
<1>6. CASE Tick
  BY <1>1, <1>6 DEF Tick, Job
<1>7. CASE UNCHANGED vars
  BY <1>1, <1>7 DEF vars
<1>8. CASE \E j \in Keys : TimerFires(j)
  BY <1>1, <1>3, <1>8 DEF TimerFires, Added
<1>9. CASE \E v \in Workers, j \in Keys : Get(v, j)
  <2>1. PICK v \in Workers, j \in Keys : Get(v, j)
    BY <1>9
  <2>2. v # w /\ j # k
    BY <1>5, <2>1
  <2> QED
    BY <1>1, <2>1, <2>2 DEF Get, Goto
<1> QED
  BY <1>1, <1>2, <1>4, <1>6, <1>7, <1>8, <1>9, StepCases

\* Only Get takes a key from the queue, and a cancelled context stays cancelled.
LEMMA QueuedStep ==
  ASSUME TypeOK, ControlOK, NEW k \in Keys, [Next]_vars, ctxDone \/ k \in dirty
  PROVE  ctxDone' \/ k \in dirty' \/ \E w \in Workers : Get(w, k)
<1> USE DEF configVars, mainVars, queueVars, stateVars, workerVars
<1>1. CASE MainSide
  BY <1>1, MainFrame
<1>2. CASE \E j \in Keys : TimerFires(j)
  BY <1>2 DEF TimerFires, Added
<1>3. CASE \E w \in Workers : WorkerStep(w)
  BY <1>3, WorkerFrame
<1>4. ASSUME NEW w \in Workers, NEW j \in Keys, Get(w, j)
      PROVE  ctxDone' \/ k \in dirty' \/ Get(w, k)
  <2>1. CASE j = k
    BY <1>4, <2>1
  <2>2. CASE j # k
    BY <1>4, <2>2 DEF Get
  <2> QED
    BY <2>1, <2>2
<1>5. CASE Tick \/ UNCHANGED vars
  BY <1>5 DEF Tick, vars
<1> QED
  BY <1>1, <1>2, <1>3, <1>4, <1>5, StepCases

\* Outside MainSide the main loop and the configuration stand still.
LEMMA MainStands ==
  ASSUME TypeOK, ControlOK, [Next]_vars, ~MainSide
  PROVE  UNCHANGED <<configVars, notified, ctxDone, mainVars, shutdown>>
<1> USE DEF configVars, mainVars, queueVars, stateVars, workerVars
<1>1. CASE \E w \in Workers : WorkerStep(w)
  BY <1>1, WorkerFrame
<1> QED
  BY <1>1, StepCases DEF TimerFires, Get, Tick, vars

\* A worker that is not inside refresh enters it by Get only.
LEMMA EnterStep ==
  ASSUME TypeOK, ControlOK, NEW w \in Workers, [Next]_vars, ~WorkerStep(w),
         pc[w] \notin Refreshing
  PROVE  pc'[w] \notin Refreshing \ {"load"}
<1>1. CASE MainSide
  BY <1>1, MainFrame DEF Refreshing
<1>2. ASSUME NEW v \in Workers, WorkerStep(v) PROVE pc'[w] = pc[w]
  BY <1>2, WorkerFrame
<1>3. ASSUME NEW v \in Workers, NEW j \in Keys, Get(v, j)
      PROVE  pc'[w] = pc[w] \/ pc'[w] = "load"
  BY <1>3 DEF Get, Goto, TypeOK
<1> QED
  BY <1>1, <1>2, <1>3, StepCases DEF TimerFires, Tick, vars, workerVars

\* Nobody but the main loop and the clock touches a key that no worker holds.
LEMMA IdleStep ==
  ASSUME TypeOK, ControlOK, SingleFlight, MainOK, NEW k \in Keys, [Next]_vars,
         ~Awake(k), ~MainSide, ~Tick
  PROVE  \/ k \in dirty' \/ ctxDone'
         \/ /\ store'[k] = store[k] /\ published'[k] = published[k]
            /\ force'[k] = force[k] /\ timer'[k] = timer[k]
<1> USE DEF TypeOK, configVars, mainVars, queueVars, stateVars, workerVars
<1>1. ASSUME NEW j \in Keys, TimerFires(j)
      PROVE  k \in dirty' \/ timer'[k] = timer[k]
  BY <1>1 DEF TimerFires, Added
<1>2. ASSUME NEW w \in Workers, WorkerStep(w)
      PROVE  /\ store'[k] = store[k] /\ published'[k] = published[k]
             /\ force'[k] = force[k] /\ timer'[k] = timer[k]
  <2>1. CASE job[w].key # k
    BY <1>2, <2>1, WorkerFrame
  <2>2. CASE job[w].key = k
    <3>1. pc[w] \notin Refreshing /\ pc[w] # "retry"
      BY <2>2 DEF Awake, Retrying, SingleFlight
    <3>2. Exit(w) \/ Forget(w)
      BY <1>2, <3>1 DEF WorkerStep, LoadRegistry, Cleanup, ReadForce, Reuse, Request,
         ProviderReturns, ProviderFails, Recheck, RejectToken, Install, SkipPublish, Publish,
         PublishSucceeds, PublishFails, Done, AddRateLimited, Refreshing
    <3> QED
      BY <3>2 DEF Exit, Forget
  <2> QED
    BY <2>1, <2>2
<1> QED
  BY <1>1, <1>2, StepCases DEF TimerFires, Get, vars

-----------------------------------------------------------------------------
(* Forced refreshes                                                         *)

\* Somebody will read the mark of the key again.
ForceQueued(k) == ctxDone \/ k \in dirty \/ Marking(k)

KeyForce(k) == force[k] = 0 \/ ForceQueued(k) \/ Awake(k)

\* A worker that read the mark will clear it or has cleared it, and a younger
\* mark has queued the key again.
WorkerForce(w) ==
    /\ pc[w] \in {"decide", "request", "recheck", "install"} =>
          force[job[w].key] \in {0, job[w].force} \/ ForceQueued(job[w].key)
    /\ pc[w] \in {"check", "publish", "succeed"} =>
          force[job[w].key] = 0 \/ ForceQueued(job[w].key)

ForceOK == (\A k \in Keys : KeyForce(k)) /\ (\A w \in Workers : WorkerForce(w))

LEMMA ForceQueuedStep ==
  ASSUME TypeOK, ControlOK, MainOK, NEW k \in Keys, [Next]_vars, ForceQueued(k)
  PROVE  ForceQueued(k)' \/ \E w \in Workers : Get(w, k)
<1>1. CASE ctxDone \/ k \in dirty
  BY <1>1, QueuedStep DEF ForceQueued
<1>2. CASE Marking(k) /\ MainSide
  <2>1. QueueMarked => ForceQueued(k)'
    BY <1>2 DEF QueueMarked, Added, Marking, ForceQueued, MainOK
  <2>2. ~QueueMarked => UNCHANGED <<mainPc, scanned>>
    BY <1>2 DEF Marking, MainSide, MainStep, StoreApply, NotifyConfigurationChanged, Start,
       Cancel, ReceiveChange, LoadSnapshot, AddRegistry, MarkRegistry, RemoveCredential,
       RemovePublished, RemoveForce, RemoveFailures, FinishReconcile, ShutDown, Stopped,
       mainVars
  <2> QED
    BY <1>2, <2>1, <2>2 DEF ForceQueued, Marking
<1>3. CASE Marking(k) /\ ~MainSide
  BY <1>3, MainStands DEF Marking, ForceQueued, mainVars
<1> QED
  BY <1>1, <1>2, <1>3 DEF ForceQueued

\* The main loop sets a mark only on its way to Add.
LEMMA MainForce ==
  ASSUME TypeOK, ControlOK, NEW k \in Keys, MainSide
  PROVE  force'[k] \in {force[k], 0} \/ Marking(k)'
<1> USE DEF TypeOK, stateVars
<1>1. CASE \E j \in Keys : MarkRegistry(j)
  BY <1>1 DEF MarkRegistry, Marking
<1>2. CASE RemoveForce
  BY <1>2 DEF RemoveForce, ControlOK
<1>3. CASE ~RemoveForce /\ ~\E j \in Keys : MarkRegistry(j)
  BY <1>3 DEF MainSide, MainStep, StoreApply, NotifyConfigurationChanged, Start, Cancel,
     ReceiveChange, LoadSnapshot, AddRegistry, QueueMarked, RemoveCredential,
     RemovePublished, RemoveFailures, FinishReconcile, ShutDown, Stopped
<1> QED
  BY <1>1, <1>2, <1>3

LEMMA KeyForceStep ==
  ASSUME TypeOK, ControlOK, SingleFlight, MainOK, ForceOK, [Next]_vars, NEW k \in Keys
  PROVE  KeyForce(k)'
<1> USE DEF configVars, mainVars, queueVars, stateVars, workerVars
<1>1. CASE ForceQueued(k)
  <2>1. CASE \E w \in Workers : Get(w, k)
    BY <2>1 DEF Get, KeyForce, Awake
  <2> QED
    BY <1>1, <2>1, ForceQueuedStep DEF KeyForce
<1>2. CASE Awake(k)
  <2>1. ASSUME NEW w \in Workers, Done(w), pc[w] = "succeed", job[w].key = k
        PROVE  KeyForce(k)'
    <3>1. force[k] = 0 \/ ForceQueued(k)
      BY <2>1 DEF ForceOK, WorkerForce
    <3>2. UNCHANGED <<force, ctxDone, dirty, mainPc, scanned>>
      BY <2>1 DEF Done
    <3> QED
      BY <3>1, <3>2 DEF KeyForce, ForceQueued, Marking
  <2> QED
    BY <1>2, <2>1, AwakeStep DEF KeyForce, ForceQueued
<1>3. CASE force[k] = 0 /\ ~Awake(k)
  <2>1. CASE MainSide
    BY <1>3, <2>1, MainForce DEF KeyForce, ForceQueued
  <2>2. CASE Tick
    BY <1>3, <2>2 DEF Tick, KeyForce
  <2>3. CASE ~MainSide /\ ~Tick
    BY <1>3, <2>3, IdleStep DEF KeyForce, ForceQueued
  <2> QED
    BY <2>1, <2>2, <2>3
<1> QED
  BY <1>1, <1>2, <1>3 DEF ForceOK, KeyForce

LEMMA WorkerForceStep ==
  ASSUME TypeOK, ControlOK, SingleFlight, MainOK, ForceOK, [Next]_vars, NEW w \in Workers
  PROVE  WorkerForce(w)'
<1>0. PICK k : k = job[w].key
  OBVIOUS
<1> USE DEF TypeOK, configVars, mainVars, queueVars, stateVars, workerVars
<1>1. CASE WorkerStep(w)
  <2>0. pc[w] \in Refreshing => k \in Keys
    BY <1>0 DEF ControlOK
  <2>1. k \in Keys /\ ForceQueued(k) => ForceQueued(k)'
    BY <1>0, <1>1, WorkerFrame DEF ForceQueued, Marking
  <2>2. CASE Exit(w) \/ ProviderFails(w) \/ RejectToken(w) \/ PublishFails(w) \/ Done(w)
             \/ Forget(w) \/ AddRateLimited(w) \/ LoadRegistry(w)
    <3>1. pc'[w] \in {"exited", "fail", "forget", "retry", "get", "cleanup", "readForce"}
      BY <1>0, <2>2 DEF Exit, ProviderFails, RejectToken, PublishFails, Done, Forget,
         AddRateLimited, LoadRegistry, Goto
    <3> QED
      BY <1>0, <3>1 DEF WorkerForce
  <2>3. CASE Cleanup(w)
    <3>1. pc'[w] = "succeed" /\ job'[w].key = k /\ force'[k] = 0
      BY <1>0, <2>0, <2>3 DEF Cleanup, Goto, NoJob, Refreshing
    <3> QED
      BY <1>0, <3>1 DEF WorkerForce
  <2>4. CASE ReadForce(w)
    <3>1. pc'[w] = "decide" /\ job'[w].key = k /\ force' = force
          /\ job'[w].force = force[k]
      BY <1>0, <2>0, <2>4 DEF ReadForce, Goto, Job
    <3> QED
      BY <1>0, <3>1 DEF WorkerForce
  <2>5. CASE Reuse(w)
    <3>1. /\ pc[w] = "decide" /\ pc'[w] = "check" /\ job'[w].key = k /\ force' = force
          /\ job[w].force = 0
      BY <1>0, <2>0, <2>5 DEF Reuse, Reusable, Goto, Job
    <3>2. force[k] = 0 \/ ForceQueued(k)
      BY <1>0, <3>1 DEF ForceOK, WorkerForce
    <3> QED
      BY <1>0, <2>0, <2>1, <3>1, <3>2 DEF WorkerForce, Refreshing
  <2>6. CASE Request(w) \/ \E ttl \in Lifetimes : ProviderReturns(w, ttl)
    <3>1. /\ pc[w] \in {"decide", "request"} /\ pc'[w] \in {"request", "recheck"}
          /\ job'[w].key = k /\ job'[w].force = job[w].force /\ force' = force
      <4>1. CASE Request(w)
        BY <1>0, <4>1 DEF Request, Goto
      <4>2. ASSUME NEW ttl \in Lifetimes, ProviderReturns(w, ttl)
            PROVE  /\ pc[w] = "request" /\ pc'[w] = "recheck" /\ force' = force
                   /\ job'[w].key = k /\ job'[w].force = job[w].force
        BY <1>0, <4>2 DEF ProviderReturns, Goto, Job
      <4> QED
        BY <2>6, <4>1, <4>2
    <3>2. force[k] \in {0, job[w].force} \/ ForceQueued(k)
      BY <1>0, <3>1 DEF ForceOK, WorkerForce
    <3> QED
      BY <1>0, <2>0, <2>1, <3>1, <3>2 DEF WorkerForce, Refreshing
  <2>7. CASE Recheck(w)
    <3>1. pc[w] = "recheck" /\ k \in Keys
      BY <1>0, <2>0, <2>7 DEF Recheck, Refreshing
    <3>2. force[k] \in {0, job[w].force} \/ ForceQueued(k)
      BY <1>0, <3>1 DEF ForceOK, WorkerForce
    <3>3. \/ pc'[w] = "cleanup"
          \/ /\ pc'[w] = "succeed" /\ job'[w].key = k /\ ctxDone' = ctxDone
             /\ shutdown \/ k \in dirty'
          \/ /\ pc'[w] = "install" /\ job'[w].key = k /\ job'[w].force = job[w].force
             /\ force' = force
      BY <1>0, <2>7 DEF Recheck, Goto, Added, Job, NoJob
    <3> QED
      BY <1>0, <2>1, <3>1, <3>2, <3>3 DEF WorkerForce, ForceQueued, MainOK
  <2>8. CASE Install(w)
    <3>1. pc[w] = "install" /\ k \in Keys
      BY <1>0, <2>0, <2>8 DEF Install, Refreshing
    <3>2. force[k] \in {0, job[w].force} \/ ForceQueued(k)
      BY <1>0, <3>1 DEF ForceOK, WorkerForce
    <3>3. /\ pc'[w] = "check" /\ job'[w].key = k
          /\ force'[k] = IF force[k] = job[w].force THEN 0 ELSE force[k]
      BY <1>0, <2>8, <3>1 DEF Install, Goto, Job
    <3> QED
      BY <1>0, <2>1, <3>1, <3>2, <3>3 DEF WorkerForce
  <2>9. CASE SkipPublish(w) \/ Publish(w) \/ PublishSucceeds(w)
    <3>1. /\ pc[w] \in {"check", "publish"} /\ pc'[w] \in {"publish", "succeed"}
          /\ job'[w].key = k /\ force' = force
      BY <1>0, <2>9 DEF SkipPublish, Publish, PublishSucceeds, Goto, NoJob
    <3>2. force[k] = 0 \/ ForceQueued(k)
      BY <1>0, <3>1 DEF ForceOK, WorkerForce
    <3> QED
      BY <1>0, <2>0, <2>1, <3>1, <3>2 DEF WorkerForce, Refreshing
  <2> QED
    BY <1>0, <1>1, <2>2, <2>3, <2>4, <2>5, <2>6, <2>7, <2>8, <2>9 DEF WorkerStep
<1>2. CASE ~WorkerStep(w) /\ pc[w] \in Refreshing
  <2>1. k \in Keys
    BY <1>0, <1>2 DEF ControlOK
  <2>2. pc'[w] = pc[w] /\ job'[w].key = k /\ job'[w].force = job[w].force
    <3>1. CASE Tick
      BY <1>0, <3>1 DEF Tick, Job
    <3> QED
      BY <1>0, <1>2, <3>1, AloneStep
  <2>3. ForceQueued(k) => ForceQueued(k)'
    BY <1>0, <1>2, <2>1, AloneStep, ForceQueuedStep
  <2>4. force'[k] \in {force[k], 0} \/ ForceQueued(k)'
    <3>1. CASE MainSide
      BY <1>0, <2>1, <3>1, MainForce DEF ForceQueued
    <3>2. CASE Tick
      BY <1>0, <3>2 DEF Tick
    <3> QED
      BY <1>0, <1>2, <3>1, <3>2, AloneStep
  <2> QED
    BY <1>0, <2>2, <2>3, <2>4 DEF ForceOK, WorkerForce
<1>3. CASE ~WorkerStep(w) /\ pc[w] \notin Refreshing
  <2>1. pc'[w] \notin Refreshing \ {"load"}
    BY <1>3, EnterStep
  <2> QED
    BY <2>1 DEF WorkerForce, Refreshing
<1> QED
  BY <1>1, <1>2, <1>3

\* The main loop's bookkeeping, which the other invariants rest on.
THEOREM MainCorrect == Spec => []MainOK
<1>1. Init => MainOK
  BY DEF Init, MainOK
<1>2. TypeOK /\ ControlOK /\ MainOK /\ [Next]_vars => MainOK'
  BY MainOKStep
<1> QED
  BY <1>1, <1>2, TypeCorrect, PTL DEF Spec

\* A forced refresh always has somebody who will serve it: neither the main loop,
\* which marks before it queues, nor a worker, which reads the mark, calls the
\* provider and then clears what it read, loses one, however they interleave.
THEOREM ForceHasWorkCorrect == Spec => []ForceHasWork
<1>1. Init => ForceOK
  BY DEF Init, ForceOK, KeyForce, WorkerForce
<1>2. TypeOK /\ ControlOK /\ SingleFlight /\ MainOK /\ ForceOK /\ [Next]_vars => ForceOK'
  BY KeyForceStep, WorkerForceStep DEF ForceOK
<1>3. ForceOK => ForceHasWork
  BY DEF ForceOK, KeyForce, ForceHasWork, Settled, ForceQueued, Marking, Awake, Retrying,
     Soon, Pending
<1> QED
  BY <1>1, <1>2, <1>3, TypeCorrect, SingleFlightCorrect, MainCorrect, PTL DEF Spec

-----------------------------------------------------------------------------
(* Announcements and wake-ups.  The invariant does not look at the          *)
(* configuration itself: it speaks of every stored credential, whichever    *)
(* AK/SK pair it was obtained with, so it survives any history of changes.  *)

\* A call is measured from its start, and publishing takes PublishTime at most.
ClockOK ==
    \A w \in Workers :
       /\ pc[w] \in {"load", "readForce", "decide", "recheck", "install", "check"}
             => job[w].elapsed = 0
       /\ pc[w] = "publish" => job[w].elapsed <= PublishTime

\* The key is queued, the main loop will still queue it, or the registry was not
\* configured when the main loop last looked.
Excused(k) ==
    \/ ctxDone
    \/ Seen(k) = None
    \/ mainPc \in ScanPcs /\ k \in todo
    \/ Marking(k)
    \/ k \in dirty

\* t ticks from now the credential of k is at its refresh time, or slack ticks past.
InTime(t, k, slack) == t <= store[k].ttl - RefreshBefore + slack

Announced(k) ==
    /\ published[k] = store[k].rev
    /\ timer[k] # NoTimer
    /\ InTime(timer[k], k, PublishTime)

\* The worker announces the stored credential and has computed its wake-up.
Announcing(w) ==
    /\ job[w].rev = store[job[w].key].rev
    /\ InTime(job[w].delay, job[w].key, job[w].elapsed)

KeyAnnounced(k) ==
    Excused(k) \/ Awake(k) \/ store[k] = NoEntry \/ Announced(k)

WorkerAnnounced(w) ==
    /\ pc[w] \in {"check", "publish"} =>
          Excused(job[w].key) \/ store[job[w].key] = NoEntry \/ Announcing(w)
    /\ pc[w] = "succeed" =>
          Excused(job[w].key) \/ store[job[w].key] = NoEntry \/ Announced(job[w].key)

AnnouncedOK ==
    (\A k \in Keys : KeyAnnounced(k)) /\ (\A w \in Workers : WorkerAnnounced(w))

LEMMA ClockStep ==
  ASSUME TypeOK, ControlOK, ClockOK, [Next]_vars
  PROVE  ClockOK'
<1> SUFFICES ASSUME NEW w \in Workers
             PROVE  /\ pc'[w] \in {"load", "readForce", "decide", "recheck", "install", "check"}
                          => job'[w].elapsed = 0
                    /\ pc'[w] = "publish" => job'[w].elapsed <= PublishTime
  BY DEF ClockOK
<1> USE EnvironmentAssumption
    DEF TypeOK, configVars, mainVars, queueVars, stateVars, workerVars, Goto
<1>1. CASE MainSide
  BY <1>1, MainFrame DEF ClockOK
<1>2. ASSUME NEW v \in Workers, WorkerStep(v), v # w
      PROVE  pc'[w] = pc[w] /\ job'[w] = job[w]
  BY <1>2, WorkerFrame
<1>3. CASE WorkerStep(w)
  <2>1. CASE Exit(w) \/ Cleanup(w) \/ ProviderFails(w) \/ RejectToken(w) \/ SkipPublish(w)
             \/ PublishSucceeds(w) \/ PublishFails(w) \/ Done(w) \/ Forget(w)
             \/ AddRateLimited(w) \/ Request(w)
    <3>1. pc'[w] \in {"exited", "succeed", "fail", "forget", "retry", "get", "request"}
      BY <2>1 DEF Exit, Cleanup, ProviderFails, RejectToken, SkipPublish, PublishSucceeds,
         PublishFails, Done, Forget, AddRateLimited, Request
    <3> QED
      BY <3>1
  <2>2. CASE LoadRegistry(w)
    BY <2>2 DEF LoadRegistry, ClockOK, Job
  <2>3. CASE ReadForce(w)
    BY <2>3 DEF ReadForce, ClockOK, Job
  <2>4. CASE Reuse(w)
    BY <2>4 DEF Reuse, ClockOK, Job
  <2>5. CASE \E ttl \in Lifetimes : ProviderReturns(w, ttl)
    BY <2>5 DEF ProviderReturns, ClockOK, Job
  <2>6. CASE Recheck(w)
    <3>1. pc[w] = "recheck" /\ job[w].elapsed = 0
      BY <2>6 DEF Recheck, ClockOK
    <3>2. \/ pc'[w] \in {"cleanup", "succeed"}
          \/ pc'[w] = "install" /\ job'[w].elapsed = job[w].elapsed
      BY <2>6 DEF Recheck, Job
    <3> QED
      BY <3>1, <3>2
  <2>7. CASE Install(w)
    <3>1. job[w].elapsed = 0
      BY <2>7 DEF Install, ClockOK
    <3>2. pc'[w] = "check" /\ job'[w].elapsed = job[w].elapsed
      BY <2>7 DEF Install, Job
    <3> QED
      BY <3>1, <3>2
  <2>8. CASE Publish(w)
    BY <2>8 DEF Publish, ClockOK
  <2> QED
    BY <1>3, <2>1, <2>2, <2>3, <2>4, <2>5, <2>6, <2>7, <2>8 DEF WorkerStep
<1>4. ASSUME NEW v \in Workers, NEW j \in Keys, Get(v, j)
      PROVE  \/ pc'[w] = pc[w] /\ job'[w] = job[w]
             \/ pc'[w] = "load" /\ job'[w].elapsed = 0
  BY <1>4 DEF Get, NoJob
<1>5. CASE Tick
  <2>1. pc' = pc /\ Waiting(w)
    BY <1>5 DEF Tick, MayTick
  <2>2. pc[w] = "publish" => job'[w].elapsed = job[w].elapsed + 1 /\ job[w].elapsed < PublishTime
    BY <1>5, <2>1 DEF Tick, Waiting, Job
  <2>3. pc[w] \notin {"load", "readForce", "decide", "recheck", "install", "check"}
    BY <2>1 DEF Waiting
  <2> QED
    BY <2>1, <2>2, <2>3, Fields
<1>6. CASE UNCHANGED <<pc, job>>
  BY <1>6 DEF ClockOK
<1> QED
  BY <1>1, <1>2, <1>3, <1>4, <1>5, <1>6, StepCases DEF ClockOK, TimerFires, vars

LEMMA ExcusedStep ==
  ASSUME TypeOK, ControlOK, MainOK, NEW k \in Keys, [Next]_vars, Excused(k)
  PROVE  Excused(k)' \/ \E w \in Workers : Get(w, k)
<1> USE DEF TypeOK, Excused, configVars, mainVars, queueVars, stateVars, workerVars
<1>1. CASE ctxDone \/ k \in dirty
  BY <1>1, QueuedStep
<1>2. CASE ~MainSide
  BY <1>1, <1>2, MainStands DEF Seen, Marking
<1>3. CASE MainSide /\ ~ctxDone /\ ~shutdown /\ k \notin dirty
  <2> USE DEF Seen, Marking, ScanPcs
  <2>1. CASE \E c \in [Keys -> Auths \cup {None}] : StoreApply(c)
    BY <1>3, <2>1 DEF StoreApply
  <2>2. CASE NotifyConfigurationChanged \/ Start \/ Cancel \/ ReceiveChange \/ ShutDown
             \/ Stopped
    BY <1>3, <2>2 DEF NotifyConfigurationChanged, Start, Cancel, ReceiveChange, ShutDown,
       Stopped
  <2>3. CASE LoadSnapshot
    BY <1>3, <2>3 DEF LoadSnapshot
  <2>4. ASSUME NEW j \in Keys, AddRegistry(j) PROVE Excused(k)'
    BY <1>3, <2>4 DEF AddRegistry, Added
  <2>5. ASSUME NEW j \in Keys, MarkRegistry(j) PROVE Excused(k)'
    BY <1>3, <2>5 DEF MarkRegistry
  <2>6. ASSUME NEW j \in Keys, RemoveCredential(j) PROVE Excused(k)'
    BY <1>3, <2>6 DEF RemoveCredential
  <2>7. CASE QueueMarked
    BY <1>3, <2>7 DEF QueueMarked, Added
  <2>8. CASE RemovePublished \/ RemoveForce \/ RemoveFailures
    BY <1>3, <2>8 DEF RemovePublished, RemoveForce, RemoveFailures
  <2>9. CASE FinishReconcile
    BY <1>3, <2>9 DEF FinishReconcile
  <2> QED
    BY <1>3, <2>1, <2>2, <2>3, <2>4, <2>5, <2>6, <2>7, <2>8, <2>9 DEF MainSide, MainStep
<1> QED
  BY <1>1, <1>2, <1>3 DEF MainOK

\* The main loop deletes a credential, or the revision it announced, only of a
\* registry that is not in its snapshot.
LEMMA MainDeletes ==
  ASSUME TypeOK, ControlOK, MainOK, NEW k \in Keys, MainSide
  PROVE  \/ store'[k] = store[k] /\ published'[k] = published[k]
         \/ Excused(k)'
<1> USE DEF TypeOK, configVars, mainVars, queueVars, stateVars, workerVars
<1>1. ASSUME NEW j \in Keys, RemoveCredential(j)
      PROVE  store'[k] = store[k] \/ Excused(k)'
  BY <1>1 DEF RemoveCredential, Excused, Seen, ScanPcs
<1>2. CASE RemovePublished
  BY <1>2 DEF RemovePublished, ControlOK, MainOK, Excused, Seen, ScanPcs
<1>3. CASE ~RemovePublished /\ ~\E j \in Keys : RemoveCredential(j)
  BY <1>3 DEF MainSide, MainStep, StoreApply, NotifyConfigurationChanged, Start, Cancel,
     ReceiveChange, LoadSnapshot, AddRegistry, MarkRegistry, QueueMarked, RemoveForce,
     RemoveFailures, FinishReconcile, ShutDown, Stopped
<1> QED
  BY <1>1, <1>2, <1>3 DEF RemoveCredential

\* A tick shortens the life of an entry and leaves the rest of it.
LEMMA TickEntry ==
  ASSUME TypeOK, Tick, NEW k \in Keys
  PROVE  /\ store'[k].rev = store[k].rev /\ store'[k].hash = store[k].hash
         /\ store[k] = NoEntry => store'[k] = NoEntry
         /\ store'[k].ttl = IF store[k].ttl > 0 THEN store[k].ttl - 1 ELSE 0
<1>1. store'[k] = [store[k] EXCEPT !.ttl = IF @ > 0 THEN @ - 1 ELSE 0]
  BY DEF Tick
<1>2. CASE store[k] = NoEntry
  BY <1>1, <1>2 DEF NoEntry
<1>3. CASE store[k] \in Entry
  BY <1>1, <1>3, EnvironmentAssumption DEF Entry, NoEntry
<1> QED
  BY <1>2, <1>3 DEF TypeOK

LEMMA KeyAnnouncedStep ==
  ASSUME TypeOK, ControlOK, SingleFlight, MainOK, AnnouncedOK, [Next]_vars, NEW k \in Keys
  PROVE  KeyAnnounced(k)'
<1> USE DEF configVars, mainVars, queueVars, stateVars, workerVars
<1>1. CASE Excused(k)
  <2>1. CASE \E w \in Workers : Get(w, k)
    BY <2>1 DEF Get, KeyAnnounced, Awake
  <2> QED
    BY <1>1, <2>1, ExcusedStep DEF KeyAnnounced
<1>2. CASE Awake(k)
  <2>1. ASSUME NEW w \in Workers, Done(w), pc[w] = "succeed", job[w].key = k
        PROVE  KeyAnnounced(k)'
    <3>1. Excused(k) \/ store[k] = NoEntry \/ Announced(k)
      BY <2>1 DEF AnnouncedOK, WorkerAnnounced
    <3>2. UNCHANGED <<store, published, timer, ctxDone, dirty, mainVars>>
      BY <2>1 DEF Done
    <3> QED
      BY <3>1, <3>2 DEF KeyAnnounced, Excused, Seen, Marking, Announced, InTime
  <2> QED
    BY <1>2, <2>1, AwakeStep DEF KeyAnnounced, Excused
<1>3. CASE (store[k] = NoEntry \/ Announced(k)) /\ ~Awake(k)
  <2>1. CASE MainSide
    <3>1. timer'[k] = timer[k]
      BY <2>1, MainFrame
    <3> QED
      BY <1>3, <2>1, <3>1, MainDeletes DEF KeyAnnounced, Announced, InTime
  <2>2. CASE Tick
    <3>1. CASE store[k] = NoEntry
      BY <2>2, <3>1, TickEntry DEF KeyAnnounced
    <3>2. CASE Announced(k)
      <4>1. timer[k] > RetryMaxDelay /\ timer[k] \in Nat
        BY <1>3, <3>2, OptionsAssumption DEF Awake, Soon, Announced, TypeOK, NoTimer, ValidOptions
      <4>2. timer'[k] = timer[k] - 1
        BY <2>2, <4>1, OptionsAssumption DEF Tick, ValidOptions
      <4>3. store'[k].ttl >= store[k].ttl - 1 /\ store'[k].ttl \in Nat /\ store[k].ttl \in Nat
        BY <2>2, TickEntry, Fields
      <4>4. timer'[k] <= store'[k].ttl - RefreshBefore + PublishTime
        BY <3>2, <4>1, <4>2, <4>3, OptionsAssumption, EnvironmentAssumption
           DEF ValidOptions, Announced, InTime
      <4>5. published'[k] = store'[k].rev
        BY <2>2, <3>2, TickEntry DEF Tick, Announced
      <4> QED
        BY <4>1, <4>2, <4>4, <4>5, OptionsAssumption DEF KeyAnnounced, Announced, InTime, NoTimer, ValidOptions
    <3> QED
      BY <1>3, <3>1, <3>2
  <2>3. CASE ~MainSide /\ ~Tick
    BY <1>3, <2>3, IdleStep DEF KeyAnnounced, Excused, Announced, InTime
  <2> QED
    BY <2>1, <2>2, <2>3
<1> QED
  BY <1>1, <1>2, <1>3 DEF AnnouncedOK, KeyAnnounced

\* AddAfter leaves a wake-up that is not later than its argument.
LEMMA DelayedBound ==
  ASSUME TypeOK, NEW k \in Keys, NEW d \in Nat, ~shutdown
  PROVE  Delayed(k, d)[k] \in Nat /\ Delayed(k, d)[k] <= d
BY DEF TypeOK, Delayed, NoTimer

LEMMA WorkerAnnouncedStep ==
  ASSUME TypeOK, ControlOK, SingleFlight, MainOK, ClockOK, AnnouncedOK, [Next]_vars,
         NEW w \in Workers
  PROVE  WorkerAnnounced(w)'
<1>0. PICK k : k = job[w].key
  OBVIOUS
<1> USE DEF TypeOK, configVars, mainVars, queueVars, stateVars, workerVars
<1>1. CASE WorkerStep(w)
  <2>0. pc[w] \in Refreshing => k \in Keys
    BY <1>0 DEF ControlOK
  <2>1. k \in Keys /\ Excused(k) => Excused(k)'
    BY <1>0, <1>1, WorkerFrame DEF Excused, Seen, Marking
  <2>2. CASE pc'[w] \notin {"check", "publish", "succeed"}
    BY <2>2 DEF WorkerAnnounced
  <2>3. CASE Cleanup(w)
    <3>1. pc'[w] = "succeed" /\ job'[w].key = k /\ store'[k] = NoEntry
      BY <1>0, <2>0, <2>3 DEF Cleanup, Goto, NoJob, Refreshing
    <3> QED
      BY <3>1 DEF WorkerAnnounced
  <2>4. CASE Reuse(w)
    <3>1. k \in Keys /\ pc'[w] = "check" /\ store' = store
      BY <2>0, <2>4 DEF Reuse, Goto, Refreshing
    <3>2. /\ job'[w].key = k /\ job'[w].rev = store[k].rev
          /\ job'[w].delay = store[k].ttl - RefreshBefore
          /\ job'[w].elapsed = job[w].elapsed
      BY <1>0, <2>4 DEF Reuse, Job
    <3>3. Announcing(w)'
      BY <3>1, <3>2, Fields, OptionsAssumption DEF Announcing, InTime, ValidOptions
    <3> QED
      BY <3>1, <3>3 DEF WorkerAnnounced
  <2>5. CASE Recheck(w)
    <3>1. k \in Keys /\ pc[w] = "recheck"
      BY <2>0, <2>5 DEF Recheck, Refreshing
    <3>2. \/ pc'[w] \in {"cleanup", "install"}
          \/ pc'[w] = "succeed" /\ job'[w].key = k /\ (shutdown \/ k \in dirty') /\ ctxDone' = ctxDone
      BY <1>0, <2>5 DEF Recheck, Goto, Added, NoJob
    <3> QED
      BY <3>2 DEF WorkerAnnounced, Excused, MainOK
  <2>6. CASE Install(w)
    <3>1. k \in Keys /\ pc'[w] = "check"
      BY <2>0, <2>6 DEF Install, Goto, Refreshing
    <3>2. /\ job'[w].key = k /\ job'[w].rev = NextRevision(k)
          /\ job'[w].delay = job[w].ttl - RefreshBefore
          /\ job'[w].elapsed = job[w].elapsed
      BY <1>0, <2>6 DEF Install, Job
    <3>3. store'[k].rev = NextRevision(k) /\ store'[k].ttl = job[w].ttl
      BY <1>0, <2>6, <3>1 DEF Install
    <3>4. Announcing(w)'
      BY <3>1, <3>2, <3>3, Fields, OptionsAssumption DEF Announcing, InTime, ValidOptions
    <3> QED
      BY <3>1, <3>4 DEF WorkerAnnounced
  <2>7. CASE Publish(w)
    <3>1. /\ k \in Keys /\ pc[w] = "check" /\ pc'[w] = "publish" /\ job' = job
          /\ store' = store
      BY <2>0, <2>7 DEF Publish, Goto, Refreshing
    <3>2. Excused(k) \/ store[k] = NoEntry \/ Announcing(w)
      BY <1>0, <3>1 DEF AnnouncedOK, WorkerAnnounced
    <3> QED
      BY <1>0, <2>1, <3>1, <3>2 DEF WorkerAnnounced, Announcing, InTime
  <2>8. CASE SkipPublish(w) \/ PublishSucceeds(w)
    <3>1. /\ k \in Keys /\ pc[w] \in {"check", "publish"} /\ pc'[w] = "succeed"
          /\ store' = store /\ timer' = Delayed(k, job[w].delay)
          /\ published'[k] = job[w].rev /\ job'[w].key = k
      <4>1. CASE SkipPublish(w)
        BY <1>0, <2>0, <4>1 DEF SkipPublish, Goto, Refreshing, NoJob
      <4>2. CASE PublishSucceeds(w)
        BY <1>0, <2>0, <4>2 DEF PublishSucceeds, Goto, Refreshing, NoJob
      <4> QED
        BY <2>8, <4>1, <4>2
    <3>2. Excused(k) \/ store[k] = NoEntry \/ Announcing(w)
      BY <1>0, <3>1 DEF AnnouncedOK, WorkerAnnounced
    <3>3. shutdown => Excused(k)
      BY DEF MainOK, Excused
    <3>4. ASSUME ~shutdown, Announcing(w) PROVE Announced(k)'
      <4>1. timer'[k] \in Nat /\ timer'[k] <= job[w].delay
        BY <3>1, <3>4, Fields, DelayedBound
      <4>2. job[w].elapsed <= PublishTime
        BY <3>1, EnvironmentAssumption DEF ClockOK
      <4>3. timer'[k] <= store'[k].ttl - RefreshBefore + PublishTime
        BY <1>0, <3>1, <3>4, <4>1, <4>2, Fields, OptionsAssumption, EnvironmentAssumption
           DEF Announcing, InTime, ValidOptions
      <4> QED
        BY <1>0, <3>1, <3>4, <4>1, <4>3 DEF Announced, Announcing, InTime, NoTimer
    <3> QED
      BY <1>0, <2>1, <3>1, <3>2, <3>3, <3>4 DEF WorkerAnnounced
  <2>9. CASE Exit(w) \/ LoadRegistry(w) \/ ReadForce(w) \/ Request(w)
             \/ (\E ttl \in Lifetimes : ProviderReturns(w, ttl))
             \/ ProviderFails(w) \/ RejectToken(w) \/ PublishFails(w) \/ Done(w) \/ Forget(w)
             \/ AddRateLimited(w)
    <3>1. pc'[w] \in {"exited", "cleanup", "readForce", "decide", "request", "recheck",
                      "fail", "forget", "retry", "get"}
      BY <2>9 DEF Exit, LoadRegistry, ReadForce, Request, ProviderReturns, ProviderFails,
         RejectToken, PublishFails, Done, Forget, AddRateLimited, Goto
    <3> QED
      BY <3>1, <2>2
  <2> QED
    BY <1>1, <2>3, <2>4, <2>5, <2>6, <2>7, <2>8, <2>9 DEF WorkerStep
<1>2. CASE ~WorkerStep(w) /\ pc[w] \in Refreshing
  <2>1. k \in Keys
    BY <1>0, <1>2 DEF ControlOK
  <2>2. pc'[w] = pc[w] /\ job'[w].key = k
    BY <1>0, <1>2, AloneStep
  <2>3. Excused(k) => Excused(k)'
    BY <1>0, <1>2, <2>1, AloneStep, ExcusedStep
  <2>4. CASE MainSide
    <3>1. timer' = timer /\ job' = job
      BY <2>4, MainFrame
    <3> QED
      BY <1>0, <2>1, <2>2, <2>3, <2>4, <3>1, MainDeletes
         DEF AnnouncedOK, WorkerAnnounced, Announcing, Announced, InTime
  <2>5. CASE Tick
    <3>1. pc[w] \in {"request", "publish"}
      BY <1>2, <2>5 DEF Tick, MayTick, Waiting, Refreshing
    <3>2. /\ job'[w].rev = job[w].rev /\ job'[w].delay = job[w].delay
          /\ job'[w].elapsed = job[w].elapsed + 1
      BY <2>5, <3>1 DEF Tick, Job
    <3>3. /\ store'[k].rev = store[k].rev
          /\ store[k] = NoEntry => store'[k] = NoEntry
          /\ store'[k].ttl >= store[k].ttl - 1
          /\ store'[k].ttl \in Nat /\ store[k].ttl \in Nat
      BY <2>1, <2>5, TickEntry, Fields
    <3>4. ASSUME Announcing(w) PROVE Announcing(w)'
      <4>1. job'[w].delay <= store'[k].ttl - RefreshBefore + job'[w].elapsed
        BY <1>0, <3>2, <3>3, <3>4, Fields, OptionsAssumption
           DEF Announcing, InTime, ValidOptions
      <4> QED
        BY <1>0, <2>2, <3>2, <3>3, <3>4, <4>1 DEF Announcing, InTime
    <3> QED
      BY <1>0, <2>2, <2>3, <3>1, <3>3, <3>4 DEF AnnouncedOK, WorkerAnnounced
  <2>6. CASE ~MainSide /\ ~Tick
    <3>1. /\ job'[w] = job[w] /\ store'[k] = store[k] /\ published'[k] = published[k]
          /\ \/ timer'[k] = timer[k]
             \/ timer'[k] \in Nat /\ (timer[k] = NoTimer \/ timer'[k] <= timer[k])
             \/ k \in dirty' \/ ctxDone'
      BY <1>0, <1>2, <2>6, AloneStep
    <3>2. Announcing(w) => Announcing(w)'
      BY <1>0, <3>1 DEF Announcing, InTime
    <3>3. Announced(k) => Announced(k)' \/ Excused(k)'
      <4>1. CASE k \in dirty' \/ ctxDone'
        BY <4>1 DEF Excused
      <4>2. CASE timer'[k] = timer[k]
        BY <3>1, <4>2 DEF Announced, InTime
      <4>3. ASSUME timer'[k] \in Nat, timer[k] = NoTimer \/ timer'[k] <= timer[k], Announced(k)
            PROVE  Announced(k)'
        <5>1. timer[k] \in Nat /\ timer'[k] <= timer[k]
          BY <2>1, <4>3 DEF Announced
        <5>2. timer'[k] <= store'[k].ttl - RefreshBefore + PublishTime
          BY <2>1, <3>1, <4>3, <5>1, Fields, OptionsAssumption, EnvironmentAssumption
             DEF Announced, InTime, ValidOptions
        <5> QED
          BY <3>1, <4>3, <5>2 DEF Announced, InTime, NoTimer
      <4> QED
        BY <3>1, <4>1, <4>2, <4>3
    <3> QED
      BY <1>0, <2>2, <2>3, <3>1, <3>2, <3>3 DEF AnnouncedOK, WorkerAnnounced
  <2> QED
    BY <2>4, <2>5, <2>6
<1>3. CASE ~WorkerStep(w) /\ pc[w] \notin Refreshing
  <2>1. pc'[w] \notin Refreshing \ {"load"}
    BY <1>3, EnterStep
  <2> QED
    BY <2>1 DEF WorkerAnnounced, Refreshing
<1> QED
  BY <1>1, <1>2, <1>3

\* The inductive invariant behind the next two theorems.
THEOREM AnnouncedCorrect == Spec => [](ClockOK /\ AnnouncedOK)
<1>1. Init => ClockOK /\ AnnouncedOK
  BY DEF Init, ClockOK, AnnouncedOK, KeyAnnounced, WorkerAnnounced
<1>2. TypeOK /\ ControlOK /\ SingleFlight /\ MainOK /\ ClockOK /\ AnnouncedOK /\ [Next]_vars
        => ClockOK' /\ AnnouncedOK'
  BY ClockStep, KeyAnnouncedStep, WorkerAnnouncedStep DEF AnnouncedOK
<1> QED
  BY <1>1, <1>2, TypeCorrect, SingleFlightCorrect, MainCorrect, PTL DEF Spec

LEMMA SettledSees ==
  ASSUME MainOK, Settled
  PROVE  \A k \in Keys : Seen(k) = registries[k]
BY DEF MainOK, Settled

LEMMA SettledAnnounced ==
  ASSUME TypeOK, MainOK, AnnouncedOK, Settled, NEW k \in Keys, Matching(k), ~Pending(k)
  PROVE  Announced(k)
<1>1. ~Awake(k) /\ k \notin dirty
  BY DEF Pending, Awake, Retrying, Soon
<1>2. ~Excused(k)
  BY <1>1, SettledSees DEF Settled, Excused, Marking, ScanPcs, Matching
<1>3. store[k] # NoEntry
  BY DEF Matching, MatchesRegistry, NoEntry
<1> QED
  BY <1>1, <1>2, <1>3 DEF AnnouncedOK, KeyAnnounced

\* An installed credential that was not announced is never forgotten, for any
\* history of the configuration: a failed or interrupted PublishAllNamespaces is
\* retried, and a concurrent Forget or removal does not hide it.
THEOREM PublishedOrPendingCorrect == Spec => []PublishedOrPending
<1>1. TypeOK /\ MainOK /\ AnnouncedOK => PublishedOrPending
  BY SettledAnnounced DEF PublishedOrPending, Announced
<1> QED
  BY <1>1, TypeCorrect, MainCorrect, AnnouncedCorrect, PTL

\* A configured credential always has a wake-up, at its refresh time or at most
\* PublishTime later, although the delay is computed before publishing, the
\* delaying queue keeps one deadline per key, and retries use it too.
THEOREM RefreshScheduledCorrect == Spec => []RefreshScheduled
<1>1. TypeOK /\ MainOK /\ AnnouncedOK => RefreshScheduled
  BY SettledAnnounced DEF RefreshScheduled, Announced, InTime
<1> QED
  BY <1>1, TypeCorrect, MainCorrect, AnnouncedCorrect, PTL

-----------------------------------------------------------------------------
(* Acquisition.  The main loop compares complete snapshots, so it misses a  *)
(* change that is taken back before it looks.  What is proved here is that  *)
(* nothing else is missed: as long as no key gets a pair it once had, each  *)
(* change that leaves a key configured is seen or still to be seen.         *)

\* What the main loop has seen is the current pair or one that was replaced.
SeenOK == \A k \in Keys : Seen(k) \in spent[k] \cup {None, registries[k]}

\* The main loop has a change of this key to notice, or to act upon.
Behind(k) ==
    \/ Seen(k) # registries[k]
    \/ mainPc \in ScanPcs /\ k \in todo
    \/ Marking(k)

Overtaken(k) == ctxDone \/ registries[k] = None \/ Behind(k) \/ k \in dirty

KeyAcquired(k) == Overtaken(k) \/ Awake(k) \/ Matching(k)

WorkerAcquired(w) ==
    /\ pc[w] \in {"readForce", "decide", "request", "recheck", "install"} =>
          Overtaken(job[w].key) \/ registries[job[w].key] = job[w].registry
    /\ pc[w] = "cleanup" => Overtaken(job[w].key)
    /\ pc[w] \in {"check", "publish", "succeed"} =>
          Overtaken(job[w].key) \/ Matching(job[w].key)

AcquiredOK ==
    (\A k \in Keys : KeyAcquired(k)) /\ (\A w \in Workers : WorkerAcquired(w))

LEMMA SeenStep ==
  ASSUME TypeOK, ControlOK, SeenOK, [Next]_vars
  PROVE  SeenOK'
<1> USE DEF TypeOK, SeenOK, Seen, ScanPcs, configVars, mainVars, queueVars, stateVars,
        workerVars
<1>1. ASSUME NEW c \in [Keys -> Auths \cup {None}], StoreApply(c) PROVE SeenOK'
  <2> SUFFICES ASSUME NEW k \in Keys PROVE (Seen(k) \in spent[k] \cup {None, registries[k]})'
    OBVIOUS
  <2>1. Seen(k)' = Seen(k) /\ registries'[k] = c[k]
    BY <1>1 DEF StoreApply
  <2>2. spent'[k] = IF c[k] = registries[k] THEN spent[k]
                    ELSE spent[k] \cup ({registries[k]} \ {None})
    BY <1>1 DEF StoreApply
  <2> QED
    BY <2>1, <2>2
<1>2. CASE NotifyConfigurationChanged \/ Start \/ Cancel \/ ReceiveChange \/ ShutDown
           \/ Stopped
  BY <1>2 DEF NotifyConfigurationChanged, Start, Cancel, ReceiveChange, ShutDown, Stopped
<1>3. CASE LoadSnapshot
  BY <1>3 DEF LoadSnapshot
<1>4. ASSUME NEW k \in Keys, AddRegistry(k) \/ MarkRegistry(k) \/ RemoveCredential(k)
      PROVE  SeenOK'
  BY <1>4 DEF AddRegistry, MarkRegistry, RemoveCredential
<1>5. CASE QueueMarked \/ RemovePublished \/ RemoveForce \/ RemoveFailures
  BY <1>5 DEF QueueMarked, RemovePublished, RemoveForce, RemoveFailures
<1>6. CASE FinishReconcile
  BY <1>6 DEF FinishReconcile
<1>7. CASE ~MainSide
  BY <1>7, MainStands
<1> QED
  BY <1>1, <1>2, <1>3, <1>4, <1>5, <1>6, <1>7 DEF MainSide, MainStep

\* A pair that replaces another is new to the main loop.
LEMMA NewPairUnseen ==
  ASSUME TypeOK, SeenOK, ~Reverts, NEW k \in Keys,
         NEW c \in [Keys -> Auths \cup {None}], StoreApply(c), c[k] # registries[k]
  PROVE  Overtaken(k)'
<1>1. Seen(k)' = Seen(k) /\ registries'[k] = c[k]
  BY DEF StoreApply, Seen, mainVars
<1>2. c[k] = None \/ c[k] \notin spent[k]
  BY DEF StoreApply, Candidates
<1>3. c[k] = None \/ Seen(k) # c[k]
  BY <1>2 DEF SeenOK
<1> QED
  BY <1>1, <1>3 DEF Overtaken, Behind

LEMMA OvertakenStep ==
  ASSUME TypeOK, ControlOK, MainOK, SeenOK, ~Reverts, NEW k \in Keys, [Next]_vars,
         Overtaken(k)
  PROVE  Overtaken(k)' \/ \E w \in Workers : Get(w, k)
<1> USE DEF TypeOK, Overtaken, Behind, configVars, mainVars, queueVars, stateVars, workerVars
<1>1. CASE ctxDone \/ k \in dirty
  BY <1>1, QueuedStep
<1>2. CASE ~MainSide
  BY <1>1, <1>2, MainStands DEF Seen, Marking
<1>3. CASE MainSide /\ ~ctxDone /\ ~shutdown /\ k \notin dirty
  <2>1. ASSUME NEW c \in [Keys -> Auths \cup {None}], StoreApply(c) PROVE Overtaken(k)'
    <3>1. CASE c[k] # registries[k]
      BY <2>1, <3>1, NewPairUnseen
    <3>2. CASE c[k] = registries[k]
      BY <1>3, <2>1, <3>2 DEF StoreApply, Seen, Marking
    <3> QED
      BY <3>1, <3>2
  <2> USE DEF Seen, Marking, ScanPcs
  <2>2. CASE NotifyConfigurationChanged \/ Start \/ Cancel \/ ReceiveChange \/ ShutDown
             \/ Stopped
    BY <1>3, <2>2 DEF NotifyConfigurationChanged, Start, Cancel, ReceiveChange, ShutDown,
       Stopped
  <2>3. CASE LoadSnapshot
    BY <1>3, <2>3 DEF LoadSnapshot
  <2>4. ASSUME NEW j \in Keys, AddRegistry(j) PROVE Overtaken(k)'
    BY <1>3, <2>4 DEF AddRegistry, Added
  <2>5. ASSUME NEW j \in Keys, MarkRegistry(j) PROVE Overtaken(k)'
    BY <1>3, <2>5 DEF MarkRegistry
  <2>6. ASSUME NEW j \in Keys, RemoveCredential(j) PROVE Overtaken(k)'
    BY <1>3, <2>6 DEF RemoveCredential
  <2>7. CASE QueueMarked
    BY <1>3, <2>7 DEF QueueMarked, Added
  <2>8. CASE RemovePublished \/ RemoveForce \/ RemoveFailures
    BY <1>3, <2>8 DEF RemovePublished, RemoveForce, RemoveFailures
  <2>9. CASE FinishReconcile
    BY <1>3, <2>9 DEF FinishReconcile
  <2> QED
    BY <1>3, <2>1, <2>2, <2>3, <2>4, <2>5, <2>6, <2>7, <2>8, <2>9 DEF MainSide, MainStep
<1> QED
  BY <1>1, <1>2, <1>3 DEF MainOK

\* Neither the configuration nor the main loop takes the credential of a key's pair
\* away without the main loop having something to notice.
LEMMA MainKeepsPair ==
  ASSUME TypeOK, ControlOK, MainOK, SeenOK, ~Reverts, NEW k \in Keys, MainSide
  PROVE  Overtaken(k)' \/ (registries'[k] = registries[k] /\ store'[k] = store[k])
<1> USE DEF TypeOK, configVars, mainVars, queueVars, stateVars, workerVars
<1>1. ASSUME NEW c \in [Keys -> Auths \cup {None}], StoreApply(c)
      PROVE  Overtaken(k)' \/ (registries'[k] = registries[k] /\ store'[k] = store[k])
  <2>1. CASE c[k] # registries[k]
    BY <1>1, <2>1, NewPairUnseen
  <2>2. CASE c[k] = registries[k]
    BY <1>1, <2>2 DEF StoreApply
  <2> QED
    BY <2>1, <2>2
<1>2. ASSUME NEW j \in Keys, RemoveCredential(j)
      PROVE  Overtaken(k)' \/ (registries'[k] = registries[k] /\ store'[k] = store[k])
  BY <1>2 DEF RemoveCredential, Overtaken, Behind, Seen, ScanPcs
<1>3. CASE /\ ~\E c \in [Keys -> Auths \cup {None}] : StoreApply(c)
           /\ ~\E j \in Keys : RemoveCredential(j)
  BY <1>3 DEF MainSide, MainStep, NotifyConfigurationChanged, Start, Cancel,
     ReceiveChange, LoadSnapshot, AddRegistry, MarkRegistry, QueueMarked, RemovePublished,
     RemoveForce, RemoveFailures, FinishReconcile, ShutDown, Stopped
<1> QED
  BY <1>1, <1>2, <1>3

LEMMA KeyAcquiredStep ==
  ASSUME TypeOK, ControlOK, SingleFlight, MainOK, SeenOK, ~Reverts, AcquiredOK, [Next]_vars,
         NEW k \in Keys
  PROVE  KeyAcquired(k)'
<1> USE DEF configVars, mainVars, queueVars, stateVars, workerVars
<1>1. CASE Overtaken(k)
  <2>1. CASE \E w \in Workers : Get(w, k)
    BY <2>1 DEF Get, KeyAcquired, Awake
  <2> QED
    BY <1>1, <2>1, OvertakenStep DEF KeyAcquired
<1>2. CASE Awake(k)
  <2>1. ASSUME NEW w \in Workers, Done(w), pc[w] = "succeed", job[w].key = k
        PROVE  KeyAcquired(k)'
    <3>1. Overtaken(k) \/ Matching(k)
      BY <2>1 DEF AcquiredOK, WorkerAcquired
    <3>2. UNCHANGED <<store, registries, ctxDone, dirty, mainVars>>
      BY <2>1 DEF Done
    <3> QED
      BY <3>1, <3>2 DEF KeyAcquired, Overtaken, Behind, Seen, Marking, Matching
  <2> QED
    BY <1>2, <2>1, AwakeStep DEF KeyAcquired, Overtaken
<1>3. CASE Matching(k) /\ ~Awake(k)
  <2>1. CASE MainSide
    BY <1>3, <2>1, MainKeepsPair DEF KeyAcquired, Matching
  <2>2. CASE Tick
    BY <1>3, <2>2, TickEntry DEF Tick, KeyAcquired, Matching, MatchesRegistry
  <2>3. CASE ~MainSide /\ ~Tick
    BY <1>3, <2>3, IdleStep, MainStands DEF KeyAcquired, Overtaken, Matching
  <2> QED
    BY <2>1, <2>2, <2>3
<1> QED
  BY <1>1, <1>2, <1>3 DEF AcquiredOK, KeyAcquired

LEMMA WorkerAcquiredStep ==
  ASSUME TypeOK, ControlOK, SingleFlight, MainOK, SeenOK, ~Reverts, AcquiredOK, [Next]_vars,
         NEW w \in Workers
  PROVE  WorkerAcquired(w)'
<1>0. PICK k : k = job[w].key
  OBVIOUS
<1> USE DEF TypeOK, configVars, mainVars, queueVars, stateVars, workerVars
<1>1. CASE WorkerStep(w)
  <2>0. pc[w] \in Refreshing => k \in Keys
    BY <1>0 DEF ControlOK
  <2>1. /\ registries' = registries
        /\ k \in Keys /\ Overtaken(k) => Overtaken(k)'
    BY <1>0, <1>1, WorkerFrame DEF Overtaken, Behind, Seen, Marking
  <2>2. CASE LoadRegistry(w)
    <3>1. k \in Keys
      BY <2>0, <2>2 DEF LoadRegistry, Refreshing
    <3>2. /\ job'[w].key = k /\ job'[w].registry = registries[k]
          /\ pc'[w] = IF registries[k] = None THEN "cleanup" ELSE "readForce"
      BY <1>0, <2>2 DEF LoadRegistry, Goto, Job
    <3> QED
      BY <2>1, <3>2 DEF WorkerAcquired, Overtaken
  <2>3. CASE ReadForce(w) \/ Request(w) \/ \E ttl \in Lifetimes : ProviderReturns(w, ttl)
    <3>1. /\ pc[w] \in {"readForce", "decide", "request"}
          /\ pc'[w] \in {"decide", "request", "recheck"}
          /\ job'[w].key = k /\ job'[w].registry = job[w].registry
      <4>1. CASE ReadForce(w)
        BY <1>0, <4>1 DEF ReadForce, Goto, Job
      <4>2. CASE Request(w)
        BY <1>0, <4>2 DEF Request, Goto
      <4>3. ASSUME NEW ttl \in Lifetimes, ProviderReturns(w, ttl)
            PROVE  /\ pc[w] = "request" /\ pc'[w] = "recheck"
                   /\ job'[w].key = k /\ job'[w].registry = job[w].registry
        BY <1>0, <4>3 DEF ProviderReturns, Goto, Job
      <4> QED
        BY <2>3, <4>1, <4>2, <4>3
    <3>2. Overtaken(k) \/ registries[k] = job[w].registry
      BY <1>0, <3>1 DEF AcquiredOK, WorkerAcquired
    <3> QED
      BY <2>0, <2>1, <3>1, <3>2 DEF WorkerAcquired, Refreshing
  <2>4. CASE Recheck(w)
    <3>1. pc[w] = "recheck" /\ k \in Keys
      BY <2>0, <2>4 DEF Recheck, Refreshing
    <3>2. \/ pc'[w] = "cleanup" /\ job'[w].key = k /\ registries[k] = None
          \/ /\ pc'[w] = "succeed" /\ job'[w].key = k /\ ctxDone' = ctxDone
             /\ shutdown \/ k \in dirty'
          \/ /\ pc'[w] = "install" /\ job'[w].key = k /\ job'[w].registry = job[w].registry
             /\ registries[k] = job[w].registry
      BY <1>0, <2>4 DEF Recheck, Goto, Added, Job, NoJob
    <3> QED
      BY <2>1, <3>2 DEF WorkerAcquired, Overtaken, MainOK
  <2>5. CASE Reuse(w)
    <3>1. /\ k \in Keys /\ pc[w] = "decide" /\ pc'[w] = "check" /\ store' = store
          /\ job'[w].key = k /\ MatchesRegistry(store[k], k, job[w].registry)
      BY <1>0, <2>0, <2>5 DEF Reuse, Reusable, Goto, Job, Refreshing
    <3>2. Overtaken(k) \/ registries[k] = job[w].registry
      BY <1>0, <3>1 DEF AcquiredOK, WorkerAcquired
    <3>3. job[w].registry # None
      BY <3>1, EnvironmentAssumption DEF ControlOK, WithRegistry
    <3> QED
      BY <2>1, <3>1, <3>2, <3>3 DEF WorkerAcquired, Matching
  <2>6. CASE Install(w)
    <3>1. k \in Keys /\ pc[w] = "install" /\ pc'[w] = "check"
      BY <2>0, <2>6 DEF Install, Goto, Refreshing
    <3>2. job[w].registry \in Auths /\ job[w].current = job[w].registry
      BY <3>1 DEF ControlOK, WithRegistry
    <3>3. job'[w].key = k
      BY <1>0, <2>6 DEF Install, Job
    <3>4. store'[k].hash = RegistryAuthenticationHash(k, job[w].registry)
      BY <1>0, <2>6, <3>1, <3>2 DEF Install
    <3>5. Overtaken(k) \/ registries[k] = job[w].registry
      BY <1>0, <3>1 DEF AcquiredOK, WorkerAcquired
    <3>6. registries[k] = job[w].registry => Matching(k)'
      BY <2>1, <3>1, <3>2, <3>4, EnvironmentAssumption
         DEF Matching, MatchesRegistry, RegistryAuthenticationHash, NoHash
    <3> QED
      BY <2>1, <3>1, <3>3, <3>5, <3>6 DEF WorkerAcquired
  <2>7. CASE Cleanup(w)
    <3>1. k \in Keys /\ pc[w] = "cleanup" /\ pc'[w] = "succeed" /\ job'[w].key = k
      BY <1>0, <2>0, <2>7 DEF Cleanup, Goto, NoJob, Refreshing
    <3>2. Overtaken(k)
      BY <1>0, <3>1 DEF AcquiredOK, WorkerAcquired
    <3> QED
      BY <2>1, <3>1, <3>2 DEF WorkerAcquired
  <2>8. CASE SkipPublish(w) \/ Publish(w) \/ PublishSucceeds(w)
    <3>1. /\ pc[w] \in {"check", "publish"} /\ pc'[w] \in {"publish", "succeed"}
          /\ job'[w].key = k /\ store' = store
      BY <1>0, <2>8 DEF SkipPublish, Publish, PublishSucceeds, Goto, NoJob
    <3>2. Overtaken(k) \/ Matching(k)
      BY <1>0, <3>1 DEF AcquiredOK, WorkerAcquired
    <3> QED
      BY <2>0, <2>1, <3>1, <3>2 DEF WorkerAcquired, Matching, Refreshing
  <2>9. CASE Exit(w) \/ ProviderFails(w) \/ RejectToken(w) \/ PublishFails(w) \/ Done(w)
             \/ Forget(w) \/ AddRateLimited(w)
    <3>1. pc'[w] \in {"exited", "fail", "forget", "retry", "get"}
      BY <2>9 DEF Exit, ProviderFails, RejectToken, PublishFails, Done, Forget,
         AddRateLimited, Goto
    <3> QED
      BY <3>1 DEF WorkerAcquired
  <2> QED
    BY <1>1, <2>2, <2>3, <2>4, <2>5, <2>6, <2>7, <2>8, <2>9 DEF WorkerStep
<1>2. CASE ~WorkerStep(w) /\ pc[w] \in Refreshing
  <2>1. k \in Keys
    BY <1>0, <1>2 DEF ControlOK
  <2>2. pc'[w] = pc[w] /\ job'[w].key = k /\ job'[w].registry = job[w].registry
    <3>1. CASE Tick
      BY <1>0, <3>1 DEF Tick, Job
    <3> QED
      BY <1>0, <1>2, <3>1, AloneStep
  <2>3. Overtaken(k) => Overtaken(k)'
    BY <1>0, <1>2, <2>1, AloneStep, OvertakenStep
  <2>4. \/ Overtaken(k)'
        \/ registries'[k] = registries[k] /\ (Matching(k) => Matching(k)')
    <3>1. CASE MainSide
      BY <2>1, <3>1, MainKeepsPair DEF Matching
    <3>2. CASE Tick
      BY <2>1, <3>2, TickEntry DEF Tick, Matching, MatchesRegistry
    <3>3. CASE ~MainSide /\ ~Tick
      BY <1>0, <1>2, <3>3, AloneStep DEF Matching
    <3> QED
      BY <3>1, <3>2, <3>3
  <2> QED
    BY <1>0, <2>2, <2>3, <2>4 DEF AcquiredOK, WorkerAcquired
<1>3. CASE ~WorkerStep(w) /\ pc[w] \notin Refreshing
  <2>1. pc'[w] \notin Refreshing \ {"load"}
    BY <1>3, EnterStep
  <2> QED
    BY <2>1 DEF WorkerAcquired, Refreshing
<1> QED
  BY <1>1, <1>2, <1>3

\* No configuration change is lost: a configured registry without a credential of its
\* current AK/SK pair is queued, in progress or will be within a retry delay, as soon
\* as the main loop has caught up.  The hypothesis leaves out the histories in which
\* a key gets a pair again that it once had; there the statement does not hold.
THEOREM NoLostAcquisitionCorrect == ~Reverts => (Spec => []NoLostAcquisition)
<1> SUFFICES ASSUME ~Reverts PROVE Spec => []NoLostAcquisition
  OBVIOUS
<1>1. Init => SeenOK /\ AcquiredOK
  BY DEF Init, SeenOK, Seen, ScanPcs, AcquiredOK, KeyAcquired, Overtaken, WorkerAcquired
<1>2. TypeOK /\ ControlOK /\ SingleFlight /\ MainOK /\ SeenOK /\ AcquiredOK /\ [Next]_vars
        => SeenOK' /\ AcquiredOK'
  BY SeenStep, KeyAcquiredStep, WorkerAcquiredStep DEF AcquiredOK
<1>3. TypeOK /\ MainOK /\ AcquiredOK => NoLostAcquisition
  <2> SUFFICES ASSUME MainOK, AcquiredOK, Settled, NEW k \in Keys, registries[k] # None,
                      ~Matching(k)
               PROVE  Pending(k)
    BY DEF NoLostAcquisition
  <2>1. Overtaken(k) => k \in dirty
    BY SettledSees DEF Settled, Overtaken, Behind, Marking, ScanPcs
  <2> QED
    BY <2>1 DEF AcquiredOK, KeyAcquired, Awake, Retrying, Soon, Pending
<1> QED
  BY <1>1, <1>2, <1>3, TypeCorrect, SingleFlightCorrect, MainCorrect, PTL DEF Spec
=============================================================================
