---------------------- MODULE CredentialSchedulerProofs ----------------------
(* Proofs about the credential scheduler, for every number of registries,   *)
(* AK/SK pairs and workers and every value of the policy options.            *)
EXTENDS CredentialScheduler, TLAPS

\* Statements of refresh that run with a registry that was configured.
WithRegistry == {"readForce", "decide", "request", "recheck", "install", "check",
                 "publish"}

\* What the program counters say of the local variables.
ControlOK ==
    /\ mainPc \in {"add", "forgetPublished", "deleteForce", "forget"}
          => scanned \in Keys
    /\ \A w \in Workers : pc[w] \in Refreshing \cup AfterDone => job[w].key \in Keys
    /\ \A w \in Workers : pc[w] \in WithRegistry => job[w].registry \in Auths
    /\ \A w \in Workers : pc[w] = "install" => job[w].current = job[w].registry

LEMMA TypeStep ==
  ASSUME TypeOK, ControlOK, [Next]_vars
  PROVE  TypeOK'
<1> USE OptionsAssumption, EnvironmentAssumption DEF ValidOptions, TypeOK, vars,
        configVars, mainVars, queueVars, stateVars, workerVars
<1>1. ASSUME NEW c \in [Keys -> Auths \cup {None}], StoreApply(c) PROVE TypeOK'
  BY <1>1 DEF StoreApply, ControlOK, MainPcs, WorkerPcs, Refreshing, AfterDone, Added, NoTimer, Entry, NoEntry
<1>2. CASE NotifyConfigurationChanged
  BY <1>2 DEF NotifyConfigurationChanged, ControlOK, MainPcs, WorkerPcs, Refreshing, AfterDone, Added, NoTimer, Entry, NoEntry
<1>3. CASE Start
  BY <1>3 DEF Start, ControlOK, MainPcs, WorkerPcs, Refreshing, AfterDone, Added, NoTimer, Entry, NoEntry
<1>4. CASE Cancel
  BY <1>4 DEF Cancel, ControlOK, MainPcs, WorkerPcs, Refreshing, AfterDone, Added, NoTimer, Entry, NoEntry
<1>5. CASE ReceiveChange
  BY <1>5 DEF ReceiveChange, ControlOK, MainPcs, WorkerPcs, Refreshing, AfterDone, Added, NoTimer, Entry, NoEntry
<1>6. CASE LoadSnapshot
  BY <1>6 DEF LoadSnapshot, ControlOK, MainPcs, WorkerPcs, Refreshing, AfterDone, Added, NoTimer, Entry, NoEntry
<1>7. ASSUME NEW k \in Keys, AddRegistry(k) PROVE TypeOK'
  BY <1>7 DEF AddRegistry, ControlOK, MainPcs, WorkerPcs, Refreshing, AfterDone, Added, NoTimer, Entry, NoEntry
<1>8. ASSUME NEW k \in Keys, MarkRegistry(k) PROVE TypeOK'
  BY <1>8 DEF MarkRegistry, ControlOK, MainPcs, WorkerPcs, Refreshing, AfterDone, Added, NoTimer, Entry, NoEntry
<1>9. ASSUME NEW k \in Keys, RemoveCredential(k) PROVE TypeOK'
  BY <1>9 DEF RemoveCredential, ControlOK, MainPcs, WorkerPcs, Refreshing, AfterDone, Added, NoTimer, Entry, NoEntry
<1>10. CASE QueueMarked
  BY <1>10 DEF QueueMarked, ControlOK, MainPcs, WorkerPcs, Refreshing, AfterDone, Added, NoTimer, Entry, NoEntry
<1>11. CASE RemovePublished
  BY <1>11 DEF RemovePublished, ControlOK, MainPcs, WorkerPcs, Refreshing, AfterDone, Added, NoTimer, Entry, NoEntry
<1>12. CASE RemoveForce
  BY <1>12 DEF RemoveForce, ControlOK, MainPcs, WorkerPcs, Refreshing, AfterDone, Added, NoTimer, Entry, NoEntry
<1>13. CASE RemoveFailures
  BY <1>13 DEF RemoveFailures, ControlOK, MainPcs, WorkerPcs, Refreshing, AfterDone, Added, NoTimer, Entry, NoEntry
<1>14. CASE FinishReconcile
  BY <1>14 DEF FinishReconcile, ControlOK, MainPcs, WorkerPcs, Refreshing, AfterDone, Added, NoTimer, Entry, NoEntry
<1>15. CASE ShutDown
  BY <1>15 DEF ShutDown, ControlOK, MainPcs, WorkerPcs, Refreshing, AfterDone, Added, NoTimer, Entry, NoEntry
<1>16. CASE Stopped
  BY <1>16 DEF Stopped, ControlOK, MainPcs, WorkerPcs, Refreshing, AfterDone, Added, NoTimer, Entry, NoEntry
<1>17. ASSUME NEW k \in Keys, TimerFires(k) PROVE TypeOK'
  BY <1>17 DEF TimerFires, ControlOK, MainPcs, WorkerPcs, Refreshing, AfterDone, Added, NoTimer, Entry, NoEntry
<1>18. ASSUME NEW w \in Workers, Exit(w) PROVE TypeOK'
  BY <1>18 DEF Exit, Goto, ControlOK, WorkerPcs, Refreshing, AfterDone, WithRegistry, Added, Delayed, NoTimer, Entry, NoEntry, Job, NoJob, Revisions
<1>19. ASSUME NEW w \in Workers, LoadRegistry(w) PROVE TypeOK'
  <2>1. job[w].key \in Keys /\ job[w] \in Job
    BY <1>19 DEF LoadRegistry, ControlOK, Refreshing
  <2>8. job' \in [Workers -> Job]
    BY <1>19, <2>1 DEF LoadRegistry, Job
  <2> QED
    BY <1>19, <2>1, <2>8 DEF LoadRegistry, Goto, WorkerPcs, Refreshing, AfterDone
<1>20. ASSUME NEW w \in Workers, Cleanup(w) PROVE TypeOK'
  BY <1>20 DEF Cleanup, Goto, ControlOK, WorkerPcs, Refreshing, AfterDone, WithRegistry, Added, Delayed, NoTimer, Entry, NoEntry, Job, NoJob, Revisions
<1>21. ASSUME NEW w \in Workers, ReadForce(w) PROVE TypeOK'
  <2>1. job[w].key \in Keys /\ job[w] \in Job
    BY <1>21 DEF ReadForce, ControlOK, Refreshing
  <2>8. job' \in [Workers -> Job]
    BY <1>21, <2>1 DEF ReadForce, Job
  <2> QED
    BY <1>21, <2>1, <2>8 DEF ReadForce, Goto, WorkerPcs, Refreshing, AfterDone
<1>22. ASSUME NEW w \in Workers, Reuse(w) PROVE TypeOK'
  <2>1. job[w].key \in Keys /\ job[w] \in Job
    BY <1>22 DEF Reuse, ControlOK, Refreshing
  <2>2. store[job[w].key].rev \in Revisions \cup {0}
        /\ store[job[w].key].ttl - RefreshBefore \in Nat
    BY <1>22, <2>1 DEF Reuse, Reusable, Entry, NoEntry
  <2>8. job' \in [Workers -> Job]
    BY <1>22, <2>1, <2>2 DEF Reuse, Job
  <2> QED
    BY <1>22, <2>1, <2>8 DEF Reuse, Goto, WorkerPcs, Refreshing, AfterDone
<1>23. ASSUME NEW w \in Workers, Request(w) PROVE TypeOK'
  BY <1>23 DEF Request, Goto, ControlOK, WorkerPcs, Refreshing, AfterDone, WithRegistry, Added, Delayed, NoTimer, Entry, NoEntry, Job, NoJob, Revisions
<1>24. ASSUME NEW w \in Workers, NEW ttl \in Lifetimes, ProviderReturns(w, ttl) PROVE TypeOK'
  <2>1. job[w].key \in Keys /\ job[w] \in Job
    BY <1>24 DEF ProviderReturns, ControlOK, Refreshing
  <2>8. job' \in [Workers -> Job]
    BY <1>24, <2>1 DEF ProviderReturns, Job
  <2> QED
    BY <1>24, <2>1, <2>8 DEF ProviderReturns, Goto, WorkerPcs, Refreshing, AfterDone
<1>25. ASSUME NEW w \in Workers, ProviderFails(w) PROVE TypeOK'
  BY <1>25 DEF ProviderFails, Goto, ControlOK, WorkerPcs, Refreshing, AfterDone, WithRegistry, Added, Delayed, NoTimer, Entry, NoEntry, Job, NoJob, Revisions
<1>26. ASSUME NEW w \in Workers, Recheck(w) PROVE TypeOK'
  <2>1. job[w].key \in Keys /\ job[w] \in Job
    BY <1>26 DEF Recheck, ControlOK, Refreshing
  <2>2. /\ [NoJob EXCEPT !.key = job[w].key] \in Job
        /\ \A a \in Auths \cup {None} : [job[w] EXCEPT !.current = a] \in Job
    BY <2>1 DEF NoJob, Job
  <2>3. registries[job[w].key] \in Auths \cup {None}
    BY <2>1
  <2>8. job' \in [Workers -> Job]
    BY <1>26, <2>1, <2>2, <2>3 DEF Recheck
  <2> QED
    BY <1>26, <2>1, <2>8 DEF Recheck, Goto, WorkerPcs, Refreshing, AfterDone, Added
<1>27. ASSUME NEW w \in Workers, RejectToken(w) PROVE TypeOK'
  BY <1>27 DEF RejectToken, Goto, ControlOK, WorkerPcs, Refreshing, AfterDone, WithRegistry, Added, Delayed, NoTimer, Entry, NoEntry, Job, NoJob, Revisions
<1>28. ASSUME NEW w \in Workers, Install(w) PROVE TypeOK'
  <2>1. job[w].key \in Keys /\ job[w] \in Job /\ job[w].registry \in Auths
        /\ job[w].current = job[w].registry
    BY <1>28 DEF Install, ControlOK, Refreshing, WithRegistry
  <2> DEFINE k == job[w].key
             r == NextRevision(k)
             e == [hash |-> RegistryAuthenticationHash(k, job[w].current), issuedFor |-> job[w].registry,
                   rev |-> r, ttl |-> job[w].ttl]
  <2>2. r \in Revisions
    BY DEF NextRevision, Revisions
  <2>3. e \in Entry
    BY <2>1, <2>2 DEF Entry, Job, RegistryAuthenticationHash
  <2>4. job[w].ttl - RefreshBefore \in Nat
    BY <1>28, <2>1 DEF Install, Job
  <2>5. job' \in [Workers -> Job]
    BY <1>28, <2>1, <2>2, <2>4 DEF Install, Job
  <2>6. store' \in [Keys -> Entry \cup {NoEntry}]
    BY <1>28, <2>1, <2>3 DEF Install
  <2>7. force' \in [Keys -> Nat]
    BY <1>28, <2>1 DEF Install
  <2> QED
    BY <1>28, <2>5, <2>6, <2>7 DEF Install, Goto, WorkerPcs, Refreshing, AfterDone
<1>29. ASSUME NEW w \in Workers, SkipPublish(w) PROVE TypeOK'
  BY <1>29 DEF SkipPublish, Goto, ControlOK, WorkerPcs, Refreshing, AfterDone, WithRegistry, Added, Delayed, NoTimer, Entry, NoEntry, Job, NoJob, Revisions
<1>30. ASSUME NEW w \in Workers, Publish(w) PROVE TypeOK'
  BY <1>30 DEF Publish, Goto, ControlOK, WorkerPcs, Refreshing, AfterDone, WithRegistry, Added, Delayed, NoTimer, Entry, NoEntry, Job, NoJob, Revisions
<1>31. ASSUME NEW w \in Workers, PublishSucceeds(w) PROVE TypeOK'
  BY <1>31 DEF PublishSucceeds, Goto, ControlOK, WorkerPcs, Refreshing, AfterDone, WithRegistry, Added, Delayed, NoTimer, Entry, NoEntry, Job, NoJob, Revisions
<1>32. ASSUME NEW w \in Workers, PublishFails(w) PROVE TypeOK'
  BY <1>32 DEF PublishFails, Goto, ControlOK, WorkerPcs, Refreshing, AfterDone, WithRegistry, Added, Delayed, NoTimer, Entry, NoEntry, Job, NoJob, Revisions
<1>33. ASSUME NEW w \in Workers, Done(w) PROVE TypeOK'
  BY <1>33 DEF Done, Goto, ControlOK, WorkerPcs, Refreshing, AfterDone, WithRegistry, Added, Delayed, NoTimer, Entry, NoEntry, Job, NoJob, Revisions
<1>34. ASSUME NEW w \in Workers, Forget(w) PROVE TypeOK'
  BY <1>34 DEF Forget, Goto, ControlOK, WorkerPcs, Refreshing, AfterDone, WithRegistry, Added, Delayed, NoTimer, Entry, NoEntry, Job, NoJob, Revisions
<1>35. ASSUME NEW w \in Workers, AddRateLimited(w) PROVE TypeOK'
  <2>1. job[w].key \in Keys
    BY <1>35 DEF AddRateLimited, ControlOK, AfterDone
  <2>2. backoff[job[w].key] \in Nat /\ Doubled(backoff[job[w].key]) \in RetryBaseDelay..RetryMaxDelay
    BY <2>1 DEF Doubled
  <2>3. timer' \in [Keys -> Nat \cup {NoTimer}]
    BY <1>35, <2>1, <2>2 DEF AddRateLimited, Delayed
  <2>4. backoff' \in [Keys -> RetryBaseDelay..RetryMaxDelay]
    BY <1>35, <2>1, <2>2 DEF AddRateLimited
  <2>5. NoJob \in Job
    BY DEF NoJob, Job
  <2> QED
    BY <1>35, <2>3, <2>4, <2>5 DEF AddRateLimited, Goto, WorkerPcs
<1>36. ASSUME NEW w \in Workers, NEW k \in Keys, Get(w, k) PROVE TypeOK'
  BY <1>36 DEF Get, Goto, ControlOK, WorkerPcs, Refreshing, AfterDone, WithRegistry, Added, Delayed, NoTimer, Entry, NoEntry, Job, NoJob, Revisions
<1>37. CASE Tick
  <2>1. job' \in [Workers -> Job]
    <3> SUFFICES ASSUME NEW w \in Workers
                 PROVE  [job[w] EXCEPT !.elapsed = @ + 1] \in Job
      BY <1>37 DEF Tick
    <3> QED
      BY DEF Job
  <2>2. store' \in [Keys -> Entry \cup {NoEntry}]
    <3> SUFFICES ASSUME NEW k \in Keys
                 PROVE  [store[k] EXCEPT !.ttl = IF @ > 0 THEN @ - 1 ELSE 0]
                           \in Entry \cup {NoEntry}
      BY <1>37 DEF Tick
    <3> QED
      BY DEF Entry, NoEntry
  <2>3. timer' \in [Keys -> Nat \cup {NoTimer}]
    BY <1>37 DEF Tick, NoTimer
  <2> QED
    BY <1>37, <2>1, <2>2, <2>3 DEF Tick
<1>38. CASE UNCHANGED vars
  BY <1>38
<1> QED
  BY <1>1, <1>2, <1>3, <1>4, <1>5, <1>6, <1>7, <1>8, <1>9, <1>10, <1>11, <1>12, <1>13, <1>14, <1>15, <1>16, <1>17, <1>18, <1>19, <1>20, <1>21, <1>22, <1>23, <1>24, <1>25, <1>26, <1>27, <1>28, <1>29, <1>30, <1>31, <1>32, <1>33, <1>34, <1>35, <1>36, <1>37, <1>38 DEF Next, MainStep, WorkerStep

LEMMA ControlStep ==
  ASSUME TypeOK, ControlOK, [Next]_vars
  PROVE  ControlOK'
<1> USE OptionsAssumption, EnvironmentAssumption DEF TypeOK, ControlOK, configVars, mainVars, queueVars, stateVars, workerVars
<1>1. ASSUME NEW c \in [Keys -> Auths \cup {None}], StoreApply(c) PROVE ControlOK'
  BY <1>1 DEF StoreApply
<1>2. ASSUME NEW k \in Keys, AddRegistry(k) PROVE ControlOK'
  BY <1>2 DEF AddRegistry
<1>3. ASSUME NEW k \in Keys, MarkRegistry(k) PROVE ControlOK'
  BY <1>3 DEF MarkRegistry
<1>4. ASSUME NEW k \in Keys, RemoveCredential(k) PROVE ControlOK'
  BY <1>4 DEF RemoveCredential
<1>5. ASSUME NEW k \in Keys, TimerFires(k) PROVE ControlOK'
  BY <1>5 DEF TimerFires
<1>6. CASE NotifyConfigurationChanged
  BY <1>6 DEF NotifyConfigurationChanged
<1>7. CASE Start
  BY <1>7 DEF Start
<1>8. CASE Cancel
  BY <1>8 DEF Cancel
<1>9. CASE ReceiveChange
  BY <1>9 DEF ReceiveChange
<1>10. CASE LoadSnapshot
  BY <1>10 DEF LoadSnapshot
<1>11. CASE QueueMarked
  BY <1>11 DEF QueueMarked
<1>12. CASE RemovePublished
  BY <1>12 DEF RemovePublished
<1>13. CASE RemoveForce
  BY <1>13 DEF RemoveForce
<1>14. CASE RemoveFailures
  BY <1>14 DEF RemoveFailures
<1>15. CASE ShutDown
  BY <1>15 DEF ShutDown
<1>16. CASE Stopped
  BY <1>16 DEF Stopped
<1>17. CASE FinishReconcile
  BY <1>17 DEF FinishReconcile, Refreshing, AfterDone, WithRegistry
<1>18. ASSUME NEW w \in Workers, Exit(w) PROVE ControlOK'
  BY <1>18 DEF Exit, Goto, Refreshing, AfterDone, WithRegistry, Job, NoJob
<1>19. ASSUME NEW w \in Workers, LoadRegistry(w) PROVE ControlOK'
  BY <1>19 DEF LoadRegistry, Goto, Refreshing, AfterDone, WithRegistry, Job, NoJob
<1>20. ASSUME NEW w \in Workers, Cleanup(w) PROVE ControlOK'
  BY <1>20 DEF Cleanup, Goto, Refreshing, AfterDone, WithRegistry, Job, NoJob
<1>21. ASSUME NEW w \in Workers, ReadForce(w) PROVE ControlOK'
  BY <1>21 DEF ReadForce, Goto, Refreshing, AfterDone, WithRegistry, Job, NoJob
<1>22. ASSUME NEW w \in Workers, Reuse(w) PROVE ControlOK'
  BY <1>22 DEF Reuse, Goto, Refreshing, AfterDone, WithRegistry, Job, NoJob
<1>23. ASSUME NEW w \in Workers, Request(w) PROVE ControlOK'
  BY <1>23 DEF Request, Goto, Refreshing, AfterDone, WithRegistry, Job, NoJob
<1>24. ASSUME NEW w \in Workers, NEW ttl \in Lifetimes, ProviderReturns(w, ttl) PROVE ControlOK'
  BY <1>24 DEF ProviderReturns, Goto, Refreshing, AfterDone, WithRegistry, Job, NoJob
<1>25. ASSUME NEW w \in Workers, ProviderFails(w) PROVE ControlOK'
  BY <1>25 DEF ProviderFails, Goto, Refreshing, AfterDone, WithRegistry, Job, NoJob
<1>26. ASSUME NEW w \in Workers, Recheck(w) PROVE ControlOK'
  <2>1. pc[w] = "recheck" /\ job[w].key \in Keys /\ job[w] \in Job
    BY <1>26 DEF Recheck, Refreshing
  <2>2. /\ mainPc' = mainPc /\ scanned' = scanned
        /\ \A v \in Workers : v # w => pc'[v] = pc[v] /\ job'[v] = job[v]
    BY <1>26 DEF Recheck, Goto
  <2>3. \/ pc'[w] = "cleanup" /\ job'[w] = job[w]
        \/ pc'[w] = "succeed" /\ job'[w].key = job[w].key
        \/ /\ pc'[w] = "install"
           /\ job'[w].key = job[w].key
           /\ job'[w].registry = job[w].registry
           /\ job'[w].current = job'[w].registry
    BY <1>26, <2>1 DEF Recheck, Goto, Job, NoJob
  <2> QED
    BY <2>1, <2>2, <2>3 DEF Refreshing, AfterDone, WithRegistry
<1>27. ASSUME NEW w \in Workers, RejectToken(w) PROVE ControlOK'
  BY <1>27 DEF RejectToken, Goto, Refreshing, AfterDone, WithRegistry, Job, NoJob
<1>28. ASSUME NEW w \in Workers, Install(w) PROVE ControlOK'
  BY <1>28 DEF Install, Goto, Refreshing, AfterDone, WithRegistry, Job, NoJob
<1>29. ASSUME NEW w \in Workers, SkipPublish(w) PROVE ControlOK'
  BY <1>29 DEF SkipPublish, Goto, Refreshing, AfterDone, WithRegistry, Job, NoJob
<1>30. ASSUME NEW w \in Workers, Publish(w) PROVE ControlOK'
  BY <1>30 DEF Publish, Goto, Refreshing, AfterDone, WithRegistry, Job, NoJob
<1>31. ASSUME NEW w \in Workers, PublishSucceeds(w) PROVE ControlOK'
  BY <1>31 DEF PublishSucceeds, Goto, Refreshing, AfterDone, WithRegistry, Job, NoJob
<1>32. ASSUME NEW w \in Workers, PublishFails(w) PROVE ControlOK'
  BY <1>32 DEF PublishFails, Goto, Refreshing, AfterDone, WithRegistry, Job, NoJob
<1>33. ASSUME NEW w \in Workers, Done(w) PROVE ControlOK'
  BY <1>33 DEF Done, Goto, Refreshing, AfterDone, WithRegistry, Job, NoJob
<1>34. ASSUME NEW w \in Workers, Forget(w) PROVE ControlOK'
  BY <1>34 DEF Forget, Goto, Refreshing, AfterDone, WithRegistry, Job, NoJob
<1>35. ASSUME NEW w \in Workers, AddRateLimited(w) PROVE ControlOK'
  BY <1>35 DEF AddRateLimited, Goto, Refreshing, AfterDone, WithRegistry, Job, NoJob
<1>36. ASSUME NEW w \in Workers, NEW k \in Keys, Get(w, k) PROVE ControlOK'
  BY <1>36 DEF Get, Goto, Refreshing, AfterDone, WithRegistry, Job, NoJob
<1>37. CASE Tick
  BY <1>37 DEF Tick, Job
<1>38. CASE UNCHANGED vars
  BY <1>38 DEF vars
<1> QED
  BY <1>1, <1>2, <1>3, <1>4, <1>5, <1>6, <1>7, <1>8, <1>9, <1>10, <1>11, <1>12, <1>13, <1>14, <1>15, <1>16, <1>17, <1>18, <1>19, <1>20, <1>21, <1>22, <1>23, <1>24, <1>25, <1>26, <1>27, <1>28, <1>29, <1>30, <1>31, <1>32, <1>33, <1>34, <1>35, <1>36, <1>37, <1>38 DEF Next, MainStep, WorkerStep

\* The type invariant: program counters, queue, stores and locals hold the
\* values the code declares, in every reachable state.
THEOREM TypeCorrect == Spec => [](TypeOK /\ ControlOK)
<1>1. Init => TypeOK /\ ControlOK
  <2> SUFFICES ASSUME Init PROVE TypeOK /\ ControlOK
    OBVIOUS
  <2>1. NoJob \in Job
    BY DEF NoJob, Job
  <2>2. RetryBaseDelay \in RetryBaseDelay..RetryMaxDelay /\ 0 \in 0..MaxChanges
    BY OptionsAssumption, EnvironmentAssumption DEF ValidOptions
  <2>3. TypeOK
    BY <2>1, <2>2 DEF Init, TypeOK, MainPcs, WorkerPcs
  <2>4. ControlOK
    BY DEF Init, ControlOK, Refreshing, AfterDone, WithRegistry
  <2> QED
    BY <2>3, <2>4
<1>2. TypeOK /\ ControlOK /\ [Next]_vars => TypeOK' /\ ControlOK'
  BY TypeStep, ControlStep
<1> QED
  BY <1>1, <1>2, PTL DEF Spec

-----------------------------------------------------------------------------
(* Credentials are never attributed to an AK/SK pair that did not obtain    *)
(* them.  The only step that writes a credential is Install, and ControlOK  *)
(* says that the pair read by the recheck is the pair of the request.       *)

LEMMA ProvenanceStep ==
  ASSUME TypeOK, ControlOK, CredentialProvenance, [Next]_vars
  PROVE  CredentialProvenance'
<1> USE DEF TypeOK, CredentialProvenance, configVars, mainVars, queueVars, stateVars,
        workerVars
<1>1. ASSUME NEW w \in Workers, Install(w) PROVE CredentialProvenance'
  <2>1. job[w].current = job[w].registry
    BY <1>1 DEF ControlOK, Install
  <2> QED
    BY <1>1, <2>1 DEF Install
<1>2. ASSUME NEW k \in Keys, RemoveCredential(k) PROVE CredentialProvenance'
  BY <1>2 DEF RemoveCredential, NoEntry
<1>3. ASSUME NEW w \in Workers, Cleanup(w) PROVE CredentialProvenance'
  BY <1>3 DEF Cleanup, NoEntry
<1>4. CASE Tick
  <2> SUFFICES ASSUME NEW k \in Keys
               PROVE  \/ store'[k] = NoEntry
                      \/ store'[k].hash = RegistryAuthenticationHash(k, store'[k].issuedFor)
    OBVIOUS
  <2>1. store'[k] = [store[k] EXCEPT !.ttl = IF @ > 0 THEN @ - 1 ELSE 0]
    BY <1>4 DEF Tick
  <2>2. CASE store[k] = NoEntry
    BY <2>1, <2>2 DEF NoEntry
  <2>3. CASE store[k] \in Entry
    <3>1. store'[k].hash = store[k].hash /\ store'[k].issuedFor = store[k].issuedFor
      BY <2>1, <2>3 DEF Entry
    <3>2. store[k] # NoEntry
      BY <2>3, EnvironmentAssumption DEF Entry, NoEntry
    <3> QED
      BY <3>1, <3>2
  <2> QED
    BY <2>2, <2>3
<1>5. CASE UNCHANGED store
  BY <1>5
<1>6. \/ \E w \in Workers : Install(w) \/ Cleanup(w)
      \/ \E k \in Keys : RemoveCredential(k)
      \/ Tick
      \/ UNCHANGED store
  <2>1. ASSUME NEW w \in Workers, WorkerStep(w), ~Install(w), ~Cleanup(w)
        PROVE  UNCHANGED store
    BY <2>1 DEF WorkerStep, Exit, LoadRegistry, ReadForce, Reuse, Request,
       ProviderReturns, ProviderFails, Recheck, RejectToken, SkipPublish, Publish,
       PublishSucceeds, PublishFails, Done, Forget, AddRateLimited
  <2>2. ASSUME MainStep, \A k \in Keys : ~RemoveCredential(k)
        PROVE  UNCHANGED store
    BY <2>2 DEF MainStep, ReceiveChange, LoadSnapshot, AddRegistry, MarkRegistry,
       QueueMarked, RemovePublished, RemoveForce, RemoveFailures, FinishReconcile,
       ShutDown, Stopped
  <2> QED
    BY <2>1, <2>2 DEF Next, StoreApply, NotifyConfigurationChanged, Start, Cancel,
       TimerFires, Get, vars
<1> QED
  BY <1>1, <1>2, <1>3, <1>4, <1>5, <1>6

\* refresh never installs a token under an AK/SK pair other than the one that
\* obtained it, whatever the configuration does during the request.
THEOREM ProvenanceCorrect == Spec => []CredentialProvenance
<1>1. Init => CredentialProvenance
  BY DEF Init, CredentialProvenance, NoEntry
<1>2. TypeOK /\ ControlOK /\ CredentialProvenance /\ [Next]_vars => CredentialProvenance'
  BY ProvenanceStep
<1> QED
  BY <1>1, <1>2, TypeCorrect, PTL DEF Spec

-----------------------------------------------------------------------------
(* One worker at a time refreshes a registry.                               *)

\* A worker that stays inside refresh with the same key keeps the discipline.
LEMMA SameKeyStep ==
  ASSUME TypeOK, SingleFlight,
         NEW w \in Workers, pc[w] \in Refreshing,
         NEW l \in Refreshing, pc' = [pc EXCEPT ![w] = l],
         job'[w].key = job[w].key,
         \A v \in Workers : v # w => job'[v] = job[v],
         processing' = processing
  PROVE  SingleFlight'
<1>1. \A v \in Workers : /\ pc'[v] \in Refreshing <=> pc[v] \in Refreshing
                          /\ job'[v].key = job[v].key
  BY DEF TypeOK
<1> QED
  BY <1>1 DEF SingleFlight

LEMMA SingleFlightStep ==
  ASSUME TypeOK, ControlOK, SingleFlight, [Next]_vars
  PROVE  SingleFlight'
<1> USE DEF TypeOK, configVars, mainVars, queueVars, stateVars, workerVars
<1>1. ASSUME NEW w \in Workers, LoadRegistry(w) PROVE SingleFlight'
  BY <1>1, SameKeyStep DEF LoadRegistry, Goto, Refreshing, Job, NoJob
<1>2. ASSUME NEW w \in Workers, Cleanup(w) PROVE SingleFlight'
  BY <1>2, SameKeyStep DEF Cleanup, Goto, Refreshing, Job, NoJob
<1>3. ASSUME NEW w \in Workers, ReadForce(w) PROVE SingleFlight'
  BY <1>3, SameKeyStep DEF ReadForce, Goto, Refreshing, Job, NoJob
<1>4. ASSUME NEW w \in Workers, Reuse(w) PROVE SingleFlight'
  BY <1>4, SameKeyStep DEF Reuse, Goto, Refreshing, Job, NoJob
<1>5. ASSUME NEW w \in Workers, Request(w) PROVE SingleFlight'
  BY <1>5, SameKeyStep DEF Request, Goto, Refreshing, Job, NoJob
<1>6. ASSUME NEW w \in Workers, ProviderFails(w) PROVE SingleFlight'
  BY <1>6, SameKeyStep DEF ProviderFails, Goto, Refreshing, Job, NoJob
<1>7. ASSUME NEW w \in Workers, RejectToken(w) PROVE SingleFlight'
  BY <1>7, SameKeyStep DEF RejectToken, Goto, Refreshing, Job, NoJob
<1>8. ASSUME NEW w \in Workers, Install(w) PROVE SingleFlight'
  BY <1>8, SameKeyStep DEF Install, Goto, Refreshing, Job, NoJob
<1>9. ASSUME NEW w \in Workers, SkipPublish(w) PROVE SingleFlight'
  BY <1>9, SameKeyStep DEF SkipPublish, Goto, Refreshing, Job, NoJob
<1>10. ASSUME NEW w \in Workers, Publish(w) PROVE SingleFlight'
  BY <1>10, SameKeyStep DEF Publish, Goto, Refreshing, Job, NoJob
<1>11. ASSUME NEW w \in Workers, PublishSucceeds(w) PROVE SingleFlight'
  BY <1>11, SameKeyStep DEF PublishSucceeds, Goto, Refreshing, Job, NoJob
<1>12. ASSUME NEW w \in Workers, PublishFails(w) PROVE SingleFlight'
  BY <1>12, SameKeyStep DEF PublishFails, Goto, Refreshing, Job, NoJob
<1>13. ASSUME NEW w \in Workers, NEW ttl \in Lifetimes, ProviderReturns(w, ttl)
       PROVE  SingleFlight'
  BY <1>13, SameKeyStep DEF ProviderReturns, Goto, Refreshing, Job
<1>14. ASSUME NEW w \in Workers, Recheck(w) PROVE SingleFlight'
  <2>1. pc[w] \in Refreshing /\ processing' = processing
    BY <1>14 DEF Recheck, Refreshing
  <2>2. PICK l \in Refreshing : pc' = [pc EXCEPT ![w] = l]
    BY <1>14 DEF Recheck, Goto, Refreshing
  <2>3. job'[w].key = job[w].key /\ \A v \in Workers : v # w => job'[v] = job[v]
    BY <1>14 DEF Recheck, Job, NoJob
  <2> QED
    BY <2>1, <2>2, <2>3, SameKeyStep
<1>15. ASSUME NEW w \in Workers, NEW k \in Keys, Get(w, k) PROVE SingleFlight'
  <2>1. /\ k \notin processing /\ processing' = processing \cup {k}
        /\ pc' = [pc EXCEPT ![w] = "load"] /\ job'[w].key = k
        /\ pc[w] \notin Refreshing
        /\ \A v \in Workers : v # w => job'[v] = job[v]
    BY <1>15 DEF Get, Goto, Available, Refreshing, NoJob
  <2>2. \A v \in Workers : v # w /\ pc[v] \in Refreshing => job[v].key # k
    BY <2>1 DEF SingleFlight
  <2> QED
    BY <2>1, <2>2 DEF SingleFlight, Refreshing
<1>16. ASSUME NEW w \in Workers, Done(w) PROVE SingleFlight'
  <2>1. /\ pc[w] \in Refreshing /\ pc'[w] \notin Refreshing
        /\ \A v \in Workers : v # w => pc'[v] = pc[v]
        /\ job' = job /\ processing' = processing \ {job[w].key}
    BY <1>16 DEF Done, Goto, Refreshing
  <2> QED
    BY <2>1 DEF SingleFlight
<1>17. ASSUME NEW w \in Workers, Exit(w) PROVE SingleFlight'
  <2>1. /\ pc[w] \notin Refreshing /\ pc'[w] \notin Refreshing
        /\ \A v \in Workers : v # w => pc'[v] = pc[v] /\ job'[v] = job[v]
        /\ processing' = processing
    BY <1>17 DEF Exit, Goto, Refreshing
  <2> QED
    BY <2>1 DEF SingleFlight
<1>18. ASSUME NEW w \in Workers, Forget(w) PROVE SingleFlight'
  <2>1. /\ pc[w] \notin Refreshing /\ pc'[w] \notin Refreshing
        /\ \A v \in Workers : v # w => pc'[v] = pc[v] /\ job'[v] = job[v]
        /\ processing' = processing
    BY <1>18 DEF Forget, Goto, Refreshing
  <2> QED
    BY <2>1 DEF SingleFlight
<1>19. ASSUME NEW w \in Workers, AddRateLimited(w) PROVE SingleFlight'
  <2>1. /\ pc[w] \notin Refreshing /\ pc'[w] \notin Refreshing
        /\ \A v \in Workers : v # w => pc'[v] = pc[v] /\ job'[v] = job[v]
        /\ processing' = processing
    BY <1>19 DEF AddRateLimited, Goto, Refreshing
  <2> QED
    BY <2>1 DEF SingleFlight
<1>20. CASE FinishReconcile
  <2>1. /\ \A v \in Workers : pc'[v] \in Refreshing <=> pc[v] \in Refreshing
        /\ job' = job /\ processing' = processing
    BY <1>20 DEF FinishReconcile, Refreshing
  <2> QED
    BY <2>1 DEF SingleFlight
<1>21. CASE Tick
  <2>1. /\ pc' = pc /\ processing' = processing
        /\ \A v \in Workers : job'[v].key = job[v].key
    BY <1>21 DEF Tick, Job
  <2> QED
    BY <2>1 DEF SingleFlight
<1>22. CASE UNCHANGED <<pc, job, processing>>
  BY <1>22 DEF SingleFlight
<1> QED
  <2>1. ASSUME MainStep, ~FinishReconcile PROVE UNCHANGED <<pc, job, processing>>
    BY <2>1 DEF MainStep, ReceiveChange, LoadSnapshot, AddRegistry, MarkRegistry,
       RemoveCredential, QueueMarked, RemovePublished, RemoveForce, RemoveFailures,
       ShutDown, Stopped
  <2>2. ASSUME \/ \E c \in [Keys -> Auths \cup {None}] : StoreApply(c)
               \/ NotifyConfigurationChanged \/ Start \/ Cancel
               \/ \E k \in Keys : TimerFires(k)
               \/ UNCHANGED vars
        PROVE  UNCHANGED <<pc, job, processing>>
    BY <2>2 DEF StoreApply, NotifyConfigurationChanged, Start, Cancel, TimerFires, vars
  <2> QED
    BY <1>1, <1>2, <1>3, <1>4, <1>5, <1>6, <1>7, <1>8, <1>9, <1>10, <1>11, <1>12, <1>13, <1>14, <1>15, <1>16, <1>17, <1>18, <1>19, <1>20, <1>21, <1>22, <2>1, <2>2 DEF Next, WorkerStep

\* Two workers never refresh the same registry at the same time, and the queue
\* holds a key back exactly while a worker refreshes it, for any number of both.
THEOREM SingleFlightCorrect == Spec => []SingleFlight
<1>1. Init => SingleFlight
  BY DEF Init, SingleFlight, Refreshing
<1>2. TypeOK /\ ControlOK /\ SingleFlight /\ [Next]_vars => SingleFlight'
  BY SingleFlightStep
<1> QED
  BY <1>1, <1>2, TypeCorrect, PTL DEF Spec
=============================================================================
