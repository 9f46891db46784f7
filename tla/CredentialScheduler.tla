------------------------- MODULE CredentialScheduler -------------------------
(***************************************************************************)
(* The credential scheduler of internal/credential: one main loop that     *)
(* compares complete configuration snapshots, a delaying and rate-limited  *)
(* work queue of registry keys, and a pool of workers that obtain, install *)
(* and publish one temporary credential per configured registry.           *)
(*                                                                         *)
(* An AK/SK pair is an element of Auths; region and instance are the       *)
(* registry key; domains do not reach this code.                           *)
(* Time is relative: a deadline is the number of ticks left until it, and  *)
(* Tick moves all of them.  A revision is only ever compared for equality, *)
(* so a new one is any value no live reference to that key still holds.    *)
(***************************************************************************)
EXTENDS Integers, FiniteSets

CONSTANTS
    Keys,            \* registry keys (region and instance)
    Auths,           \* AK/SK pairs
    Workers,         \* worker goroutines
    None,            \* no AK/SK pair, no key, no entry
    Lifetimes,       \* ticks a token may still be valid when it is returned
    RefreshBefore,   \* SchedulerOptions.RefreshBefore
    RequestTimeout,  \* SchedulerOptions.RequestTimeout
    RetryBaseDelay,  \* SchedulerOptions.RetryBaseDelay
    RetryMaxDelay,   \* SchedulerOptions.RetryMaxDelay
    PublishTime,     \* bound: ticks one PublishAllNamespaces may take
    MaxChanges,      \* bound: number of configuration changes
    Reverts          \* may an AK/SK pair a key once had be configured again

\* SchedulerOptions.validate, which NewScheduler calls before anything runs.
ValidOptions ==
    /\ RefreshBefore \in Nat \ {0}
    /\ RequestTimeout \in Nat \ {0}
    /\ Workers # {}
    /\ RetryBaseDelay \in Nat \ {0}
    /\ RetryMaxDelay \in Nat \ {0}
    /\ RetryBaseDelay <= RetryMaxDelay

ASSUME OptionsAssumption == ValidOptions

ASSUME EnvironmentAssumption ==
    /\ None \notin Auths /\ None \notin Keys
    /\ Lifetimes \subseteq Nat
    /\ PublishTime \in Nat
    /\ MaxChanges \in Nat
    /\ Reverts \in BOOLEAN

VARIABLES
    registries,  \* config.Store: the AK/SK pair of every registry, or None
    spent,       \* history: the pairs a key had and no longer has
    changes,     \* number of configuration changes so far
    notifying,   \* Store.Apply has returned, NotifyConfigurationChanged has not run
    notified,    \* configurationChanges holds its one element
    ctxDone,     \* the context of Start is cancelled
    mainPc,      \* where Start is
    known,       \* knownRegistries
    snapshot,    \* the snapshot reconcileConfiguration works on
    todo,        \* keys it has not compared yet
    scanned,     \* the key it is marking or removing
    dirty,       \* work queue: keys to be processed
    processing,  \* work queue: keys a worker holds
    timer,       \* delaying queue: ticks until the key is added, or NoTimer
    backoff,     \* rate limiter: delay of the key's next failure
    shutdown,    \* work queue: ShutDown was called
    store,       \* credential.Store
    published,   \* publishedRevisions (0: no element)
    force,       \* forceRefreshRevision (0: no element)
    pc,          \* where each worker is
    job          \* local variables of each worker's refresh

configVars == <<registries, spent, changes, notifying>>
mainVars   == <<mainPc, known, snapshot, todo, scanned>>
queueVars  == <<dirty, processing, timer, backoff, shutdown>>
stateVars  == <<store, published, force>>
workerVars == <<pc, job>>
vars == <<configVars, notified, ctxDone, mainVars, queueVars, stateVars, workerVars>>

-----------------------------------------------------------------------------
NoTimer == -1

\* When a revision is assigned, the only others in use for the key are the one
\* in the store and the one last published, so three values suffice.
Revisions == 1..3

\* registryAuthenticationHash: a digest of key and AK/SK, taken to be injective.
RegistryAuthenticationHash(k, auth) == <<k, auth>>

\* Entry: hash is authenticationHash, issuedFor the pair that obtained the
\* token (history), ttl the ticks until ExpiresAt.
Entry == [hash : Keys \X Auths, issuedFor : Auths, rev : Revisions, ttl : Nat]
NoHash == <<None, None>>
NoEntry == [hash |-> NoHash, issuedFor |-> None, rev |-> 0, ttl |-> 0]

\* Entry.MatchesRegistry
MatchesRegistry(entry, k, auth) ==
    entry.hash # NoHash /\ entry.hash = RegistryAuthenticationHash(k, auth)

\* Locals of refresh: registry is the pair read first, current the one read
\* after the request, force the remembered forceRefreshRevision, ttl the token,
\* rev the entry to publish, delay the argument of AddAfter, elapsed the ticks
\* the current call has taken.
NoJob == [key |-> None, registry |-> None, current |-> None, force |-> 0,
          ttl |-> 0, rev |-> 0, delay |-> 0, elapsed |-> 0]

Job == [key : Keys \cup {None}, registry : Auths \cup {None},
        current : Auths \cup {None}, force : Nat, ttl : Nat,
        rev : Revisions \cup {0}, delay : Nat, elapsed : Nat]

\* The statements of refresh and runWorker during which the queue counts the
\* worker's key as being processed, and the two that follow queue.Done.
Refreshing == {"load", "cleanup", "readForce", "decide", "request", "recheck",
               "install", "check", "publish", "succeed", "fail"}
AfterDone == {"forget", "retry"}
WorkerPcs == {"new", "get", "exited"} \cup Refreshing \cup AfterDone
MainPcs == {"standby", "load", "scan", "add", "forgetPublished", "deleteForce",
            "forget", "select", "wait", "stopped"}

TypeOK ==
    /\ registries \in [Keys -> Auths \cup {None}]
    /\ spent \in [Keys -> SUBSET Auths]
    /\ changes \in 0..MaxChanges
    /\ notifying \in BOOLEAN
    /\ notified \in BOOLEAN
    /\ ctxDone \in BOOLEAN
    /\ mainPc \in MainPcs
    /\ known \in [Keys -> Auths \cup {None}]
    /\ snapshot \in [Keys -> Auths \cup {None}]
    /\ todo \in SUBSET Keys
    /\ scanned \in Keys \cup {None}
    /\ dirty \in SUBSET Keys
    /\ processing \in SUBSET Keys
    /\ timer \in [Keys -> Nat \cup {NoTimer}]
    /\ backoff \in [Keys -> RetryBaseDelay..RetryMaxDelay]
    /\ shutdown \in BOOLEAN
    /\ store \in [Keys -> Entry \cup {NoEntry}]
    /\ published \in [Keys -> Revisions \cup {0}]
    /\ force \in [Keys -> Nat]
    /\ pc \in [Workers -> WorkerPcs]
    /\ job \in [Workers -> Job]

\* NewScheduler, on a replica that is not the leader yet.  No configuration is
\* loaded, which this code cannot tell from one without any key of Keys.
Init ==
    /\ registries = [k \in Keys |-> None]
    /\ spent = [k \in Keys |-> {}]
    /\ changes = 0
    /\ notifying = FALSE
    /\ notified = FALSE
    /\ ctxDone = FALSE
    /\ mainPc = "standby"
    /\ known = [k \in Keys |-> None]
    /\ snapshot = [k \in Keys |-> None]
    /\ todo = {}
    /\ scanned = None
    /\ dirty = {}
    /\ processing = {}
    /\ timer = [k \in Keys |-> NoTimer]
    /\ backoff = [k \in Keys |-> RetryBaseDelay]
    /\ shutdown = FALSE
    /\ store = [k \in Keys |-> NoEntry]
    /\ published = [k \in Keys |-> 0]
    /\ force = [k \in Keys |-> 0]
    /\ pc = [w \in Workers |-> "new"]
    /\ job = [w \in Workers |-> NoJob]

-----------------------------------------------------------------------------
(* The work queue of client-go, as far as the scheduler uses it.           *)

\* Add: a key that is already dirty is not queued twice, one that is being
\* processed is queued by its Done; nothing is added after ShutDown.
Added(k) == IF shutdown THEN dirty ELSE dirty \cup {k}

\* AddAfter with a positive delay: the earlier of two deadlines is kept.
Delayed(k, delay) ==
    IF shutdown \/ (timer[k] # NoTimer /\ timer[k] <= delay)
    THEN timer
    ELSE [timer EXCEPT ![k] = delay]

\* Keys Get may return.
Available == dirty \ processing

\* The delaying queue hands a key whose deadline has come to Add.
TimerFires(k) ==
    /\ timer[k] = 0
    /\ ~shutdown
    /\ timer' = [timer EXCEPT ![k] = NoTimer]
    /\ dirty' = Added(k)
    /\ UNCHANGED <<configVars, notified, ctxDone, mainVars, processing, backoff,
                   shutdown, stateVars, workerVars>>

-----------------------------------------------------------------------------
(* The configuration controller, seen from the scheduler.                  *)

\* Pairs key k may be given next.
Candidates(k) ==
    {registries[k], None} \cup (IF Reverts THEN Auths ELSE Auths \ spent[k])

\* Store.Apply installs a different valid configuration.
StoreApply(c) ==
    /\ changes < MaxChanges
    /\ ~notifying
    /\ c # registries
    /\ \A k \in Keys : c[k] \in Candidates(k)
    /\ registries' = c
    /\ spent' = [k \in Keys |-> IF c[k] = registries[k] THEN spent[k]
                                ELSE spent[k] \cup ({registries[k]} \ {None})]
    /\ changes' = changes + 1
    /\ notifying' = TRUE
    /\ UNCHANGED <<notified, ctxDone, mainVars, queueVars, stateVars, workerVars>>

\* A send that does not block on the channel of capacity one.
NotifyConfigurationChanged ==
    /\ notifying
    /\ notifying' = FALSE
    /\ notified' = TRUE
    /\ UNCHANGED <<registries, spent, changes, ctxDone, mainVars, queueVars,
                   stateVars, workerVars>>

-----------------------------------------------------------------------------
(* The main loop: Start and reconcileConfiguration.                        *)

\* The manager calls Start once this replica is elected.
Start ==
    /\ mainPc = "standby"
    /\ mainPc' = "load"
    /\ UNCHANGED <<configVars, notified, ctxDone, known, snapshot, todo, scanned,
                   queueVars, stateVars, workerVars>>

\* The select receives from configurationChanges.
ReceiveChange ==
    /\ mainPc = "select"
    /\ notified
    /\ notified' = FALSE
    /\ mainPc' = "load"
    /\ UNCHANGED <<configVars, ctxDone, known, snapshot, todo, scanned, queueVars,
                   stateVars, workerVars>>

\* reconcileConfiguration loads one snapshot and compares it with the last one:
\* only added, re-authenticated and removed registries make it act.
LoadSnapshot ==
    /\ mainPc = "load"
    /\ snapshot' = registries
    /\ todo' = {k \in Keys : registries[k] # known[k]}
    /\ mainPc' = "scan"
    /\ UNCHANGED <<configVars, notified, ctxDone, known, scanned, queueVars,
                   stateVars, workerVars>>

\* A registry that was not known is queued.
AddRegistry(k) ==
    /\ mainPc = "scan"
    /\ k \in todo
    /\ known[k] = None
    /\ todo' = todo \ {k}
    /\ dirty' = Added(k)
    /\ UNCHANGED <<configVars, notified, ctxDone, mainPc, known, snapshot, scanned,
                   processing, timer, backoff, shutdown, stateVars, workerVars>>

\* A registry whose AK/SK changed is marked for a forced refresh ...
MarkRegistry(k) ==
    /\ mainPc = "scan"
    /\ k \in todo
    /\ known[k] # None /\ snapshot[k] # None
    /\ todo' = todo \ {k}
    /\ force' = [force EXCEPT ![k] = @ + 1]
    /\ scanned' = k
    /\ mainPc' = "add"
    /\ UNCHANGED <<configVars, notified, ctxDone, known, snapshot, queueVars, store,
                   published, workerVars>>

\* Mutant: the forced refresh is marked but the key is not queued.
QueueMarkedDropped ==
    /\ mainPc = "add"
    /\ scanned' = None
    /\ mainPc' = "scan"
    /\ UNCHANGED <<configVars, notified, ctxDone, known, snapshot, todo, queueVars,
                   stateVars, workerVars>>

\* ... and then queued.
QueueMarked ==
    /\ mainPc = "add"
    /\ dirty' = Added(scanned)
    /\ scanned' = None
    /\ mainPc' = "scan"
    /\ UNCHANGED <<configVars, notified, ctxDone, known, snapshot, todo, processing,
                   timer, backoff, shutdown, stateVars, workerVars>>

\* A registry that left the configuration loses its credential, its published
\* revision, its forced refresh and its failures, one critical section each,
\* after all configured registries were compared.
RemoveCredential(k) ==
    /\ mainPc = "scan"
    /\ k \in todo
    /\ \A j \in todo : snapshot[j] = None
    /\ todo' = todo \ {k}
    /\ store' = [store EXCEPT ![k] = NoEntry]
    /\ scanned' = k
    /\ mainPc' = "forgetPublished"
    /\ UNCHANGED <<configVars, notified, ctxDone, known, snapshot, queueVars,
                   published, force, workerVars>>

RemovePublished ==
    /\ mainPc = "forgetPublished"
    /\ published' = [published EXCEPT ![scanned] = 0]
    /\ mainPc' = "deleteForce"
    /\ UNCHANGED <<configVars, notified, ctxDone, known, snapshot, todo, scanned,
                   queueVars, store, force, workerVars>>

RemoveForce ==
    /\ mainPc = "deleteForce"
    /\ force' = [force EXCEPT ![scanned] = 0]
    /\ mainPc' = "forget"
    /\ UNCHANGED <<configVars, notified, ctxDone, known, snapshot, todo, scanned,
                   queueVars, store, published, workerVars>>

RemoveFailures ==
    /\ mainPc = "forget"
    /\ backoff' = [backoff EXCEPT ![scanned] = RetryBaseDelay]
    /\ scanned' = None
    /\ mainPc' = "scan"
    /\ UNCHANGED <<configVars, notified, ctxDone, known, snapshot, todo, dirty,
                   processing, timer, shutdown, stateVars, workerVars>>

\* The snapshot becomes the known one; the first time, Start then launches the
\* workers before it waits for a change.
FinishReconcile ==
    /\ mainPc = "scan"
    /\ todo = {}
    /\ known' = snapshot
    /\ snapshot' = [k \in Keys |-> None]
    /\ mainPc' = "select"
    /\ pc' = [w \in Workers |-> IF pc[w] = "new" THEN "get" ELSE pc[w]]
    /\ UNCHANGED <<configVars, notified, ctxDone, todo, scanned, queueVars,
                   stateVars, job>>

\* The manager cancels the context: the process stops or loses its leadership.
Cancel ==
    /\ mainPc # "standby"
    /\ ~ctxDone
    /\ ctxDone' = TRUE
    /\ UNCHANGED <<configVars, notified, mainVars, queueVars, stateVars, workerVars>>

\* Mutant: Start waits for its workers without shutting the queue down.
ShutDownOmitted ==
    /\ mainPc = "select"
    /\ ctxDone
    /\ mainPc' = "wait"
    /\ UNCHANGED <<configVars, notified, ctxDone, known, snapshot, todo, scanned,
                   queueVars, stateVars, workerVars>>

\* The select takes ctx.Done, which it may even when a change is waiting.
ShutDown ==
    /\ mainPc = "select"
    /\ ctxDone
    /\ shutdown' = TRUE
    /\ mainPc' = "wait"
    /\ UNCHANGED <<configVars, notified, ctxDone, known, snapshot, todo, scanned,
                   dirty, processing, timer, backoff, stateVars, workerVars>>

\* workers.Wait returns, then Start.
Stopped ==
    /\ mainPc = "wait"
    /\ \A w \in Workers : pc[w] = "exited"
    /\ mainPc' = "stopped"
    /\ UNCHANGED <<configVars, notified, ctxDone, known, snapshot, todo, scanned,
                   queueVars, stateVars, workerVars>>

-----------------------------------------------------------------------------
(* A worker: runWorker, refresh and publishCredential.                     *)

Goto(w, label) == pc' = [pc EXCEPT ![w] = label]

Get(w, k) ==
    /\ pc[w] = "get"
    /\ k \in Available
    /\ dirty' = dirty \ {k}
    /\ processing' = processing \cup {k}
    /\ Goto(w, "load")
    /\ job' = [job EXCEPT ![w] = [NoJob EXCEPT !.key = k]]
    /\ UNCHANGED <<configVars, notified, ctxDone, mainVars, timer, backoff, shutdown,
                   stateVars>>

\* Get reports the shutdown once the queue is drained.
Exit(w) ==
    /\ pc[w] = "get"
    /\ shutdown
    /\ Available = {}
    /\ Goto(w, "exited")
    /\ UNCHANGED <<configVars, notified, ctxDone, mainVars, queueVars, stateVars, job>>

LoadRegistry(w) ==
    /\ pc[w] = "load"
    /\ LET auth == registries[job[w].key] IN
       /\ Goto(w, IF auth = None THEN "cleanup" ELSE "readForce")
       /\ job' = [job EXCEPT ![w].registry = auth]
    /\ UNCHANGED <<configVars, notified, ctxDone, mainVars, queueVars, stateVars>>

\* Mutant: the worker leaves the credential of a removed registry to the main loop.
CleanupKeepsCredential(w) ==
    /\ pc[w] = "cleanup"
    /\ published' = [published EXCEPT ![job[w].key] = 0]
    /\ force' = [force EXCEPT ![job[w].key] = 0]
    /\ Goto(w, "succeed")
    /\ job' = [job EXCEPT ![w] = [NoJob EXCEPT !.key = job[w].key]]
    /\ UNCHANGED <<configVars, notified, ctxDone, mainVars, queueVars, store>>

\* The registry is not configured.  No other worker holds the key and the main
\* loop only deletes from the same maps or marks a forced refresh, so a main
\* step between two of the three deletions has the effect of one before or
\* after all of them.
Cleanup(w) ==
    /\ pc[w] = "cleanup"
    /\ LET k == job[w].key IN
       /\ store' = [store EXCEPT ![k] = NoEntry]
       /\ published' = [published EXCEPT ![k] = 0]
       /\ force' = [force EXCEPT ![k] = 0]
    /\ Goto(w, "succeed")
    /\ job' = [job EXCEPT ![w] = [NoJob EXCEPT !.key = job[w].key]]
    /\ UNCHANGED <<configVars, notified, ctxDone, mainVars, queueVars>>

ReadForce(w) ==
    /\ pc[w] = "readForce"
    /\ job' = [job EXCEPT ![w].force = force[job[w].key]]
    /\ Goto(w, "decide")
    /\ UNCHANGED <<configVars, notified, ctxDone, mainVars, queueVars, stateVars>>

\* The stored credential can be kept: it was obtained with the configured
\* AK/SK, no refresh is forced and its refresh time has not come.
Reusable(w) ==
    LET entry == store[job[w].key] IN
    /\ MatchesRegistry(entry, job[w].key, job[w].registry)
    /\ job[w].force = 0
    /\ entry.ttl > RefreshBefore

\* The delay until the refresh is computed here, before anything is published.
Reuse(w) ==
    /\ pc[w] = "decide"
    /\ Reusable(w)
    /\ LET entry == store[job[w].key] IN
       job' = [job EXCEPT ![w].rev = entry.rev,
                          ![w].delay = entry.ttl - RefreshBefore]
    /\ Goto(w, "check")
    /\ UNCHANGED <<configVars, notified, ctxDone, mainVars, queueVars, stateVars>>

\* Mutant: the key is given back to the queue before the provider is called.
RequestAfterDone(w) ==
    /\ pc[w] = "decide"
    /\ ~Reusable(w)
    /\ processing' = processing \ {job[w].key}
    /\ Goto(w, "request")
    /\ UNCHANGED <<configVars, notified, ctxDone, mainVars, dirty, timer, backoff,
                   shutdown, stateVars, job>>

\* GetAuthorizationToken is called with the pair read at the start.
Request(w) ==
    /\ pc[w] = "decide"
    /\ ~Reusable(w)
    /\ Goto(w, "request")
    /\ UNCHANGED <<configVars, notified, ctxDone, mainVars, queueVars, stateVars, job>>

\* The provider answers with a token; one with a blank username or password is
\* rejected like one that has expired and is not told apart from it.
ProviderReturns(w, ttl) ==
    /\ pc[w] = "request"
    /\ job' = [job EXCEPT ![w].ttl = ttl, ![w].elapsed = 0]
    /\ Goto(w, "recheck")
    /\ UNCHANGED <<configVars, notified, ctxDone, mainVars, queueVars, stateVars>>

\* The provider fails, or the request's context ends first.
ProviderFails(w) ==
    /\ pc[w] = "request"
    /\ job' = [job EXCEPT ![w] = [NoJob EXCEPT !.key = job[w].key]]
    /\ Goto(w, "fail")
    /\ UNCHANGED <<configVars, notified, ctxDone, mainVars, queueVars, stateVars>>

\* Mutant: only the removal of the registry is noticed, not a changed AK/SK.
RecheckPresenceOnly(w) ==
    /\ pc[w] = "recheck"
    /\ LET current == registries[job[w].key]
       IN  \/ current = None /\ Goto(w, "cleanup") /\ UNCHANGED job
           \/ /\ current # None
              /\ Goto(w, "install")
              /\ job' = [job EXCEPT ![w].current = current]
    /\ UNCHANGED <<configVars, notified, ctxDone, mainVars, queueVars, stateVars>>

\* The configuration may have changed during the request.  A token of an
\* obsolete AK/SK is dropped and the key marked and queued again.
Recheck(w) ==
    /\ pc[w] = "recheck"
    /\ LET k == job[w].key
           current == registries[k]
       IN  \/ /\ current = None
              /\ Goto(w, "cleanup")
              /\ UNCHANGED <<force, dirty, job>>
           \/ /\ current # None /\ current # job[w].registry
              /\ force' = [force EXCEPT ![k] = @ + 1]
              /\ dirty' = Added(k)
              /\ Goto(w, "succeed")
              /\ job' = [job EXCEPT ![w] = [NoJob EXCEPT !.key = k]]
           \/ /\ current = job[w].registry
              /\ Goto(w, "install")
              /\ job' = [job EXCEPT ![w].current = current]
              /\ UNCHANGED <<force, dirty>>
    /\ UNCHANGED <<configVars, notified, ctxDone, mainVars, processing, timer, backoff,
                   shutdown, store, published>>

\* validateToken rejects a token inside its refresh window.
RejectToken(w) ==
    /\ pc[w] = "install"
    /\ ~(job[w].ttl > RefreshBefore)
    /\ job' = [job EXCEPT ![w] = [NoJob EXCEPT !.key = job[w].key]]
    /\ Goto(w, "fail")
    /\ UNCHANGED <<configVars, notified, ctxDone, mainVars, queueVars, stateVars>>

\* Store.Apply assigns a revision that is not in use for this key.
NextRevision(k) ==
    CHOOSE r \in Revisions : r # published[k] /\ r # store[k].rev

\* Mutant: the forced refresh that was served is not cleared.
InstallKeepsForce(w) ==
    /\ pc[w] = "install"
    /\ job[w].ttl > RefreshBefore
    /\ LET k == job[w].key
           r == NextRevision(k)
       IN  /\ store' = [store EXCEPT ![k] =
                          [hash |-> RegistryAuthenticationHash(k, job[w].current), issuedFor |-> job[w].registry,
                           rev |-> r, ttl |-> job[w].ttl]]
           /\ job' = [job EXCEPT ![w].rev = r,
                                 ![w].delay = job[w].ttl - RefreshBefore]
    /\ Goto(w, "check")
    /\ UNCHANGED <<configVars, notified, ctxDone, mainVars, queueVars, published, force>>

\* Mutant: the refresh is scheduled for the expiry, not RefreshBefore ahead of it.
InstallUntilExpiry(w) ==
    /\ pc[w] = "install"
    /\ job[w].ttl > RefreshBefore
    /\ LET k == job[w].key
           r == NextRevision(k)
       IN  /\ store' = [store EXCEPT ![k] =
                          [hash |-> RegistryAuthenticationHash(k, job[w].current), issuedFor |-> job[w].registry,
                           rev |-> r, ttl |-> job[w].ttl]]
           /\ force' = [force EXCEPT ![k] = IF @ = job[w].force THEN 0 ELSE @]
           /\ job' = [job EXCEPT ![w].rev = r, ![w].delay = job[w].ttl]
    /\ Goto(w, "check")
    /\ UNCHANGED <<configVars, notified, ctxDone, mainVars, queueVars, published>>

\* Mutant: the token is installed without validateToken.
InstallUnvalidated(w) ==
    /\ pc[w] = "install"
    /\ LET k == job[w].key
           r == NextRevision(k)
       IN  /\ store' = [store EXCEPT ![k] =
                          [hash |-> RegistryAuthenticationHash(k, job[w].current), issuedFor |-> job[w].registry,
                           rev |-> r, ttl |-> job[w].ttl]]
           /\ force' = [force EXCEPT ![k] = IF @ = job[w].force THEN 0 ELSE @]
           /\ job' = [job EXCEPT ![w].rev = r,
                                 ![w].delay = job[w].ttl - RefreshBefore]
    /\ Goto(w, "check")
    /\ UNCHANGED <<configVars, notified, ctxDone, mainVars, queueVars, published>>

\* Store.Apply, then clearForceRefresh: a mark younger than the one this
\* refresh read is kept.
Install(w) ==
    /\ pc[w] = "install"
    /\ job[w].ttl > RefreshBefore
    /\ LET k == job[w].key
           r == NextRevision(k)
       IN  /\ store' = [store EXCEPT ![k] =
                          [hash |-> RegistryAuthenticationHash(k, job[w].current), issuedFor |-> job[w].registry,
                           rev |-> r, ttl |-> job[w].ttl]]
           /\ force' = [force EXCEPT ![k] = IF @ = job[w].force THEN 0 ELSE @]
           /\ job' = [job EXCEPT ![w].rev = r,
                                 ![w].delay = job[w].ttl - RefreshBefore]
    /\ Goto(w, "check")
    /\ UNCHANGED <<configVars, notified, ctxDone, mainVars, queueVars, published>>

\* publishCredential: isPublished, or PublishAllNamespaces is called.
SkipPublish(w) ==
    /\ pc[w] = "check"
    /\ published[job[w].key] = job[w].rev
    /\ timer' = Delayed(job[w].key, job[w].delay)
    /\ job' = [job EXCEPT ![w] = [NoJob EXCEPT !.key = job[w].key]]
    /\ Goto(w, "succeed")
    /\ UNCHANGED <<configVars, notified, ctxDone, mainVars, dirty, processing, backoff,
                   shutdown, stateVars>>

Publish(w) ==
    /\ pc[w] = "check"
    /\ published[job[w].key] # job[w].rev
    /\ Goto(w, "publish")
    /\ UNCHANGED <<configVars, notified, ctxDone, mainVars, queueVars, stateVars, job>>

\* markPublished, then AddAfter with the delay computed before publishing.
PublishSucceeds(w) ==
    /\ pc[w] = "publish"
    /\ published' = [published EXCEPT ![job[w].key] = job[w].rev]
    /\ timer' = Delayed(job[w].key, job[w].delay)
    /\ job' = [job EXCEPT ![w] = [NoJob EXCEPT !.key = job[w].key]]
    /\ Goto(w, "succeed")
    /\ UNCHANGED <<configVars, notified, ctxDone, mainVars, dirty, processing, backoff,
                   shutdown, store, force>>

\* Mutant: an error of PublishAllNamespaces is dropped.
PublishErrorDropped(w) ==
    /\ pc[w] = "publish"
    /\ timer' = Delayed(job[w].key, job[w].delay)
    /\ job' = [job EXCEPT ![w] = [NoJob EXCEPT !.key = job[w].key]]
    /\ Goto(w, "succeed")
    /\ UNCHANGED <<configVars, notified, ctxDone, mainVars, dirty, processing, backoff,
                   shutdown, stateVars>>

\* The error of PublishAllNamespaces is returned; the credential stays installed.
PublishFails(w) ==
    /\ pc[w] = "publish"
    /\ job' = [job EXCEPT ![w] = [NoJob EXCEPT !.key = job[w].key]]
    /\ Goto(w, "fail")
    /\ UNCHANGED <<configVars, notified, ctxDone, mainVars, queueVars, stateVars>>

\* queue.Done, which queues the key again if it became dirty meanwhile.  An
\* error is forgotten too once the context is cancelled.
Done(w) ==
    /\ pc[w] \in {"succeed", "fail"}
    /\ processing' = processing \ {job[w].key}
    /\ Goto(w, IF pc[w] = "succeed" \/ ctxDone THEN "forget" ELSE "retry")
    /\ UNCHANGED <<configVars, notified, ctxDone, mainVars, dirty, timer, backoff,
                   shutdown, stateVars, job>>

\* queue.Forget: the failures of the key no longer count.
Forget(w) ==
    /\ pc[w] = "forget"
    /\ backoff' = [backoff EXCEPT ![job[w].key] = RetryBaseDelay]
    /\ job' = [job EXCEPT ![w] = NoJob]
    /\ Goto(w, "get")
    /\ UNCHANGED <<configVars, notified, ctxDone, mainVars, dirty, processing, timer,
                   shutdown, stateVars>>

\* The rate limiter doubles the delay of a key with every failure.
Doubled(delay) == IF 2 * delay <= RetryMaxDelay THEN 2 * delay ELSE RetryMaxDelay

\* Mutant: a failed key is not queued again.
RetryDropped(w) ==
    /\ pc[w] = "retry"
    /\ job' = [job EXCEPT ![w] = NoJob]
    /\ Goto(w, "get")
    /\ UNCHANGED <<configVars, notified, ctxDone, mainVars, queueVars, stateVars>>

\* queue.AddRateLimited
AddRateLimited(w) ==
    /\ pc[w] = "retry"
    /\ LET k == job[w].key IN
       /\ timer' = Delayed(k, backoff[k])
       /\ backoff' = [backoff EXCEPT ![k] = Doubled(@)]
    /\ job' = [job EXCEPT ![w] = NoJob]
    /\ Goto(w, "get")
    /\ UNCHANGED <<configVars, notified, ctxDone, mainVars, dirty, processing, shutdown,
                   stateVars>>

-----------------------------------------------------------------------------
(* Time.  Only provider requests and publishing take any: a request ends   *)
(* within RequestTimeout, publishing within PublishTime, and every other   *)
(* step that is possible is taken before the clock moves.                  *)

Waiting(w) ==
    \/ pc[w] \in {"new", "exited"}
    \/ pc[w] = "get" /\ Available = {} /\ ~shutdown
    \/ pc[w] = "request" /\ job[w].elapsed < RequestTimeout
    \/ pc[w] = "publish" /\ job[w].elapsed < PublishTime

MayTick ==
    /\ \A w \in Workers : Waiting(w)
    /\ mainPc \in {"standby", "select", "wait", "stopped"}
    /\ ~(mainPc = "select" /\ (notified \/ ctxDone))
    /\ ~notifying
    /\ \A k \in Keys : timer[k] # 0 \/ shutdown

Tick ==
    /\ MayTick
    /\ store' = [k \in Keys |-> [store[k] EXCEPT !.ttl = IF @ > 0 THEN @ - 1 ELSE 0]]
    /\ timer' = [k \in Keys |-> IF timer[k] > 0 THEN timer[k] - 1 ELSE timer[k]]
    /\ job' = [w \in Workers |->
                 IF pc[w] \in {"request", "publish"}
                 THEN [job[w] EXCEPT !.elapsed = @ + 1] ELSE job[w]]
    /\ UNCHANGED <<configVars, notified, ctxDone, mainVars, dirty, processing, backoff,
                   shutdown, published, force, pc>>

-----------------------------------------------------------------------------
MainStep ==
    \/ ReceiveChange \/ LoadSnapshot
    \/ \E k \in Keys : AddRegistry(k) \/ MarkRegistry(k) \/ RemoveCredential(k)
    \/ QueueMarked \/ RemovePublished \/ RemoveForce \/ RemoveFailures
    \/ FinishReconcile \/ ShutDown \/ Stopped

WorkerStep(w) ==
    \/ Exit(w) \/ LoadRegistry(w) \/ Cleanup(w) \/ ReadForce(w)
    \/ Reuse(w) \/ Request(w)
    \/ \E ttl \in Lifetimes : ProviderReturns(w, ttl)
    \/ ProviderFails(w)
    \/ Recheck(w) \/ RejectToken(w) \/ Install(w)
    \/ SkipPublish(w) \/ Publish(w) \/ PublishSucceeds(w) \/ PublishFails(w)
    \/ Done(w) \/ Forget(w) \/ AddRateLimited(w)

Next ==
    \/ \E c \in [Keys -> Auths \cup {None}] : StoreApply(c)
    \/ NotifyConfigurationChanged
    \/ Start \/ Cancel
    \/ MainStep
    \/ \E k \in Keys : TimerFires(k)
    \/ \E w \in Workers : WorkerStep(w)
    \/ \E w \in Workers, k \in Keys : Get(w, k)
    \/ Tick

Spec == Init /\ [][Next]_vars

-----------------------------------------------------------------------------
(* Fairness.  Go runs every goroutine that can run, so each loop, each     *)
(* worker, each timer and the clock are weakly fair; the queue is first    *)
(* in, first out, so a key that is queued again and again is taken.  Of    *)
(* the environment it is assumed that a provider asked again and again at  *)
(* last returns a usable token, and that publishing at last succeeds.      *)

Usable(ttl) == ttl > RefreshBefore

Fairness ==
    /\ WF_vars(NotifyConfigurationChanged)
    /\ WF_vars(Start)
    /\ WF_vars(MainStep)
    /\ WF_vars(Tick)
    /\ \A k \in Keys : WF_vars(TimerFires(k))
    /\ \A w \in Workers : WF_vars(WorkerStep(w))
    /\ \A k \in Keys : SF_vars(\E w \in Workers : Get(w, k))
    /\ \A w \in Workers :
          /\ SF_vars(\E ttl \in {t \in Lifetimes : Usable(t)} : ProviderReturns(w, ttl))
          /\ SF_vars(PublishSucceeds(w))

FairSpec == Spec /\ Fairness

-----------------------------------------------------------------------------
(* Properties                                                              *)

\* The main loop has caught up with every configuration change.
Settled == mainPc = "select" /\ ~notified /\ ~notifying /\ ~ctxDone

\* A refresh of the key is under way, queued, or will be within a retry delay.
Pending(k) ==
    \/ k \in dirty \cup processing
    \/ \E w \in Workers : pc[w] = "retry" /\ job[w].key = k
    \/ timer[k] \in 0..RetryMaxDelay

Matching(k) == registries[k] # None /\ MatchesRegistry(store[k], k, registries[k])

\* The stored credential was obtained with the AK/SK pair that its authentication
\* hash names together with its own key, however the configuration changed during the request: the
\* recheck of refresh never installs the token of an obsolete pair.
CredentialProvenance ==
    \A k \in Keys :
        store[k] = NoEntry
        \/ store[k].hash = RegistryAuthenticationHash(k, store[k].issuedFor)

\* The queue gives a key to one worker at a time: no two workers are inside
\* refresh for the same registry, and a key counts as processed exactly while
\* one is.
SingleFlight ==
    /\ \A v, w \in Workers :
         pc[v] \in Refreshing /\ pc[w] \in Refreshing /\ job[v].key = job[w].key
            => v = w
    /\ \A k \in processing : \E w \in Workers : pc[w] \in Refreshing /\ job[w].key = k
    /\ \A w \in Workers : pc[w] \in Refreshing => job[w].key \in processing

\* Once the main loop has caught up, a configured registry without a credential
\* of its current AK/SK pair is being refreshed or will be within a retry delay
\* ("no semantic update can be lost").
NoLostAcquisition ==
    Settled => \A k \in Keys : registries[k] # None /\ ~Matching(k) => Pending(k)

\* An installed credential that was not announced to the Namespaces is retried
\* even when publishing failed, was interrupted or met another worker's Forget.
PublishedOrPending ==
    Settled => \A k \in Keys :
        Matching(k) /\ published[k] # store[k].rev => Pending(k)

\* A forced refresh is never left without somebody who will serve it, whatever
\* main loop and worker do to the mark between reading and clearing it.
ForceHasWork ==
    Settled => \A k \in Keys : force[k] # 0 => Pending(k)

\* A configured credential that is installed always has a wake-up, no later
\* than its refresh time plus the time one publication may take.
RefreshScheduled ==
    Settled => \A k \in Keys :
        Matching(k) => \/ Pending(k)
                       \/ timer[k] # NoTimer
                          /\ timer[k] <= store[k].ttl - RefreshBefore + PublishTime

\* While its configuration stays put and this replica leads, a registry has,
\* again and again, an announced credential of its AK/SK pair.
Converges ==
    \A k \in Keys, a \in Auths :
        <>[](registries[k] = a /\ ~ctxDone)
            => []<>(Matching(k) /\ published[k] = store[k].rev)

\* The credential of a registry that is removed for good finally leaves the
\* store, even when a worker installs it after the main loop deleted it.
RemovedCredentialLeaves ==
    \A k \in Keys :
        <>[](registries[k] = None /\ mainPc # "standby" /\ ~ctxDone)
            => <>[](store[k] = NoEntry)

\* A cancelled scheduler drains its queue, ends every worker and returns.
ShutdownTerminates == ctxDone ~> mainPc = "stopped"
=============================================================================
