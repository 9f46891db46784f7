----------------------------- MODULE RunParallel -----------------------------
(***************************************************************************)
(* runParallel of cmd/perf-driver: worker goroutines that take items from  *)
(* an unbuffered channel, a feeder goroutine that fills it, a channel of   *)
(* capacity one for the first error, and a context that this error         *)
(* cancels.  Items are independent, so the order of the list is left out.  *)
(* The variables are those of the call in progress, or of the last one.    *)
(***************************************************************************)
EXTENDS Integers, FiniteSets

CONSTANTS
    Items,
    Workers,     \* one goroutine per allowed worker
    None

\* Errors: the operation's own, or that its context is done.
Errors == {"operation", "canceled"}

ASSUME PoolAssumption ==
    /\ Workers # {} /\ IsFiniteSet(Workers) /\ IsFiniteSet(Items)
    /\ None \notin Items /\ None \notin Errors

VARIABLES
    batch,        \* items of the call
    unsent,       \* items the feeder has not handed over
    closed,       \* the feeder has closed jobs
    worker,       \* where each worker is
    job,          \* the item each worker holds
    err,          \* the error its operation returned
    errCh,        \* the element of errCh
    cancelled,    \* cancel() was called
    interrupted,  \* the context given by the caller is done
    done,         \* items whose operation returned nil
    result        \* "running", or the error returned last ("nil" for none)

poolVars == <<batch, unsent, closed, worker, job, err, errCh, cancelled, interrupted,
              done, result>>

ContextDone == cancelled \/ interrupted

PoolInit ==
    /\ batch = {} /\ unsent = {} /\ closed = TRUE
    /\ worker = [w \in Workers |-> "exited"]
    /\ job = [w \in Workers |-> None] /\ err = [w \in Workers |-> None]
    /\ errCh = None /\ cancelled = TRUE /\ interrupted = FALSE
    /\ done = {} /\ result = "nil"

-----------------------------------------------------------------------------
\* min(workers, max(1, len(items)))
PoolSize(items) ==
    LET wanted == IF items = {} THEN 1 ELSE Cardinality(items)
    IN  IF Cardinality(Workers) <= wanted THEN Cardinality(Workers) ELSE wanted

Call(items) ==
    /\ result # "running"
    /\ \E started \in SUBSET Workers :
          /\ Cardinality(started) = PoolSize(items)
          /\ worker' = [w \in Workers |-> IF w \in started THEN "idle" ELSE "exited"]
    /\ batch' = items /\ unsent' = items /\ closed' = FALSE
    /\ job' = [w \in Workers |-> None] /\ err' = [w \in Workers |-> None]
    /\ errCh' = None /\ cancelled' = FALSE
    /\ interrupted' = FALSE
    /\ done' = {} /\ result' = "running"

\* The rendezvous of the feeder's send with a worker's receive.
Hand(w, item) ==
    /\ result = "running" /\ ~closed
    /\ item \in unsent
    /\ worker[w] = "idle"
    /\ unsent' = unsent \ {item}
    /\ worker' = [worker EXCEPT ![w] = "working"]
    /\ job' = [job EXCEPT ![w] = item]
    /\ UNCHANGED <<batch, closed, err, errCh, cancelled, interrupted, done, result>>

\* Mutant: the channel is closed at the end of the loop only.
FeederForgets ==
    /\ ~closed
    /\ unsent = {} \/ ContextDone
    /\ closed' = ~ContextDone
    /\ unsent' = {}
    /\ UNCHANGED <<batch, worker, job, err, errCh, cancelled, interrupted, done, result>>

\* The feeder ends after the last item or with its context, at the latest when
\* the call has returned.
FeederEnds ==
    /\ ~closed
    /\ unsent = {} \/ ContextDone
    /\ closed' = TRUE
    /\ UNCHANGED <<batch, unsent, worker, job, err, errCh, cancelled, interrupted, done,
                   result>>

OperationSucceeds(w) ==
    /\ worker[w] = "working"
    /\ worker' = [worker EXCEPT ![w] = "idle"]
    /\ job' = [job EXCEPT ![w] = None]
    /\ done' = done \cup {job[w]}
    /\ UNCHANGED <<batch, unsent, closed, err, errCh, cancelled, interrupted, result>>

OperationFails(w, e) ==
    /\ worker[w] = "working"
    /\ e = "canceled" => ContextDone
    /\ worker' = [worker EXCEPT ![w] = "failed"]
    /\ job' = [job EXCEPT ![w] = None]
    /\ err' = [err EXCEPT ![w] = e]
    /\ UNCHANGED <<batch, unsent, closed, errCh, cancelled, interrupted, done, result>>

\* Mutant: the context is cancelled before the error is offered.
ReportAfterCancel(w) ==
    /\ worker[w] = "failed"
    /\ IF cancelled
       THEN /\ errCh' = IF errCh = None THEN err[w] ELSE errCh
            /\ worker' = [worker EXCEPT ![w] = "exited"]
       ELSE /\ worker' = worker /\ errCh' = errCh
    /\ cancelled' = TRUE
    /\ UNCHANGED <<batch, unsent, closed, job, err, interrupted, done, result>>

\* The first error finds room in errCh and goes on to cancel; others are dropped.
Report(w) ==
    /\ worker[w] = "failed"
    /\ errCh' = IF errCh = None THEN err[w] ELSE errCh
    /\ worker' = [worker EXCEPT ![w] = IF errCh = None THEN "reported" ELSE "exited"]
    /\ UNCHANGED <<batch, unsent, closed, job, err, cancelled, interrupted, done, result>>

Cancel(w) ==
    /\ worker[w] = "reported"
    /\ cancelled' = TRUE
    /\ worker' = [worker EXCEPT ![w] = "exited"]
    /\ UNCHANGED <<batch, unsent, closed, job, err, errCh, interrupted, done, result>>

WorkerEnds(w) ==
    /\ worker[w] = "idle"
    /\ closed
    /\ worker' = [worker EXCEPT ![w] = "exited"]
    /\ UNCHANGED <<batch, unsent, closed, job, err, errCh, cancelled, interrupted, done,
                   result>>

\* Mutant: the workers are not waited for.
ReturnEarly ==
    /\ result = "running"
    /\ closed
    /\ result' = IF errCh # None THEN errCh ELSE IF interrupted THEN "canceled" ELSE "nil"
    /\ cancelled' = TRUE
    /\ UNCHANGED <<batch, unsent, closed, worker, job, err, errCh, interrupted, done>>

\* group.Wait, the reported error or that of the caller's context, deferred cancel.
Return ==
    /\ result = "running"
    /\ \A w \in Workers : worker[w] = "exited"
    /\ result' = IF errCh # None THEN errCh ELSE IF interrupted THEN "canceled" ELSE "nil"
    /\ cancelled' = TRUE
    /\ UNCHANGED <<batch, unsent, closed, worker, job, err, errCh, interrupted, done>>

\* The caller's context ends while the call runs.
Interrupt ==
    /\ result = "running" /\ ~interrupted
    /\ interrupted' = TRUE
    /\ UNCHANGED <<batch, unsent, closed, worker, job, err, errCh, cancelled, done, result>>

\* The goroutines' own steps; the operations' outcomes are the callers'.
PoolInternal ==
    \/ \E w \in Workers, item \in Items : Hand(w, item)
    \/ FeederEnds
    \/ \E w \in Workers : Report(w) \/ Cancel(w) \/ WorkerEnds(w)
    \/ Return

PoolNext ==
    \/ \E items \in SUBSET Items : Call(items)
    \/ PoolInternal
    \/ \E w \in Workers : OperationSucceeds(w) \/ \E e \in Errors : OperationFails(w, e)
    \/ Interrupt

PoolSpec == PoolInit /\ [][PoolNext]_poolVars

-----------------------------------------------------------------------------
(* Properties                                                               *)

WorkerStates == {"idle", "working", "failed", "reported", "exited"}

\* Types of the pool's variables.
PoolTypeOK ==
    /\ batch \in SUBSET Items /\ unsent \in SUBSET Items /\ done \in SUBSET Items
    /\ closed \in BOOLEAN /\ cancelled \in BOOLEAN /\ interrupted \in BOOLEAN
    /\ worker \in [Workers -> WorkerStates]
    /\ job \in [Workers -> Items \cup {None}]
    /\ err \in [Workers -> Errors \cup {None}]
    /\ errCh \in Errors \cup {None}
    /\ result \in Errors \cup {"running", "nil"}

\* runParallel returns the error that stopped it, never a cancellation that this
\* error caused in another worker: such a cancellation is returned only when the
\* caller's own context is done.
RootCause == result = "canceled" => interrupted

\* runParallel keeps the promise of ParallelBatch.
Batch == INSTANCE ParallelBatch
            WITH requested <- batch, completed <- done, outcome <- result

BatchImplemented == Batch!BatchSpec
=============================================================================
