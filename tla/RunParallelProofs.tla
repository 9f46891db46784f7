-------------------------- MODULE RunParallelProofs --------------------------
(***************************************************************************)
(* Proofs about RunParallel for any number of workers and items: its type  *)
(* invariant, that it returns the root cause of a failure, and that it     *)
(* implements ParallelBatch.  The inductive invariant says where an item   *)
(* of the call can be, and what a worker's place says of the call.         *)
(***************************************************************************)
EXTENDS RunParallel, FiniteSetTheorems, TLAPS

\* Some operation has failed.
Failure == errCh # None \/ \E w \in Workers : worker[w] = "failed"

\* Each item a worker holds is its own, and neither unsent nor done.
HeldApart ==
    /\ unsent \subseteq batch /\ done \subseteq batch /\ unsent \cap done = {}
    /\ \A w \in Workers : worker[w] = "working" => job[w] \in batch \ (unsent \cup done)
    /\ \A v, w \in Workers :
          worker[v] = "working" /\ worker[w] = "working" /\ job[v] = job[w] => v = w

\* No item is lost without a failure.
NothingLost ==
    result = "running" =>
        \A i \in batch : \/ i \in unsent \cup done \/ Failure
                         \/ \E w \in Workers : worker[w] = "working" /\ job[w] = i

\* Why the feeder stopped, why the context is cancelled, why all workers are gone.
StopHasReason ==
    /\ result = "running" =>
          /\ cancelled => errCh # None
          /\ closed => unsent = {} \/ Failure \/ interrupted
          /\ (\A w \in Workers : worker[w] = "exited") => closed \/ errCh # None
    /\ result # "running" => \A w \in Workers : worker[w] = "exited"

\* A cancellation that is reported first is the caller's.
CancellationIsOuter ==
    /\ \A w \in Workers : worker[w] = "failed" => err[w] \in Errors
    /\ \A w \in Workers : worker[w] = "failed" /\ err[w] = "canceled"
                             => interrupted \/ errCh # None
    /\ \A w \in Workers : worker[w] = "reported" => errCh # None
    /\ errCh = "canceled" => interrupted
    /\ RootCause

PoolInv ==
    /\ PoolTypeOK
    /\ HeldApart
    /\ NothingLost
    /\ StopHasReason
    /\ CancellationIsOuter

-----------------------------------------------------------------------------
\* A call starts at least one worker.
LEMMA SomeWorkerStarts ==
    ASSUME NEW items \in SUBSET Items, NEW started \in SUBSET Workers,
           Cardinality(started) = PoolSize(items)
    PROVE  started # {}
<1>1. IsFiniteSet(items)
  BY PoolAssumption, FS_Subset
<1>2. Cardinality(items) \in Nat /\ (items # {} => Cardinality(items) # 0)
  BY <1>1, FS_CardinalityType, FS_EmptySet
<1>3. Cardinality(Workers) \in Nat /\ Cardinality(Workers) # 0
  BY PoolAssumption, FS_CardinalityType, FS_EmptySet
<1>4. PoolSize(items) # 0
  BY <1>2, <1>3 DEF PoolSize
<1> QED
  BY <1>4, FS_EmptySet

LEMMA PoolInvInit == PoolInit => PoolInv
BY PoolAssumption DEF PoolInit, PoolInv, PoolTypeOK, HeldApart, NothingLost, StopHasReason,
       CancellationIsOuter, RootCause, WorkerStates, Errors

LEMMA PoolInvNext == PoolInv /\ [PoolNext]_poolVars => PoolInv'
<1> SUFFICES ASSUME PoolInv, [PoolNext]_poolVars PROVE PoolInv'
  OBVIOUS
<1> USE PoolAssumption DEF PoolInv, Errors, WorkerStates
<1>1. CASE UNCHANGED poolVars
  BY <1>1 DEF poolVars, PoolTypeOK, HeldApart, NothingLost, StopHasReason,
              CancellationIsOuter, RootCause, Failure
<1>2. ASSUME NEW items \in SUBSET Items, Call(items) PROVE PoolInv'
  <2>1. PICK started \in SUBSET Workers :
            /\ Cardinality(started) = PoolSize(items)
            /\ worker' = [w \in Workers |-> IF w \in started THEN "idle" ELSE "exited"]
    BY <1>2 DEF Call
  <2>2. PICK w \in Workers : worker'[w] = "idle"
    BY <2>1, SomeWorkerStarts
  <2>3. PoolTypeOK'
    BY <1>2, <2>1 DEF Call, PoolTypeOK
  <2>4. HeldApart' /\ NothingLost'
    BY <1>2, <2>1 DEF Call, HeldApart, NothingLost
  <2>5. StopHasReason'
    BY <1>2, <2>2 DEF Call, StopHasReason
  <2>6. CancellationIsOuter'
    BY <1>2, <2>1 DEF Call, CancellationIsOuter, RootCause
  <2> QED
    BY <2>3, <2>4, <2>5, <2>6
<1>3. ASSUME NEW w \in Workers, NEW item \in Items, Hand(w, item) PROVE PoolInv'
  <2>1. PoolTypeOK'
    BY <1>3 DEF Hand, PoolTypeOK
  <2>2. HeldApart'
    BY <1>3 DEF Hand, HeldApart, PoolTypeOK
  <2>3. NothingLost'
    BY <1>3 DEF Hand, NothingLost, Failure, PoolTypeOK
  <2>4. StopHasReason'
    BY <1>3 DEF Hand, StopHasReason, Failure, PoolTypeOK
  <2>5. CancellationIsOuter'
    BY <1>3 DEF Hand, CancellationIsOuter, RootCause, PoolTypeOK
  <2> QED
    BY <2>1, <2>2, <2>3, <2>4, <2>5
<1>4. CASE FeederEnds
  <2>1. PoolTypeOK' /\ HeldApart'
    BY <1>4 DEF FeederEnds, PoolTypeOK, HeldApart
  <2>2. NothingLost'
    BY <1>4 DEF FeederEnds, NothingLost, Failure
  <2>3. StopHasReason'
    BY <1>4 DEF FeederEnds, StopHasReason, Failure, ContextDone
  <2>4. CancellationIsOuter'
    BY <1>4 DEF FeederEnds, CancellationIsOuter, RootCause
  <2> QED
    BY <2>1, <2>2, <2>3, <2>4
<1>5. ASSUME NEW w \in Workers, OperationSucceeds(w) PROVE PoolInv'
  <2>1. PoolTypeOK'
    BY <1>5 DEF OperationSucceeds, PoolTypeOK, HeldApart
  <2>2. HeldApart'
    BY <1>5 DEF OperationSucceeds, HeldApart, PoolTypeOK
  <2>3. NothingLost'
    BY <1>5 DEF OperationSucceeds, NothingLost, Failure, PoolTypeOK
  <2>4. StopHasReason'
    BY <1>5 DEF OperationSucceeds, StopHasReason, Failure, PoolTypeOK
  <2>5. CancellationIsOuter'
    BY <1>5 DEF OperationSucceeds, CancellationIsOuter, RootCause, PoolTypeOK
  <2> QED
    BY <2>1, <2>2, <2>3, <2>4, <2>5
<1>6. ASSUME NEW w \in Workers, NEW e \in Errors, OperationFails(w, e) PROVE PoolInv'
  <2>1. PoolTypeOK'
    BY <1>6 DEF OperationFails, PoolTypeOK
  <2>2. HeldApart'
    BY <1>6 DEF OperationFails, HeldApart, PoolTypeOK
  <2>3. NothingLost'
    BY <1>6 DEF OperationFails, NothingLost, Failure, PoolTypeOK
  <2>4. StopHasReason'
    BY <1>6 DEF OperationFails, StopHasReason, Failure, PoolTypeOK
  <2>5. result = "running"
    BY <1>6 DEF OperationFails, StopHasReason
  <2>6. CancellationIsOuter'
    BY <1>6, <2>5 DEF OperationFails, CancellationIsOuter, RootCause, PoolTypeOK,
                      ContextDone, StopHasReason
  <2> QED
    BY <2>1, <2>2, <2>3, <2>4, <2>6
<1>7. ASSUME NEW w \in Workers, Report(w) PROVE PoolInv'
  <2>1. errCh' # None
    BY <1>7 DEF Report, CancellationIsOuter
  <2>2. PoolTypeOK'
    BY <1>7 DEF Report, PoolTypeOK
  <2>3. HeldApart'
    BY <1>7 DEF Report, HeldApart, PoolTypeOK
  <2>4. NothingLost'
    BY <2>1 DEF NothingLost, Failure
  <2>5. StopHasReason'
    BY <1>7, <2>1 DEF Report, StopHasReason, Failure, PoolTypeOK
  <2>6. CancellationIsOuter'
    BY <1>7, <2>1 DEF Report, CancellationIsOuter, RootCause, PoolTypeOK
  <2> QED
    BY <2>2, <2>3, <2>4, <2>5, <2>6
<1>8. ASSUME NEW w \in Workers, Cancel(w) PROVE PoolInv'
  <2>1. errCh' # None
    BY <1>8 DEF Cancel, CancellationIsOuter
  <2>2. PoolTypeOK'
    BY <1>8 DEF Cancel, PoolTypeOK
  <2>3. HeldApart'
    BY <1>8 DEF Cancel, HeldApart, PoolTypeOK
  <2>4. NothingLost'
    BY <2>1 DEF NothingLost, Failure
  <2>5. StopHasReason'
    BY <1>8, <2>1 DEF Cancel, StopHasReason, Failure, PoolTypeOK
  <2>6. CancellationIsOuter'
    BY <1>8, <2>1 DEF Cancel, CancellationIsOuter, RootCause, PoolTypeOK
  <2> QED
    BY <2>2, <2>3, <2>4, <2>5, <2>6
<1>9. ASSUME NEW w \in Workers, WorkerEnds(w) PROVE PoolInv'
  <2>1. PoolTypeOK'
    BY <1>9 DEF WorkerEnds, PoolTypeOK
  <2>2. HeldApart'
    BY <1>9 DEF WorkerEnds, HeldApart, PoolTypeOK
  <2>3. NothingLost'
    BY <1>9 DEF WorkerEnds, NothingLost, Failure, PoolTypeOK
  <2>4. StopHasReason'
    BY <1>9 DEF WorkerEnds, StopHasReason, Failure, PoolTypeOK
  <2>5. CancellationIsOuter'
    BY <1>9 DEF WorkerEnds, CancellationIsOuter, RootCause, PoolTypeOK
  <2> QED
    BY <2>1, <2>2, <2>3, <2>4, <2>5
<1>10. CASE Return
  <2>1. PoolTypeOK' /\ HeldApart'
    BY <1>10 DEF Return, PoolTypeOK, HeldApart
  <2>2. NothingLost' /\ StopHasReason'
    BY <1>10 DEF Return, NothingLost, StopHasReason, PoolTypeOK
  <2>3. CancellationIsOuter'
    BY <1>10 DEF Return, CancellationIsOuter, RootCause
  <2> QED
    BY <2>1, <2>2, <2>3
<1>11. CASE Interrupt
  <2>1. PoolTypeOK' /\ HeldApart'
    BY <1>11 DEF Interrupt, PoolTypeOK, HeldApart
  <2>2. NothingLost' /\ StopHasReason'
    BY <1>11 DEF Interrupt, NothingLost, StopHasReason, Failure
  <2>3. CancellationIsOuter'
    BY <1>11 DEF Interrupt, CancellationIsOuter, RootCause
  <2> QED
    BY <2>1, <2>2, <2>3
<1> QED
  BY <1>1, <1>2, <1>3, <1>4, <1>5, <1>6, <1>7, <1>8, <1>9, <1>10, <1>11
     DEF PoolNext, PoolInternal

LEMMA PoolInvariant == PoolSpec => []PoolInv
BY PoolInvInit, PoolInvNext, PTL DEF PoolSpec

\* The variables of a call of runParallel have their types, whatever the number of
\* workers and items.
THEOREM PoolTypeCorrect == PoolSpec => []PoolTypeOK
<1>1. PoolInv => PoolTypeOK
  BY DEF PoolInv
<1> QED
  BY <1>1, PoolInvariant, PTL

\* runParallel never returns a cancellation that the error of another item caused.
THEOREM RootCauseCorrect == PoolSpec => []RootCause
<1>1. PoolInv => RootCause
  BY DEF PoolInv, CancellationIsOuter
<1> QED
  BY <1>1, PoolInvariant, PTL

-----------------------------------------------------------------------------
\* Each step of runParallel is a step of ParallelBatch or changes nothing of it.
LEMMA BatchStep ==
    PoolInv /\ [PoolNext]_poolVars => [Batch!BatchNext]_(Batch!batchVars)
<1> SUFFICES ASSUME PoolInv, [PoolNext]_poolVars
             PROVE  [Batch!BatchNext]_(Batch!batchVars)
  OBVIOUS
<1> USE PoolAssumption DEF PoolInv, Errors, Batch!batchVars
<1>1. CASE UNCHANGED poolVars
  BY <1>1 DEF poolVars
<1>2. ASSUME NEW items \in SUBSET Items, Call(items) PROVE Batch!BatchNext
  BY <1>2 DEF Call, Batch!BatchNext, Batch!Begin
<1>3. ASSUME NEW w \in Workers, OperationSucceeds(w) PROVE Batch!BatchNext
  <2>1. result = "running" /\ worker[w] = "working"
    BY <1>3 DEF OperationSucceeds, StopHasReason
  <2>2. job[w] \in batch \ done /\ job[w] \in Items
    BY <2>1 DEF HeldApart, PoolTypeOK
  <2> QED
    BY <1>3, <2>1, <2>2 DEF OperationSucceeds, Batch!BatchNext, Batch!Complete
<1>4. CASE Return
  <2>1. result' = "nil" => done = batch
    <3> SUFFICES ASSUME result' = "nil" PROVE done = batch
      OBVIOUS
    <3>1. errCh = None /\ ~interrupted /\ result = "running"
          /\ \A w \in Workers : worker[w] = "exited"
      BY <1>4 DEF Return, PoolTypeOK
    <3>2. ~Failure
      BY <3>1 DEF Failure
    <3>3. unsent = {}
      BY <3>1, <3>2 DEF StopHasReason
    <3> QED
      BY <3>1, <3>2, <3>3 DEF NothingLost, HeldApart
  <2>2. result' \in {"nil", "operation", "canceled"}
    BY <1>4 DEF Return, PoolTypeOK
  <2> QED
    BY <1>4, <2>1, <2>2 DEF Return, Batch!BatchNext, Batch!End, Batch!Outcomes
<1>5. ASSUME NEW w \in Workers,
             \/ \E item \in Items : Hand(w, item)
             \/ \E e \in Errors : OperationFails(w, e)
             \/ Report(w) \/ Cancel(w) \/ WorkerEnds(w)
      PROVE  UNCHANGED <<batch, done, result>>
  BY <1>5 DEF Hand, OperationFails, Report, Cancel, WorkerEnds
<1>6. CASE FeederEnds \/ Interrupt
  BY <1>6 DEF FeederEnds, Interrupt
<1> QED
  BY <1>1, <1>2, <1>3, <1>4, <1>5, <1>6 DEF PoolNext, PoolInternal

\* runParallel implements ParallelBatch: a call that returns nil has completed every
\* item, and no item is completed twice or after the return.
THEOREM RunParallelImplementsBatch == PoolSpec => BatchImplemented
<1>1. PoolInit => Batch!BatchInit
  BY DEF PoolInit, Batch!BatchInit
<1> QED
  BY <1>1, BatchStep, PoolInvariant, PTL
     DEF PoolSpec, BatchImplemented, Batch!BatchSpec
=============================================================================
