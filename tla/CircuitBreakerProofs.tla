------------------------ MODULE CircuitBreakerProofs ------------------------
(***************************************************************************)
(* Proofs about CircuitBreakerThreads, for any number of goroutines and    *)
(* any threshold.                                                          *)
(***************************************************************************)
EXTENDS CircuitBreakerThreads, TLAPS

(* CountFailure stays in the range of the count, and reaches the threshold *)
(* by steps of one.                                                        *)
LEMMA CountFailureRange ==
  ASSUME NEW n \in 0 .. Threshold
  PROVE  /\ CountFailure(n) \in 0 .. Threshold
         /\ n <= CountFailure(n)
  BY ThresholdAssumption DEF CountFailure

LEMMA InitInv == Init => IInv
  BY ThresholdAssumption
  DEF Init, IInv, TypeOK, LockDiscipline, CountedIsLatest, SpentIsTransient,
      SeenTimeoutHolds, BreakerState, PC, InCanExecute, InOnSuccess, InOnFailure

(* The state keeps its type: every step stores a value of the right kind   *)
(* and moves one goroutine to a known point.                               *)
LEMMA NextTypeOK == TypeOK /\ [Next]_vars => TypeOK'
<1> SUFFICES ASSUME TypeOK, [Next]_vars PROVE TypeOK'
  OBVIOUS
<1> USE ThresholdAssumption
    DEF TypeOK, Goto, BreakerState, PC, InCanExecute, InOnSuccess, InOnFailure
<1>1. CASE TimePasses
  BY <1>1 DEF TimePasses
<1>2. ASSUME NEW t \in Threads, CanExecuteLoad(t) PROVE TypeOK'
  BY <1>2 DEF CanExecuteLoad
<1>3. ASSUME NEW t \in Threads, CanExecuteReload(t) PROVE TypeOK'
  BY <1>3 DEF CanExecuteReload
<1>4. ASSUME NEW t \in Threads, CanExecuteTimeout(t) PROVE TypeOK'
  BY <1>4 DEF CanExecuteTimeout
<1>5. ASSUME NEW t \in Threads, CanExecuteHalfOpen(t) PROVE TypeOK'
  BY <1>5 DEF CanExecuteHalfOpen
<1>6. ASSUME NEW t \in Threads, OnSuccessClose(t) PROVE TypeOK'
  BY <1>6 DEF OnSuccessClose
<1>7. ASSUME NEW t \in Threads, OnSuccessReset(t) PROVE TypeOK'
  BY <1>7 DEF OnSuccessReset
<1>8. ASSUME NEW t \in Threads, OnFailureLock(t) PROVE TypeOK'
  BY <1>8 DEF OnFailureLock
<1>9. ASSUME NEW t \in Threads, OnFailureCount(t) PROVE TypeOK'
  BY <1>9, CountFailureRange DEF OnFailureCount
<1>10. ASSUME NEW t \in Threads, OnFailureOpen(t) PROVE TypeOK'
  BY <1>10 DEF OnFailureOpen
<1>11. CASE UNCHANGED vars
  BY <1>11 DEF vars
<1> QED
  BY <1>1, <1>2, <1>3, <1>4, <1>5, <1>6, <1>7, <1>8, <1>9, <1>10, <1>11
  DEF Next, Finish

(* The locks exclude each other: a goroutine enters CanExecute when nobody *)
(* is in OnFailure, and OnFailure when nobody is in either.                *)
LEMMA NextLockDiscipline ==
  TypeOK /\ LockDiscipline /\ [Next]_vars => LockDiscipline'
<1> SUFFICES ASSUME TypeOK, LockDiscipline, [Next]_vars PROVE LockDiscipline'
  OBVIOUS
<1> USE DEF TypeOK, LockDiscipline, Goto, InCanExecute, InOnFailure
<1>1. ASSUME NEW t \in Threads, CanExecuteLoad(t) PROVE LockDiscipline'
  BY <1>1 DEF CanExecuteLoad, Writers
<1>2. ASSUME NEW t \in Threads, OnFailureLock(t) PROVE LockDiscipline'
  BY <1>2 DEF OnFailureLock, Writers, Readers
<1>3. ASSUME NEW t \in Threads,
             \/ CanExecuteReload(t) \/ CanExecuteTimeout(t)
             \/ CanExecuteHalfOpen(t)
      PROVE  LockDiscipline'
  BY <1>3 DEF CanExecuteReload, CanExecuteTimeout, CanExecuteHalfOpen
<1>4. ASSUME NEW t \in Threads,
             \/ OnSuccessClose(t) \/ OnSuccessReset(t)
             \/ OnFailureCount(t) \/ OnFailureOpen(t)
      PROVE  LockDiscipline'
  BY <1>4 DEF OnSuccessClose, OnSuccessReset, OnFailureCount, OnFailureOpen
<1>5. CASE TimePasses \/ UNCHANGED vars
  BY <1>5 DEF TimePasses, vars
<1> QED
  BY <1>1, <1>2, <1>3, <1>4, <1>5 DEF Next, Finish

(* While a goroutine decides with its newCount, only OnSuccess touches the *)
(* count, and lowers it: another OnFailure is kept out by the lock.        *)
LEMMA NextCountedIsLatest ==
  TypeOK /\ LockDiscipline /\ CountedIsLatest /\ [Next]_vars => CountedIsLatest'
<1> SUFFICES ASSUME TypeOK, LockDiscipline, CountedIsLatest, [Next]_vars
             PROVE  CountedIsLatest'
  OBVIOUS
<1> USE DEF CountedIsLatest, Goto
<1>1. ASSUME NEW t \in Threads, OnFailureCount(t) PROVE CountedIsLatest'
  <2>1. newCount'[t] = failureCount'
    BY <1>1 DEF OnFailureCount, TypeOK
  <2>2. \A u \in Threads : u # t => pc'[u] # "counted"
    BY <1>1 DEF OnFailureCount, TypeOK, LockDiscipline, InOnFailure
  <2>3. failureCount' \in Int
    BY <1>1, CountFailureRange, ThresholdAssumption DEF OnFailureCount, TypeOK
  <2> QED
    BY <2>1, <2>2, <2>3
<1>2. ASSUME NEW t \in Threads, OnSuccessReset(t) PROVE CountedIsLatest'
  BY <1>2, ThresholdAssumption DEF OnSuccessReset, TypeOK
<1>3. ASSUME NEW t \in Threads, OnFailureOpen(t) PROVE CountedIsLatest'
  BY <1>3 DEF OnFailureOpen, TypeOK
<1>4. ASSUME NEW t \in Threads,
             \/ CanExecuteLoad(t) \/ CanExecuteReload(t)
             \/ CanExecuteTimeout(t) \/ CanExecuteHalfOpen(t)
             \/ OnSuccessClose(t) \/ OnFailureLock(t)
      PROVE  CountedIsLatest'
  BY <1>4 DEF CanExecuteLoad, CanExecuteReload, CanExecuteTimeout,
              CanExecuteHalfOpen, OnSuccessClose, OnFailureLock, TypeOK
<1>5. CASE TimePasses \/ UNCHANGED vars
  BY <1>5 DEF TimePasses, vars
<1> QED
  BY <1>1, <1>2, <1>3, <1>4, <1>5 DEF Next, Finish

(* A step that spends the budget in the closed state leaves the goroutine  *)
(* that will trip the breaker, and a goroutine that closes it over a spent *)
(* budget is the one that will reset the count.                            *)
LEMMA NextSpentIsTransient ==
  TypeOK /\ CountedIsLatest /\ SpentIsTransient /\ [Next]_vars
    => SpentIsTransient'
<1> SUFFICES ASSUME TypeOK, CountedIsLatest, SpentIsTransient, [Next]_vars,
                    state' = "closed", failureCount' >= Threshold
             PROVE  \E t \in Threads :
                      \/ pc'[t] = "succeeding"
                      \/ pc'[t] = "counted" /\ newCount'[t] >= Threshold
  BY DEF SpentIsTransient
<1> DEFINE Ends(t) == \/ pc[t] = "succeeding"
                      \/ pc[t] = "counted" /\ newCount[t] >= Threshold
           Ended == \E t \in Threads :
                      \/ pc'[t] = "succeeding"
                      \/ pc'[t] = "counted" /\ newCount'[t] >= Threshold
<1>1. ASSUME NEW t \in Threads, OnFailureCount(t) PROVE Ended
  BY <1>1 DEF OnFailureCount, Goto, TypeOK
<1>2. ASSUME NEW t \in Threads, OnSuccessClose(t) PROVE Ended
  BY <1>2 DEF OnSuccessClose, Goto, TypeOK
<1>3. ASSUME NEW t \in Threads, OnSuccessReset(t) PROVE Ended
  BY <1>3, ThresholdAssumption DEF OnSuccessReset
<1>4. ASSUME NEW t \in Threads, OnFailureOpen(t) PROVE Ended
  <2>1. newCount[t] < Threshold
    BY <1>4, ThresholdAssumption DEF OnFailureOpen, TypeOK
  <2>2. failureCount < Threshold
    BY <1>4, <2>1, ThresholdAssumption
    DEF OnFailureOpen, Goto, CountedIsLatest, TypeOK
  <2> QED
    BY <1>4, <2>2, ThresholdAssumption DEF OnFailureOpen, TypeOK
<1>5. ASSUME NEW t \in Threads, CanExecuteHalfOpen(t) PROVE Ended
  BY <1>5 DEF CanExecuteHalfOpen
<1>6. ASSUME NEW t \in Threads,
             \/ CanExecuteLoad(t) \/ CanExecuteReload(t)
             \/ CanExecuteTimeout(t) \/ OnFailureLock(t)
      PROVE  Ended
  <2>1. PICK u \in Threads : Ends(u)
    BY <1>6 DEF CanExecuteLoad, CanExecuteReload, CanExecuteTimeout,
                OnFailureLock, SpentIsTransient
  <2>2. u # t /\ pc'[u] = pc[u] /\ newCount' = newCount
    BY <1>6, <2>1 DEF CanExecuteLoad, CanExecuteReload, CanExecuteTimeout,
                      OnFailureLock, Goto, TypeOK
  <2> QED
    BY <2>1, <2>2
<1>7. CASE TimePasses \/ UNCHANGED vars
  BY <1>7 DEF TimePasses, vars, SpentIsTransient
<1> QED
  BY <1>1, <1>2, <1>3, <1>4, <1>5, <1>6, <1>7 DEF Next, Finish

(* OnFailure sets the clock back only when no goroutine is in CanExecute.  *)
LEMMA NextSeenTimeoutHolds ==
  TypeOK /\ SeenTimeoutHolds /\ [Next]_vars => SeenTimeoutHolds'
<1> SUFFICES ASSUME TypeOK, SeenTimeoutHolds, [Next]_vars
             PROVE  SeenTimeoutHolds'
  OBVIOUS
<1> USE DEF TypeOK, SeenTimeoutHolds, Goto
<1>1. ASSUME NEW t \in Threads, OnFailureLock(t) PROVE SeenTimeoutHolds'
  BY <1>1 DEF OnFailureLock, Readers, InCanExecute
<1>2. ASSUME NEW t \in Threads, CanExecuteTimeout(t) PROVE SeenTimeoutHolds'
  BY <1>2 DEF CanExecuteTimeout
<1>3. ASSUME NEW t \in Threads,
             \/ CanExecuteLoad(t) \/ CanExecuteReload(t)
             \/ CanExecuteHalfOpen(t) \/ OnSuccessClose(t)
             \/ OnSuccessReset(t) \/ OnFailureCount(t) \/ OnFailureOpen(t)
      PROVE  SeenTimeoutHolds'
  BY <1>3 DEF CanExecuteLoad, CanExecuteReload, CanExecuteHalfOpen,
              OnSuccessClose, OnSuccessReset, OnFailureCount, OnFailureOpen
<1>4. CASE TimePasses \/ UNCHANGED vars
  BY <1>4 DEF TimePasses, vars
<1> QED
  BY <1>1, <1>2, <1>3, <1>4 DEF Next, Finish

LEMMA NextInv == IInv /\ [Next]_vars => IInv'
  BY NextTypeOK, NextLockDiscipline, NextCountedIsLatest,
     NextSpentIsTransient, NextSeenTimeoutHolds
  DEF IInv

THEOREM Invariant == Spec => []IInv
  BY InitInv, NextInv, PTL DEF Spec

(* Every variable of the breaker keeps its type, the count stays within    *)
(* its saturation bound.                                                   *)
THEOREM TypeCorrect == Spec => []TypeOK
<1>1. IInv => TypeOK
  BY DEF IInv
<1> QED
  BY <1>1, Invariant, PTL

(* Once no outcome is being recorded, a closed breaker has not used up its *)
(* failure budget, however OnSuccess and OnFailure overlapped.             *)
THEOREM ClosedIsBelow == Spec => []ClosedBelowThreshold
<1>1. IInv => ClosedBelowThreshold
  <2> SUFFICES ASSUME IInv, Settled, state = "closed"
               PROVE  failureCount < Threshold
    BY DEF ClosedBelowThreshold
  <2>1. ~ failureCount >= Threshold
    BY DEF IInv, SpentIsTransient, Settled, InOnSuccess, InOnFailure
  <2> QED
    BY <2>1, ThresholdAssumption DEF IInv, TypeOK
<1> QED
  BY <1>1, Invariant, PTL

(* An open breaker turns half-open only while its timeout is over, though  *)
(* the store comes after the look at the clock and under a read lock.      *)
THEOREM HalfOpenIsTimely == Spec => HalfOpenOnlyAfterTimeout
<1>1. IInv /\ [Next]_vars
        => [state = "open" /\ state' = "half-open" => expired]_vars
  <2> SUFFICES ASSUME IInv, Next, state = "open", state' = "half-open"
               PROVE  expired
    OBVIOUS
  <2>1. ASSUME NEW t \in Threads, CanExecuteHalfOpen(t) PROVE expired
    BY <2>1 DEF CanExecuteHalfOpen, Goto, IInv, SeenTimeoutHolds
  <2>2. ASSUME NEW t \in Threads, OnFailureOpen(t) PROVE FALSE
    BY <2>2 DEF OnFailureOpen
  <2>3. ASSUME NEW t \in Threads, OnSuccessClose(t) PROVE FALSE
    BY <2>3 DEF OnSuccessClose
  <2>4. ASSUME NEW t \in Threads,
               \/ CanExecuteLoad(t) \/ CanExecuteReload(t)
               \/ CanExecuteTimeout(t) \/ OnSuccessReset(t)
               \/ OnFailureLock(t) \/ OnFailureCount(t)
        PROVE  FALSE
    BY <2>4 DEF CanExecuteLoad, CanExecuteReload, CanExecuteTimeout,
                OnSuccessReset, OnFailureLock, OnFailureCount
  <2>5. ~TimePasses
    BY DEF TimePasses
  <2> QED
    BY <2>1, <2>2, <2>3, <2>4, <2>5 DEF Next, Finish
<1> QED
  BY <1>1, Invariant, PTL DEF Spec, HalfOpenOnlyAfterTimeout

-----------------------------------------------------------------------------
(* A single caller                                                         *)

(* What SerialSpec's variables are while one goroutine calls.              *)
LEMMA MappedOfOne ==
  ASSUME NEW t, Threads = {t}
  PROVE  /\ Pending("calling") <=> pc[t] = "calling"
         /\ WillTrip <=> \/ pc[t] = "locked" /\ failureCount + 1 >= Threshold
                         \/ pc[t] = "counted" /\ newCount[t] >= Threshold
         /\ Mapped.expired = expired
         /\ Mapped.state = IF WillTrip THEN "open" ELSE state
         /\ pc[t] = "succeeding" => Mapped.failures = 0
         /\ pc[t] = "locked" => Mapped.failures = CountFailure(failureCount)
         /\ pc[t] \notin {"succeeding", "locked"} => Mapped.failures = failureCount
BY DEF Mapped, Pending, WillTrip

LEMMA OneCallerKept ==
  ASSUME NEW t, Threads = {t}, TypeOK, SeenTimeoutHolds, OneCaller, [Next]_vars
  PROVE  OneCaller'
<1> USE ThresholdAssumption DEF TypeOK, OneCaller, Goto
<1>1. CASE CanExecuteLoad(t)
  BY <1>1 DEF CanExecuteLoad
<1>2. CASE CanExecuteReload(t)
  BY <1>2 DEF CanExecuteReload
<1>3. CASE CanExecuteTimeout(t)
  BY <1>3 DEF CanExecuteTimeout
<1>4. CASE CanExecuteHalfOpen(t)
  BY <1>4 DEF CanExecuteHalfOpen
<1>5. CASE OnSuccessClose(t)
  BY <1>5 DEF OnSuccessClose
<1>6. CASE OnSuccessReset(t)
  BY <1>6 DEF OnSuccessReset
<1>7. CASE OnFailureLock(t)
  BY <1>7 DEF OnFailureLock
<1>8. CASE OnFailureCount(t)
  BY <1>8 DEF OnFailureCount, CountFailure
<1>9. CASE OnFailureOpen(t)
  BY <1>9 DEF OnFailureOpen
<1>10. CASE TimePasses \/ UNCHANGED vars
  BY <1>10 DEF TimePasses, vars
<1> QED
  BY <1>1, <1>2, <1>3, <1>4, <1>5, <1>6, <1>7, <1>8, <1>9, <1>10 DEF Next, Finish

THEOREM OneCallerAlways ==
  ASSUME NEW t, Threads = {t}
  PROVE  Spec => [](IInv /\ OneCaller)
<1>1. Init => OneCaller
  BY ThresholdAssumption DEF Init, OneCaller
<1>2. IInv /\ OneCaller /\ [Next]_vars => OneCaller'
  BY OneCallerKept DEF IInv
<1> QED
  BY <1>1, <1>2, Invariant, PTL DEF Spec

(* With a single caller the breaker has left the closed state exactly when *)
(* the threshold was reached since the last success, counted from the step *)
(* in which a method takes effect.                                         *)
THEOREM TripsAtThreshold ==
  ASSUME NEW t, Threads = {t}
  PROVE  Spec => []SerialTrippedAtThreshold
<1>1. IInv /\ OneCaller => SerialTrippedAtThreshold
  <2> SUFFICES ASSUME TypeOK, OneCaller
               PROVE  Mapped.state # "closed" <=> Mapped.failures = Threshold
    BY DEF IInv, SerialTrippedAtThreshold, Serial!TrippedAtThreshold
  <2> USE ThresholdAssumption, MappedOfOne DEF TypeOK, OneCaller
  <2>1. CASE pc[t] = "succeeding"
    BY <2>1
  <2>2. CASE pc[t] = "locked"
    BY <2>2 DEF CountFailure
  <2>3. CASE pc[t] = "counted"
    BY <2>3
  <2>4. CASE pc[t] \notin {"succeeding", "locked", "counted"}
    BY <2>4
  <2> QED
    BY <2>1, <2>2, <2>3, <2>4
<1> QED
  BY <1>1, OneCallerAlways, PTL

(* The mapped value by the place of the caller, before and after a step.   *)
LEMMA MappedValue ==
  ASSUME NEW t, Threads = {t}
  PROVE  /\ Pending("calling") <=> pc[t] = "calling"
         /\ pc[t] \notin {"succeeding", "locked", "counted"} =>
              Mapped = [state |-> state, failures |-> failureCount, expired |-> expired]
         /\ pc[t] = "succeeding" =>
              Mapped = [state |-> state, failures |-> 0, expired |-> expired]
         /\ pc[t] = "locked" =>
              Mapped = [state |-> IF failureCount + 1 >= Threshold THEN "open" ELSE state,
                        failures |-> CountFailure(failureCount), expired |-> expired]
         /\ pc[t] = "counted" =>
              Mapped = [state |-> IF newCount[t] >= Threshold THEN "open" ELSE state,
                        failures |-> failureCount, expired |-> expired]
BY DEF Mapped, Pending, WillTrip

LEMMA MappedValueAfter ==
  ASSUME NEW t, Threads = {t}
  PROVE  /\ Pending("calling")' <=> pc'[t] = "calling"
         /\ pc'[t] \notin {"succeeding", "locked", "counted"} =>
              Mapped' = [state |-> state', failures |-> failureCount', expired |-> expired']
         /\ pc'[t] = "succeeding" =>
              Mapped' = [state |-> state', failures |-> 0, expired |-> expired']
         /\ pc'[t] = "locked" =>
              Mapped' = [state |-> IF failureCount' + 1 >= Threshold THEN "open" ELSE state',
                        failures |-> CountFailure(failureCount'), expired |-> expired']
         /\ pc'[t] = "counted" =>
              Mapped' = [state |-> IF newCount'[t] >= Threshold THEN "open" ELSE state',
                        failures |-> failureCount', expired |-> expired']
BY DEF Mapped, Pending, WillTrip

(* What the sequential calls make of a breaker.                            *)
LEMMA SequentialCalls ==
  ASSUME NEW s, NEW n, NEW e \in BOOLEAN, NEW b,
         b = [state |-> s, failures |-> n, expired |-> e]
  PROVE  /\ Serial!Permits(b) <=> (s = "open" => e)
         /\ Serial!AfterCanExecute(b) =
              [state |-> IF s = "open" /\ e THEN "half-open" ELSE s,
               failures |-> n, expired |-> e]
         /\ Serial!AfterSuccess(b) = [state |-> "closed", failures |-> 0, expired |-> e]
         /\ Serial!AfterTimeout(b) = [state |-> s, failures |-> n, expired |-> TRUE]
<1>1. b.state = s /\ b.failures = n /\ b.expired = e
  OBVIOUS
<1>2. Serial!Permits(b) <=> (s = "open" => e)
  BY <1>1 DEF Serial!Permits
<1>3. Serial!AfterCanExecute(b) =
        [state |-> IF s = "open" /\ e THEN "half-open" ELSE s, failures |-> n, expired |-> e]
  BY <1>1 DEF Serial!AfterCanExecute
<1>4. Serial!AfterSuccess(b) = [state |-> "closed", failures |-> 0, expired |-> e]
  <2>1. Serial!AfterSuccess(b) \in [state : {"closed"}, failures : {0}, expired : {e}]
    BY DEF Serial!AfterSuccess
  <2> QED
    BY <2>1
<1>5. Serial!AfterTimeout(b) = [state |-> s, failures |-> n, expired |-> TRUE]
  <2>1. Serial!AfterTimeout(b) \in [state : {s}, failures : {n}, expired : {TRUE}]
    BY DEF Serial!AfterTimeout
  <2> QED
    BY <2>1
<1> QED
  BY <1>2, <1>3, <1>4, <1>5

LEMMA StepMaps ==
  ASSUME NEW t, Threads = {t}, IInv, OneCaller, [Next]_vars
  PROVE  [Serial!Next]_(Serial!vars)
<1> SUFFICES Serial!Next \/ (Mapped' = Mapped /\ (Pending("calling")' <=> Pending("calling")))
  BY DEF Serial!vars, Pending
<1> USE ThresholdAssumption, MappedValue, MappedValueAfter
    DEF IInv, TypeOK, OneCaller, Goto, BreakerState
<1>0. TypeOK /\ Pending("calling") \in BOOLEAN /\ Pending("calling")' \in BOOLEAN
  BY DEF Pending, IInv
<1>1. CASE CanExecuteLoad(t)
  <2>1. CASE state = "closed"
    <3>1. Mapped' = Mapped /\ pc[t] = "idle" /\ pc'[t] = "calling"
      BY <1>1, <2>1 DEF CanExecuteLoad
    <3>2. Mapped = [state |-> state, failures |-> failureCount, expired |-> expired]
      BY <3>1
    <3>3. Serial!Permits(Mapped) /\ Mapped' = Serial!AfterCanExecute(Mapped)
      BY <2>1, <3>1, <3>2, SequentialCalls
    <3> QED
      BY <1>0, <3>1, <3>3 DEF Serial!Next, Serial!CanExecute, Serial!Permits
  <2>2. CASE state # "closed"
    BY <1>1, <2>2 DEF CanExecuteLoad
  <2> QED
    BY <2>1, <2>2
<1>2. CASE CanExecuteReload(t)
  <2>1. CASE state = "open"
    BY <1>2, <2>1 DEF CanExecuteReload
  <2>2. CASE state # "open"
    <3>1. Mapped' = Mapped /\ pc[t] = "loaded" /\ pc'[t] = "calling"
      BY <1>2, <2>2 DEF CanExecuteReload
    <3>2. Mapped = [state |-> state, failures |-> failureCount, expired |-> expired]
      BY <3>1
    <3>3. Serial!Permits(Mapped) /\ Mapped' = Serial!AfterCanExecute(Mapped)
      BY ONLY <1>0, <2>2, <3>1, <3>2, SequentialCalls DEF TypeOK
    <3> QED
      BY <1>0, <3>1, <3>3 DEF Serial!Next, Serial!CanExecute, Serial!Permits
  <2> QED
    BY <2>1, <2>2
<1>3. CASE CanExecuteTimeout(t)
  BY <1>3 DEF CanExecuteTimeout
<1>4. CASE CanExecuteHalfOpen(t)
  <2>1. /\ state = "open" /\ expired = TRUE
        /\ Mapped = [state |-> state, failures |-> failureCount, expired |-> expired]
        /\ Mapped' = [state |-> "half-open", failures |-> failureCount, expired |-> expired]
        /\ pc[t] = "sawExpired" /\ pc'[t] = "calling"
    BY <1>4 DEF CanExecuteHalfOpen, SeenTimeoutHolds
  <2>2. /\ Serial!Permits(Mapped)
        /\ Serial!AfterCanExecute(Mapped) =
             [state |-> IF state = "open" /\ expired THEN "half-open" ELSE state,
              failures |-> failureCount, expired |-> expired]
    BY ONLY <1>0, <2>1, SequentialCalls DEF TypeOK
  <2>3. Mapped' = Serial!AfterCanExecute(Mapped)
    BY ONLY <2>1, <2>2
  <2> QED
    BY <1>0, <2>1, <2>2, <2>3 DEF Serial!Next, Serial!CanExecute, Serial!Permits
<1>5. CASE OnSuccessClose(t)
  <2>1. /\ Mapped = [state |-> state, failures |-> failureCount, expired |-> expired]
        /\ Mapped' = [state |-> "closed", failures |-> 0, expired |-> expired]
        /\ pc[t] = "calling" /\ pc'[t] = "succeeding"
    BY <1>5 DEF OnSuccessClose
  <2>2. Mapped' = Serial!AfterSuccess(Mapped)
    BY ONLY <1>0, <2>1, SequentialCalls DEF TypeOK
  <2> QED
    BY <1>0, <2>1, <2>2 DEF Serial!Next, Serial!OnSuccess
<1>6. CASE OnSuccessReset(t)
  BY <1>6 DEF OnSuccessReset
<1>7. CASE OnFailureLock(t)
  BY <1>7 DEF OnFailureLock, Serial!Next, Serial!OnFailure, Serial!AfterFailure,
              CountFailure, Serial!CountFailure
<1>8. CASE OnFailureCount(t)
  BY <1>8 DEF OnFailureCount, CountFailure
<1>9. CASE OnFailureOpen(t)
  BY <1>9 DEF OnFailureOpen
<1>10. CASE TimePasses
  <2>1. \E s, n : /\ Mapped = [state |-> s, failures |-> n, expired |-> FALSE]
                  /\ Mapped' = [state |-> s, failures |-> n, expired |-> TRUE]
    BY <1>10 DEF TimePasses
  <2>2. Mapped' = Serial!AfterTimeout(Mapped)
    BY ONLY <1>0, <2>1, SequentialCalls DEF TypeOK
  <2>3. Pending("calling")' <=> Pending("calling")
    BY <1>10 DEF TimePasses
  <2> QED
    BY <1>0, <2>2, <2>3 DEF Serial!Next, Serial!TimePasses
<1>11. CASE UNCHANGED vars
  BY <1>11 DEF vars
<1> QED
  BY <1>1, <1>2, <1>3, <1>4, <1>5, <1>6, <1>7, <1>8, <1>9, <1>10, <1>11 DEF Next, Finish

(* One goroutine's calls, access by access, implement the sequential       *)
(* breaker, each method taking effect in one step.                         *)
THEOREM SequentialBreaker ==
  ASSUME NEW t, Threads = {t}
  PROVE  Spec => SerialSpec
<1>1. Init => Serial!Init
  <2> SUFFICES ASSUME Init PROVE Serial!Init
    OBVIOUS
  <2>1. /\ pc[t] = "idle" /\ state = "closed" /\ failureCount = 0
        /\ expired = TRUE
    BY DEF Init
  <2>2. Mapped = [state |-> "closed", failures |-> 0, expired |-> TRUE]
    BY <2>1, MappedValue
  <2>3. Pending("calling") = FALSE
    BY <2>1 DEF Pending
  <2> QED
    BY <2>2, <2>3 DEF Serial!Init, Serial!NewCircuitBreaker
<1>2. IInv /\ OneCaller /\ [Next]_vars => [Serial!Next]_(Serial!vars)
  BY StepMaps
<1> QED
  BY <1>1, <1>2, OneCallerAlways, PTL DEF Spec, SerialSpec, Serial!Spec

(* With a single caller a trial call decides: the breaker does not stay    *)
(* half-open when the outcome of the call is recorded.                     *)
THEOREM TrialsDecide ==
  ASSUME NEW t, Threads = {t}
  PROVE  Spec => SerialTrialDecides
<1>1. IInv /\ OneCaller /\ [Next]_vars
        => [Mapped.state = "half-open" /\ Pending("calling") /\ ~Pending("calling")'
              => Mapped'.state # "half-open"]_(Serial!vars)
  <2> SUFFICES ASSUME IInv, OneCaller, [Next]_vars,
                      Mapped.state = "half-open", pc[t] = "calling", pc'[t] # "calling"
               PROVE  Mapped'.state # "half-open"
    BY MappedValue, MappedValueAfter
  <2> USE ThresholdAssumption, MappedValue, MappedValueAfter
      DEF IInv, TypeOK, OneCaller, Goto, BreakerState
  <2>1. state = "half-open" /\ failureCount = Threshold
    <3>1. Mapped = [state |-> state, failures |-> failureCount, expired |-> expired]
      OBVIOUS
    <3> QED
      BY <3>1
  <2>2. CASE OnSuccessClose(t)
    BY <2>2 DEF OnSuccessClose
  <2>3. CASE OnFailureLock(t)
    BY <2>1, <2>3 DEF OnFailureLock
  <2>4. ~TimePasses /\ ~UNCHANGED vars
    BY DEF TimePasses, vars
  <2>5. /\ ~CanExecuteLoad(t) /\ ~CanExecuteReload(t) /\ ~CanExecuteTimeout(t)
        /\ ~CanExecuteHalfOpen(t) /\ ~OnSuccessReset(t)
        /\ ~OnFailureCount(t) /\ ~OnFailureOpen(t)
    BY DEF CanExecuteLoad, CanExecuteReload, CanExecuteTimeout, CanExecuteHalfOpen,
           OnSuccessReset, OnFailureCount, OnFailureOpen
  <2> QED
    BY <2>2, <2>3, <2>4, <2>5 DEF Next, Finish
<1> QED
  BY <1>1, OneCallerAlways, PTL DEF Spec, SerialTrialDecides, Serial!TrialDecides

=============================================================================
