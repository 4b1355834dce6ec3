------------------------ MODULE CircuitBreakerThreads ------------------------
(***************************************************************************)
(* The circuit breaker as goroutines execute it: each atomic load, store   *)
(* and add of CanExecute, OnSuccess and OnFailure is a step. CanExecute    *)
(* holds the RWMutex for reading and yet stores the state; OnFailure holds *)
(* it for writing; OnSuccess takes no lock at all (output/output.go:49-83).*)
(*                                                                         *)
(* pc[t] says where goroutine t is: outside ("idle"), between CanExecute   *)
(* and the outcome of the guarded call ("calling"), or inside a method.    *)
(* The locks are read off the pcs. A goroutine waiting for the write lock  *)
(* does not keep readers out here, as it does in Go: more behaviours.      *)
(***************************************************************************)
EXTENDS CircuitBreaker

CONSTANT Threads            (* goroutines that reach postToHEC             *)

VARIABLES
  state,                    (* the atomic int32 state                      *)
  failureCount,             (* the atomic int32 failureCount               *)
  expired,                  (* time.Since(lastFailureTime) > timeout       *)
  newCount,                 (* OnFailure's local newCount, per goroutine   *)
  pc

vars == <<state, failureCount, expired, newCount, pc>>

InCanExecute == {"loaded", "sawOpen", "sawExpired"}
InOnSuccess  == {"succeeding"}
InOnFailure  == {"locked", "counted"}

PC == {"idle", "calling"} \cup InCanExecute \cup InOnSuccess \cup InOnFailure

Readers == {t \in Threads : pc[t] \in InCanExecute}
Writers == {t \in Threads : pc[t] \in InOnFailure}

Goto(t, from, to) ==
  /\ pc[t] = from
  /\ pc' = [pc EXCEPT ![t] = to]

TypeOK ==
  /\ state \in BreakerState
  /\ failureCount \in 0 .. Threshold
  /\ expired \in BOOLEAN
  /\ newCount \in [Threads -> 0 .. Threshold]
  /\ pc \in [Threads -> PC]

Init ==
  /\ state = "closed"
  /\ failureCount = 0
  /\ expired = TRUE
  /\ newCount = [t \in Threads |-> 0]
  /\ pc = [t \in Threads |-> "idle"]

-----------------------------------------------------------------------------
(* CanExecute                                                              *)

(* RLock and the first load. A closed breaker returns at once.             *)
CanExecuteLoad(t) ==
  /\ Writers = {}
  /\ Goto(t, "idle", IF state = "closed" THEN "calling" ELSE "loaded")
  /\ UNCHANGED <<state, failureCount, expired, newCount>>

(* The second load: anything but open lets the call through.               *)
CanExecuteReload(t) ==
  /\ Goto(t, "loaded", IF state = "open" THEN "sawOpen" ELSE "calling")
  /\ UNCHANGED <<state, failureCount, expired, newCount>>

(* time.Since(lastFailureTime) > timeout, or return false.                 *)
CanExecuteTimeout(t) ==
  /\ Goto(t, "sawOpen", IF expired THEN "sawExpired" ELSE "idle")
  /\ UNCHANGED <<state, failureCount, expired, newCount>>

CanExecuteHalfOpenNoStore(t) ==
  /\ Goto(t, "sawExpired", "calling")
  /\ UNCHANGED <<state, failureCount, expired, newCount>>

CanExecuteHalfOpenResetting(t) ==
  /\ Goto(t, "sawExpired", "calling")
  /\ state' = "half-open"
  /\ failureCount' = 0
  /\ UNCHANGED <<expired, newCount>>

(* The store under the read lock, whatever the state is by now.            *)
CanExecuteHalfOpen(t) ==
  /\ Goto(t, "sawExpired", "calling")
  /\ state' = "half-open"
  /\ UNCHANGED <<failureCount, expired, newCount>>

-----------------------------------------------------------------------------
(* OnSuccess: two atomic stores, no lock                                   *)

OnSuccessClose(t) ==
  /\ Goto(t, "calling", "succeeding")
  /\ state' = "closed"
  /\ UNCHANGED <<failureCount, expired, newCount>>

OnSuccessResetForgotten(t) ==
  /\ Goto(t, "succeeding", "idle")
  /\ UNCHANGED <<state, failureCount, expired, newCount>>

OnSuccessResetDecrement(t) ==
  /\ Goto(t, "succeeding", "idle")
  /\ failureCount' = failureCount - 1
  /\ UNCHANGED <<state, expired, newCount>>

OnSuccessReset(t) ==
  /\ Goto(t, "succeeding", "idle")
  /\ failureCount' = 0
  /\ UNCHANGED <<state, expired, newCount>>

-----------------------------------------------------------------------------
(* OnFailure, under the write lock                                         *)

OnFailureLockIgnoringReaders(t) ==
  /\ Writers = {}
  /\ Goto(t, "calling", "locked")
  /\ expired' = FALSE
  /\ UNCHANGED <<state, failureCount, newCount>>

(* Lock; lastFailureTime = time.Now()                                      *)
OnFailureLock(t) ==
  /\ Readers = {} /\ Writers = {}
  /\ Goto(t, "calling", "locked")
  /\ expired' = FALSE
  /\ UNCHANGED <<state, failureCount, newCount>>

OnFailureCount(t) ==
  /\ Goto(t, "locked", "counted")
  /\ failureCount' = CountFailure(failureCount)
  /\ newCount' = [newCount EXCEPT ![t] = failureCount']
  /\ UNCHANGED <<state, expired>>

(* Trips on the count this call obtained, even if it was reset since.      *)
OnFailureOpen(t) ==
  /\ Goto(t, "counted", "idle")
  /\ state' = IF newCount[t] >= Threshold THEN "open" ELSE state
  /\ newCount' = [newCount EXCEPT ![t] = 0]
  /\ UNCHANGED <<failureCount, expired>>

-----------------------------------------------------------------------------
(* The clock: the timeout has elapsed since the last failure.              *)
TimePasses ==
  /\ ~expired
  /\ expired' = TRUE
  /\ UNCHANGED <<state, failureCount, newCount, pc>>

Finish(t) ==
  \/ CanExecuteReload(t) \/ CanExecuteTimeout(t) \/ CanExecuteHalfOpen(t)
  \/ OnSuccessClose(t) \/ OnSuccessReset(t)
  \/ OnFailureLock(t) \/ OnFailureCount(t) \/ OnFailureOpen(t)

Next ==
  \/ TimePasses
  \/ \E t \in Threads : CanExecuteLoad(t) \/ Finish(t)

Spec == Init /\ [][Next]_vars

(* Goroutines keep running and keep calling (every batch asks CanExecute), *)
(* every guarded call ends (http.Client has a timeout) and time passes.    *)
(* The lock needs strong fairness: Go's RWMutex does not starve a writer.  *)
FairSpec ==
  /\ Spec
  /\ WF_vars(TimePasses)
  /\ \A t \in Threads : WF_vars(CanExecuteLoad(t)) /\ SF_vars(Finish(t))

-----------------------------------------------------------------------------
(* Safety                                                                  *)

Settled == \A t \in Threads : pc[t] \notin InOnSuccess \cup InOnFailure

(* Once no outcome is being recorded, a closed breaker is below its        *)
(* threshold: no interleaving of the two unlocked stores of OnSuccess with *)
(* OnFailure leaves it closed with a spent failure budget, where one late  *)
(* reader of the count would see a tripped breaker that lets calls through.*)
ClosedBelowThreshold ==
  Settled /\ state = "closed" => failureCount < Threshold

(* The breaker goes from open to half-open only while the timeout is over: *)
(* a failure recorded between CanExecute's look at the clock and its store *)
(* cannot be overrun by that store (the store is under the read lock).     *)
HalfOpenOnlyAfterTimeout ==
  [][state = "open" /\ state' = "half-open" => expired]_vars

(* Liveness: an open breaker is not open for ever. Calls keep coming and   *)
(* one of them finds the timeout over.                                     *)
BreakerRecovers == (state = "open") ~> (state # "open")

-----------------------------------------------------------------------------
(* The inductive invariant behind the two safety properties                *)

(* OnFailure runs alone: no other OnFailure and no CanExecute is inside.   *)
LockDiscipline ==
  \A t, u \in Threads :
    t # u /\ pc[t] \in InOnFailure => pc[u] \notin InCanExecute \cup InOnFailure

(* While OnFailure decides, the count can only have been reset.            *)
CountedIsLatest ==
  \A t \in Threads : pc[t] = "counted" => failureCount <= newCount[t]

(* A spent budget in the closed state has somebody who will end it.        *)
SpentIsTransient ==
  state = "closed" /\ failureCount >= Threshold
    => \E t \in Threads :
         \/ pc[t] = "succeeding"
         \/ pc[t] = "counted" /\ newCount[t] >= Threshold

(* The clock cannot be set back between the look at it and the store.      *)
SeenTimeoutHolds ==
  \A t \in Threads : pc[t] = "sawExpired" => expired

IInv ==
  /\ TypeOK
  /\ LockDiscipline
  /\ CountedIsLatest
  /\ SpentIsTransient
  /\ SeenTimeoutHolds

-----------------------------------------------------------------------------
(* With calls of a single goroutine the breaker implements the sequential  *)
(* one. OnSuccess and OnFailure take effect with their first step: what    *)
(* the remaining steps will store is already in the mapped value.          *)

Pending(s) == \E t \in Threads : pc[t] = s
WillTrip ==
  \/ Pending("locked") /\ failureCount + 1 >= Threshold
  \/ \E t \in Threads : pc[t] = "counted" /\ newCount[t] >= Threshold

Mapped ==
  [state    |-> IF WillTrip THEN "open" ELSE state,
   failures |-> CASE Pending("succeeding") -> 0
                  [] Pending("locked")     -> CountFailure(failureCount)
                  [] OTHER                 -> failureCount,
   expired  |-> expired]

Serial == INSTANCE CircuitBreakerSerial
            WITH breaker <- Mapped, calling <- Pending("calling")

(* A single caller: where it is in a method says what it read before, and  *)
(* but for the inside of OnSuccess and OnFailure the state fits the count. *)
OneCaller ==
  \A t \in Threads :
    /\ pc[t] = "loaded" => state # "closed"
    /\ pc[t] \in {"sawOpen", "sawExpired"} => state = "open"
    /\ pc[t] = "succeeding" => state = "closed"
    /\ pc[t] = "counted" => newCount[t] = failureCount
    /\ pc[t] = "counted" /\ state # "closed" => failureCount = Threshold
    /\ pc[t] \notin {"succeeding", "counted"}
         => (state # "closed" <=> failureCount = Threshold)

SerialSpec == Serial!Spec
SerialTrippedAtThreshold == Serial!TrippedAtThreshold
SerialTrialDecides == Serial!TrialDecides
=============================================================================
