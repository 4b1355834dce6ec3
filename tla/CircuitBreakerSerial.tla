------------------------ MODULE CircuitBreakerSerial ------------------------
(***************************************************************************)
(* What the circuit breaker promises to a single caller: CanExecute, then  *)
(* the guarded call, then its outcome, each taken as one step. It is the   *)
(* abstract specification that CircuitBreakerThreads implements when one   *)
(* goroutine uses it.                                                      *)
(***************************************************************************)
EXTENDS CircuitBreaker

VARIABLES breaker, calling

vars == <<breaker, calling>>

Init ==
  /\ breaker = NewCircuitBreaker
  /\ calling = FALSE

CanExecute ==
  /\ ~calling
  /\ calling' = Permits(breaker)
  /\ breaker' = AfterCanExecute(breaker)

OnSuccess ==
  /\ calling
  /\ calling' = FALSE
  /\ breaker' = AfterSuccess(breaker)

OnFailure ==
  /\ calling
  /\ calling' = FALSE
  /\ breaker' = AfterFailure(breaker)

TimePasses ==
  /\ breaker' = AfterTimeout(breaker)
  /\ UNCHANGED calling

Next == CanExecute \/ OnSuccess \/ OnFailure \/ TimePasses

Spec == Init /\ [][Next]_vars

-----------------------------------------------------------------------------
(* Without overlapping calls the breaker has left the closed state exactly *)
(* when the threshold was reached since the last success: it neither opens *)
(* early nor closes with a spent failure budget (output.go:68-83).         *)
TrippedAtThreshold ==
  breaker.state # "closed" <=> breaker.failures = Threshold

(* A trial call that fails in the half-open state reopens the breaker: the *)
(* count is kept while open, so one more failure is enough                 *)
(* (output.go:78-82).                                                      *)
TrialDecides ==
  [][breaker.state = "half-open" /\ calling /\ ~calling'
       => breaker'.state # "half-open"]_vars

=============================================================================
