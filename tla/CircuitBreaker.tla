--------------------------- MODULE CircuitBreaker ---------------------------
(***************************************************************************)
(* The circuit breaker of output/output.go as operators on a breaker      *)
(* value: what CanExecute, OnSuccess and OnFailure return and leave behind *)
(* when no two calls overlap. CircuitBreakerSerial and HECWriter use them; *)
(* CircuitBreakerThreads takes the calls apart.                            *)
(*                                                                         *)
(* lastFailureTime and timeout appear as one Boolean, "expired": more than *)
(* timeout has passed since lastFailureTime. It is TRUE initially (the     *)
(* zero time). failureCount is counted up to Threshold only: the code      *)
(* compares it with the threshold and resets it, and reads it nowhere else.*)
(***************************************************************************)
EXTENDS Integers

CONSTANT Threshold          (* failureThreshold, 5 in NewHECWriter         *)

ASSUME ThresholdAssumption == Threshold \in Nat \ {0}

BreakerState == {"closed", "open", "half-open"}

Breaker == [state : BreakerState, failures : 0 .. Threshold, expired : BOOLEAN]

NewCircuitBreaker == [state |-> "closed", failures |-> 0, expired |-> TRUE]

-----------------------------------------------------------------------------
(* What the calls return and what they leave behind.                       *)

Permits(b) == b.state = "open" => b.expired

AfterCanExecute(b) ==
  [b EXCEPT !.state = IF b.state = "open" /\ b.expired THEN "half-open" ELSE @]

AfterSuccess(b) == [b EXCEPT !.state = "closed", !.failures = 0]

CountFailure(n) == IF n < Threshold THEN n + 1 ELSE n

AfterFailure(b) ==
  LET count == CountFailure(b.failures)
  IN  [state    |-> IF count >= Threshold THEN "open" ELSE b.state,
       failures |-> count,
       expired  |-> FALSE]

(* The timeout elapses: a step of the clock, not of the code.              *)
AfterTimeout(b) == [b EXCEPT !.expired = TRUE]

=============================================================================
