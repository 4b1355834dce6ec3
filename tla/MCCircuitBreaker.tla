-------------------------- MODULE MCCircuitBreaker --------------------------
(* The circuit breaker for TLC: goroutines are interchangeable.            *)
EXTENDS CircuitBreakerThreads, TLC

Symmetry == Permutations(Threads)
=============================================================================
