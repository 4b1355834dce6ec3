---------------------------- MODULE MCForwarder ----------------------------
(* The forwarder for TLC. No symmetry: a property with liveness is checked.*)
EXTENDS Forwarder, TLC
=============================================================================
