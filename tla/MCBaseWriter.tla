---------------------------- MODULE MCBaseWriter ----------------------------
(* The writers with a BaseWriter for TLC. No symmetry: a property with     *)
(* liveness is checked, and events are numbered in the order of adding.    *)
EXTENDS BaseWriter, TLC
=============================================================================
