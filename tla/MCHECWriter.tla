---------------------------- MODULE MCHECWriter ----------------------------
(* The HEC writer for TLC. No symmetry: a property with liveness is checked.*)
EXTENDS HECWriter, TLC
=============================================================================
