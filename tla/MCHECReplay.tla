---------------------------- MODULE MCHECReplay ----------------------------
(* The files of the HEC writer for TLC. No symmetry: the order in which a  *)
(* batch is written to the file is a CHOOSE over its events.               *)
EXTENDS HECReplay, TLC
=============================================================================
