-------------------------- MODULE MCRequestClocks --------------------------
(* A small instance of RequestClocks for TLC.                              *)
EXTENDS RequestClocks
=============================================================================
