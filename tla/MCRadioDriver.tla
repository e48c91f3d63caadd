--------------------------- MODULE MCRadioDriver ----------------------------
(* A small instance of RadioDriver.                                         *)
EXTENDS RadioDriver
=============================================================================
