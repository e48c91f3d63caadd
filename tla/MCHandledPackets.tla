-------------------------- MODULE MCHandledPackets --------------------------
(* Small instances of HandledPackets.                                       *)
EXTENDS HandledPackets
=============================================================================
