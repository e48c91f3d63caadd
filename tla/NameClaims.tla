----------------------------- MODULE NameClaims -----------------------------
(***************************************************************************)
(* What the naming protocol of the mesh promises, with no packets in it.   *)
(*                                                                         *)
(* Every node that joins first claims id 1 (a7105_mesh.cpp, the overload   *)
(* of A7105_Mesh_Join without an id).  A node that is still claiming may   *)
(* go one id up, but only when SOME OTHER node claims the id it gives up;  *)
(* a node that holds its id never moves again.  MeshNaming, where nodes    *)
(* know of each other through stale, lost and repeated packets only,       *)
(* implements this.                                                        *)
(***************************************************************************)
EXTENDS Integers

CONSTANTS
    Node,       \* every boot of a node that ever takes part
    ID_RANGE    \* how many values a node id has: 256, it is a byte

VARIABLES
    phase,      \* "out", "claiming", "holding" or "gone", per node
    claim       \* the id a node claims, holds, or had when it left

claimVars == <<phase, claim>>

FirstId == 1

\* (byte)(id + 1): the id is a byte, so the successor of the last id is 0.
Successor(id) == (id + 1) % ID_RANGE

ClaimedByAnother(n) ==
    \E m \in Node \ {n} : phase[m] # "out" /\ claim[m] = claim[n]

Init ==
    /\ phase = [n \in Node |-> "out"]
    /\ claim = [n \in Node |-> 0]

\* A node starts to claim the first id.
Claim(n) ==
    /\ phase[n] = "out"
    /\ phase' = [phase EXCEPT ![n] = "claiming"]
    /\ claim' = [claim EXCEPT ![n] = FirstId]

\* A claiming node gives its id up to another claimant of the same id.
Yield(n) ==
    /\ phase[n] = "claiming"
    /\ ClaimedByAnother(n)
    /\ claim' = [claim EXCEPT ![n] = Successor(@)]
    /\ UNCHANGED phase

\* A node takes its claim as granted.
Settle(n) ==
    /\ phase[n] = "claiming"
    /\ phase' = [phase EXCEPT ![n] = "holding"]
    /\ UNCHANGED claim

\* A node is switched off or reset; its id is not used by it any more.
Depart(n) ==
    /\ phase[n] \in {"claiming", "holding"}
    /\ phase' = [phase EXCEPT ![n] = "gone"]
    /\ UNCHANGED claim

Next == \E n \in Node : Claim(n) \/ Yield(n) \/ Settle(n) \/ Depart(n)

Spec == Init /\ [][Next]_claimVars
=============================================================================
