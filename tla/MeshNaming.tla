----------------------------- MODULE MeshNaming -----------------------------
(***************************************************************************)
(* How the nodes of a mesh give themselves node ids: A7105_Mesh_Join, the  *)
(* part of A7105_Mesh_Update that drives it, and the three places of       *)
(* _A7105_Mesh_Handle_RX where a received packet can change a name.        *)
(*                                                                         *)
(* The medium is `ether`, the set of packets ever sent.  A node may        *)
(* process any of them, at any time, any number of times or never: radio   *)
(* loss and collision, the repeaters (which forward a packet up to         *)
(* A7105_MESH_MAX_HOP_COUNT times, long after it was sent) and a sender    *)
(* hearing its own packet repeated are all behaviours of that set.         *)
(* Clocks are left to TimedNaming: here a join may be taken as accepted    *)
(* at any moment.                                                          *)
(*                                                                         *)
(* A node that is reset (the sketch calls A7105_Mesh_Initialize again) or  *)
(* loses its power keeps nothing, so every boot is an element of Node and  *)
(* a reset ends it.                                                        *)
(***************************************************************************)
EXTENDS Integers, FiniteSets

CONSTANTS
    Node,       \* the boots that ever take part
    UniqueIds,  \* the unique ids a boot may draw (random, 1..0xFFFF)
    ID_RANGE    \* how many values a node id has: 256, it is a byte

ASSUME NodeFinite == IsFiniteSet(Node)
ASSUME UniqueIdsNat == UniqueIds \subseteq Nat \ {0}
ASSUME IdRangeNat == ID_RANGE \in Nat /\ ID_RANGE > 2

VARIABLES
    state,              \* node->state
    node_id,            \* node->node_id
    unique_id,          \* node->unique_id
    pending_operation,  \* node->pending_operation
    ether               \* every packet ever sent, header only

namingVars == <<state, node_id, unique_id, pending_operation, ether>>

\* A7105_Mesh_State: BUSY stands for PING, GET_REGISTER, SET_REGISTER and
\* the two register queries, LEFT for a boot that has ended.
States == {"NOT_JOINED", "JOINING", "IDLE", "BUSY", "LEFT"}

NodeIds == 0..(ID_RANGE - 1)

\* DATA stands for every packet type but the two of the naming protocol.
PacketTypes == {"JOIN", "CONFLICT_NAME", "DATA"}

Packets == [type : PacketTypes, node_id : NodeIds, unique_id : UniqueIds]

\* The id every join starts with, and the id that marks a broadcast.
FirstId == 1
BroadcastId == 0

Joined(n) == state[n] \in {"IDLE", "BUSY"}

\* Boots that take part in the naming, or did.
Participating(n) == state[n] # "NOT_JOINED"

\* The header _A7105_Mesh_Prep_Packet_Header writes for n.
Header(type, id, n) == [type |-> type, node_id |-> id, unique_id |-> unique_id[n]]

\* rejoin_id is a byte: past the last id comes 0.
Successor(id) == (id + 1) % ID_RANGE
-----------------------------------------------------------------------------
(* A7105_Mesh_Initialize.  The node structs are globals, so node_id is 0.  *)
Init ==
    /\ state = [n \in Node |-> "NOT_JOINED"]
    /\ node_id = [n \in Node |-> BroadcastId]
    /\ unique_id \in [Node -> UniqueIds]
    /\ pending_operation = [n \in Node |-> FALSE]
    /\ ether = {}

\* A7105_Mesh_Join(node, id, callback, interrupting): claim id and send the
\* first JOIN packet.
JoinAs(n, id, interrupting) ==
    /\ state' = [state EXCEPT ![n] = "JOINING"]
    /\ node_id' = [node_id EXCEPT ![n] = id]
    /\ pending_operation' = [pending_operation EXCEPT ![n] = @ \/ interrupting]
    /\ ether' = ether \cup {Header("JOIN", id, n)}
    /\ UNCHANGED unique_id

\* The application joins the mesh (the sketches do so once, after Initialize).
Join(n) ==
    /\ state[n] = "NOT_JOINED"
    /\ JoinAs(n, FirstId, FALSE)

\* _A7105_Mesh_Update_Join, the accept delay is over: the join callback runs.
\* When the join interrupted an operation, that callback is _rejoin_finished,
\* which takes the operation up again and sends its request again.
AcceptJoin(n) ==
    /\ state[n] = "JOINING"
    /\ IF pending_operation[n]
         THEN /\ state' = [state EXCEPT ![n] = "BUSY"]
              /\ ether' = ether \cup {Header("DATA", node_id[n], n)}
         ELSE /\ state' = [state EXCEPT ![n] = "IDLE"]
              /\ UNCHANGED ether
    /\ pending_operation' = [pending_operation EXCEPT ![n] = FALSE]
    /\ UNCHANGED <<node_id, unique_id>>

\* A7105_Mesh_Ping and the five register requests: a node that is idle on the
\* mesh sends a request.
StartOperation(n) ==
    /\ state[n] = "IDLE"
    /\ state' = [state EXCEPT ![n] = "BUSY"]
    /\ ether' = ether \cup {Header("DATA", node_id[n], n)}
    /\ UNCHANGED <<node_id, unique_id, pending_operation>>

\* The operation ends, by its response or by its timeout.
FinishOperation(n) ==
    /\ state[n] = "BUSY"
    /\ state' = [state EXCEPT ![n] = "IDLE"]
    /\ UNCHANGED <<node_id, unique_id, pending_operation, ether>>

\* A7105_Mesh_Broadcast, and the responses and repeated responses of a node
\* on the mesh: a packet with its own id, or with the id of a broadcast.
Transmit(n) ==
    /\ Joined(n)
    /\ \E id \in {node_id[n], BroadcastId} :
           ether' = ether \cup {Header("DATA", id, n)}
    /\ UNCHANGED <<state, node_id, unique_id, pending_operation>>
-----------------------------------------------------------------------------
(* _A7105_Mesh_Handle_RX.  The three handlers run in the order below; the  *)
(* first one to act has overwritten packet_cache with a packet of n itself *)
(* (or returned), so at most one of them acts on a packet.                 *)

\* Mutant: as the comment in the code has it, only against a lower unique id.
NodeIdConflict_LowerOnly(n, p) ==
    Joined(n) /\ p.node_id = node_id[n] /\ p.unique_id < unique_id[n]

\* Mutant: a node that is still joining defends its id too.
NodeIdConflict_Joining(n, p) ==
    /\ Joined(n) \/ state[n] = "JOINING"
    /\ p.node_id = node_id[n]
    /\ p.unique_id # unique_id[n]

\* _A7105_Mesh_Check_For_Node_ID_Conflicts: a joined node hears its own id
\* from somebody else.
NodeIdConflict(n, p) ==
    /\ Joined(n)
    /\ p.node_id = node_id[n]
    /\ p.unique_id # unique_id[n]

\* Mutant: any CONFLICT_NAME will do, whatever id it is about.
NeedToRejoin_AnyId(n, p) ==
    /\ p.type = "CONFLICT_NAME"
    /\ p.unique_id # unique_id[n]
    /\ \/ state[n] = "JOINING"
       \/ Joined(n) /\ unique_id[n] < p.unique_id

\* _A7105_Mesh_Handle_Conflict_Name: is p a CONFLICT_NAME for us, and is it
\* for us to rejoin?
NeedToRejoin(n, p) ==
    /\ p.type = "CONFLICT_NAME"
    /\ p.node_id = node_id[n]
    /\ p.unique_id # unique_id[n]
    /\ \/ state[n] = "JOINING"
       \/ Joined(n) /\ unique_id[n] < p.unique_id

\* Mutant: the id is bumped twice for one CONFLICT_NAME.
RejoinId_Twice(n) == IF state[n] = "JOINING" THEN node_id[n] + 2 ELSE FirstId

RejoinId(n) == IF state[n] = "JOINING" THEN Successor(node_id[n]) ELSE FirstId

\* Mutant: the node id of the JOIN is not looked at.
Defers_AnyId(n, p) ==
    state[n] = "JOINING" /\ p.type = "JOIN" /\ p.unique_id > unique_id[n]

\* Mutant: a node defers to its own JOIN when a repeater brings it back.
Defers_ToEqual(n, p) ==
    /\ state[n] = "JOINING"
    /\ p.type = "JOIN"
    /\ p.node_id = node_id[n]
    /\ p.unique_id >= unique_id[n]

\* Mutant: the higher unique id defers to the lower one.
Defers_ToLower(n, p) ==
    /\ state[n] = "JOINING"
    /\ p.type = "JOIN"
    /\ p.node_id = node_id[n]
    /\ p.unique_id < unique_id[n]

\* _A7105_Mesh_Handle_Deferred_Joining: a joining node hears a higher unique
\* id join with the same node id.
Defers(n, p) ==
    /\ state[n] = "JOINING"
    /\ p.type = "JOIN"
    /\ p.node_id = node_id[n]
    /\ p.unique_id > unique_id[n]

SendConflict(n, p) ==
    /\ NodeIdConflict(n, p)
    /\ ether' = ether \cup {Header("CONFLICT_NAME", node_id[n], n)}
    /\ UNCHANGED <<state, node_id, unique_id, pending_operation>>

\* A busy node is interrupted: its operation waits for the join.
HandleConflictName(n, p) ==
    /\ ~NodeIdConflict(n, p)
    /\ NeedToRejoin(n, p)
    /\ JoinAs(n, RejoinId(n), state[n] = "BUSY")

HandleDeferredJoining(n, p) ==
    /\ ~NodeIdConflict(n, p)
    /\ ~NeedToRejoin(n, p)
    /\ Defers(n, p)
    /\ JoinAs(n, Successor(node_id[n]), FALSE)

\* A packet that concerns no name of n changes nothing here.
Receive(n) ==
    \E p \in ether : \/ SendConflict(n, p)
                     \/ HandleConflictName(n, p)
                     \/ HandleDeferredJoining(n, p)

\* The power goes, or the host sends RESET.
Leave(n) ==
    /\ state[n] \in {"JOINING", "IDLE", "BUSY"}
    /\ state' = [state EXCEPT ![n] = "LEFT"]
    /\ UNCHANGED <<node_id, unique_id, pending_operation, ether>>

Next ==
    \E n \in Node : \/ Join(n)
                    \/ AcceptJoin(n)
                    \/ StartOperation(n)
                    \/ FinishOperation(n)
                    \/ Transmit(n)
                    \/ Receive(n)
                    \/ Leave(n)

Spec == Init /\ [][Next]_namingVars

\* Nodes run A7105_Mesh_Update in their main loop, and every handler gets to
\* see the packets it acts on.  What the application does is not fair, nor is
\* the loss of power.
FairSpec ==
    /\ Spec
    /\ \A n \in Node :
           /\ WF_namingVars(AcceptJoin(n))
           /\ SF_namingVars(\E p \in ether : SendConflict(n, p))
           /\ SF_namingVars(\E p \in ether : HandleConflictName(n, p))
           /\ SF_namingVars(\E p \in ether : HandleDeferredJoining(n, p))
-----------------------------------------------------------------------------
(* Properties.                                                             *)

TypeOK ==
    /\ state \in [Node -> States]
    /\ node_id \in [Node -> NodeIds]
    /\ unique_id \in [Node -> UniqueIds]
    /\ pending_operation \in [Node -> BOOLEAN]
    /\ ether \subseteq Packets

\* m claims id, or claimed it when it left.
Claims(m, id) == Participating(m) /\ node_id[m] = id

\* m will never give its id up: it has joined, or it has left.
Settled(m) == Joined(m) \/ state[m] = "LEFT"

\* A node passes an id by only because some boot claims it, whatever packets
\* are lost, repeated or late: the ids in use leave no gap.
NoGaps ==
    \A n \in Node : Participating(n) =>
        \A id \in 1..(node_id[n] - 1) : \E m \in Node : Claims(m, id)

\* So ids stay small: at most as many as there are boots, and the broadcast
\* id is nobody's, as long as there are fewer boots than values of a byte.
IdsBounded ==
    Cardinality(Node) < ID_RANGE =>
        \A n \in Node : Participating(n) => node_id[n] \in 1..Cardinality(Node)

\* Behind every JOIN in the air is a claimant of that id which its sender's
\* rivals may trust to stay: one that has settled, or one whose unique id is
\* no lower than the packet's.
JoinsBacked ==
    \A p \in ether : p.type = "JOIN" =>
        \E m \in Node : /\ Claims(m, p.node_id)
                        /\ Settled(m) \/ unique_id[m] >= p.unique_id

\* Behind every CONFLICT_NAME is the settled owner of the id who sent it.
ConflictsBacked ==
    \A p \in ether : p.type = "CONFLICT_NAME" =>
        \E m \in Node : /\ Claims(m, p.node_id)
                        /\ Settled(m)
                        /\ unique_id[m] = p.unique_id

\* A node that has joined keeps its id until it leaves the mesh: nothing it
\* receives makes it rejoin.  (The branch of Handle_Conflict_Name for joined
\* nodes never runs: Check_For_Node_ID_Conflicts returns first.)
JoinedIdPermanent ==
    [][\A n \in Node : Joined(n) =>
           /\ node_id'[n] = node_id[n]
           /\ state'[n] \in {"IDLE", "BUSY", "LEFT"}]_namingVars

\* What README.md:287 promises: no node goes by the broadcast id.
NobodyIsBroadcast ==
    \A n \in Node : Participating(n) => node_id[n] # BroadcastId

\* What README.md:252-256 promises: two joined nodes of the same name do not
\* stay that way, the lower unique id rejoins.
DuplicatesHeal ==
    \A n, m \in Node :
        (/\ Joined(n) /\ Joined(m)
         /\ node_id[n] = node_id[m] /\ unique_id[n] < unique_id[m])
        ~> (node_id[n] # node_id[m] \/ state[n] = "LEFT" \/ state[m] = "LEFT")
-----------------------------------------------------------------------------
(* The abstract protocol this one implements.                              *)

PhaseOf(s) ==
    CASE s = "NOT_JOINED" -> "out"
      [] s = "JOINING" -> "claiming"
      [] s \in {"IDLE", "BUSY"} -> "holding"
      [] s = "LEFT" -> "gone"

Claimed == INSTANCE NameClaims WITH
    phase <- [n \in Node |-> PhaseOf(state[n])],
    claim <- node_id

\* At the moment a node moves up, another node does claim the id it leaves,
\* although all it has seen is a packet that may be arbitrarily old.
ImplementsClaims == Claimed!Spec
=============================================================================
