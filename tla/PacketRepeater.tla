--------------------------- MODULE PacketRepeater ---------------------------
(***************************************************************************)
(* The packet repeaters of all nodes of a mesh: what a node hears, puts    *)
(* into its ring of packets to repeat, and sends again with a higher hop   *)
(* count.  The medium of the other modules is made of these.               *)
(*                                                                         *)
(* A radio is heard by the nodes in range only, Hears says by which.  What *)
(* a node transmits is on its way to each of them until it is processed or *)
(* lost.  The applications send the packets of one of the Plans, each      *)
(* packet once; a plan is a set of packets with hop count 0.  The content  *)
(* of packets is in MeshRequests, their timing is left open: a repeater    *)
(* may send its next packet at any time.                                   *)
(***************************************************************************)
EXTENDS Integers, FiniteSets

CONSTANTS
    Node,           \* node ids, which are positive; unique ids are the same
    Hears,          \* for each node, the nodes that hear it
    Joined,         \* the nodes on the mesh; others listen only
    Serves,         \* for each node, the names of its registers
    Plans,          \* sets of packets to be sent
    CACHE_SIZE,     \* A7105_MESH_MAX_REPEAT_CACHE_SIZE: 2
    MAX_HOP_COUNT,  \* A7105_MESH_MAX_HOP_COUNT: 6
    MaxLosses       \* packets that get lost (a bound of the model)

ASSUME NodeNat == Node \subseteq Nat \ {0}
ASSUME HearsInRange == Hears \in [Node -> SUBSET Node]
ASSUME JoinedNodes == Joined \subseteq Node
ASSUME CacheSizeNat == CACHE_SIZE \in Nat \ {0}
ASSUME HopCountNat == MAX_HOP_COUNT \in Nat /\ MAX_HOP_COUNT < 15

PacketTypes == {"JOIN", "PING", "PONG", "GET_NUM_REGISTERS", "NUM_REGISTERS",
                "GET_REGISTER_NAME", "REGISTER_NAME", "GET_REGISTER", "REGISTER_VALUE",
                "SET_REGISTER", "SET_REGISTER_ACK"}

\* What the applications send: a seq is a nibble, the target or node id 0 nobody's.
FreshPackets == [type : PacketTypes, seq : 0..15, node_id : Node \cup {0}, unique_id : Node,
                 target : Node \cup {0}, name : STRING, hop : {0}]

ASSUME PlansUnrepeated ==
    \A fresh \in Plans : fresh \subseteq FreshPackets /\ IsFiniteSet(fresh)
ASSUME LossesNat == MaxLosses \in Nat

VARIABLES
    state,              \* node->state: a directed request runs, or IDLE
    target_node_id,     \* node->target_node_id
    repeat_cache,       \* node->repeat_cache
    repeat_cache_start, \* node->repeat_cache_start
    repeat_cache_end,   \* node->repeat_cache_end
    repeat_cache_size,  \* node->repeat_cache_size
    air,                \* packets on their way to each node
    plan,               \* the packets the applications send
    todo,               \* those of them not sent yet
    lost,               \* number of packets lost
    heard,              \* history: packets each node has heard, without hops
    repeated            \* history: how often each node has repeated a packet: 2 is more than once

ringVars == <<repeat_cache, repeat_cache_start, repeat_cache_end, repeat_cache_size>>
requestVars == <<state, target_node_id>>
vars == <<requestVars, ringVars, air, plan, todo, lost, heard, repeated>>

Slots == 0..(CACHE_SIZE - 1)

\* A slot zeroed by A7105_Mesh_Initialize: 0 is no packet type.
Zeroed == [type |-> "none", seq |-> 0, node_id |-> 0, unique_id |-> 0,
           target |-> 0, name |-> "", hop |-> 0]

\* _A7105_Mesh_Util_Is_Same_Packet_Sans_Hop compares all but the hop count.
SansHop(p) == [p EXCEPT !.hop = 0]

Init ==
    /\ state = [n \in Node |-> "IDLE"]
    /\ target_node_id = [n \in Node |-> 0]
    /\ repeat_cache = [n \in Node |-> [x \in Slots |-> Zeroed]]
    /\ repeat_cache_start = [n \in Node |-> 0]
    /\ repeat_cache_end = [n \in Node |-> 0]
    /\ repeat_cache_size = [n \in Node |-> 0]
    /\ air = [n \in Node |-> {}]
    /\ plan \in Plans
    /\ todo = plan
    /\ lost = 0
    /\ heard = [n \in Node |-> {}]
    /\ repeated = [n \in Node |-> [p \in plan |-> 0]]
-----------------------------------------------------------------------------
\* Node n transmits p; the copies in `air` are what is still to be heard.
Transmit(n, p, coming) ==
    air' = [m \in Node |-> IF m \in Hears[n] THEN coming[m] \cup {p} ELSE coming[m]]

Directed == {"GET_NUM_REGISTERS", "GET_REGISTER_NAME"}

\* An application sends a packet of its own.  A directed request makes the node
\* wait for the answer of its target.  (A broadcast has node_id 0.)
Send(p) ==
    LET n == p.unique_id
    IN  /\ p \in todo
        /\ IF p.type \in Directed
             THEN /\ state[n] = "IDLE"
                  /\ state' = [state EXCEPT ![n] = p.type]
                  /\ target_node_id' = [target_node_id EXCEPT ![n] = p.target]
             ELSE UNCHANGED requestVars
        /\ Transmit(n, p, air)
        /\ todo' = todo \ {p}
        /\ UNCHANGED <<ringVars, plan, lost, heard, repeated>>

\* The time is over.
EndRequest(n) ==
    /\ state[n] # "IDLE"
    /\ state' = [state EXCEPT ![n] = "IDLE"]
    /\ UNCHANGED <<target_node_id, ringVars, air, plan, todo, lost, heard, repeated>>

OwnPacket(n, p) == p.node_id = n /\ p.unique_id = n

\* (An acknowledgement is addressed too; its target is the node that asked.)
AddressedTo(n, p) ==
    /\ p.type \in Directed \cup {"SET_REGISTER_ACK"}
    /\ p.target = n

AwaitedBy(n, p) ==
    /\ \/ state[n] = "GET_NUM_REGISTERS" /\ p.type = "NUM_REGISTERS"
       \/ state[n] = "GET_REGISTER_NAME" /\ p.type = "REGISTER_NAME"
    /\ p.node_id = target_node_id[n]

ServedBy(n, p) ==
    /\ p.type \in {"GET_REGISTER", "SET_REGISTER"}
    /\ p.name \in Serves[n]

\* Mutant: only the packets still to be repeated are looked at.
Remembered_OnlyWaiting(n, p) ==
    \E i \in 0..(repeat_cache_size[n] - 1) :
        SansHop(repeat_cache[n][(repeat_cache_start[n] + i) % CACHE_SIZE]) = SansHop(p)

\* Mutant: the hop count is compared too.
Remembered_WithHop(n, p) == \E x \in Slots : repeat_cache[n][x] = p

\* Mutant: the sequence number, in a byte with the hop count, is not compared.
Remembered_AnySeq(n, p) ==
    \E x \in Slots : SansHop(repeat_cache[n][x]) = SansHop([p EXCEPT !.seq = repeat_cache[n][x].seq])

\* The packet is in the ring: to be repeated, or repeated and not overwritten.
Remembered(n, p) == \E x \in Slots : SansHop(repeat_cache[n][x]) = SansHop(p)

\* Mutant: the hop limit is missed by one.
Repeatable_TooFar(n, p) ==
    /\ n \in Joined
    /\ ~OwnPacket(n, p) /\ ~AddressedTo(n, p) /\ ~AwaitedBy(n, p) /\ ~ServedBy(n, p)
    /\ p.type # "JOIN" => ~Remembered(n, p)
    /\ p.hop <= MAX_HOP_COUNT

Repeatable(n, p) ==
    /\ n \in Joined
    /\ ~OwnPacket(n, p) /\ ~AddressedTo(n, p) /\ ~AwaitedBy(n, p) /\ ~ServedBy(n, p)
    /\ p.type # "JOIN" => ~Remembered(n, p)
    /\ p.hop < MAX_HOP_COUNT

\* Mutant: the end of the ring does not wrap around.
Append_NoWrap(n, p) ==
    /\ repeat_cache' = [repeat_cache EXCEPT ![n][repeat_cache_end[n]] = p]
    /\ repeat_cache_end' = [repeat_cache_end EXCEPT ![n] = @ + 1]
    /\ repeat_cache_size' = [repeat_cache_size EXCEPT ![n] = @ + 1]
    /\ UNCHANGED repeat_cache_start

\* _A7105_Mesh_Append_Repeat; a packet that finds the ring full is not repeated.
Append(n, p) ==
    /\ repeat_cache' = [repeat_cache EXCEPT ![n][repeat_cache_end[n]] = p]
    /\ repeat_cache_end' = [repeat_cache_end EXCEPT ![n] = (@ + 1) % CACHE_SIZE]
    /\ repeat_cache_size' = [repeat_cache_size EXCEPT ![n] = @ + 1]
    /\ UNCHANGED repeat_cache_start

\* Node n processes a packet: _A7105_Mesh_Cache_Packet_For_Repeat, called by
\* _A7105_Mesh_Handle_RX before the handler that takes an answer and ends the
\* request; a copy of that answer is one of the others then.
Hear(n, p) ==
    /\ p \in air[n]
    /\ air' = [air EXCEPT ![n] = @ \ {p}]
    /\ IF Repeatable(n, p) /\ repeat_cache_size[n] < CACHE_SIZE
         THEN Append(n, p) ELSE UNCHANGED ringVars
    /\ state' = IF AwaitedBy(n, p) THEN [state EXCEPT ![n] = "IDLE"] ELSE state
    /\ heard' = [heard EXCEPT ![n] = @ \cup {SansHop(p)}]
    /\ UNCHANGED <<target_node_id, plan, todo, lost, repeated>>

Lose(n, p) ==
    /\ p \in air[n]
    /\ lost < MaxLosses
    /\ lost' = lost + 1
    /\ air' = [air EXCEPT ![n] = @ \ {p}]
    /\ UNCHANGED <<requestVars, ringVars, plan, todo, heard, repeated>>

\* Mutant: the hop count is not raised.
Hopped_Not(p) == p

Hopped(p) == [p EXCEPT !.hop = @ + 1]

\* _A7105_Mesh_Update_Repeats: the oldest packet is popped, its hop count
\* raised where it is in the ring, and sent.
Repeat(n) ==
    LET x == repeat_cache_start[n]
        p == Hopped(repeat_cache[n][x])
    IN  /\ n \in Joined
        /\ repeat_cache_size[n] > 0
        /\ repeat_cache' = [repeat_cache EXCEPT ![n][x] = p]
        /\ repeat_cache_start' = [repeat_cache_start EXCEPT ![n] = (@ + 1) % CACHE_SIZE]
        /\ repeat_cache_size' = [repeat_cache_size EXCEPT ![n] = @ - 1]
        /\ Transmit(n, p, air)
        /\ repeated' = [repeated EXCEPT ![n][SansHop(p)] = IF @ < 2 THEN @ + 1 ELSE @]
        /\ UNCHANGED <<requestVars, repeat_cache_end, plan, todo, lost, heard>>

Next ==
    \/ \E p \in plan : Send(p)
    \/ \E n \in Node : \/ EndRequest(n)
                       \/ \E p \in air[n] : Hear(n, p) \/ Lose(n, p)
                       \/ Repeat(n)

Spec == Init /\ [][Next]_vars

\* Main loops run: what is on its way is heard, what waits is repeated.
FairSpec ==
    /\ Spec
    /\ \A n \in Node : WF_vars(Repeat(n)) /\ WF_vars(\E p \in air[n] : Hear(n, p))
-----------------------------------------------------------------------------
(* Properties.                                                             *)

Packets == {[p EXCEPT !.hop = h] : p \in plan, h \in 0..MAX_HOP_COUNT}

TypeOK ==
    /\ state \in [Node -> Directed \cup {"IDLE"}]
    /\ target_node_id \in [Node -> Node \cup {0}]
    /\ repeat_cache \in [Node -> [Slots -> Packets \cup {Zeroed}]]
    /\ repeat_cache_start \in [Node -> Slots]
    /\ repeat_cache_end \in [Node -> Slots]
    /\ repeat_cache_size \in [Node -> 0..CACHE_SIZE]
    /\ air \in [Node -> SUBSET Packets]
    /\ plan \in Plans
    /\ todo \subseteq plan
    /\ lost \in 0..MaxLosses
    /\ heard \in [Node -> SUBSET plan]
    /\ repeated \in [Node -> [plan -> 0..2]]

\* No packet is sent with a hop count beyond the limit, so the nibble never
\* runs over into the sequence number next to it (lines 1678-1680, 2274-2284).
HopsBounded ==
    \A n \in Node : \A p \in air[n] : p.hop <= MAX_HOP_COUNT

\* A packet takes up one slot of a ring, waiting or repeated, and is only
\* forgotten when another one overwrites it (README.md:518, lines 1650-1662).
OneSlotEach ==
    \A n \in Node : \A x, y \in Slots :
        (x # y /\ repeat_cache[n][x].type \notin {"none", "JOIN"})
            => SansHop(repeat_cache[n][x]) # SansHop(repeat_cache[n][y])

JoinFree == \A p \in plan : p.type # "JOIN"

\* As long as no more packets go around than a ring holds, a node repeats each
\* of them once at most, although it hears it from all its neighbours and
\* hears its own repeats come back (README.md:511-518).
RepeatedOnce ==
    Cardinality(plan) <= CACHE_SIZE /\ JoinFree =>
        \A n \in Node : \A p \in plan : repeated[n][p] <= 1

\* Repeats do not feed on each other forever: when the applications have sent
\* their packets, it becomes quiet.  (JOIN packets are repeated again and
\* again, and only the hop count ends that.)
Quiet == \A n \in Node : air[n] = {} /\ repeat_cache_size[n] = 0

StormEnds == todo = {} ~> Quiet

\* What concerns everybody reaches every node in at most MAX_HOP_COUNT + 1
\* hops, if nothing is lost and no ring overflows (README.md:276-278, 503-511).
ForEverybody(p) == p.type \in {"PING", "REGISTER_VALUE"}

AllHeard ==
    \A p \in plan : ForEverybody(p) => \A n \in Node \ {p.unique_id} : p \in heard[n]

EverybodyHears ==
    (todo = {} /\ JoinFree /\ Cardinality(plan) <= CACHE_SIZE) ~> (AllHeard \/ lost > 0)

\* "All packets will be repeated, except: ... The receiving node originally
\* sent the packet" (README.md:511-514).
NotItsOwn ==
    \A p \in plan : repeated[p.unique_id][p] = 0
=============================================================================
