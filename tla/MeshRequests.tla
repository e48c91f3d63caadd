---------------------------- MODULE MeshRequests ----------------------------
(***************************************************************************)
(* Requests and their answers: PING and the register operations, the       *)
(* handlers of _A7105_Mesh_Handle_RX for them, the request timeouts, the   *)
(* response repeater, and the broadcasts of register values, which a node  *)
(* that waits for an answer may take for one.                              *)
(*                                                                         *)
(* Every node here has joined under an id of its own and stays; MeshNaming *)
(* is about how it got it, and unique_id and node_id of a node are one and *)
(* the same number.  Each node may serve registers and send requests.      *)
(*                                                                         *)
(* `ether` is the set of packets ever sent.  A node may process any of     *)
(* them at any time, again and again, or never: that is loss, collision,   *)
(* the packet repeaters, and the repeats of a request, which are verbatim  *)
(* copies of a packet that is in the set already.  A repeated response is  *)
(* not a copy: it is put together anew from what the register holds then.  *)
(* Time is abstracted: a timeout may happen whenever a request runs.       *)
(***************************************************************************)
EXTENDS HandledCache, Sequences

CONSTANTS
    Node,           \* node ids, which are positive numbers
    Text,           \* what may stand in a register name
    Served,         \* the names of the registers a node serves, in order
    Values,         \* the values registers get
    Measured,       \* those a get_callback may find a register to have
    Found,          \* what the bytes beyond a node's registers may pass for
    Listeners,      \* the nodes with a register_value_broadcast_callback
    Plans,          \* for each node, what its application may ask for and
                    \* broadcast, and how often (a bound of the model)
    MAX_REPEAT_CACHE_SIZE,  \* A7105_MESH_MAX_REPEAT_CACHE_SIZE: 2
    RESPONSE_MAX_REPEAT     \* A7105_MESH_RESPONSE_MAX_REPEAT: 6

ASSUME NodeNat == Node \subseteq Nat \ {0}
ASSUME ValuesNat == Values \subseteq Nat /\ Measured \subseteq Values
ASSUME RepeatCacheNat == MAX_REPEAT_CACHE_SIZE \in Nat \ {0}
ASSUME MaxRepeatNat == RESPONSE_MAX_REPEAT \in Nat \ {0}

VARIABLES
    state,          \* node->state, see States
    sequence_num,   \* node->sequence_num
    target_node_id, \* node->target_node_id: whose answer is wanted, 0: any
    target_register_index,  \* node->target_register_index
    register_cache, \* node->register_cache: name and value
    presence_table, \* node->presence_table, as the set of ids in it
    handled_packet_cache,       \* node->handled_packet_cache
    last_handled_packet_index,  \* node->last_handled_packet_index
    response_repeat_cache,      \* node->response_repeat_cache, oldest first
    value,          \* what a register holds: node->registers[i], by node and i
    ether,          \* every packet ever sent
    plan,           \* the plan the applications follow
    request,        \* history: the request the application waits for
    outcome,        \* history: what its callback was told of the last request
    held,           \* history: <<node, name, value>> a register ever held
    announced,      \* history: who ever broadcast which name and value
    fates           \* history: SET_REGISTER packets, with what came of them

clientVars == <<state, target_node_id, target_register_index, register_cache,
                presence_table, request, outcome>>
serverVars == <<handled_packet_cache, last_handled_packet_index,
                response_repeat_cache, value, held, announced, fates>>
requestVars == <<clientVars, serverVars, sequence_num, ether, plan>>

Operations == {"PING", "GET_NUM_REGISTERS", "GET_REGISTER_NAME",
               "GET_REGISTER", "SET_REGISTER"}

States == Operations \cup {"IDLE"}

\* The two requests to a certain node, whose answer alone is wanted.
Directed == {"GET_NUM_REGISTERS", "GET_REGISTER_NAME"}

\* No register name at all, and the text of an error message in its place.
NoName == ""
ErrorText == "error text"

NoRequest == [type |-> "none", target |-> 0, name |-> NoName, value |-> 0]
NoOutcome == [request |-> NoRequest, status |-> "none", name |-> NoName, value |-> 0,
              responder |-> 0]
Blank == [name |-> NoName, value |-> 0]

\* The index stored for "no such register": (byte)-1.
NO_INDEX == 255

ASSUME TextHas == {NoName, ErrorText} \subseteq Text

\* The number of registers is a byte, and so is the index of one.
ASSUME ServedSeqs ==
    /\ Served \in [Node -> Seq(Text)]
    /\ \A n \in Node : /\ Len(Served[n]) <= NO_INDEX
                       /\ \A i \in DOMAIN Served[n] : Served[n][i] \notin {NoName, ErrorText}

\* What applications may ask.  None asks for the name of the register NO_INDEX:
\* the repeated answer to that looks like the name of one that is not there.
Questions ==
    {q \in [type : Operations, target : Node \cup {0}, name : Text, value : Nat] :
        /\ q.type \in Directed => q.target \in Node
        /\ q.type = "GET_REGISTER_NAME" => q.value < NO_INDEX
        /\ q.type = "SET_REGISTER" => q.value \in Values}

\* What applications may broadcast: any name, whoever serves it or nobody.
Announcements == [name : Text \ {ErrorText}, value : Nat]

ASSUME PlansBounded ==
    \A p \in Plans : \A n \in Node : /\ p[n].often \in Seqs
                                     /\ p[n].asks \subseteq Questions
                                     /\ p[n].says \subseteq Announcements

\* They may not pass for a register at all.
ASSUME FoundBytes == Blank \in Found /\ Found \subseteq [name : Text, value : Nat]

\* A packet.  Its value field is a register value, a register index, a
\* number of registers, or whether an error message is there (1 or 0).
Packet(n, type, seq, target, name, val) ==
    [type |-> type, seq |-> seq, node_id |-> n, unique_id |-> n,
     target |-> target, name |-> name, value |-> val]

\* The index of the first register of n with that name, counted from 0:
\* _A7105_Mesh_Filter_RegisterName.
Serves(n, name) == \E i \in DOMAIN Served[n] : Served[n][i] = name

IndexOf(n, name) ==
    IF Serves(n, name)
    THEN CHOOSE i \in 0..(Len(Served[n]) - 1) :
             /\ Served[n][i + 1] = name
             /\ \A j \in 0..(i - 1) : Served[n][j + 1] # name
    ELSE NO_INDEX

HasIndex(n, i) == i < Len(Served[n])

\* Mutant: a broadcast bears the node id of its sender.
BroadcastPacket_Signed(n, name, val) ==
    Packet(n, "REGISTER_VALUE", sequence_num[n], 0, name, val)

\* A broadcast bears its sender's unique id, but node id 0.
BroadcastPacket(n, name, val) ==
    [Packet(n, "REGISTER_VALUE", sequence_num[n], 0, name, val) EXCEPT !.node_id = 0]

Init ==
    /\ state = [n \in Node |-> "IDLE"]
    /\ sequence_num = [n \in Node |-> 0]
    /\ target_node_id = [n \in Node |-> 0]
    /\ target_register_index = [n \in Node |-> 0]
    /\ register_cache = [n \in Node |-> Blank]
    /\ presence_table = [n \in Node |-> {}]
    /\ handled_packet_cache = [n \in Node |-> EmptyCache]
    /\ last_handled_packet_index = [n \in Node |-> 0]
    /\ response_repeat_cache = [n \in Node |-> <<>>]
    /\ value = [n \in Node |-> [i \in DOMAIN Served[n] |-> 0]]
    /\ ether = {}
    /\ plan \in Plans
    /\ request = [n \in Node |-> NoRequest]
    /\ outcome = [n \in Node |-> NoOutcome]
    /\ held = UNION {{<<n, Served[n][i], 0>> : i \in DOMAIN Served[n]} : n \in Node}
    /\ announced = {}
    /\ fates = {}
-----------------------------------------------------------------------------
(* The application asks for something.                                     *)

\* _A7105_Mesh_Util_Register_To_Packet refuses an empty register.
BadRegister(q) == q.name = NoName

\* What every request does, once _A7105_Mesh_Is_Node_Idle finds n idle:
\* remember whose answer is wanted, and send the packet.
Send(n, q, target) ==
    /\ state[n] = "IDLE"
    /\ sequence_num[n] < plan[n].often
    /\ state' = [state EXCEPT ![n] = q.type]
    /\ target_node_id' = [target_node_id EXCEPT ![n] = target]
    /\ sequence_num' = [sequence_num EXCEPT ![n] = (@ + 1) % SEQ_RANGE]
    /\ ether' = ether \cup
           {Packet(n, q.type, sequence_num[n], q.target, q.name, q.value)}
    /\ request' = [request EXCEPT ![n] = q]
    /\ outcome' = [outcome EXCEPT ![n] = NoOutcome]
    /\ UNCHANGED serverVars

\* A7105_Mesh_INVALID_REGISTER_LENGTH is returned; but the state has been set,
\* and the node is busy with an operation it has not sent a packet for.
Stall(n, q) ==
    /\ state[n] = "IDLE"
    /\ state' = [state EXCEPT ![n] = q.type]
    /\ target_node_id' = [target_node_id EXCEPT ![n] = 0]
    /\ outcome' = [outcome EXCEPT ![n] = NoOutcome]
    /\ UNCHANGED <<register_cache, request, serverVars, sequence_num, ether>>

Ping(n) ==
    \E q \in plan[n].asks :
        /\ q.type = "PING"
        /\ Send(n, q, 0)
        /\ presence_table' = [presence_table EXCEPT ![n] = {}]
        /\ UNCHANGED <<target_register_index, register_cache>>

GetNumRegisters(n) ==
    \E q \in plan[n].asks :
        /\ q.type = "GET_NUM_REGISTERS"
        /\ Send(n, q, q.target)
        /\ UNCHANGED <<target_register_index, register_cache, presence_table>>

GetRegisterName(n) ==
    \E q \in plan[n].asks :
        /\ q.type = "GET_REGISTER_NAME"
        /\ Send(n, q, q.target)
        /\ target_register_index' = [target_register_index EXCEPT ![n] = q.value]
        /\ UNCHANGED <<register_cache, presence_table>>

GetRegister(n) ==
    \E q \in plan[n].asks :
        /\ q.type = "GET_REGISTER"
        /\ IF BadRegister(q)
             THEN Stall(n, q)
             ELSE /\ Send(n, q, 0)
                  /\ register_cache' =
                         [register_cache EXCEPT ![n] = [name |-> q.name, value |-> 0]]
        /\ UNCHANGED <<target_register_index, presence_table>>

SetRegister(n) ==
    \E q \in plan[n].asks :
        /\ q.type = "SET_REGISTER"
        /\ IF BadRegister(q)
             THEN Stall(n, q)
             ELSE Send(n, q, 0) /\ UNCHANGED register_cache
        /\ UNCHANGED <<target_register_index, presence_table>>

\* The operation callback of n runs; answer is what it finds in the node, and
\* responder the responder_node_id that goes with it, if there is an answer.
Callback(n, status, answer, responder) ==
    /\ state' = [state EXCEPT ![n] = "IDLE"]
    /\ outcome' = [outcome EXCEPT ![n] =
           [request |-> request[n], status |-> status,
            name |-> answer.name, value |-> answer.value, responder |-> responder]]
    /\ request' = [request EXCEPT ![n] = NoRequest]
    /\ UNCHANGED presence_table

\* _A7105_Mesh_Check_For_Timeout.
Timeout(n) ==
    /\ state[n] \in Operations \ {"PING"}
    /\ Callback(n, "TIMEOUT", register_cache[n], 0)
    /\ UNCHANGED <<target_node_id, target_register_index, register_cache,
                   serverVars, sequence_num, ether>>

\* _A7105_Mesh_Update_Ping: the end of the time is the end of the operation.
PingOver(n) ==
    /\ state[n] = "PING"
    /\ Callback(n, "STATUS_OK", register_cache[n], 0)
    /\ UNCHANGED <<target_node_id, target_register_index, register_cache,
                   serverVars, sequence_num, ether>>
-----------------------------------------------------------------------------
(* The handlers of answers.  They run with q in packet_cache and c in the  *)
(* register_cache of n.  Sequence numbers play no part in them.            *)

\* _A7105_Mesh_Filter_Packet for a response.
FromTarget(n, q) == target_node_id[n] \in {0, q.node_id}

SameIndex(n, q) == q.value = target_register_index[n]

SameName(c, q) == q.name = c.name

\* Mutant: a SET_REGISTER_ACK to another node is taken.
AckForUs_Unchecked(n, q) == TRUE

AckForUs(n, q) == q.target = n

\* Is q what n waits for?
Answers(n, q, c) ==
    /\ FromTarget(n, q)
    /\ \/ state[n] = "PING" /\ q.type = "PONG"
       \/ state[n] = "GET_NUM_REGISTERS" /\ q.type = "NUM_REGISTERS"
       \/ state[n] = "GET_REGISTER_NAME" /\ q.type = "REGISTER_NAME" /\ SameIndex(n, q)
       \/ state[n] = "GET_REGISTER" /\ q.type = "REGISTER_VALUE" /\ SameName(c, q)
       \/ state[n] = "SET_REGISTER" /\ q.type = "SET_REGISTER_ACK" /\ AckForUs(n, q)

HandlePong(n, q, c) ==
    /\ q.type = "PONG"
    /\ presence_table' = [presence_table EXCEPT ![n] = @ \cup {q.node_id}]
    /\ register_cache' = [register_cache EXCEPT ![n] = c]
    /\ UNCHANGED <<state, request, outcome>>

\* The number of registers has a cache of its own.
HandleNumRegisters(n, q, c) ==
    /\ q.type = "NUM_REGISTERS"
    /\ Callback(n, "STATUS_OK", [c EXCEPT !.value = q.value], q.node_id)
    /\ register_cache' = [register_cache EXCEPT ![n] = c]

HandleRegisterName(n, q, c) ==
    /\ q.type = "REGISTER_NAME"
    /\ LET after == IF q.name = NoName THEN c ELSE [c EXCEPT !.name = q.name] IN
       /\ register_cache' = [register_cache EXCEPT ![n] = after]
       /\ Callback(n, IF q.name = NoName THEN "INVALID_REGISTER_INDEX"
                      ELSE "STATUS_OK", after, q.node_id)

HandleRegisterValue(n, q, c) ==
    /\ q.type = "REGISTER_VALUE"
    /\ LET after == IF q.name = NoName THEN c ELSE [name |-> q.name, value |-> q.value] IN
       /\ register_cache' = [register_cache EXCEPT ![n] = after]
       /\ Callback(n, IF q.name = NoName THEN "INVALID_REGISTER_RETURNED"
                      ELSE "STATUS_OK", after, q.node_id)

HandleSetRegisterAck(n, q, c) ==
    /\ q.type = "SET_REGISTER_ACK"
    /\ LET after == IF q.value = 1 THEN [c EXCEPT !.name = ErrorText] ELSE c IN
       /\ register_cache' = [register_cache EXCEPT ![n] = after]
       /\ Callback(n, IF q.value = 1 THEN "INVALID_REGISTER_VALUE"
                      ELSE "STATUS_OK", after, q.node_id)

NoAnswer(n, c) ==
    /\ register_cache' = [register_cache EXCEPT ![n] = c]
    /\ UNCHANGED <<state, request, outcome, presence_table>>

SeeAnswer(n, q, c) ==
    /\ IF Answers(n, q, c)
         THEN \/ HandlePong(n, q, c)
              \/ HandleNumRegisters(n, q, c)
              \/ HandleRegisterName(n, q, c)
              \/ HandleRegisterValue(n, q, c)
              \/ HandleSetRegisterAck(n, q, c)
         ELSE NoAnswer(n, c)
    /\ UNCHANGED <<target_node_id, target_register_index>>
-----------------------------------------------------------------------------
(* The handlers of requests.                                               *)

\* p passes the filter of n for requests.
NewRequest(n, p) == ~Handled(Expire(handled_packet_cache[n], p), p)

\* Is p a request that n handles?
Addressed(n, p) ==
    \/ p.type = "PING" /\ p.unique_id # n
    \/ p.type \in Directed /\ p.target = n
    \/ p.type \in {"GET_REGISTER", "SET_REGISTER"} /\ Serves(n, p.name)

\* Mutant: the cache is taken for full one entry too late.
RepeatCacheFull_Late(n) == Len(response_repeat_cache[n]) > MAX_REPEAT_CACHE_SIZE

RepeatCacheFull(n) == Len(response_repeat_cache[n]) = MAX_REPEAT_CACHE_SIZE

\* _A7105_Mesh_Append_Response_Repeat: what is needed to send r again, unless
\* there is no room.  A broadcast is kept too, by n's own register of that name.
AppendResponseRepeat(n, r) ==
    LET item == [op |-> r.type, count |-> 0, seq |-> r.seq,
                 data |-> CASE r.type \in {"REGISTER_NAME", "REGISTER_VALUE"}
                                  -> IndexOf(n, r.name)
                            [] r.type = "SET_REGISTER_ACK" -> r.target
                            [] OTHER -> 0]
    IN  response_repeat_cache' =
            [response_repeat_cache EXCEPT ![n] =
                 IF RepeatCacheFull(n) THEN @ ELSE Append(@, item)]

\* _A7105_Mesh_Handling_Request and _A7105_Mesh_Send_Response.  The handlers
\* of answers come next, and what they find in packet_cache is n's own r.
Respond(n, p, r, c) ==
    LET x == last_handled_packet_index[n] IN
    /\ handled_packet_cache' =
           [handled_packet_cache EXCEPT ![n] = Remember(Expire(@, p), x, p)]
    /\ last_handled_packet_index' = [last_handled_packet_index EXCEPT ![n] = NextSlot(x)]
    /\ AppendResponseRepeat(n, r)
    /\ ether' = ether \cup {r}
    /\ SeeAnswer(n, r, c)
    /\ UNCHANGED <<sequence_num, announced>>

Response(n, type, target, name, val) ==
    Packet(n, type, sequence_num[n], target, name, val)

HandlePing(n, p) ==
    /\ p.type = "PING"
    /\ Respond(n, p, Response(n, "PONG", 0, NoName, 0), register_cache[n])
    /\ UNCHANGED <<value, held, fates>>

HandleGetNumRegisters(n, p) ==
    /\ p.type = "GET_NUM_REGISTERS"
    /\ Respond(n, p, Response(n, "NUM_REGISTERS", 0, NoName, Len(Served[n])),
               register_cache[n])
    /\ UNCHANGED <<value, held, fates>>

\* For an index that n does not have, the packet keeps the zeros it was
\* prepared with: no name, and index 0.
HandleGetRegisterName(n, p) ==
    /\ p.type = "GET_REGISTER_NAME"
    /\ Respond(n, p, IF HasIndex(n, p.value)
                     THEN Response(n, "REGISTER_NAME", 0, Served[n][p.value + 1], p.value)
                     ELSE Response(n, "REGISTER_NAME", 0, NoName, 0),
               register_cache[n])
    /\ UNCHANGED <<value, held, fates>>

\* The register's get_callback may have brought its value up to date.
HandleGetRegister(n, p) ==
    /\ p.type = "GET_REGISTER"
    /\ LET i == IndexOf(n, p.name) + 1 IN
       \E v \in {value[n][i]} \cup Measured :
           /\ value' = [value EXCEPT ![n][i] = v]
           /\ held' = held \cup {<<n, p.name, v>>}
           /\ Respond(n, p, Response(n, "REGISTER_VALUE", 0, p.name, v),
                      register_cache[n])
    /\ UNCHANGED fates

\* There is no set_callback, or it has the value set: the register holds it.
ObeySetRegister(n, p) ==
    /\ p.type = "SET_REGISTER"
    /\ value' = [value EXCEPT ![n][IndexOf(n, p.name) + 1] = p.value]
    /\ held' = held \cup {<<n, p.name, p.value>>}
    /\ fates' = fates \cup {<<p, "stored">>}
    /\ Respond(n, p, Response(n, "SET_REGISTER_ACK", p.node_id, NoName, 0),
               register_cache[n])

\* The callback returns INVALID_REGISTER_VALUE, or the value does not fit: the
\* error message goes by way of n's register_cache, which is cleared after.
RejectSetRegister(n, p) ==
    /\ p.type = "SET_REGISTER"
    /\ Respond(n, p, Response(n, "SET_REGISTER_ACK", p.node_id, NoName, 1), Blank)
    /\ fates' = fates \cup {<<p, "rejected">>}
    /\ UNCHANGED <<value, held>>

\* The callback returns something it should not: the error message is written
\* into n's register_cache, but error_set is not set and it is not sent.
BogusSetRegister(n, p) ==
    /\ p.type = "SET_REGISTER"
    /\ Respond(n, p, Response(n, "SET_REGISTER_ACK", p.node_id, NoName, 0),
               [register_cache[n] EXCEPT !.name = ErrorText])
    /\ fates' = fates \cup {<<p, "bogus">>}
    /\ UNCHANGED <<value, held>>

ReceiveRequest(n) ==
    \E p \in ether :
        /\ Addressed(n, p)
        /\ NewRequest(n, p)
        /\ \/ HandlePing(n, p)
           \/ HandleGetNumRegisters(n, p)
           \/ HandleGetRegisterName(n, p)
           \/ HandleGetRegister(n, p)
           \/ ObeySetRegister(n, p)
           \/ RejectSetRegister(n, p)
           \/ BogusSetRegister(n, p)

\* Any other packet: what n remembers of its sender may expire, and it may be
\* the answer n waits for.  Or it is a broadcast with the register that n's
\* broadcast_cache is taken to hold already.
ReceiveOther(n) ==
    \E p \in ether :
        /\ ~(Addressed(n, p) /\ NewRequest(n, p))
        /\ handled_packet_cache' = [handled_packet_cache EXCEPT ![n] = Expire(@, p)]
        /\ SeeAnswer(n, p, register_cache[n])
        /\ UNCHANGED <<last_handled_packet_index, response_repeat_cache, value,
                       held, announced, fates, sequence_num, ether>>
-----------------------------------------------------------------------------
(* Broadcasts.                                                             *)

\* A7105_Mesh_Broadcast: n may be busy with a request.
Broadcast(n) ==
    \E b \in plan[n].says :
        LET r == BroadcastPacket(n, b.name, b.value) IN
        /\ ~BadRegister(b)
        /\ sequence_num[n] < plan[n].often
        /\ sequence_num' = [sequence_num EXCEPT ![n] = (@ + 1) % SEQ_RANGE]
        /\ AppendResponseRepeat(n, r)
        /\ ether' = ether \cup {r}
        /\ announced' = announced \cup {[node |-> n, name |-> b.name, value |-> b.value]}
        /\ UNCHANGED <<clientVars, handled_packet_cache, last_handled_packet_index,
                       value, held, fates>>

\* n waits for an answer, and the broadcast may be taken for it; n's
\* application also hears of it, and it is remembered like a request.
HandleBroadcast(n) ==
    \E p \in ether :
        LET x == last_handled_packet_index[n] IN
        /\ p.type = "REGISTER_VALUE"
        /\ p.node_id = 0
        /\ n \in Listeners
        /\ NewRequest(n, p)
        /\ SeeAnswer(n, p, register_cache[n])
        /\ handled_packet_cache' =
               [handled_packet_cache EXCEPT ![n] = Remember(Expire(@, p), x, p)]
        /\ last_handled_packet_index' =
               [last_handled_packet_index EXCEPT ![n] = NextSlot(x)]
        /\ UNCHANGED <<response_repeat_cache, value, held, announced, fates,
                       sequence_num, ether>>
-----------------------------------------------------------------------------
(* The response repeater.                                                  *)

\* Mutant: the last of the entries with the fewest repeats is selected.
Selected_Last(c) ==
    CHOOSE i \in DOMAIN c :
        /\ \A j \in DOMAIN c : c[i].count <= c[j].count
        /\ \A j \in (i + 1)..Len(c) : c[i].count < c[j].count

\* The first of the entries with the fewest repeats.
Selected(c) ==
    CHOOSE i \in DOMAIN c :
        /\ \A j \in DOMAIN c : c[i].count <= c[j].count
        /\ \A j \in 1..(i - 1) : c[i].count < c[j].count

\* _A7105_Mesh_Response_Repeat_Cache_Packet_Prep.  For the reply to an index
\* that n does not have, and for a broadcast of a register that n does not
\* serve, registers[255] is read.  The repeats of a broadcast are no broadcasts:
\* they bear n's node id, and what its register holds, not what was broadcast.
\* The error message of a SET_REGISTER_ACK is not kept.
RepeatPackets(n, item) ==
    LET r(target, name, val) == Packet(n, item.op, item.seq, target, name, val) IN
    CASE item.op = "PONG" -> {r(0, NoName, 0)}
      [] item.op = "NUM_REGISTERS" -> {r(0, NoName, Len(Served[n]))}
      [] item.op = "REGISTER_NAME" /\ item.data = NO_INDEX
             -> {r(0, f.name, NO_INDEX) : f \in Found}
      [] item.op = "REGISTER_NAME" /\ item.data # NO_INDEX
             -> {r(0, Served[n][item.data + 1], item.data)}
      [] item.op = "REGISTER_VALUE" /\ item.data = NO_INDEX
             -> {r(0, f.name, f.value) : f \in Found}
      [] item.op = "REGISTER_VALUE" /\ item.data # NO_INDEX
             -> {r(0, Served[n][item.data + 1], value[n][item.data + 1])}
      [] item.op = "SET_REGISTER_ACK" -> {r(item.data, NoName, 0)}

\* _A7105_Mesh_Update_Response_Repeats; only the oldest entry is ever dropped.
RepeatResponse(n) ==
    LET c == response_repeat_cache[n]
        i == Selected(c)
        counted == [c EXCEPT ![i].count = @ + 1]
    IN  /\ c # <<>>
        /\ \E r \in RepeatPackets(n, c[i]) : ether' = ether \cup {r}
        /\ response_repeat_cache' =
               [response_repeat_cache EXCEPT ![n] =
                    IF counted[1].count >= RESPONSE_MAX_REPEAT
                    THEN Tail(counted) ELSE counted]
        /\ UNCHANGED <<clientVars, handled_packet_cache, last_handled_packet_index,
                       value, held, announced, fates, sequence_num>>

Next ==
    /\ \E n \in Node : \/ Ping(n)
                       \/ GetNumRegisters(n)
                       \/ GetRegisterName(n)
                       \/ GetRegister(n)
                       \/ SetRegister(n)
                       \/ Timeout(n)
                       \/ PingOver(n)
                       \/ ReceiveRequest(n)
                       \/ ReceiveOther(n)
                       \/ Broadcast(n)
                       \/ HandleBroadcast(n)
                       \/ RepeatResponse(n)
    /\ UNCHANGED plan

Spec == Init /\ [][Next]_requestVars
-----------------------------------------------------------------------------
(* Properties.                                                             *)

PacketTypes == Operations \cup {"PONG", "NUM_REGISTERS", "REGISTER_NAME",
                                "REGISTER_VALUE", "SET_REGISTER_ACK"}

Packets ==
    {p \in [type : PacketTypes, seq : Seqs, node_id : Node \cup {0}, unique_id : Node,
            target : Node \cup {0}, name : Text, value : Nat] :
        p.node_id = 0 => p.type = "REGISTER_VALUE"}

RepeatItems == [op : PacketTypes \ Operations, count : 0..(RESPONSE_MAX_REPEAT - 1),
                seq : Seqs, data : Nat]

Statuses == {"none", "STATUS_OK", "TIMEOUT", "INVALID_REGISTER_INDEX",
             "INVALID_REGISTER_RETURNED", "INVALID_REGISTER_VALUE"}

TypeOK ==
    /\ state \in [Node -> States]
    /\ sequence_num \in [Node -> Seqs]
    /\ target_node_id \in [Node -> Node \cup {0}]
    /\ target_register_index \in [Node -> Nat]
    /\ register_cache \in [Node -> [name : Text, value : Nat]]
    /\ presence_table \in [Node -> SUBSET Node]
    /\ last_handled_packet_index \in [Node -> Slots]
    /\ response_repeat_cache \in [Node -> Seq(RepeatItems)]
    /\ DOMAIN value = Node
    /\ \A n \in Node : /\ value[n] \in [DOMAIN Served[n] -> Values \cup {0}]
                       /\ Len(response_repeat_cache[n]) <= MAX_REPEAT_CACHE_SIZE
    /\ ether \subseteq Packets
    /\ plan \in Plans
    /\ request \in [Node -> Questions \cup {NoRequest}]
    /\ outcome \in [Node -> [request : Questions \cup {NoRequest}, status : Statuses,
                             name : Text, value : Nat, responder : Node \cup {0}]]

\* The oldest response is always the most repeated one, so that it is enough
\* to look at the oldest when room is made: no response is repeated more than
\* RESPONSE_MAX_REPEAT times.  (The comment at a7105_mesh.cpp:1500-1502.)
RepeatsOrdered ==
    \A n \in Node : LET c == response_repeat_cache[n] IN
        \A i, j \in DOMAIN c : i < j => c[i].count >= c[j].count

\* a says that r has broadcast a register it does not serve: what r sends as the
\* repeats of that are bytes from beyond its registers.
Astray(r, a) == \E b \in a : b.node = r /\ ~Serves(r, b.name)

\* Where the value a node gets may come from: h is what registers have held, and
\* a what has been broadcast.
GotValue(o, h, a) ==
    \/ /\ o.name = o.request.name
       /\ \/ <<o.responder, o.name, o.value>> \in h
          \/ o.responder = 0 /\ \E b \in a : b.name = o.name /\ b.value = o.value
    \/ Astray(o.responder, a)

\* What a node is told in answer to a query is, or was, so: the number of the
\* target's registers, the name under the index it asked for, and a value that
\* the register of the node named in responder_node_id held.  Only a broadcast,
\* which is an answer as good as any to a GET_REGISTER that is running and has
\* responder 0, may say what no register ever held; and nothing is to be relied
\* on that comes from a node that broadcasts registers it does not serve.
\* Answers may be old, repeated, or meant for somebody else's question, and the
\* caches are shared with the requests the node serves meanwhile.
AnswersTrue ==
    \A n \in Node : LET o == outcome[n]  q == o.request IN
        o.status = "STATUS_OK" =>
            /\ q.type = "GET_NUM_REGISTERS" => o.value = Len(Served[q.target])
            /\ q.type = "GET_REGISTER_NAME" =>
                   HasIndex(q.target, q.value) /\ o.name = Served[q.target][q.value + 1]
            /\ q.type = "GET_REGISTER" => GotValue(o, held, announced)

\* Whoever gets a register gets a value that it held, which is not so.
AnswersHeld ==
    \A n \in Node : LET o == outcome[n] IN
        o.status = "STATUS_OK" /\ o.request.type = "GET_REGISTER" =>
            \E m \in Node : <<m, o.request.name, o.value>> \in held

\* A node that is told of the fate of a SET_REGISTER has sent one that met
\* such a fate: the error was one of its own, and a success means that its
\* request got to a node that serves the register.
SetAnswered ==
    \A n \in Node : LET o == outcome[n] IN
        o.request.type = "SET_REGISTER" =>
            /\ o.status \in {"STATUS_OK", "INVALID_REGISTER_VALUE"} =>
                   \E f \in fates : f[1].node_id = n
            /\ o.status = "INVALID_REGISTER_VALUE" =>
                   \E f \in fates : f[1].node_id = n /\ f[2] = "rejected"

\* What a7105_mesh.h:574-576 guarantees: when SetRegister is successful, the
\* register has been set to the value of this request (provided that the
\* set_callbacks return what they should).
SetOkStored ==
    (\A f \in fates : f[2] # "bogus") =>
        \A n \in Node : LET o == outcome[n] IN
            o.request.type = "SET_REGISTER" /\ o.status = "STATUS_OK" =>
                \E f \in fates : /\ f[1].node_id = n
                                 /\ f[1].name = o.request.name
                                 /\ f[1].value = o.request.value
                                 /\ f[2] = "stored"

\* What the comment at a7105_mesh.cpp:1038-1039 relies on: while a GET_REGISTER
\* runs, register_cache holds the name that was asked for.
RequestedNameKept ==
    \A n \in Node :
        state[n] = "GET_REGISTER" /\ request[n] # NoRequest =>
            register_cache[n].name = request[n].name
=============================================================================
