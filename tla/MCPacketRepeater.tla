-------------------------- MODULE MCPacketRepeater --------------------------
(* A small instance of PacketRepeater for TLC: four nodes in a row, of     *)
(* which only neighbours hear each other; the last is not on the mesh yet. *)
EXTENDS PacketRepeater

MCNode == 1..4

MCJoined == 1..3

MCHears == [n \in MCNode |-> {n - 1, n + 1} \cap MCNode]

MCServes == [n \in MCNode |-> IF n = 3 THEN {"r"} ELSE {}]

Sent(n, type, seq, target, name) ==
    [Zeroed EXCEPT !.type = type, !.seq = seq, !.node_id = n, !.unique_id = n,
                   !.target = target, !.name = name]

Broadcast(n, seq) ==
    [Zeroed EXCEPT !.type = "REGISTER_VALUE", !.seq = seq, !.unique_id = n, !.name = "r"]

MCPlans ==
    { {Broadcast(1, 0), Broadcast(1, 1)},
      {Sent(1, "PING", 0, 0, ""), Broadcast(3, 0)},
      {Sent(1, "GET_NUM_REGISTERS", 0, 3, ""), Sent(3, "NUM_REGISTERS", 0, 0, "")},
      {Sent(1, "GET_REGISTER", 0, 0, "r"), Sent(3, "SET_REGISTER_ACK", 0, 1, "")},
      {Sent(4, "JOIN", 0, 0, ""), Sent(1, "PING", 0, 0, "")},
      {Sent(1, "PING", 0, 0, ""), Sent(1, "GET_REGISTER", 1, 0, "r"),
       Sent(1, "GET_NUM_REGISTERS", 2, 3, "")} }
=============================================================================
