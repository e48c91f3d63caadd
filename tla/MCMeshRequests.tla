--------------------------- MODULE MCMeshRequests ---------------------------
(* Small instances of MeshRequests.                                         *)
EXTENDS MeshRequests, TLC

Asks(type, target, name, val) ==
    [type |-> type, target |-> target, name |-> name, value |-> val]

TwoNodes == {1, 2}

\* Both nodes serve registers; node 2 serves two.
BothServe == 1 :> <<"fog">> @@ 2 :> <<"motion", "fan">>

Texts == {NoName, ErrorText, "fog", "motion", "fan"}

Nothing == [asks |-> {}, says |-> {}, often |-> 0]

\* Node 1 makes two requests, one after the other: for node 2's register names,
\* one of them under an index it does not have, for a value, once without a
\* register name, for a register to be set; or it looks for the other nodes.
InSequence ==
    1 :> [asks |-> {Asks("PING", 0, NoName, 0),
                    Asks("GET_NUM_REGISTERS", 2, NoName, 0),
                    Asks("GET_REGISTER_NAME", 2, NoName, 0),
                    Asks("GET_REGISTER_NAME", 2, NoName, 2),
                    Asks("GET_REGISTER", 0, "motion", 0),
                    Asks("GET_REGISTER", 0, NoName, 0),
                    Asks("SET_REGISTER", 0, "motion", 1)},
          says |-> {}, often |-> 2]
    @@ 2 :> Nothing

GetOrSet(name) == [asks |-> {Asks("GET_REGISTER", 0, name, 0), Asks("SET_REGISTER", 0, name, 1)},
                   says |-> {}, often |-> 1]

\* Both nodes get or set a register of the other, and serve meanwhile.
Crossing == 1 :> GetOrSet("motion") @@ 2 :> GetOrSet("fog")

Says(name, val) == [name |-> name, value |-> val]

\* Node 1 gets a register, and may broadcast it, which it does not serve; node 2,
\* which serves it, broadcasts it with a value that it does not hold.
Announcing ==
    1 :> [asks |-> {Asks("GET_REGISTER", 0, "motion", 0)},
          says |-> {Says("motion", 2)}, often |-> 2]
    @@ 2 :> [asks |-> {}, says |-> {Says("motion", 2)}, often |-> 1]

\* What lies beyond the registers may pass for an empty register, for one with
\* a name that no register has, or for one of those there are.
Bytes == {Blank, Says(ErrorText, 3), Says("motion", 3)}

BothPlans == {InSequence, Crossing, Announcing}

AnnouncingOnly == {Announcing}

CrossingOnly == {Crossing}
=============================================================================
