----------------------------- MODULE NamingProofs -----------------------------
(***************************************************************************)
(* Proofs about MeshNaming and TimedNaming, for every number of boots,     *)
(* every assignment of unique ids (equal ones included), every width of a  *)
(* node id, all delays and any number of losses.                           *)
(*                                                                         *)
(* MeshNaming: NoGaps alone is not inductive: whether a node may move up   *)
(* depends on a packet, so the invariant must say what a packet in the air *)
(* still means.  NamingInv adds that to it.                                *)
(*                                                                         *)
(* TimedNaming: with its clocks and deliveries it is an instance of        *)
(* MeshNaming, so that what is proved there holds here.  For that a packet *)
(* on its way must have been sent: due holds packets of the ether only.  A *)
(* joining node sends its JOIN again, so the ether must have had it        *)
(* before, which is JoinsSent.  Where there is time enough for the losses  *)
(* (EnoughTime), no two nodes keep the same id: UniqueInv says how old two *)
(* claims of one id can be before one of them has been given up.           *)
(***************************************************************************)
EXTENDS TimedNaming, FiniteSetTheorems, TLAPS

NamingInv == TypeOK /\ NoGaps /\ JoinsBacked /\ ConflictsBacked

\* A claimant of id that n gives way to for good reason.
Outranks(m, n) == Settled(m) \/ unique_id[m] > unique_id[n]

-----------------------------------------------------------------------------
(* The successor of a node id is a node id, and is 0 only after the last.  *)
LEMMA SuccessorType ==
    ASSUME NEW id \in NodeIds
    PROVE  /\ Successor(id) \in NodeIds
           /\ Successor(id) = IF id = ID_RANGE - 1 THEN 0 ELSE id + 1
  BY IdRangeNat DEF NodeIds, Successor

(* The ids in a packet are numbers, so they can be compared.               *)
LEMMA PacketFields ==
    ASSUME NEW p \in Packets
    PROVE  p.node_id \in NodeIds /\ p.node_id \in Int /\ p.unique_id \in Nat
<1>1. p.node_id \in NodeIds /\ p.unique_id \in UniqueIds
  BY DEF Packets
<1>2. p.node_id \in Int
  BY <1>1, IdRangeNat DEF NodeIds
<1>3. p.unique_id \in Nat
  BY <1>1, UniqueIdsNat
<1> QED BY <1>1, <1>2, <1>3

(* Every action keeps the types; in particular the packets a node builds   *)
(* from its own fields are packets.                                        *)
LEMMA TypeStep ==
    ASSUME TypeOK, [Next]_namingVars
    PROVE  TypeOK'
<1>0. /\ FirstId \in NodeIds /\ BroadcastId \in NodeIds
      /\ \A n \in Node : Successor(node_id[n]) \in NodeIds
  BY IdRangeNat, SuccessorType DEF TypeOK, NodeIds, FirstId, BroadcastId
<1>1. \A n \in Node, id \in NodeIds, t \in PacketTypes : Header(t, id, n) \in Packets
  BY DEF TypeOK, Header, Packets
<1>2. \A n \in Node, id \in NodeIds, b \in BOOLEAN : JoinAs(n, id, b) => TypeOK'
  BY <1>1 DEF JoinAs, TypeOK, States, PacketTypes
<1>3. CASE \E n \in Node : Join(n)
  BY <1>0, <1>2, <1>3 DEF Join
<1>4. CASE \E n \in Node : AcceptJoin(n)
  BY <1>1, <1>4 DEF AcceptJoin, TypeOK, States, PacketTypes
<1>5. CASE \E n \in Node : StartOperation(n)
  BY <1>1, <1>5 DEF StartOperation, TypeOK, States, PacketTypes
<1>6. CASE \E n \in Node : FinishOperation(n)
  BY <1>6 DEF FinishOperation, TypeOK, States
<1>7. CASE \E n \in Node : Transmit(n)
  BY <1>0, <1>1, <1>7 DEF Transmit, TypeOK, PacketTypes
<1>8. CASE \E n \in Node : Receive(n)
  <2>1. PICK n \in Node, p \in ether : \/ SendConflict(n, p)
                                       \/ HandleConflictName(n, p)
                                       \/ HandleDeferredJoining(n, p)
    BY <1>8 DEF Receive
  <2>2. CASE SendConflict(n, p)
    BY <1>1, <2>2 DEF SendConflict, TypeOK, PacketTypes
  <2>3. CASE HandleConflictName(n, p)
    BY <1>0, <1>2, <2>3 DEF HandleConflictName, RejoinId
  <2>4. CASE HandleDeferredJoining(n, p)
    BY <1>0, <1>2, <2>4 DEF HandleDeferredJoining
  <2> QED BY <2>1, <2>2, <2>3, <2>4
<1>9. CASE \E n \in Node : Leave(n)
  BY <1>9 DEF Leave, TypeOK, States
<1>10. CASE UNCHANGED namingVars
  BY <1>10 DEF namingVars, TypeOK
<1> QED BY <1>3, <1>4, <1>5, <1>6, <1>7, <1>8, <1>9, <1>10 DEF Next

(* TypeOK is an invariant.                                                 *)
THEOREM TypeCorrect == Spec => []TypeOK
<1>1. Init => TypeOK
  BY IdRangeNat DEF Init, TypeOK, States, NodeIds, BroadcastId
<1> QED BY <1>1, TypeStep, PTL DEF Spec
-----------------------------------------------------------------------------
(* What makes a joining node give its id up still holds when it does so:   *)
(* some other boot claims the id and outranks the node.  A JOIN that names *)
(* a higher unique id has a claimant behind it at least as high, and a     *)
(* CONFLICT_NAME has its settled sender behind it.  A node that has joined *)
(* never moves, because it answers with a CONFLICT_NAME instead.           *)
LEMMA MoverIsOutranked ==
    ASSUME NamingInv, NEW n \in Node, NEW p \in ether,
           HandleConflictName(n, p) \/ HandleDeferredJoining(n, p)
    PROVE  /\ JoinAs(n, Successor(node_id[n]), FALSE)
           /\ state[n] = "JOINING"
           /\ \E m \in Node \ {n} : Claims(m, node_id[n]) /\ Outranks(m, n)
<1> USE DEF NamingInv
<1>1. p \in Packets
  BY DEF TypeOK
<1>2. CASE HandleConflictName(n, p)
  <2>1. state[n] = "JOINING" /\ RejoinId(n) = Successor(node_id[n])
    BY <1>2 DEF HandleConflictName, NeedToRejoin, NodeIdConflict, RejoinId
  <2>2. PICK m \in Node : /\ Claims(m, p.node_id)
                          /\ Settled(m)
                          /\ unique_id[m] = p.unique_id
    BY <1>2 DEF HandleConflictName, NeedToRejoin, ConflictsBacked
  <2>3. m # n /\ Claims(m, node_id[n])
    BY <1>2, <2>1, <2>2 DEF HandleConflictName, NeedToRejoin, Settled, Joined
  <2> QED BY <1>2, <2>1, <2>2, <2>3 DEF HandleConflictName, Outranks
<1>3. CASE HandleDeferredJoining(n, p)
  <2>1. state[n] = "JOINING" /\ JoinAs(n, Successor(node_id[n]), FALSE)
    BY <1>3 DEF HandleDeferredJoining, Defers
  <2>2. PICK m \in Node : /\ Claims(m, p.node_id)
                          /\ Settled(m) \/ unique_id[m] >= p.unique_id
    BY <1>3 DEF HandleDeferredJoining, Defers, JoinsBacked
  <2>3. /\ p.node_id = node_id[n] /\ p.unique_id > unique_id[n]
        /\ unique_id[n] \in Nat /\ unique_id[m] \in Nat /\ p.unique_id \in Nat
    BY <1>1, <1>3, UniqueIdsNat DEF HandleDeferredJoining, Defers, TypeOK, Packets
  <2>4. Outranks(m, n)
    BY <2>2, <2>3 DEF Outranks
  <2>5. m # n
    BY <2>1, <2>2, <2>3 DEF Settled, Joined
  <2> QED BY <2>1, <2>2, <2>3, <2>4, <2>5
<1> QED BY <1>2, <1>3

(* A joining node that moves one id up, leaving a claimant who outranks it *)
(* behind, leaves no gap and takes nobody's backing away.                  *)
LEMMA MoveKeepsInv ==
    ASSUME NamingInv, TypeOK', NEW n \in Node, NEW m \in Node \ {n},
           state[n] = "JOINING",
           Claims(m, node_id[n]), Outranks(m, n),
           JoinAs(n, Successor(node_id[n]), FALSE)
    PROVE  NoGaps' /\ JoinsBacked' /\ ConflictsBacked'
<1> USE DEF NamingInv
<1>0. PICK i, j : i = node_id[n] /\ j = Successor(node_id[n])
  OBVIOUS
<1>1. /\ i \in NodeIds /\ j \in NodeIds
      /\ j = IF i = ID_RANGE - 1 THEN 0 ELSE i + 1
  BY <1>0, SuccessorType DEF TypeOK
<1>2. /\ state'[n] = "JOINING" /\ node_id'[n] = j
      /\ \A k \in Node \ {n} : state'[k] = state[k] /\ node_id'[k] = node_id[k]
      /\ unique_id' = unique_id
      /\ ether' = ether \cup {Header("JOIN", j, n)}
  BY <1>0 DEF JoinAs, TypeOK
<1>3. \A k \in Node \ {n}, id \in Int : Claims(k, id) => Claims(k, id)'
  BY <1>2 DEF Claims, Participating
<1>4. \A k \in Node \ {n} : Settled(k) => Settled(k)'
  BY <1>2 DEF Settled, Joined
<1>5. Claims(m, i)'
  BY <1>0, <1>1, <1>3 DEF NodeIds
<1>6. NoGaps'
  <2> SUFFICES ASSUME NEW k \in Node, Participating(k)',
                      NEW id \in 1..(node_id'[k] - 1)
               PROVE  \E c \in Node : Claims(c, id)'
    BY DEF NoGaps
  <2>1. CASE id = i
    BY <1>5, <2>1
  <2>2. CASE id # i
    <3>1. Participating(n) /\ Participating(k)
      BY <1>2 DEF Participating
    <3>2. k # n => id \in 1..(node_id[k] - 1)
      BY <1>2
    <3>3. k = n => id \in 1..(node_id[n] - 1)
      BY <1>0, <1>1, <1>2, <2>2 DEF NodeIds
    <3>4. PICK c \in Node : Claims(c, id)
      BY <3>1, <3>2, <3>3 DEF NoGaps
    <3>5. c # n
      BY <1>0, <2>2, <3>4 DEF Claims
    <3> QED BY <1>3, <3>4, <3>5
  <2> QED BY <2>1, <2>2
<1>7. JoinsBacked'
  <2> SUFFICES ASSUME NEW p \in ether', p.type = "JOIN"
               PROVE  \E c \in Node : /\ Claims(c, p.node_id)'
                                      /\ Settled(c)' \/ unique_id'[c] >= p.unique_id
    BY DEF JoinsBacked
  <2>1. CASE p \in ether
    <3>1. PICK c \in Node : /\ Claims(c, p.node_id)
                            /\ Settled(c) \/ unique_id[c] >= p.unique_id
      BY <2>1 DEF JoinsBacked
    <3>2. p.node_id \in Int /\ p.unique_id \in Nat
      <4>1. p \in Packets
        BY <2>1 DEF TypeOK
      <4> QED BY <4>1, PacketFields
    <3>3. CASE c # n
      BY <1>2, <1>3, <1>4, <3>1, <3>2, <3>3
    <3>4. CASE c = n
      <4>1. p.node_id = i /\ unique_id[n] >= p.unique_id
        BY <1>0, <3>1, <3>4 DEF Claims, Settled, Joined
      <4>2. Settled(m)' \/ unique_id'[m] >= p.unique_id
        <5>1. unique_id[m] \in Nat /\ unique_id[n] \in Nat
          BY UniqueIdsNat DEF TypeOK
        <5> QED BY <1>2, <1>4, <3>2, <4>1, <5>1 DEF Outranks
      <4> QED BY <1>5, <4>1, <4>2
    <3> QED BY <3>3, <3>4
  <2>2. CASE p = Header("JOIN", j, n)
    <3>1. p.node_id = j /\ p.unique_id = unique_id[n]
      BY <2>2 DEF Header
    <3>2. Claims(n, j)'
      BY <1>2 DEF Claims, Participating
    <3>3. unique_id'[n] >= p.unique_id
      <4>1. unique_id[n] \in Nat
        BY UniqueIdsNat DEF TypeOK
      <4> QED BY <1>2, <3>1, <4>1
    <3> QED BY <3>1, <3>2, <3>3
  <2> QED BY <1>2, <2>1, <2>2
<1>8. ConflictsBacked'
  <2> SUFFICES ASSUME NEW p \in ether', p.type = "CONFLICT_NAME"
               PROVE  \E c \in Node : /\ Claims(c, p.node_id)'
                                      /\ Settled(c)'
                                      /\ unique_id'[c] = p.unique_id
    BY DEF ConflictsBacked
  <2>1. p \in ether
    BY <1>2 DEF Header
  <2>2. PICK c \in Node : /\ Claims(c, p.node_id)
                          /\ Settled(c)
                          /\ unique_id[c] = p.unique_id
    BY <2>1 DEF ConflictsBacked
  <2>3. c # n /\ p.node_id \in Int
    BY <2>1, <2>2 DEF Settled, Joined, TypeOK, Packets, NodeIds
  <2> QED BY <1>2, <1>3, <1>4, <2>2, <2>3
<1> QED BY <1>6, <1>7, <1>8

(* Every other step only adds claims and settles claimants; it keeps the   *)
(* invariant if the packets it sends are backed by their sender.           *)
LEMMA GrowthKeepsInv ==
    ASSUME NamingInv,
           unique_id' = unique_id,
           \A k \in Node, id \in Int : Claims(k, id) => Claims(k, id)',
           \A k \in Node : Settled(k) => Settled(k)',
           \A k \in Node : Participating(k)' =>
               \/ Participating(k) /\ node_id'[k] = node_id[k]
               \/ node_id'[k] = FirstId,
           \A p \in ether' : p \notin ether =>
               /\ p.type \in {"JOIN", "CONFLICT_NAME"} =>
                      \E c \in Node : /\ Claims(c, p.node_id)'
                                      /\ unique_id'[c] = p.unique_id
                                      /\ unique_id'[c] >= p.unique_id
                                      /\ p.type = "CONFLICT_NAME" => Settled(c)'
    PROVE  NoGaps' /\ JoinsBacked' /\ ConflictsBacked'
<1> USE DEF NamingInv
<1>1. NoGaps'
  <2> SUFFICES ASSUME NEW k \in Node, Participating(k)',
                      NEW id \in 1..(node_id'[k] - 1)
               PROVE  \E c \in Node : Claims(c, id)'
    BY DEF NoGaps
  <2>1. Participating(k) /\ node_id'[k] = node_id[k]
    BY DEF FirstId
  <2>2. PICK c \in Node : Claims(c, id)
    BY <2>1 DEF NoGaps
  <2> QED BY <2>2
<1>2. JoinsBacked'
  <2> SUFFICES ASSUME NEW p \in ether', p.type = "JOIN"
               PROVE  \E c \in Node : /\ Claims(c, p.node_id)'
                                      /\ Settled(c)' \/ unique_id'[c] >= p.unique_id
    BY DEF JoinsBacked
  <2>1. CASE p \in ether
    <3>1. p.node_id \in Int
      BY <2>1, PacketFields DEF TypeOK
    <3> QED BY <2>1, <3>1 DEF JoinsBacked
  <2> QED BY <2>1
<1>3. ConflictsBacked'
  <2> SUFFICES ASSUME NEW p \in ether', p.type = "CONFLICT_NAME"
               PROVE  \E c \in Node : /\ Claims(c, p.node_id)'
                                      /\ Settled(c)'
                                      /\ unique_id'[c] = p.unique_id
    BY DEF ConflictsBacked
  <2>1. CASE p \in ether
    <3>1. p.node_id \in Int
      BY <2>1, PacketFields DEF TypeOK
    <3> QED BY <2>1, <3>1 DEF ConflictsBacked
  <2> QED BY <2>1
<1> QED BY <1>1, <1>2, <1>3

(* NamingInv is inductive.                                                 *)
LEMMA NamingInvStep ==
    ASSUME NamingInv, TypeOK', [Next]_namingVars
    PROVE  NamingInv'
<1> USE DEF NamingInv
<1>0. \A k \in Node : unique_id[k] >= unique_id[k] /\ node_id[k] \in Int
  <2> SUFFICES ASSUME NEW k \in Node
               PROVE  unique_id[k] >= unique_id[k] /\ node_id[k] \in Int
    OBVIOUS
  <2>1. unique_id[k] \in Nat
    BY UniqueIdsNat DEF TypeOK
  <2> QED BY <2>1, IdRangeNat DEF TypeOK, NodeIds
<1>1. ASSUME NEW n \in Node, Join(n)
      PROVE  NoGaps' /\ JoinsBacked' /\ ConflictsBacked'
  <2>1. /\ state[n] = "NOT_JOINED" /\ state'[n] = "JOINING" /\ node_id'[n] = FirstId
        /\ \A k \in Node \ {n} : state'[k] = state[k] /\ node_id'[k] = node_id[k]
        /\ unique_id' = unique_id
        /\ ether' = ether \cup {Header("JOIN", FirstId, n)}
    BY <1>1 DEF Join, JoinAs, TypeOK
  <2>2. \A k \in Node, id \in Int : Claims(k, id) => Claims(k, id)'
    BY <2>1 DEF Claims, Participating
  <2>3. \A k \in Node : Settled(k) => Settled(k)'
    BY <2>1 DEF Settled, Joined
  <2>4. \A k \in Node : Participating(k)' =>
            \/ Participating(k) /\ node_id'[k] = node_id[k]
            \/ node_id'[k] = FirstId
    BY <2>1 DEF Participating
  <2>5. \A p \in ether' : p \notin ether =>
            /\ Claims(n, p.node_id)' /\ unique_id'[n] = p.unique_id
            /\ unique_id'[n] >= p.unique_id /\ p.type = "JOIN"
    BY <1>0, <2>1 DEF Claims, Participating, Header
  <2> QED BY <2>1, <2>2, <2>3, <2>4, <2>5, GrowthKeepsInv
<1>2. ASSUME NEW n \in Node, AcceptJoin(n) \/ StartOperation(n) \/ FinishOperation(n)
                             \/ Transmit(n) \/ Leave(n)
      PROVE  NoGaps' /\ JoinsBacked' /\ ConflictsBacked'
  <2>1. /\ node_id' = node_id /\ unique_id' = unique_id
        /\ state[n] # "NOT_JOINED" /\ state'[n] # "NOT_JOINED"
        /\ Settled(n) => Settled(n)'
        /\ \A k \in Node \ {n} : state'[k] = state[k]
        /\ \A p \in ether' : p \notin ether => p.type = "DATA"
    BY <1>2 DEF AcceptJoin, StartOperation, FinishOperation, Transmit, Leave,
                Header, Settled, Joined, TypeOK
  <2>2. \A k \in Node, id \in Int : Claims(k, id) => Claims(k, id)'
    BY <2>1 DEF Claims, Participating
  <2>3. \A k \in Node : Settled(k) => Settled(k)'
    BY <2>1 DEF Settled, Joined
  <2>4. \A k \in Node : Participating(k)' =>
            \/ Participating(k) /\ node_id'[k] = node_id[k]
            \/ node_id'[k] = FirstId
    BY <2>1 DEF Participating
  <2> QED BY <2>1, <2>2, <2>3, <2>4, GrowthKeepsInv
<1>3. ASSUME NEW n \in Node, NEW p \in ether, SendConflict(n, p)
      PROVE  NoGaps' /\ JoinsBacked' /\ ConflictsBacked'
  <2>1. /\ UNCHANGED <<state, node_id, unique_id>>
        /\ ether' = ether \cup {Header("CONFLICT_NAME", node_id[n], n)}
        /\ Joined(n)
    BY <1>3 DEF SendConflict, NodeIdConflict
  <2>2. \A k \in Node, id \in Int : Claims(k, id) => Claims(k, id)'
    BY <2>1 DEF Claims, Participating
  <2>3. \A k \in Node : Settled(k) => Settled(k)'
    BY <2>1 DEF Settled, Joined
  <2>4. \A k \in Node : Participating(k)' =>
            Participating(k) /\ node_id'[k] = node_id[k]
    BY <2>1 DEF Participating
  <2>5. \A q \in ether' : q \notin ether =>
            /\ Claims(n, q.node_id)' /\ unique_id'[n] = q.unique_id
            /\ unique_id'[n] >= q.unique_id /\ Settled(n)'
    BY <1>0, <2>1 DEF Claims, Participating, Header, Settled, Joined
  <2> QED BY <2>1, <2>2, <2>3, <2>4, <2>5, GrowthKeepsInv
<1>4. ASSUME NEW n \in Node, NEW p \in ether,
             HandleConflictName(n, p) \/ HandleDeferredJoining(n, p)
      PROVE  NoGaps' /\ JoinsBacked' /\ ConflictsBacked'
  BY <1>4, MoverIsOutranked, MoveKeepsInv
<1>5. ASSUME UNCHANGED namingVars
      PROVE  NoGaps' /\ JoinsBacked' /\ ConflictsBacked'
  BY <1>5 DEF namingVars, NoGaps, JoinsBacked, ConflictsBacked, Claims,
              Participating, Settled, Joined
<1> QED BY <1>1, <1>2, <1>3, <1>4, <1>5 DEF Next, Receive

(* The naming invariant holds in every reachable state.                    *)
THEOREM NamingInvariant == Spec => []NamingInv
<1>1. Init => NamingInv
  <2>1. Init => TypeOK
    BY IdRangeNat DEF Init, TypeOK, States, NodeIds, BroadcastId
  <2> QED BY <2>1 DEF Init, NamingInv, NoGaps, JoinsBacked, ConflictsBacked,
                      Participating
<1>2. NamingInv /\ TypeOK' /\ [Next]_namingVars => NamingInv'
  BY NamingInvStep
<1> QED BY <1>1, <1>2, TypeCorrect, PTL DEF Spec

(* NoGaps: a node passes an id by only if some boot claims it, whatever    *)
(* the medium does to the packets.                                         *)
THEOREM NoGapsHolds == Spec => []NoGaps
  BY NamingInvariant, PTL DEF NamingInv

(* JoinedIdPermanent: no step changes the id of a node that has joined, or *)
(* makes it join again.                                                    *)
THEOREM JoinedKeepsId == Spec => JoinedIdPermanent
<1>1. NamingInv /\ [Next]_namingVars =>
          [\A n \in Node : Joined(n) =>
               /\ node_id'[n] = node_id[n]
               /\ state'[n] \in {"IDLE", "BUSY", "LEFT"}]_namingVars
  <2> SUFFICES ASSUME NamingInv, Next, NEW k \in Node, Joined(k)
               PROVE  node_id'[k] = node_id[k] /\ state'[k] \in {"IDLE", "BUSY", "LEFT"}
    OBVIOUS
  <2> USE DEF NamingInv, Joined
  <2>1. CASE \E n \in Node : Join(n)
    BY <2>1 DEF Join, JoinAs, TypeOK
  <2>2. CASE \E n \in Node : \/ AcceptJoin(n) \/ StartOperation(n) \/ FinishOperation(n)
                             \/ Transmit(n) \/ Leave(n)
    BY <2>2 DEF AcceptJoin, StartOperation, FinishOperation, Transmit, Leave, TypeOK
  <2>3. ASSUME NEW n \in Node, NEW p \in ether, SendConflict(n, p)
        PROVE  node_id'[k] = node_id[k] /\ state'[k] \in {"IDLE", "BUSY", "LEFT"}
    BY <2>3 DEF SendConflict
  <2>4. ASSUME NEW n \in Node, NEW p \in ether,
               HandleConflictName(n, p) \/ HandleDeferredJoining(n, p)
        PROVE  node_id'[k] = node_id[k] /\ state'[k] \in {"IDLE", "BUSY", "LEFT"}
    <3>1. JoinAs(n, Successor(node_id[n]), FALSE) /\ state[n] = "JOINING"
      BY <2>4, MoverIsOutranked
    <3> QED BY <3>1 DEF JoinAs, TypeOK
  <2> QED BY <2>1, <2>2, <2>3, <2>4 DEF Next, Receive
<1> QED BY <1>1, NamingInvariant, PTL DEF Spec, JoinedIdPermanent

(* JoinsBacked: behind every JOIN in the air stands a claimant of its id   *)
(* that will stay, or whose unique id is no lower.                         *)
THEOREM JoinsBackedHolds == Spec => []JoinsBacked
  BY NamingInvariant, PTL DEF NamingInv

(* ConflictsBacked: the sender of a CONFLICT_NAME still owns the id it     *)
(* defended, however late the packet comes.                                *)
THEOREM ConflictsBackedHolds == Spec => []ConflictsBacked
  BY NamingInvariant, PTL DEF NamingInv
-----------------------------------------------------------------------------
(* A boot claims one id at a time: claimants of k ids are k boots.         *)
LEMMA ClaimantsCount ==
    ASSUME NEW S, S \subseteq Node, NEW k \in Nat,
           \A id \in 1..k : \E m \in S : Claims(m, id)
    PROVE  k <= Cardinality(S)
<1> DEFINE claimant == [id \in 1..k |-> CHOOSE m \in S : Claims(m, id)]
<1>1. \A id \in 1..k : claimant[id] \in S /\ node_id[claimant[id]] = id
  BY DEF Claims
<1>2. claimant \in Injection(1..k, S)
  BY <1>1 DEF Injection, IsInjective
<1>3. IsFiniteSet(S)
  BY NodeFinite, FS_Subset
<1>4. Cardinality(1..k) <= Cardinality(S)
  <2> HIDE DEF claimant
  <2> QED BY <1>2, <1>3, FS_Injection
<1>5. Cardinality(1..k) = k
  <2>1. 1 \in Int /\ k \in Int
    OBVIOUS
  <2>2. Cardinality(1..k) = IF 1 > k THEN 0 ELSE k - 1 + 1
    BY <2>1, FS_Interval
  <2> QED BY <2>2
<1> QED BY <1>4, <1>5

\* The part of IdsBounded that NoGaps does not give: nobody has wrapped to 0.
NobodyWrapped ==
    Cardinality(Node) < ID_RANGE =>
        \A n \in Node : Participating(n) => node_id[n] # BroadcastId

(* The ids up to that of a boot are all claimed, its own by itself, so its *)
(* id is at most the number of boots.                                      *)
LEMMA IdsBoundedFromGaps ==
    ASSUME NamingInv, NobodyWrapped
    PROVE  IdsBounded
<1> SUFFICES ASSUME Cardinality(Node) < ID_RANGE, NEW n \in Node, Participating(n)
             PROVE  node_id[n] \in 1..Cardinality(Node)
  BY DEF IdsBounded
<1>1. node_id[n] \in Nat /\ node_id[n] # 0
  BY IdRangeNat DEF NamingInv, TypeOK, NodeIds, NobodyWrapped, BroadcastId
<1>2. Cardinality(Node) \in Nat
  BY NodeFinite, FS_CardinalityType
<1>3. \A id \in 1..node_id[n] : \E m \in Node : Claims(m, id)
  <2> SUFFICES ASSUME NEW id \in 1..node_id[n]
               PROVE  \E m \in Node : Claims(m, id)
    OBVIOUS
  <2>1. CASE id = node_id[n]
    BY <2>1 DEF Claims
  <2>2. CASE id # node_id[n]
    <3>1. id \in 1..(node_id[n] - 1)
      BY <1>1, <2>2
    <3> QED BY <3>1 DEF NamingInv, NoGaps
  <2> QED BY <2>1, <2>2
<1>4. node_id[n] <= Cardinality(Node)
  BY <1>1, <1>3, ClaimantsCount
<1> QED BY <1>1, <1>2, <1>4

(* The last value of the byte is given up by nobody: the ids up to it      *)
(* would all be claimed by boots other than the one that moves.            *)
LEMMA MoverDoesNotWrap ==
    ASSUME NamingInv, Cardinality(Node) < ID_RANGE,
           NEW n \in Node, NEW m \in Node \ {n}, Participating(n),
           Claims(m, node_id[n])
    PROVE  Successor(node_id[n]) # BroadcastId
<1>1. node_id[n] \in NodeIds /\ node_id[n] \in Nat
  BY IdRangeNat DEF NamingInv, TypeOK, NodeIds
<1>2. SUFFICES ASSUME node_id[n] = ID_RANGE - 1
               PROVE  FALSE
  BY <1>1, SuccessorType, IdRangeNat DEF BroadcastId
<1>3. \A id \in 1..node_id[n] : \E c \in Node \ {n} : Claims(c, id)
  <2> SUFFICES ASSUME NEW id \in 1..node_id[n]
               PROVE  \E c \in Node \ {n} : Claims(c, id)
    OBVIOUS
  <2>1. CASE id = node_id[n]
    BY <2>1
  <2>2. CASE id # node_id[n]
    <3>1. id \in 1..(node_id[n] - 1)
      BY <1>1, <2>2
    <3>2. PICK c \in Node : Claims(c, id)
      BY <3>1 DEF NamingInv, NoGaps
    <3>3. c # n
      BY <2>2, <3>2 DEF Claims
    <3> QED BY <3>2, <3>3
  <2> QED BY <2>1, <2>2
<1>4. node_id[n] <= Cardinality(Node \ {n})
  BY <1>1, <1>3, ClaimantsCount
<1>5. /\ Cardinality(Node) \in Nat
      /\ Cardinality(Node \ {n}) = Cardinality(Node) - 1
  BY NodeFinite, FS_CardinalityType, FS_RemoveElement
<1> QED BY <1>2, <1>4, <1>5, IdRangeNat

(* IdsBounded: with fewer boots than values of a node id, the ids are      *)
(* between 1 and the number of boots; in particular nobody takes the id    *)
(* that marks a broadcast.                                                 *)
THEOREM IdsBoundedHolds == Spec => []IdsBounded
<1>1. Init => NobodyWrapped
  BY DEF Init, NobodyWrapped, Participating
<1>2. NamingInv /\ NobodyWrapped /\ [Next]_namingVars => NobodyWrapped'
  <2> SUFFICES ASSUME NamingInv, NobodyWrapped, [Next]_namingVars,
                      Cardinality(Node) < ID_RANGE, NEW k \in Node, Participating(k)'
               PROVE  node_id'[k] # BroadcastId
    BY DEF NobodyWrapped
  <2>0. TypeOK /\ (Participating(k) => node_id[k] # BroadcastId)
    BY DEF NamingInv, NobodyWrapped
  <2>1. CASE \E n \in Node : Join(n)
    BY <2>0, <2>1 DEF Join, JoinAs, TypeOK, FirstId, BroadcastId, Participating
  <2>2. CASE \E n \in Node : \/ AcceptJoin(n) \/ StartOperation(n) \/ FinishOperation(n)
                             \/ Transmit(n) \/ Leave(n)
    BY <2>0, <2>2 DEF AcceptJoin, StartOperation, FinishOperation, Transmit, Leave,
                      TypeOK, Participating
  <2>3. ASSUME NEW n \in Node, NEW p \in ether, SendConflict(n, p)
        PROVE  node_id'[k] # BroadcastId
    BY <2>0, <2>3 DEF SendConflict, Participating
  <2>4. ASSUME NEW n \in Node, NEW p \in ether,
               HandleConflictName(n, p) \/ HandleDeferredJoining(n, p)
        PROVE  node_id'[k] # BroadcastId
    <3>1. /\ JoinAs(n, Successor(node_id[n]), FALSE)
          /\ state[n] = "JOINING"
          /\ \E m \in Node \ {n} : Claims(m, node_id[n]) /\ Outranks(m, n)
      BY <2>4, MoverIsOutranked
    <3>2. Successor(node_id[n]) # BroadcastId
      BY <3>1, MoverDoesNotWrap DEF Participating
    <3> QED BY <2>0, <3>1, <3>2 DEF JoinAs, TypeOK, Participating
  <2>5. CASE UNCHANGED namingVars
    BY <2>0, <2>5 DEF namingVars, Participating
  <2> QED BY <2>1, <2>2, <2>3, <2>4, <2>5 DEF Next, Receive
<1>3. NamingInv /\ NobodyWrapped => IdsBounded
  BY IdsBoundedFromGaps
<1> QED BY <1>1, <1>2, <1>3, NamingInvariant, PTL DEF Spec
-----------------------------------------------------------------------------
(* What NameClaims sees of the states, and of a step that changes one.     *)
LEMMA Phases ==
    /\ PhaseOf("NOT_JOINED") = "out" /\ PhaseOf("JOINING") = "claiming"
    /\ PhaseOf("IDLE") = "holding" /\ PhaseOf("BUSY") = "holding"
    /\ PhaseOf("LEFT") = "gone"
  BY DEF PhaseOf

(* The phases change with the state of one node.                           *)
LEMMA PhaseChange ==
    ASSUME TypeOK, NEW n \in Node, NEW s, state' = [state EXCEPT ![n] = s]
    PROVE  [k \in Node |-> PhaseOf(state'[k])] =
               [[k \in Node |-> PhaseOf(state[k])] EXCEPT ![n] = PhaseOf(s)]
<1> DEFINE before == [k \in Node |-> PhaseOf(state[k])]
           after == [k \in Node |-> PhaseOf(state'[k])]
<1>1. \A k \in Node : state'[k] = IF k = n THEN s ELSE state[k]
  BY DEF TypeOK
<1>2. \A k \in Node : after[k] = IF k = n THEN PhaseOf(s) ELSE before[k]
  BY <1>1
<1> HIDE DEF before
<1> QED BY <1>2 DEF before

(* ImplementsClaims: seen without its packets, the protocol is that of     *)
(* NameClaims.  A node that moves up does so in a state where another node *)
(* claims the id it leaves, which MoverIsOutranked shows.                  *)
THEOREM ImplementsClaimsHolds == Spec => ImplementsClaims
<1>1. Init => Claimed!Init
  BY DEF Init, Claimed!Init, PhaseOf, BroadcastId
<1>2. NamingInv /\ [Next]_namingVars => [Claimed!Next]_(Claimed!claimVars)
  <2> SUFFICES ASSUME NamingInv, [Next]_namingVars
               PROVE  Claimed!Next \/ UNCHANGED Claimed!claimVars
    OBVIOUS
  <2>0. TypeOK
    BY DEF NamingInv
  <2>1. ASSUME NEW n \in Node, Join(n)
        PROVE  Claimed!Claim(n)
    <3>1. /\ state[n] = "NOT_JOINED"
          /\ state' = [state EXCEPT ![n] = "JOINING"]
          /\ node_id' = [node_id EXCEPT ![n] = Claimed!FirstId]
      BY <2>1 DEF Join, JoinAs, FirstId, Claimed!FirstId
    <3>2. [k \in Node |-> PhaseOf(state'[k])] =
              [[k \in Node |-> PhaseOf(state[k])] EXCEPT ![n] = "claiming"]
      <4>1. [k \in Node |-> PhaseOf(state'[k])] =
                [[k \in Node |-> PhaseOf(state[k])] EXCEPT ![n] = PhaseOf("JOINING")]
        BY <2>0, <3>1, PhaseChange, Zenon
      <4>2. PhaseOf("JOINING") = "claiming"
        BY Phases
      <4> QED BY <4>1, <4>2
    <3>3. [k \in Node |-> PhaseOf(state[k])][n] = "out"
      BY <3>1, Phases
    <3> QED BY <3>1, <3>2, <3>3 DEF Claimed!Claim
  <2>2. ASSUME NEW n \in Node, AcceptJoin(n)
        PROVE  Claimed!Settle(n)
    <3>1. /\ state[n] = "JOINING" /\ node_id' = node_id
          /\ \E s \in {"IDLE", "BUSY"} : state' = [state EXCEPT ![n] = s]
      BY <2>2 DEF AcceptJoin
    <3>2. PICK s \in {"IDLE", "BUSY"} : state' = [state EXCEPT ![n] = s]
      BY <3>1
    <3>3. PhaseOf(s) = "holding" /\ PhaseOf("JOINING") = "claiming"
      BY Phases
    <3>4. [k \in Node |-> PhaseOf(state'[k])] =
              [[k \in Node |-> PhaseOf(state[k])] EXCEPT ![n] = "holding"]
      BY <2>0, <3>2, <3>3, PhaseChange
    <3> QED BY <3>1, <3>3, <3>4 DEF Claimed!Settle
  <2>3. ASSUME NEW n \in Node, Leave(n)
        PROVE  Claimed!Depart(n)
    <3>1. /\ state[n] \in {"JOINING", "IDLE", "BUSY"}
          /\ state' = [state EXCEPT ![n] = "LEFT"]
          /\ node_id' = node_id
      BY <2>3 DEF Leave, Participating, Joined
    <3>2. [k \in Node |-> PhaseOf(state'[k])] =
              [[k \in Node |-> PhaseOf(state[k])] EXCEPT ![n] = "gone"]
      <4>1. [k \in Node |-> PhaseOf(state'[k])] =
                [[k \in Node |-> PhaseOf(state[k])] EXCEPT ![n] = PhaseOf("LEFT")]
        BY <2>0, <3>1, PhaseChange, Zenon
      <4>2. PhaseOf("LEFT") = "gone"
        BY Phases
      <4> QED BY <4>1, <4>2
    <3>3. [k \in Node |-> PhaseOf(state[k])][n] \in {"claiming", "holding"}
      BY <3>1, Phases
    <3> QED BY <3>1, <3>2, <3>3 DEF Claimed!Depart
  <2>4. ASSUME NEW n \in Node, StartOperation(n) \/ FinishOperation(n) \/ Transmit(n)
        PROVE  UNCHANGED Claimed!claimVars
    <3>1. /\ node_id' = node_id
          /\ \A k \in Node : \/ state'[k] = state[k]
                             \/ {state[k], state'[k]} \subseteq {"IDLE", "BUSY"}
      BY <2>0, <2>4 DEF StartOperation, FinishOperation, Transmit, TypeOK
    <3>2. \A k \in Node : PhaseOf(state'[k]) = PhaseOf(state[k])
      BY <3>1, Phases
    <3> QED BY <3>1, <3>2 DEF Claimed!claimVars
  <2>5. ASSUME NEW n \in Node, NEW p \in ether, SendConflict(n, p)
        PROVE  UNCHANGED Claimed!claimVars
    BY <2>5 DEF SendConflict, Claimed!claimVars, PhaseOf
  <2>6. ASSUME NEW n \in Node, NEW p \in ether,
               HandleConflictName(n, p) \/ HandleDeferredJoining(n, p)
        PROVE  Claimed!Yield(n)
    <3>1. PICK m \in Node \ {n} : /\ JoinAs(n, Successor(node_id[n]), FALSE)
                                  /\ state[n] = "JOINING"
                                  /\ Claims(m, node_id[n])
      BY <2>6, MoverIsOutranked
    <3>2. Claimed!ClaimedByAnother(n)
      BY <2>0, <3>1 DEF Claims, Participating, Claimed!ClaimedByAnother, PhaseOf,
                        TypeOK, States
    <3>3. /\ state' = state
          /\ node_id' = [node_id EXCEPT ![n] = Claimed!Successor(node_id[n])]
      BY <2>0, <3>1 DEF JoinAs, TypeOK, Successor, Claimed!Successor
    <3> QED BY <3>1, <3>2, <3>3 DEF Claimed!Yield, PhaseOf
  <2>7. CASE UNCHANGED namingVars
    BY <2>7 DEF namingVars, Claimed!claimVars, PhaseOf
  <2> QED BY <2>1, <2>2, <2>3, <2>4, <2>5, <2>6, <2>7 DEF Next, Receive, Claimed!Next
<1> QED BY <1>1, <1>2, NamingInvariant, PTL DEF Spec, ImplementsClaims, Claimed!Spec

-----------------------------------------------------------------------------
(* TimedNaming.                                                            *)

JoinsSent ==
    \A n \in Node : state[n] = "JOINING" => Header("JOIN", node_id[n], n) \in ether

TimedInv == TimedTypeOK /\ JoinsSent

-----------------------------------------------------------------------------
(* Whatever n sends in reply to a packet is in the ether then.             *)
LEMMA RepliesSent ==
    ASSUME NEW n \in Node, NEW p, Process(n, p)
    PROVE  /\ Reply(n, p) \subseteq ether'
           /\ ether \subseteq ether'
<1>1. CASE SendConflict(n, p)
  BY <1>1 DEF SendConflict, Reply
<1>2. CASE HandleConflictName(n, p)
  BY <1>2 DEF HandleConflictName, JoinAs, Reply
<1>3. CASE HandleDeferredJoining(n, p)
  BY <1>3 DEF HandleDeferredJoining, JoinAs, Reply
<1>4. CASE Reply(n, p) = {} /\ UNCHANGED namingVars
  BY <1>4 DEF namingVars
<1> QED BY <1>1, <1>2, <1>3, <1>4 DEF Process

(* Processing a packet that was sent is a step of MeshNaming.              *)
LEMMA ProcessIsReceive ==
    ASSUME NEW n \in Node, NEW p \in ether, Process(n, p)
    PROVE  [Next]_namingVars
<1>1. Receive(n) \/ UNCHANGED namingVars
  BY DEF Process, Receive
<1> QED BY <1>1 DEF Next

(* Every timed step is a step of MeshNaming, or changes nothing there.     *)
LEMMA TimedStepIsStep ==
    ASSUME TimedTypeOK, [TimedNext]_timedVars
    PROVE  [Next]_namingVars
<1>1. ASSUME NEW n \in Node, TimedJoin(n) \/ TimedAcceptJoin(n) \/ TimedLeave(n)
      PROVE  Next
  BY <1>1 DEF TimedJoin, TimedAcceptJoin, TimedLeave, Next
<1>2. ASSUME NEW n \in Node, Deliver(n)
      PROVE  [Next]_namingVars
  <2>1. PICK d \in due : d[1] = n /\ Process(n, d[2])
    BY <1>2 DEF Deliver
  <2>2. d[2] \in ether
    BY <2>1 DEF TimedTypeOK
  <2> QED BY <2>1, <2>2, ProcessIsReceive
<1>3. ASSUME NEW n \in Node, LateRepeat(n)
      PROVE  [Next]_namingVars
  BY <1>3, ProcessIsReceive DEF LateRepeat
<1>4. CASE Lose \/ Tick \/ \E n \in Node : RetransmitJoin(n)
  BY <1>4 DEF Lose, Tick, RetransmitJoin
<1>5. CASE UNCHANGED timedVars
  BY <1>5 DEF timedVars
<1> QED BY <1>1, <1>2, <1>3, <1>4, <1>5 DEF TimedNext

(* A JOIN that a joining node has to repeat has been sent.                 *)
LEMMA JoinsSentStep ==
    ASSUME TypeOK, JoinsSent, [Next]_namingVars
    PROVE  JoinsSent'
<1>1. ASSUME NEW n \in Node, NEW id, NEW b, JoinAs(n, id, b)
      PROVE  JoinsSent'
  <2> SUFFICES ASSUME NEW k \in Node, state'[k] = "JOINING"
               PROVE  Header("JOIN", node_id[k], k)' \in ether'
    BY DEF JoinsSent
  <2>1. CASE k = n
    BY <1>1, <2>1 DEF JoinAs, TypeOK, Header
  <2>2. CASE k # n
    BY <1>1, <2>2 DEF JoinAs, TypeOK, Header, JoinsSent
  <2> QED BY <2>1, <2>2
<1>2. CASE \E n \in Node : \/ AcceptJoin(n) \/ StartOperation(n) \/ FinishOperation(n)
                           \/ Transmit(n) \/ Leave(n)
  <2>1. /\ UNCHANGED <<node_id, unique_id>>
        /\ ether \subseteq ether'
        /\ \A k \in Node : state'[k] = "JOINING" => state[k] = "JOINING"
    BY <1>2 DEF AcceptJoin, StartOperation, FinishOperation, Transmit, Leave, TypeOK
  <2> QED BY <2>1 DEF JoinsSent, Header
<1>3. ASSUME NEW n \in Node, NEW p \in ether, SendConflict(n, p)
      PROVE  JoinsSent'
  <2>1. UNCHANGED <<state, node_id, unique_id>> /\ ether \subseteq ether'
    BY <1>3 DEF SendConflict
  <2> QED BY <2>1 DEF JoinsSent, Header
<1>4. CASE UNCHANGED namingVars
  BY <1>4 DEF namingVars, JoinsSent, Header
<1> QED BY <1>1, <1>2, <1>3, <1>4 DEF Next, Join, Receive, HandleConflictName,
                                     HandleDeferredJoining

(* What is sent to others is on its way from the ether.                    *)
LEMMA SendingFromEther ==
    ASSUME NEW n \in Node, NEW ps, ps \subseteq ether', ether \subseteq ether',
           due \subseteq Node \X ether, NEW gone
    PROVE  (due \ gone) \cup Sending(n, ps) \subseteq Node \X ether'
  BY DEF Sending

(* The types are kept.                                                     *)
LEMMA TimedTypeStep ==
    ASSUME TimedInv, TypeOK', [TimedNext]_timedVars
    PROVE  TimedTypeOK'
<1> USE DEF TimedInv
<1>0. /\ MaxAge \in Nat /\ 0 \in 0..MaxAge
      /\ \A a \in [Node -> 0..MaxAge] : Older(a) \in [Node -> 0..MaxAge]
  <2>1. MaxAge \in Nat
    BY AcceptDelayNat DEF MaxAge
  <2>2. \A a \in [Node -> 0..MaxAge], n \in Node : a[n] < MaxAge => a[n] + 1 \in 0..MaxAge
    BY <2>1
  <2> QED BY <2>1, <2>2 DEF Older
<1>1. \A n \in Node : StartClocks(n) => /\ join_age' \in [Node -> 0..MaxAge]
                                        /\ tx_age' \in [Node -> 0..MaxAge]
  BY <1>0 DEF StartClocks, TimedTypeOK
<1>2. ASSUME NEW n \in Node, TimedJoin(n)
      PROVE  TimedTypeOK'
  <2>1. {Header("JOIN", FirstId, n)} \subseteq ether' /\ ether \subseteq ether'
    BY <1>2 DEF TimedJoin, Join, JoinAs
  <2>2. due' \subseteq Node \X ether'
    BY <1>2, <2>1 DEF TimedJoin, TimedTypeOK, Sending
  <2> QED BY <1>1, <1>2, <2>2 DEF TimedJoin, TimedTypeOK
<1>3. ASSUME NEW n \in Node, TimedAcceptJoin(n)
      PROVE  TimedTypeOK'
  <2>1. ether \subseteq ether'
    BY <1>3 DEF TimedAcceptJoin, AcceptJoin
  <2>2. due' \subseteq Node \X ether'
    BY <1>3, <2>1 DEF TimedAcceptJoin, TimedTypeOK, Sending
  <2> QED BY <1>1, <1>3, <2>2 DEF TimedAcceptJoin, TimedTypeOK
<1>4. ASSUME NEW n \in Node, RetransmitJoin(n)
      PROVE  TimedTypeOK'
  <2>1. Header("JOIN", node_id[n], n) \in ether /\ ether' = ether
    BY <1>4 DEF RetransmitJoin, JoinsSent, namingVars
  <2>2. due' \subseteq Node \X ether'
    BY <1>4, <2>1 DEF RetransmitJoin, TimedTypeOK, Sending
  <2> QED BY <1>0, <1>4, <2>2 DEF RetransmitJoin, TimedTypeOK
<1>5. ASSUME NEW n \in Node, NEW p, Process(n, p)
      PROVE  join_age' \in [Node -> 0..MaxAge] /\ tx_age' \in [Node -> 0..MaxAge]
  BY <1>1, <1>5 DEF Process, clockVars, TimedTypeOK
<1>6. ASSUME NEW n \in Node, Deliver(n)
      PROVE  TimedTypeOK'
  <2>1. PICK d \in due : /\ Process(n, d[2])
                         /\ due' = (due \ {d}) \cup Sending(n, Reply(n, d[2]))
    BY <1>6 DEF Deliver
  <2>2. due' \subseteq Node \X ether'
    BY <2>1, RepliesSent, SendingFromEther DEF TimedTypeOK
  <2>3. UNCHANGED <<join_retransmit_delay, losses>>
    BY <1>6 DEF Deliver
  <2> QED BY <1>5, <2>1, <2>2, <2>3 DEF TimedTypeOK
<1>7. ASSUME NEW n \in Node, LateRepeat(n)
      PROVE  TimedTypeOK'
  <2>1. PICK p \in ether : /\ Process(n, p)
                           /\ due' = (due \ {}) \cup Sending(n, Reply(n, p))
    BY <1>7 DEF LateRepeat
  <2>2. due' \subseteq Node \X ether'
    BY <2>1, RepliesSent, SendingFromEther DEF TimedTypeOK
  <2>3. UNCHANGED <<join_retransmit_delay, losses>>
    BY <1>7 DEF LateRepeat
  <2> QED BY <1>5, <2>1, <2>2, <2>3 DEF TimedTypeOK
<1>8. CASE Lose
  <2>1. losses' \in 0..MaxLosses
    BY <1>8, MaxLossesNat DEF Lose, TimedTypeOK
  <2> QED BY <1>8, <2>1 DEF Lose, TimedTypeOK, namingVars, clockVars
<1>9. CASE \E n \in Node : TimedLeave(n)
  <2>1. ether' = ether /\ due' \subseteq due
    BY <1>9 DEF TimedLeave, Leave
  <2> QED BY <1>9, <2>1 DEF TimedLeave, TimedTypeOK, clockVars
<1>10. CASE Tick
  BY <1>0, <1>10 DEF Tick, TimedTypeOK, namingVars
<1>11. CASE UNCHANGED timedVars
  BY <1>11 DEF timedVars, namingVars, clockVars, TimedTypeOK
<1> QED BY <1>2, <1>3, <1>4, <1>6, <1>7, <1>8, <1>9, <1>10, <1>11 DEF TimedNext

(* TimedTypeOK: in particular what is on its way to a node has been sent.  *)
THEOREM TimedInvariant == TimedSpec => [](TimedInv /\ TypeOK)
<1>1. TimedInit => TimedInv /\ TypeOK
  <2> SUFFICES ASSUME TimedInit
               PROVE  TimedInv /\ TypeOK
    OBVIOUS
  <2>1. TypeOK
    BY IdRangeNat DEF TimedInit, Init, TypeOK, States, NodeIds, BroadcastId
  <2>2. JoinsSent
    BY DEF TimedInit, Init, JoinsSent
  <2>3. 0 \in 0..MaxAge /\ 0 \in 0..MaxLosses
    BY AcceptDelayNat, MaxLossesNat DEF MaxAge
  <2> QED BY <2>1, <2>2, <2>3 DEF TimedInit, TimedTypeOK, TimedInv
<1>2. TimedInv /\ TypeOK /\ [TimedNext]_timedVars => TimedInv' /\ TypeOK'
  <2> SUFFICES ASSUME TimedInv, TypeOK, [TimedNext]_timedVars
               PROVE  TimedInv' /\ TypeOK'
    OBVIOUS
  <2>1. [Next]_namingVars
    BY TimedStepIsStep DEF TimedInv
  <2>2. TypeOK'
    BY <2>1, TypeStep
  <2> QED BY <2>1, <2>2, JoinsSentStep, TimedTypeStep DEF TimedInv
<1> QED BY <1>1, <1>2, PTL DEF TimedSpec

(* The clocks, the packets on their way and the losses keep to their types.  *)
THEOREM TimedTypeCorrect == TimedSpec => []TimedTypeOK
  BY TimedInvariant, PTL DEF TimedInv

(* The timed protocol implements MeshNaming: clocks and deliveries only    *)
(* choose among what an unordered, lossy medium allows.                    *)
THEOREM ImplementsMeshNaming == TimedSpec => Spec
<1>1. TimedInit => Init
  BY DEF TimedInit
<1>2. TimedInv /\ [TimedNext]_timedVars => [Next]_namingVars
  BY TimedStepIsStep DEF TimedInv
<1> QED BY <1>1, <1>2, TimedInvariant, PTL DEF TimedSpec, Spec

(* So its node ids have no gaps, stay within the number of boots, and are  *)
(* kept by a node that has joined.                                         *)
THEOREM TimedIds == TimedSpec => []NoGaps /\ []IdsBounded /\ JoinedIdPermanent
  BY ImplementsMeshNaming, NoGapsHolds, IdsBoundedHolds, JoinedKeepsId
-----------------------------------------------------------------------------
(* Unique names.  Two boots at one id are told of each other by the JOINs  *)
(* of one of them: of the higher unique id while both are joining, of the  *)
(* one still joining once the other has joined.  Each JOIN that has not    *)
(* done so was lost, and between two of them there is a Period at most.    *)

\* R is a bound of the retransmit delays that leaves a join the time to send
\* its JOIN two times more often than packets get lost.
Bounds(R) ==
    /\ RetransmitDelays \subseteq 0..R
    /\ (MaxLosses + 2) * (R + 1) <= JOIN_ACCEPT_DELAY

EnoughTime == \E R \in Nat : Bounds(R)

\* The longest time between two JOINs of a node, and c times that.
Period == (CHOOSE R \in Nat : Bounds(R)) + 1

Allowed(c) == c * Period

TxRecent == \A n \in Node : state[n] = "JOINING" => tx_age[n] <= Period

\* How long w, of the higher unique id, and l have both been at one id: no
\* longer than w's JOINs up to now take if all but the last were lost.
BothWithin(w, l, c) == join_age[w] <= c \/ join_age[l] <= c

JoinOnItsWay(n, m) == <<m, Header("JOIN", node_id[n], n)>> \in due

BothJoining ==
    \A w, l \in Node :
        (/\ state[w] = "JOINING" /\ state[l] = "JOINING"
         /\ node_id[w] = node_id[l] /\ unique_id[w] > unique_id[l]) =>
            \/ BothWithin(w, l, Allowed(losses) + tx_age[w])
            \/ JoinOnItsWay(w, l) /\ BothWithin(w, l, Allowed(losses + 1))

\* How long b can have been joining at the id of a, which has joined.
ConflictOnItsWay(a, b) ==
    JoinOnItsWay(b, a) \/ <<b, Header("CONFLICT_NAME", node_id[a], a)>> \in due

OneJoined ==
    \A a, b \in Node :
        (/\ Joined(a) /\ state[b] = "JOINING"
         /\ node_id[a] = node_id[b] /\ unique_id[a] # unique_id[b]) =>
            \/ join_age[b] <= Allowed(losses + 1) + tx_age[b]
            \/ ConflictOnItsWay(a, b) /\ join_age[b] <= Allowed(losses + 2)

UniqueInv == TxRecent /\ BothJoining /\ OneJoined /\ UniqueNames

(* The arithmetic of Period.                                               *)
LEMMA PeriodBounds ==
    ASSUME EnoughTime
    PROVE  /\ Period \in Nat /\ Period >= 1
           /\ \A d \in RetransmitDelays : d \in Nat /\ d + 1 <= Period
           /\ (MaxLosses + 2) * Period <= JOIN_ACCEPT_DELAY
<1> DEFINE R == CHOOSE R \in Nat : Bounds(R)
<1>1. R \in Nat /\ Bounds(R)
  BY DEF EnoughTime
<1> HIDE DEF R
<1>2. Period = R + 1
  BY DEF Period, R
<1> QED BY <1>1, <1>2 DEF Bounds

LEMMA AllowedGrows ==
    ASSUME EnoughTime, NEW c \in Nat
    PROVE  /\ Allowed(c) \in Nat /\ Allowed(c + 1) \in Nat
           /\ Allowed(c + 1) = Allowed(c) + Period
<1>1. Period \in Nat
  BY PeriodBounds
<1> QED BY <1>1 DEF Allowed

LEMMA AllowedFits ==
    ASSUME EnoughTime, NEW c \in 0..MaxLosses
    PROVE  Allowed(c + 2) \in Nat /\ Allowed(c + 2) <= JOIN_ACCEPT_DELAY
<1>1. Period \in Nat /\ (MaxLosses + 2) * Period <= JOIN_ACCEPT_DELAY
  BY PeriodBounds
<1>2. \A a, b, m \in Nat : a <= b => a * m <= b * m
  OBVIOUS
<1>3. (c + 2) * Period <= (MaxLosses + 2) * Period
  BY <1>1, <1>2, MaxLossesNat
<1>4. (c + 2) * Period \in Nat /\ (MaxLosses + 2) * Period \in Nat
  BY <1>1, MaxLossesNat
<1> QED BY <1>1, <1>3, <1>4, AcceptDelayNat DEF Allowed

(* A node that starts to join at an id, or goes on to another one, has     *)
(* been there for no time.                                                 *)
LEMMA MoveKeepsUnique ==
    ASSUME EnoughTime, TimedTypeOK, UniqueInv, NEW n \in Node, ~Joined(n),
           state' = [state EXCEPT ![n] = "JOINING"],
           \A k \in Node \ {n} : node_id'[k] = node_id[k],
           unique_id' = unique_id, losses' = losses, StartClocks(n),
           \A k \in Node \ {n} : \A p : <<k, p>> \in due => <<k, p>> \in due'
    PROVE  UniqueInv'
<1>1. /\ losses \in Nat /\ join_age'[n] = 0 /\ tx_age'[n] = 0
      /\ \A k \in Node \ {n} : /\ state'[k] = state[k]
                               /\ join_age'[k] = join_age[k] /\ tx_age'[k] = tx_age[k]
      /\ state'[n] = "JOINING"
  BY MaxLossesNat DEF StartClocks, TimedTypeOK, TypeOK
<1>2. /\ Allowed(losses) \in Nat /\ Allowed(losses + 1) \in Nat /\ Period \in Nat
      /\ \A k \in Node : tx_age'[k] \in Nat
  BY <1>1, AllowedGrows, PeriodBounds DEF TimedTypeOK
<1>3. TxRecent'
  BY <1>1, <1>2 DEF TxRecent, UniqueInv
<1>4. BothJoining'
  <2> SUFFICES ASSUME NEW w \in Node, NEW l \in Node,
                      state'[w] = "JOINING", state'[l] = "JOINING",
                      node_id'[w] = node_id'[l], unique_id'[w] > unique_id'[l]
               PROVE  \/ BothWithin(w, l, Allowed(losses) + tx_age[w])'
                      \/ JoinOnItsWay(w, l)' /\ BothWithin(w, l, Allowed(losses + 1))'
    BY DEF BothJoining
  <2>1. CASE w = n \/ l = n
    BY <1>1, <1>2, <2>1 DEF BothWithin, Allowed
  <2>2. CASE w # n /\ l # n
    <3>1. \/ BothWithin(w, l, Allowed(losses) + tx_age[w])
          \/ JoinOnItsWay(w, l) /\ BothWithin(w, l, Allowed(losses + 1))
      BY <1>1, <2>2 DEF UniqueInv, BothJoining
    <3>2. JoinOnItsWay(w, l) => JoinOnItsWay(w, l)'
      BY <2>2 DEF JoinOnItsWay, Header
    <3> QED BY <1>1, <2>2, <3>1, <3>2 DEF BothWithin, Allowed
  <2> QED BY <2>1, <2>2
<1>5. OneJoined'
  <2> SUFFICES ASSUME NEW a \in Node, NEW b \in Node, Joined(a)', state'[b] = "JOINING",
                      node_id'[a] = node_id'[b], unique_id'[a] # unique_id'[b]
               PROVE  \/ join_age'[b] <= Allowed(losses + 1)' + tx_age'[b]
                      \/ ConflictOnItsWay(a, b)' /\ join_age'[b] <= Allowed(losses + 2)'
    BY DEF OneJoined
  <2>1. a # n /\ Joined(a)
    BY <1>1 DEF Joined
  <2>2. CASE b = n
    BY <1>1, <1>2, <2>2 DEF Allowed
  <2>3. CASE b # n
    <3>1. \/ join_age[b] <= Allowed(losses + 1) + tx_age[b]
          \/ ConflictOnItsWay(a, b) /\ join_age[b] <= Allowed(losses + 2)
      BY <1>1, <2>1, <2>3 DEF UniqueInv, OneJoined
    <3>2. ConflictOnItsWay(a, b) => ConflictOnItsWay(a, b)'
      BY <2>1, <2>3 DEF ConflictOnItsWay, JoinOnItsWay, Header
    <3> QED BY <1>1, <2>3, <3>1, <3>2 DEF Allowed
  <2> QED BY <2>2, <2>3
<1>6. UniqueNames'
  <2>1. \A k \in Node : Joined(k)' => k # n /\ Joined(k)
    BY <1>1 DEF Joined
  <2> QED BY <2>1 DEF UniqueInv, UniqueNames
<1> QED BY <1>3, <1>4, <1>5, <1>6 DEF UniqueInv

(* A packet that moves nobody may be gone: the JOIN it was is answered by  *)
(* a CONFLICT_NAME, or it was none that the invariant speaks of.           *)
LEMMA QuietKeepsUnique ==
    ASSUME UniqueInv, NEW n \in Node, NEW p,
           UNCHANGED <<state, node_id, unique_id, join_age, tx_age, losses>>,
           Sending(n, Reply(n, p)) \subseteq due',
           \A k \in Node : \A q : <<k, q>> \in due => <<k, q>> \in due' \/ (k = n /\ q = p),
           NodeIdConflict(n, p) \/ Reply(n, p) = {}
    PROVE  UniqueInv'
<1>1. \A a, b \in Node : JoinOnItsWay(b, a)' <=> <<a, Header("JOIN", node_id[b], b)>> \in due'
  BY DEF JoinOnItsWay, Header
<1>2. BothJoining'
  <2> SUFFICES ASSUME NEW w \in Node, NEW l \in Node,
                      state[w] = "JOINING", state[l] = "JOINING",
                      node_id[w] = node_id[l], unique_id[w] > unique_id[l],
                      JoinOnItsWay(w, l)
               PROVE  JoinOnItsWay(w, l)'
    BY DEF UniqueInv, BothJoining, BothWithin, Allowed
  <2>1. CASE l = n /\ p = Header("JOIN", node_id[w], w)
    <3>1. Defers(n, p) /\ ~NeedToRejoin(n, p) /\ ~NodeIdConflict(n, p)
      BY <2>1 DEF Defers, NeedToRejoin, NodeIdConflict, Joined, Header
    <3> QED BY <3>1 DEF Reply
  <2>2. CASE ~(l = n /\ p = Header("JOIN", node_id[w], w))
    BY <1>1, <2>2 DEF JoinOnItsWay
  <2> QED BY <2>1, <2>2
<1>3. OneJoined'
  <2> SUFFICES ASSUME NEW a \in Node, NEW b \in Node,
                      Joined(a), state[b] = "JOINING",
                      node_id[a] = node_id[b], unique_id[a] # unique_id[b],
                      ConflictOnItsWay(a, b)
               PROVE  ConflictOnItsWay(a, b)'
    BY DEF UniqueInv, OneJoined, Joined, Allowed
  <2>1. a # b /\ state[b] # "LEFT"
    BY DEF Joined
  <2>2. CASE JoinOnItsWay(b, a) /\ a = n /\ p = Header("JOIN", node_id[b], b)
    <3>1. NodeIdConflict(n, p)
      BY <2>2 DEF NodeIdConflict, Header
    <3>2. <<b, Header("CONFLICT_NAME", node_id[a], a)>> \in due'
      BY <2>1, <2>2, <3>1 DEF Reply, Sending
    <3> QED BY <3>2 DEF ConflictOnItsWay, Header
  <2>3. CASE JoinOnItsWay(b, a) /\ ~(a = n /\ p = Header("JOIN", node_id[b], b))
    BY <1>1, <2>3 DEF JoinOnItsWay, ConflictOnItsWay
  <2>4. CASE ~JoinOnItsWay(b, a) /\ b = n /\ p = Header("CONFLICT_NAME", node_id[a], a)
    <3>1. NeedToRejoin(n, p) /\ ~NodeIdConflict(n, p)
      BY <2>4 DEF NeedToRejoin, NodeIdConflict, Joined, Header
    <3> QED BY <3>1 DEF Reply
  <2>5. CASE ~JoinOnItsWay(b, a) /\ ~(b = n /\ p = Header("CONFLICT_NAME", node_id[a], a))
    BY <2>5 DEF ConflictOnItsWay, Header
  <2> QED BY <2>2, <2>3, <2>4, <2>5
<1> QED BY <1>2, <1>3 DEF UniqueInv, TxRecent, UniqueNames, Joined

(* What a node does with a packet, whether it is due or comes late.        *)
LEMMA ProcessKeepsUnique ==
    ASSUME EnoughTime, TimedTypeOK, UniqueInv, NEW n \in Node, NEW p, Process(n, p),
           losses' = losses, Sending(n, Reply(n, p)) \subseteq due',
           \A k \in Node : \A q : <<k, q>> \in due => <<k, q>> \in due' \/ (k = n /\ q = p)
    PROVE  UniqueInv'
<1>1. ASSUME NEW id, NEW b, JoinAs(n, id, b), StartClocks(n), ~Joined(n)
      PROVE  UniqueInv'
  <2>1. /\ state' = [state EXCEPT ![n] = "JOINING"]
        /\ unique_id' = unique_id
        /\ \A k \in Node \ {n} : node_id'[k] = node_id[k]
    BY <1>1 DEF JoinAs, TimedTypeOK, TypeOK
  <2>2. \A k \in Node \ {n} : \A q : <<k, q>> \in due => <<k, q>> \in due'
    OBVIOUS
  <2> QED BY <1>1, <2>1, <2>2, MoveKeepsUnique
<1>2. CASE SendConflict(n, p) /\ UNCHANGED clockVars
  BY <1>2, QuietKeepsUnique DEF SendConflict, clockVars
<1>3. CASE HandleConflictName(n, p) /\ StartClocks(n)
  <2>1. ~Joined(n)
    BY <1>3 DEF HandleConflictName, NeedToRejoin, NodeIdConflict
  <2> QED BY <1>1, <1>3, <2>1 DEF HandleConflictName
<1>4. CASE HandleDeferredJoining(n, p) /\ StartClocks(n)
  <2>1. ~Joined(n)
    BY <1>4 DEF HandleDeferredJoining, Defers, Joined
  <2> QED BY <1>1, <1>4, <2>1 DEF HandleDeferredJoining
<1>5. CASE Reply(n, p) = {} /\ UNCHANGED <<namingVars, clockVars>>
  BY <1>5, QuietKeepsUnique DEF namingVars, clockVars
<1> QED BY <1>2, <1>3, <1>4, <1>5 DEF Process

(* Sending the JOIN again puts it on its way to every rival.               *)
LEMMA RetransmitKeepsUnique ==
    ASSUME EnoughTime, TimedTypeOK, UniqueInv, NEW n \in Node, RetransmitJoin(n)
    PROVE  UniqueInv'
<1>1. /\ UNCHANGED <<state, node_id, unique_id, join_age, losses>>
      /\ state[n] = "JOINING" /\ tx_age'[n] = 0
      /\ \A k \in Node \ {n} : tx_age'[k] = tx_age[k]
      /\ \A k \in Node : tx_age[k] \in Nat /\ join_age[k] \in Nat
  BY AcceptDelayNat DEF RetransmitJoin, namingVars, TimedTypeOK, MaxAge
<1>2. /\ due \subseteq due'
      /\ \A k \in Node \ {n} : state[k] # "LEFT" =>
             <<k, Header("JOIN", node_id[n], n)>> \in due'
  BY DEF RetransmitJoin, Sending
<1>3. /\ Period \in Nat /\ losses \in Nat
      /\ Allowed(losses) \in Nat
      /\ Allowed(losses + 1) = Allowed(losses) + Period
      /\ Allowed(losses + 2) = Allowed(losses + 1) + Period
  <2>1. losses \in Nat /\ losses + 1 \in Nat /\ (losses + 1) + 1 = losses + 2
    BY MaxLossesNat DEF TimedTypeOK
  <2> QED BY <2>1, AllowedGrows, PeriodBounds
<1>4. \A a, b \in Node : JoinOnItsWay(b, a)' <=> <<a, Header("JOIN", node_id[b], b)>> \in due'
  BY <1>1 DEF JoinOnItsWay, Header
<1>5. tx_age[n] <= Period
  BY <1>1 DEF UniqueInv, TxRecent
<1>6. TxRecent'
  BY <1>1, <1>3 DEF UniqueInv, TxRecent, Period, Bounds
<1>7. BothJoining'
  <2> SUFFICES ASSUME NEW w \in Node, NEW l \in Node,
                      state[w] = "JOINING", state[l] = "JOINING",
                      node_id[w] = node_id[l], unique_id[w] > unique_id[l]
               PROVE  \/ BothWithin(w, l, Allowed(losses) + tx_age'[w])
                      \/ JoinOnItsWay(w, l)' /\ BothWithin(w, l, Allowed(losses + 1))
    BY <1>1 DEF BothJoining, BothWithin, Allowed
  <2>1. \/ BothWithin(w, l, Allowed(losses) + tx_age[w])
        \/ JoinOnItsWay(w, l) /\ BothWithin(w, l, Allowed(losses + 1))
    BY DEF UniqueInv, BothJoining
  <2>2. CASE w = n
    <3>1. l # n
      <4>1. unique_id[w] \in Nat /\ unique_id[l] \in Nat
        BY UniqueIdsNat DEF TimedTypeOK, TypeOK
      <4> QED BY <2>2, <4>1
    <3>2. JoinOnItsWay(w, l)'
      BY <1>2, <1>4, <2>2, <3>1
    <3>3. BothWithin(w, l, Allowed(losses + 1))
      BY <1>1, <1>3, <1>5, <2>1, <2>2 DEF BothWithin
    <3> QED BY <3>2, <3>3
  <2>3. CASE w # n
    <3>1. JoinOnItsWay(w, l) => JoinOnItsWay(w, l)'
      BY <1>2, <1>4 DEF JoinOnItsWay
    <3> QED BY <1>1, <2>1, <2>3, <3>1
  <2> QED BY <2>2, <2>3
<1>8. OneJoined'
  <2> SUFFICES ASSUME NEW a \in Node, NEW b \in Node,
                      Joined(a), state[b] = "JOINING",
                      node_id[a] = node_id[b], unique_id[a] # unique_id[b]
               PROVE  \/ join_age[b] <= Allowed(losses + 1) + tx_age'[b]
                      \/ ConflictOnItsWay(a, b)' /\ join_age[b] <= Allowed(losses + 2)
    BY <1>1 DEF OneJoined, Joined, Allowed
  <2>1. \/ join_age[b] <= Allowed(losses + 1) + tx_age[b]
        \/ ConflictOnItsWay(a, b) /\ join_age[b] <= Allowed(losses + 2)
    BY DEF UniqueInv, OneJoined
  <2>2. CASE b = n
    <3>1. a # n /\ state[a] # "LEFT"
      BY <1>1 DEF Joined
    <3>2. ConflictOnItsWay(a, b)'
      BY <1>2, <1>4, <2>2, <3>1 DEF ConflictOnItsWay
    <3>3. join_age[b] <= Allowed(losses + 2)
      BY <1>1, <1>3, <1>5, <2>1, <2>2
    <3> QED BY <3>2, <3>3
  <2>3. CASE b # n
    <3>1. ConflictOnItsWay(a, b) => ConflictOnItsWay(a, b)'
      BY <1>1, <1>2 DEF ConflictOnItsWay, JoinOnItsWay, Header
    <3> QED BY <1>1, <2>1, <2>3, <3>1
  <2> QED BY <2>2, <2>3
<1>9. UniqueNames'
  BY <1>1 DEF UniqueInv, UniqueNames, Joined
<1> QED BY <1>6, <1>7, <1>8, <1>9 DEF UniqueInv

(* A lost delivery: the invariant allows one more.                         *)
LEMMA LoseKeepsUnique ==
    ASSUME EnoughTime, TimedTypeOK, UniqueInv, Lose
    PROVE  UniqueInv'
<1>1. /\ UNCHANGED <<state, node_id, unique_id, join_age, tx_age>>
      /\ losses' = losses + 1 /\ losses \in Nat
      /\ \A k \in Node : tx_age[k] \in Nat /\ join_age[k] \in Nat
  BY AcceptDelayNat, MaxLossesNat DEF Lose, namingVars, clockVars, TimedTypeOK, MaxAge
<1>2. /\ Period \in Nat /\ Period' = Period
      /\ Allowed(losses) \in Nat
      /\ Allowed(losses + 1) = Allowed(losses) + Period
      /\ Allowed(losses + 2) = Allowed(losses + 1) + Period
  <2>1. losses + 1 \in Nat /\ (losses + 1) + 1 = losses + 2
    BY <1>1
  <2> QED BY <1>1, <2>1, AllowedGrows, PeriodBounds DEF Period, Bounds
<1>3. /\ Allowed(losses)' = Allowed(losses + 1)
      /\ Allowed(losses + 1)' = Allowed(losses + 2)
  BY <1>1, <1>2 DEF Allowed
<1>4. BothJoining'
  <2> SUFFICES ASSUME NEW w \in Node, NEW l \in Node,
                      state[w] = "JOINING", state[l] = "JOINING",
                      node_id[w] = node_id[l], unique_id[w] > unique_id[l]
               PROVE  BothWithin(w, l, Allowed(losses + 1) + tx_age[w])
    BY <1>1, <1>3 DEF BothJoining, BothWithin
  <2>1. \/ BothWithin(w, l, Allowed(losses) + tx_age[w])
        \/ BothWithin(w, l, Allowed(losses + 1))
    BY DEF UniqueInv, BothJoining
  <2> QED BY <1>1, <1>2, <2>1 DEF BothWithin
<1>5. OneJoined'
  <2> SUFFICES ASSUME NEW a \in Node, NEW b \in Node,
                      Joined(a), state[b] = "JOINING",
                      node_id[a] = node_id[b], unique_id[a] # unique_id[b]
               PROVE  join_age[b] <= Allowed(losses + 2) + tx_age[b]
    BY <1>1, <1>3 DEF OneJoined, Joined
  <2>1. \/ join_age[b] <= Allowed(losses + 1) + tx_age[b]
        \/ join_age[b] <= Allowed(losses + 2)
    BY DEF UniqueInv, OneJoined
  <2> QED BY <1>1, <1>2, <2>1
<1> QED BY <1>1, <1>2, <1>4, <1>5 DEF UniqueInv, TxRecent, UniqueNames, Joined

(* A node whose accept delay is over has no rival on the mesh: its JOINs   *)
(* would have come back as a CONFLICT_NAME.  A rival still joining has not *)
(* been at it long.                                                        *)
LEMMA AcceptKeepsUnique ==
    ASSUME EnoughTime, TimedTypeOK, UniqueInv, NEW n \in Node, TimedAcceptJoin(n)
    PROVE  UniqueInv'
<1>1. /\ state[n] = "JOINING" /\ Joined(n)'
      /\ UNCHANGED <<node_id, unique_id, losses>>
      /\ due \subseteq due'
      /\ \A k \in Node \ {n} : /\ state'[k] = state[k]
                               /\ join_age'[k] = join_age[k] /\ tx_age'[k] = tx_age[k]
  BY DEF TimedAcceptJoin, AcceptJoin, StartClocks, Joined, TimedTypeOK, TypeOK
<1>2. /\ \A k \in Node : /\ tx_age[k] \in Nat /\ join_age[k] \in Nat
                         /\ unique_id[k] \in Nat
      /\ losses \in 0..MaxLosses /\ losses \in Nat
  <2>1. \A k \in Node : unique_id[k] \in Nat
    BY UniqueIdsNat DEF TimedTypeOK, TypeOK
  <2>2. \A k \in Node : tx_age[k] \in Nat /\ join_age[k] \in Nat
    BY AcceptDelayNat DEF TimedTypeOK, MaxAge
  <2>3. losses \in 0..MaxLosses /\ losses \in Nat
    BY MaxLossesNat DEF TimedTypeOK
  <2> QED BY <2>1, <2>2, <2>3
<1>3. /\ Period \in Nat /\ Period' = Period
      /\ Allowed(losses) \in Nat
      /\ Allowed(losses + 1) = Allowed(losses) + Period
      /\ Allowed(losses + 2) = Allowed(losses + 1) + Period
      /\ Allowed(losses + 2) <= JOIN_ACCEPT_DELAY
  <2>1. losses + 1 \in Nat /\ (losses + 1) + 1 = losses + 2
    BY <1>2
  <2> QED BY <1>2, <2>1, AllowedGrows, AllowedFits, PeriodBounds DEF Period, Bounds
<1>4. /\ Allowed(losses)' = Allowed(losses)
      /\ Allowed(losses + 1)' = Allowed(losses + 1)
      /\ Allowed(losses + 2)' = Allowed(losses + 2)
  BY <1>1, <1>3 DEF Allowed
<1>5. join_age[n] > Allowed(losses + 2)
  BY <1>2, <1>3, AcceptDelayNat DEF TimedAcceptJoin, AcceptDelayOver
<1>6. \A k \in Node : state'[k] = "JOINING" => k # n /\ state[k] = "JOINING"
  BY <1>1 DEF Joined
<1>7. \A a, b \in Node : /\ JoinOnItsWay(a, b) => JoinOnItsWay(a, b)'
                         /\ ConflictOnItsWay(a, b) => ConflictOnItsWay(a, b)'
  BY <1>1 DEF ConflictOnItsWay, JoinOnItsWay, Header
<1>8. TxRecent'
  BY <1>1, <1>3, <1>6 DEF UniqueInv, TxRecent
<1>9. BothJoining'
  BY <1>1, <1>4, <1>6, <1>7 DEF UniqueInv, BothJoining, BothWithin
<1>10. OneJoined'
  <2> SUFFICES ASSUME NEW a \in Node, NEW b \in Node,
                      Joined(a)', state'[b] = "JOINING",
                      node_id[a] = node_id[b], unique_id[a] # unique_id[b]
               PROVE  \/ join_age[b] <= Allowed(losses + 1) + tx_age[b]
                      \/ ConflictOnItsWay(a, b)' /\ join_age[b] <= Allowed(losses + 2)
    BY <1>1, <1>4, <1>6 DEF OneJoined
  <2>1. CASE a # n
    BY <1>1, <1>6, <1>7, <2>1 DEF UniqueInv, OneJoined, Joined
  <2>2. CASE a = n
    <3>1. ASSUME NEW w \in Node, NEW l \in Node, {w, l} = {n, b},
                 unique_id[w] > unique_id[l]
          PROVE  BothWithin(w, l, Allowed(losses + 1))
      <4>1. /\ state[w] = "JOINING" /\ state[l] = "JOINING"
            /\ node_id[w] = node_id[l] /\ tx_age[w] <= Period
        BY <1>1, <1>6, <2>2, <3>1 DEF UniqueInv, TxRecent
      <4>2. \/ BothWithin(w, l, Allowed(losses) + tx_age[w])
            \/ BothWithin(w, l, Allowed(losses + 1))
        BY <3>1, <4>1 DEF UniqueInv, BothJoining
      <4> QED BY <1>2, <1>3, <4>1, <4>2 DEF BothWithin
    <3>2. BothWithin(n, b, Allowed(losses + 1))
      <4>1. unique_id[n] > unique_id[b] \/ unique_id[b] > unique_id[n]
        BY <1>2, <2>2
      <4> QED BY <3>1, <4>1 DEF BothWithin
    <3> QED BY <1>2, <1>3, <1>5, <3>2 DEF BothWithin
  <2> QED BY <2>1, <2>2
<1>11. UniqueNames'
  <2>1. ASSUME NEW m \in Node, Joined(m), unique_id[m] # unique_id[n]
        PROVE  node_id[m] # node_id[n]
    <3> SUFFICES ASSUME node_id[m] = node_id[n]
                 PROVE  FALSE
      OBVIOUS
    <3>1. tx_age[n] <= Period
      BY <1>1 DEF UniqueInv, TxRecent
    <3>2. \/ join_age[n] <= Allowed(losses + 1) + tx_age[n]
          \/ join_age[n] <= Allowed(losses + 2)
      BY <1>1, <2>1 DEF UniqueInv, OneJoined
    <3> QED BY <1>2, <1>3, <1>5, <3>1, <3>2
  <2>2. \A k \in Node : Joined(k)' => k = n \/ Joined(k)
    BY <1>1 DEF Joined
  <2> QED BY <1>1, <2>1, <2>2 DEF UniqueInv, UniqueNames
<1> QED BY <1>8, <1>9, <1>10, <1>11 DEF UniqueInv

(* A node that leaves takes only its own deliveries with it.               *)
LEMMA LeaveKeepsUnique ==
    ASSUME TimedTypeOK, UniqueInv, NEW n \in Node, TimedLeave(n)
    PROVE  UniqueInv'
<1>1. /\ UNCHANGED <<node_id, unique_id, join_age, tx_age, losses>>
      /\ \A k \in Node : state'[k] \in {"JOINING", "IDLE", "BUSY"}
             => k # n /\ state[k] = state'[k]
      /\ \A d \in due : d[1] # n => d \in due'
  BY DEF TimedLeave, Leave, clockVars, TimedTypeOK, TypeOK
<1>2. \A a, b \in Node : a # n /\ b # n =>
          /\ JoinOnItsWay(a, b) => JoinOnItsWay(a, b)'
          /\ ConflictOnItsWay(a, b) => ConflictOnItsWay(a, b)'
  BY <1>1 DEF ConflictOnItsWay, JoinOnItsWay, Header
<1>3. TxRecent' /\ UniqueNames'
  BY <1>1 DEF UniqueInv, TxRecent, UniqueNames, Joined, Period
<1>4. BothJoining'
  BY <1>1, <1>2 DEF UniqueInv, BothJoining, BothWithin, Allowed
<1>5. OneJoined'
  BY <1>1, <1>2 DEF UniqueInv, OneJoined, Joined, Allowed
<1> QED BY <1>3, <1>4, <1>5 DEF UniqueInv

(* Time passes when nothing is on its way, and no JOIN is overdue.         *)
LEMMA TickKeepsUnique ==
    ASSUME EnoughTime, TimedTypeOK, UniqueInv, Tick
    PROVE  UniqueInv'
<1>1. UNCHANGED <<state, node_id, unique_id, losses>> /\ due = {}
  BY DEF Tick, namingVars
<1>2. /\ \A k \in Node : tx_age[k] \in Nat /\ join_age[k] \in Nat
      /\ losses \in Nat
  BY AcceptDelayNat, MaxLossesNat DEF TimedTypeOK, MaxAge
<1>3. /\ Period \in Nat /\ Period' = Period
      /\ Allowed(losses) \in Nat /\ Allowed(losses + 1) \in Nat
      /\ Allowed(losses)' = Allowed(losses)
      /\ Allowed(losses + 1)' = Allowed(losses + 1)
  BY <1>1, <1>2, AllowedGrows, PeriodBounds DEF Period, Bounds, Allowed
<1>4. ASSUME NEW k \in Node, state[k] = "JOINING"
      PROVE  /\ tx_age'[k] = tx_age[k] + 1 /\ tx_age'[k] <= Period
             /\ join_age'[k] <= join_age[k] + 1
  <2>1. join_retransmit_delay[k] \in RetransmitDelays /\ tx_age[k] <= join_retransmit_delay[k]
    BY <1>4 DEF Tick, TimedTypeOK
  <2>2. /\ join_retransmit_delay[k] \in 0..JOIN_ACCEPT_DELAY
        /\ join_retransmit_delay[k] + 1 <= Period
    BY <2>1, RetransmitDelaysNat, PeriodBounds
  <2>3. tx_age[k] < MaxAge
    BY <1>2, <2>1, <2>2, AcceptDelayNat DEF MaxAge
  <2>4. tx_age'[k] = tx_age[k] + 1
    BY <1>4, <2>3 DEF Tick, Older
  <2>5. join_age'[k] \in {join_age[k], join_age[k] + 1}
    BY DEF Tick, Older
  <2> QED BY <1>2, <1>3, <2>1, <2>2, <2>4, <2>5
<1>5. TxRecent'
  BY <1>1, <1>3, <1>4 DEF TxRecent
<1>6. BothJoining'
  <2> SUFFICES ASSUME NEW w \in Node, NEW l \in Node,
                      state[w] = "JOINING", state[l] = "JOINING",
                      node_id[w] = node_id[l], unique_id[w] > unique_id[l]
               PROVE  BothWithin(w, l, Allowed(losses) + tx_age[w])'
    BY <1>1 DEF BothJoining
  <2>1. BothWithin(w, l, Allowed(losses) + tx_age[w])
    BY <1>1 DEF UniqueInv, BothJoining, JoinOnItsWay
  <2>2. /\ tx_age'[w] = tx_age[w] + 1
        /\ join_age'[w] <= join_age[w] + 1 /\ join_age'[l] <= join_age[l] + 1
        /\ join_age'[w] \in Nat /\ join_age'[l] \in Nat
    <3>1. join_age'[w] \in Nat /\ join_age'[l] \in Nat
      BY <1>2 DEF Tick, Older
    <3> QED BY <1>4, <3>1
  <2> QED BY <1>2, <1>3, <2>1, <2>2 DEF BothWithin
<1>7. OneJoined'
  <2> SUFFICES ASSUME NEW a \in Node, NEW b \in Node,
                      Joined(a), state[b] = "JOINING",
                      node_id[a] = node_id[b], unique_id[a] # unique_id[b]
               PROVE  join_age'[b] <= Allowed(losses + 1)' + tx_age'[b]
    BY <1>1 DEF OneJoined, Joined
  <2>1. join_age[b] <= Allowed(losses + 1) + tx_age[b]
    BY <1>1 DEF UniqueInv, OneJoined, ConflictOnItsWay, JoinOnItsWay
  <2>2. join_age'[b] \in Nat
    BY <1>2 DEF Tick, Older
  <2> QED BY <1>2, <1>3, <1>4, <2>1, <2>2
<1> QED BY <1>1, <1>5, <1>6, <1>7 DEF UniqueInv, UniqueNames, Joined

(* The invariant is kept.                                                  *)
LEMMA UniqueStep ==
    ASSUME EnoughTime, TimedTypeOK, UniqueInv, [TimedNext]_timedVars
    PROVE  UniqueInv'
<1>1. ASSUME NEW n \in Node, TimedJoin(n)
      PROVE  UniqueInv'
  <2>1. /\ ~Joined(n)
        /\ state' = [state EXCEPT ![n] = "JOINING"]
        /\ unique_id' = unique_id /\ losses' = losses /\ StartClocks(n)
        /\ \A k \in Node \ {n} : node_id'[k] = node_id[k]
    BY <1>1 DEF TimedJoin, Join, JoinAs, Joined, TimedTypeOK, TypeOK
  <2>2. \A k \in Node \ {n} : \A p : <<k, p>> \in due => <<k, p>> \in due'
    BY <1>1 DEF TimedJoin
  <2> QED BY <2>1, <2>2, MoveKeepsUnique
<1>2. ASSUME NEW n \in Node, Deliver(n)
      PROVE  UniqueInv'
  <2>1. PICK d \in due : /\ d[1] = n /\ Process(n, d[2]) /\ losses' = losses
                         /\ due' = (due \ {d}) \cup Sending(n, Reply(n, d[2]))
    BY <1>2 DEF Deliver
  <2>2. \A k \in Node : \A q : <<k, q>> = d => k = n /\ q = d[2]
    BY <2>1
  <2> QED BY <2>1, <2>2, ProcessKeepsUnique
<1>3. ASSUME NEW n \in Node, LateRepeat(n)
      PROVE  UniqueInv'
  <2>1. PICK p \in ether : /\ Process(n, p) /\ losses' = losses
                           /\ due' = due \cup Sending(n, Reply(n, p))
    BY <1>3 DEF LateRepeat
  <2> QED BY <2>1, ProcessKeepsUnique
<1>4. CASE UNCHANGED timedVars
  <2>1. UNCHANGED <<state, node_id, unique_id, join_age, tx_age, due, losses>>
    BY <1>4 DEF timedVars, namingVars, clockVars
  <2>2. \A a, b \in Node : /\ JoinOnItsWay(a, b)' <=> JoinOnItsWay(a, b)
                           /\ ConflictOnItsWay(a, b)' <=> ConflictOnItsWay(a, b)
    BY <2>1 DEF ConflictOnItsWay, JoinOnItsWay, Header
  <2>3. BothJoining' /\ OneJoined'
    BY <2>1, <2>2 DEF UniqueInv, BothJoining, OneJoined, BothWithin, Joined, Allowed
  <2> QED BY <2>1, <2>3 DEF UniqueInv, TxRecent, UniqueNames, Joined
<1> QED BY <1>1, <1>2, <1>3, <1>4, AcceptKeepsUnique, RetransmitKeepsUnique,
           LeaveKeepsUnique, LoseKeepsUnique, TickKeepsUnique DEF TimedNext

(* UniqueNames: two nodes on the mesh have different ids if their unique   *)
(* ids differ, for any number of boots joining and leaving at any time, if *)
(* the accept delay leaves time for two JOINs more than packets get lost.  *)
(* (In the code, 5000 ms of it and 600 ms between two JOINs at most.)      *)
THEOREM UniqueNamesHold == EnoughTime => (TimedSpec => []UniqueNames)
<1> SUFFICES ASSUME EnoughTime
             PROVE  TimedSpec => []UniqueNames
  OBVIOUS
<1>1. TimedInit => UniqueInv
  BY DEF TimedInit, Init, UniqueInv, TxRecent, BothJoining, OneJoined, UniqueNames, Joined
<1>2. TimedTypeOK /\ UniqueInv /\ [TimedNext]_timedVars => UniqueInv'
  BY UniqueStep
<1>3. UniqueInv => UniqueNames
  BY DEF UniqueInv
<1> QED BY <1>1, <1>2, <1>3, TimedTypeCorrect, PTL DEF TimedSpec
=============================================================================
