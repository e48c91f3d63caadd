------------------------ MODULE PacketRepeaterProofs ------------------------
(***************************************************************************)
(* Proofs about PacketRepeater for every mesh, every set of packets the    *)
(* applications may send, every ring size and every hop limit: the rings   *)
(* are well formed, no packet exceeds the hop limit, a packet takes up one *)
(* slot of a ring, and a node repeats it once as long as the ring can hold *)
(* all packets that go around.                                             *)
(*                                                                         *)
(* None of these is inductive.  A node sends what its ring holds, so       *)
(* RingInv says where the packets wait and that they are below the limit.  *)
(* A packet is not repeated again because the ring remembers it, so        *)
(* OnceInv says that what was repeated is still there, and that a ring     *)
(* which is not full of packets has an unused slot where it goes on.       *)
(***************************************************************************)
EXTENDS PacketRepeater, FiniteSetTheorems, TLAPS

\* How many packets wait before the one in slot x of n's ring.
Distance(n, x) ==
    IF x >= repeat_cache_start[n]
      THEN x - repeat_cache_start[n]
      ELSE x - repeat_cache_start[n] + CACHE_SIZE

\* The packet in slot x is still to be repeated.
Waits(n, x) == Distance(n, x) < repeat_cache_size[n]

Unused(n, x) == repeat_cache[n][x].type = "none"

\* The next packet goes where the waiting ones end, and those can be repeated.
RingOK(n) ==
    /\ repeat_cache_size[n] < CACHE_SIZE =>
           Distance(n, repeat_cache_end[n]) = repeat_cache_size[n]
    /\ repeat_cache_size[n] = CACHE_SIZE => repeat_cache_end[n] = repeat_cache_start[n]
    /\ \A x \in Slots : Waits(n, x) =>
           repeat_cache[n][x] \in Packets /\ repeat_cache[n][x].hop < MAX_HOP_COUNT

RingInv == \A n \in Node : RingOK(n)

\* The slots are used in their order; when all are, packets get overwritten.
InOrder(n) ==
    \/ \A x \in Slots : ~Unused(n, x)
    \/ \A x \in Slots : Unused(n, x) <=> x >= repeat_cache_end[n]

\* What n has repeated, once, is in its ring and does not wait.
Kept(n) ==
    \A p \in plan :
        /\ repeated[n][p] \in {0, 1}
        /\ repeated[n][p] = 1 =>
               \E x \in Slots : /\ ~Waits(n, x)
                                /\ repeat_cache[n][x] \in Packets
                                /\ SansHop(repeat_cache[n][x]) = p

FewPackets == Cardinality(plan) <= CACHE_SIZE /\ JoinFree

OnceInv == \A n \in Node : InOrder(n) /\ (FewPackets => Kept(n))

-----------------------------------------------------------------------------
(* Arithmetic of a ring.                                                   *)

(* The next slot, without the remainder.                                   *)
LEMMA NextSlot ==
    ASSUME NEW x \in Slots
    PROVE  /\ (x + 1) % CACHE_SIZE = IF x = CACHE_SIZE - 1 THEN 0 ELSE x + 1
           /\ (x + 1) % CACHE_SIZE \in Slots
  BY CacheSizeNat DEF Slots

-----------------------------------------------------------------------------
(* Packets.                                                                *)

(* A packet with another hop count is a packet, and the same one.          *)
LEMMA HopOfPacket ==
    ASSUME plan \in Plans, NEW p \in Packets, NEW h \in 0..MAX_HOP_COUNT
    PROVE  /\ p.hop \in 0..MAX_HOP_COUNT
           /\ p.type # "none" /\ p.target \in Node \cup {0}
           /\ SansHop(p) \in plan /\ SansHop(p).type = p.type
           /\ [p EXCEPT !.hop = h] \in Packets
           /\ [p EXCEPT !.hop = h].hop = h
           /\ [p EXCEPT !.hop = h].type = p.type
           /\ SansHop([p EXCEPT !.hop = h]) = SansHop(p)
<1>1. PICK q \in plan, g \in 0..MAX_HOP_COUNT : p = [q EXCEPT !.hop = g]
  BY DEF Packets
<1>2. q \in FreshPackets
  BY PlansUnrepeated
<1>3. PICK t \in PacketTypes, s \in 0..15, i \in Node \cup {0}, u \in Node,
           d \in Node \cup {0}, m \in STRING :
           q = [type |-> t, seq |-> s, node_id |-> i, unique_id |-> u,
                target |-> d, name |-> m, hop |-> 0]
  BY <1>2 DEF FreshPackets
<1> DEFINE R(k) == [type |-> t, seq |-> s, node_id |-> i, unique_id |-> u,
                    target |-> d, name |-> m, hop |-> k]
<1>4. /\ SansHop(p) = q
      /\ [p EXCEPT !.hop = h] = [q EXCEPT !.hop = h]
      /\ SansHop([p EXCEPT !.hop = h]) = q
      /\ p.hop = g /\ p.type = t /\ q.type = t /\ p.target = d
      /\ [p EXCEPT !.hop = h].hop = h /\ [p EXCEPT !.hop = h].type = t
  <2>1. \A k, l : [R(k) EXCEPT !.hop = l] = R(l)
    OBVIOUS
  <2>2. q = R(0) /\ p = R(g)
    BY <1>1, <1>3, <2>1
  <2>3. R(g).hop = g /\ R(h).hop = h /\ \A k : R(k).type = t /\ R(k).target = d
    OBVIOUS
  <2> HIDE DEF R
  <2>4. [p EXCEPT !.hop = h] = R(h) /\ [q EXCEPT !.hop = h] = R(h)
    BY <2>1, <2>2
  <2>5. SansHop(R(g)) = R(0) /\ SansHop(R(h)) = R(0)
    BY <2>1 DEF SansHop
  <2> QED BY <2>2, <2>3, <2>4, <2>5
<1>5. [p EXCEPT !.hop = h] \in Packets
  BY <1>4 DEF Packets
<1>6. t # "none"
  BY DEF PacketTypes
<1> QED BY <1>4, <1>5, <1>6

(* What an application sends is a packet, not repeated yet.                *)
LEMMA PlannedPacket ==
    ASSUME plan \in Plans, NEW p \in plan
    PROVE  /\ p \in Packets /\ SansHop(p) = p /\ p.target \in Node \cup {0}
           /\ p.unique_id \in Node
<1>1. p \in FreshPackets
  BY PlansUnrepeated
<1>2. p = [p EXCEPT !.hop = 0] /\ p.target \in Node \cup {0} /\ p.unique_id \in Node
  BY <1>1 DEF FreshPackets
<1>3. 0 \in 0..MAX_HOP_COUNT
  BY HopCountNat
<1> QED BY <1>2, <1>3 DEF Packets, SansHop

(* A slot that has been zeroed is unused.                                  *)
LEMMA ZeroedSlot == Zeroed.type = "none"
  BY DEF Zeroed
-----------------------------------------------------------------------------
(* The two operations on a ring, slot by slot.                             *)

(* What Append makes of the rings.                                         *)
LEMMA AppendEffect ==
    ASSUME TypeOK, NEW n \in Node, NEW p \in Packets, Append(n, p),
           repeat_cache_size[n] < CACHE_SIZE
    PROVE  /\ repeat_cache_start' = repeat_cache_start
           /\ \A k \in Node :
                 /\ repeat_cache_size'[k] =
                        IF k = n THEN repeat_cache_size[n] + 1 ELSE repeat_cache_size[k]
                 /\ repeat_cache_end'[k] =
                        IF k # n THEN repeat_cache_end[k]
                        ELSE IF repeat_cache_end[n] = CACHE_SIZE - 1 THEN 0
                        ELSE repeat_cache_end[n] + 1
                 /\ \A x \in Slots : repeat_cache'[k][x] =
                        IF k = n /\ x = repeat_cache_end[n] THEN p ELSE repeat_cache[k][x]
           /\ repeat_cache' \in [Node -> [Slots -> Packets \cup {Zeroed}]]
           /\ repeat_cache_start' \in [Node -> Slots]
           /\ repeat_cache_end' \in [Node -> Slots]
           /\ repeat_cache_size' \in [Node -> 0..CACHE_SIZE]
<1>1. repeat_cache_end[n] \in Slots /\ repeat_cache_size[n] + 1 \in 0..CACHE_SIZE
  BY CacheSizeNat DEF TypeOK
<1>2. /\ (repeat_cache_end[n] + 1) % CACHE_SIZE \in Slots
      /\ (repeat_cache_end[n] + 1) % CACHE_SIZE =
             IF repeat_cache_end[n] = CACHE_SIZE - 1 THEN 0 ELSE repeat_cache_end[n] + 1
  BY <1>1, NextSlot
<1>3. \A k \in Node, x \in Slots : repeat_cache'[k][x] =
          IF k = n /\ x = repeat_cache_end[n] THEN p ELSE repeat_cache[k][x]
  BY <1>1 DEF Append, TypeOK
<1>4. repeat_cache' \in [Node -> [Slots -> Packets \cup {Zeroed}]]
  BY <1>1 DEF Append, TypeOK
<1> QED BY <1>1, <1>2, <1>3, <1>4 DEF Append, TypeOK

(* What a repeat makes of the rings.                                       *)
LEMMA RepeatEffect ==
    ASSUME TypeOK, RingInv, NEW n \in Node, Repeat(n)
    PROVE  LET x == repeat_cache_start[n]
               p == Hopped(repeat_cache[n][x])
           IN  /\ x \in Slots /\ Waits(n, x)
               /\ p \in Packets /\ p.type = repeat_cache[n][x].type
               /\ SansHop(p) = SansHop(repeat_cache[n][x]) /\ SansHop(p) \in plan
               /\ repeat_cache_end' = repeat_cache_end
               /\ \A k \in Node :
                     /\ repeat_cache_size'[k] =
                            IF k = n THEN repeat_cache_size[n] - 1 ELSE repeat_cache_size[k]
                     /\ repeat_cache_start'[k] =
                            IF k # n THEN repeat_cache_start[k]
                            ELSE IF x = CACHE_SIZE - 1 THEN 0 ELSE x + 1
                     /\ \A y \in Slots : repeat_cache'[k][y] =
                            IF k = n /\ y = x THEN p ELSE repeat_cache[k][y]
               /\ repeat_cache' \in [Node -> [Slots -> Packets \cup {Zeroed}]]
               /\ repeat_cache_start' \in [Node -> Slots]
               /\ repeat_cache_size' \in [Node -> 0..CACHE_SIZE]
<1> DEFINE x == repeat_cache_start[n]
           q == repeat_cache[n][x]
           p == Hopped(q)
<1>1. x \in Slots /\ repeat_cache_size[n] \in 1..CACHE_SIZE
  BY CacheSizeNat DEF TypeOK, Repeat
<1>2. Waits(n, x)
  BY <1>1, CacheSizeNat DEF Waits, Distance, Slots
<1>3. q \in Packets /\ q.hop < MAX_HOP_COUNT
  BY <1>1, <1>2 DEF RingInv, RingOK
<1>4. /\ q.hop + 1 \in 0..MAX_HOP_COUNT
      /\ p = [q EXCEPT !.hop = q.hop + 1]
  <2>1. 0 \in 0..MAX_HOP_COUNT
    BY HopCountNat
  <2>2. q.hop \in 0..MAX_HOP_COUNT
    <3> HIDE DEF q
    <3> QED BY <1>3, <2>1, HopOfPacket DEF TypeOK
  <2> HIDE DEF q
  <2> QED BY <1>3, <2>2, HopCountNat DEF Hopped
<1>5. /\ p \in Packets /\ p.type = q.type
      /\ SansHop(p) = SansHop(q) /\ SansHop(p) \in plan
  <2> HIDE DEF p, q
  <2> QED BY <1>3, <1>4, HopOfPacket DEF TypeOK
<1>6. /\ (x + 1) % CACHE_SIZE \in Slots
      /\ (x + 1) % CACHE_SIZE = IF x = CACHE_SIZE - 1 THEN 0 ELSE x + 1
  BY <1>1, NextSlot
<1>7. /\ repeat_cache' = [repeat_cache EXCEPT ![n][x] = p]
      /\ repeat_cache_start' = [repeat_cache_start EXCEPT ![n] = (x + 1) % CACHE_SIZE]
      /\ repeat_cache_size' = [repeat_cache_size EXCEPT ![n] = repeat_cache_size[n] - 1]
      /\ repeat_cache_end' = repeat_cache_end
  BY DEF Repeat
<1> HIDE DEF p, q
<1>8. /\ \A k \in Node, y \in Slots : repeat_cache'[k][y] =
              IF k = n /\ y = x THEN p ELSE repeat_cache[k][y]
      /\ repeat_cache' \in [Node -> [Slots -> Packets \cup {Zeroed}]]
  BY <1>1, <1>5, <1>7 DEF TypeOK
<1>9. repeat_cache_size[n] - 1 \in 0..CACHE_SIZE
  BY <1>1, CacheSizeNat
<1>10. /\ repeat_cache_start' \in [Node -> Slots]
       /\ repeat_cache_size' \in [Node -> 0..CACHE_SIZE]
       /\ \A k \in Node :
             /\ repeat_cache_size'[k] =
                    IF k = n THEN repeat_cache_size[n] - 1 ELSE repeat_cache_size[k]
             /\ repeat_cache_start'[k] =
                    IF k # n THEN repeat_cache_start[k]
                    ELSE IF x = CACHE_SIZE - 1 THEN 0 ELSE x + 1
  BY <1>6, <1>7, <1>9 DEF TypeOK
<1> QED BY <1>1, <1>2, <1>5, <1>7, <1>8, <1>10 DEF p, q
-----------------------------------------------------------------------------
(* What a step does to the rings: nothing, one packet is put into one of   *)
(* them, or one packet is repeated out of one of them.                     *)

PutInto(n, p) ==
    /\ p \in air[n] /\ Repeatable(n, p) /\ repeat_cache_size[n] < CACHE_SIZE
    /\ Append(n, p)
    /\ UNCHANGED <<plan, repeated>>

(* Every step appends to a ring, repeats from one, or leaves them alone.   *)
LEMMA StepsOfRings ==
    ASSUME [Next]_vars
    PROVE  /\ plan' = plan
           /\ \/ UNCHANGED <<ringVars, repeated>>
              \/ \E n \in Node : \E p \in air[n] : PutInto(n, p)
              \/ \E n \in Node : Repeat(n)
<1>1. ASSUME NEW p \in plan, Send(p)
      PROVE  plan' = plan /\ UNCHANGED <<ringVars, repeated>>
  BY <1>1 DEF Send
<1>2. ASSUME NEW n \in Node, EndRequest(n)
      PROVE  plan' = plan /\ UNCHANGED <<ringVars, repeated>>
  BY <1>2 DEF EndRequest
<1>3. ASSUME NEW n \in Node, NEW p \in air[n], Hear(n, p)
      PROVE  plan' = plan /\ (UNCHANGED <<ringVars, repeated>> \/ PutInto(n, p))
  BY <1>3 DEF Hear, PutInto
<1>4. ASSUME NEW n \in Node, NEW p \in air[n], Lose(n, p)
      PROVE  plan' = plan /\ UNCHANGED <<ringVars, repeated>>
  BY <1>4 DEF Lose
<1>5. ASSUME NEW n \in Node, Repeat(n)
      PROVE  plan' = plan
  BY <1>5 DEF Repeat
<1>6. CASE UNCHANGED vars
  BY <1>6 DEF vars, ringVars
<1> QED BY <1>1, <1>2, <1>3, <1>4, <1>5, <1>6 DEF Next

(* What is transmitted is a packet, and so is all that is in the air then. *)
LEMMA TransmitType ==
    ASSUME air \in [Node -> SUBSET Packets], NEW n \in Node, NEW p \in Packets,
           Transmit(n, p, air)
    PROVE  air' \in [Node -> SUBSET Packets]
<1>1. \A m \in Node : IF m \in Hears[n] THEN air[m] \cup {p} \in SUBSET Packets
                                        ELSE air[m] \in SUBSET Packets
  OBVIOUS
<1> QED BY <1>1 DEF Transmit

(* The types are kept, given that what waits can be repeated.              *)
LEMMA TypeStep ==
    ASSUME TypeOK, RingInv, [Next]_vars
    PROVE  TypeOK'
<1>0. plan' = plan /\ Packets' = Packets
  BY StepsOfRings DEF Packets
<1>1. ASSUME NEW p \in plan, Send(p)
      PROVE  TypeOK'
  <2>1. p \in Packets /\ p.target \in Node \cup {0} /\ p.unique_id \in Node
    BY PlannedPacket DEF TypeOK
  <2>2. air' \in [Node -> SUBSET Packets]
    BY <1>1, <2>1, TransmitType DEF Send, TypeOK
  <2>3. /\ state' \in [Node -> Directed \cup {"IDLE"}]
        /\ target_node_id' \in [Node -> Node \cup {0}]
    BY <1>1, <2>1 DEF Send, TypeOK, requestVars
  <2> QED BY <1>0, <1>1, <2>2, <2>3 DEF Send, TypeOK, ringVars
<1>2. ASSUME NEW n \in Node, EndRequest(n)
      PROVE  TypeOK'
  BY <1>0, <1>2 DEF EndRequest, TypeOK, ringVars
<1>3. ASSUME NEW n \in Node, NEW p \in air[n], Hear(n, p)
      PROVE  TypeOK'
  <2>1. p \in Packets /\ SansHop(p) \in plan
    <3>1. p \in Packets /\ 0 \in 0..MAX_HOP_COUNT
      BY HopCountNat DEF TypeOK
    <3> QED BY <3>1, HopOfPacket DEF TypeOK
  <2>2. /\ air' \in [Node -> SUBSET Packets]
        /\ heard' \in [Node -> SUBSET plan]
    BY <1>3, <2>1 DEF Hear, TypeOK
  <2>3. state' \in [Node -> Directed \cup {"IDLE"}]
    BY <1>3 DEF Hear, TypeOK
  <2>4. /\ repeat_cache' \in [Node -> [Slots -> Packets \cup {Zeroed}]]
        /\ repeat_cache_start' \in [Node -> Slots]
        /\ repeat_cache_end' \in [Node -> Slots]
        /\ repeat_cache_size' \in [Node -> 0..CACHE_SIZE]
    <3>1. CASE UNCHANGED ringVars
      BY <3>1 DEF TypeOK, ringVars
    <3>2. CASE Append(n, p) /\ repeat_cache_size[n] < CACHE_SIZE
      BY <2>1, <3>2, AppendEffect DEF TypeOK
    <3> QED BY <1>3, <3>1, <3>2 DEF Hear
  <2> QED BY <1>0, <1>3, <2>2, <2>3, <2>4 DEF Hear, TypeOK
<1>4. ASSUME NEW n \in Node, NEW p \in air[n], Lose(n, p)
      PROVE  TypeOK'
  <2>1. lost' \in 0..MaxLosses
    BY <1>4, LossesNat DEF Lose, TypeOK
  <2> QED BY <1>0, <1>4, <2>1 DEF Lose, TypeOK, ringVars, requestVars
<1>5. ASSUME NEW n \in Node, Repeat(n)
      PROVE  TypeOK'
  <2> DEFINE p == Hopped(repeat_cache[n][repeat_cache_start[n]])
  <2>1. /\ p \in Packets /\ SansHop(p) \in plan
        /\ repeat_cache' \in [Node -> [Slots -> Packets \cup {Zeroed}]]
        /\ repeat_cache_start' \in [Node -> Slots]
        /\ repeat_cache_size' \in [Node -> 0..CACHE_SIZE]
        /\ repeat_cache_end' = repeat_cache_end
    BY <1>5, RepeatEffect
  <2>2. air' \in [Node -> SUBSET Packets]
    <3>1. Transmit(n, p, air)
      BY <1>5 DEF Repeat
    <3> HIDE DEF p
    <3> QED BY <2>1, <3>1, TransmitType DEF TypeOK
  <2>3. repeated' \in [Node -> [plan -> 0..2]]
    <3>1. repeated' = [repeated EXCEPT ![n][SansHop(p)] =
                           IF repeated[n][SansHop(p)] < 2 THEN repeated[n][SansHop(p)] + 1
                           ELSE repeated[n][SansHop(p)]]
      BY <1>5 DEF Repeat
    <3>2. repeated[n][SansHop(p)] \in 0..2
      BY <2>1 DEF TypeOK
    <3> HIDE DEF p
    <3> QED BY <2>1, <3>1, <3>2 DEF TypeOK
  <2> QED BY <1>0, <1>5, <2>1, <2>2, <2>3 DEF Repeat, TypeOK, requestVars
<1>6. CASE UNCHANGED vars
  BY <1>0, <1>6 DEF vars, requestVars, ringVars, TypeOK
<1> QED BY <1>1, <1>2, <1>3, <1>4, <1>5, <1>6 DEF Next
-----------------------------------------------------------------------------
(* How the waiting slots change: a packet put into a ring waits behind the *)
(* others, and the one that is repeated was the first.                     *)

(* A packet that has been appended waits, as those before it do.           *)
LEMMA WaitsAfterPut ==
    ASSUME TypeOK, RingInv, NEW n \in Node, NEW p \in Packets, Append(n, p),
           repeat_cache_size[n] < CACHE_SIZE
    PROVE  /\ ~Waits(n, repeat_cache_end[n])
           /\ \A k \in Node, x \in Slots :
                  Waits(k, x)' <=> Waits(k, x) \/ (k = n /\ x = repeat_cache_end[n])
           /\ repeat_cache_size'[n] < CACHE_SIZE =>
                  Distance(n, repeat_cache_end[n])' = repeat_cache_size'[n]
           /\ repeat_cache_size'[n] = CACHE_SIZE =>
                  repeat_cache_end'[n] = repeat_cache_start'[n]
<1>1. /\ repeat_cache_end[n] \in Slots /\ repeat_cache_start[n] \in Slots
      /\ repeat_cache_size[n] \in 0..(CACHE_SIZE - 1)
      /\ Distance(n, repeat_cache_end[n]) = repeat_cache_size[n]
  BY CacheSizeNat DEF TypeOK, RingInv, RingOK
<1>2. /\ repeat_cache_start' = repeat_cache_start
      /\ \A k \in Node : repeat_cache_size'[k] =
             IF k = n THEN repeat_cache_size[n] + 1 ELSE repeat_cache_size[k]
      /\ repeat_cache_end'[n] =
             IF repeat_cache_end[n] = CACHE_SIZE - 1 THEN 0 ELSE repeat_cache_end[n] + 1
  BY AppendEffect
<1>3. ~Waits(n, repeat_cache_end[n])
  BY <1>1 DEF Waits
<1>4. \A x \in Slots : Distance(n, x) = Distance(n, repeat_cache_end[n]) =>
          x = repeat_cache_end[n]
  BY <1>1, CacheSizeNat DEF Distance, Slots
<1>5. \A x \in Slots : Distance(n, x) \in Int
  BY <1>1, CacheSizeNat DEF Distance, Slots
<1>6. \A k \in Node, x \in Slots :
          Waits(k, x)' <=> Waits(k, x) \/ (k = n /\ x = repeat_cache_end[n])
  <2> SUFFICES ASSUME NEW k \in Node, NEW x \in Slots
               PROVE  Waits(k, x)' <=> Waits(k, x) \/ (k = n /\ x = repeat_cache_end[n])
    OBVIOUS
  <2>1. Distance(k, x)' = Distance(k, x)
    BY <1>2 DEF Distance
  <2>2. CASE k # n
    BY <1>2, <2>1, <2>2 DEF Waits
  <2>3. CASE k = n
    BY <1>1, <1>2, <1>4, <1>5, <2>1, <2>3, CacheSizeNat DEF Waits
  <2> QED BY <2>2, <2>3
<1>7. /\ repeat_cache_size'[n] < CACHE_SIZE =>
             Distance(n, repeat_cache_end[n])' = repeat_cache_size'[n]
      /\ repeat_cache_size'[n] = CACHE_SIZE =>
             repeat_cache_end'[n] = repeat_cache_start'[n]
  BY <1>1, <1>2, CacheSizeNat DEF Distance, Slots
<1> QED BY <1>3, <1>6, <1>7

(* The packet that has been repeated waits no more.                        *)
LEMMA WaitsAfterRepeat ==
    ASSUME TypeOK, RingInv, NEW n \in Node, Repeat(n)
    PROVE  \A k \in Node, x \in Slots :
               Waits(k, x)' <=> Waits(k, x) /\ ~(k = n /\ x = repeat_cache_start[n])
<1>1. /\ repeat_cache_start[n] \in Slots
      /\ repeat_cache_size[n] \in 1..CACHE_SIZE
  BY CacheSizeNat DEF TypeOK, Repeat
<1>2. \A k \in Node :
         /\ repeat_cache_size'[k] =
                IF k = n THEN repeat_cache_size[n] - 1 ELSE repeat_cache_size[k]
         /\ repeat_cache_start'[k] =
                IF k # n THEN repeat_cache_start[k]
                ELSE IF repeat_cache_start[n] = CACHE_SIZE - 1 THEN 0
                ELSE repeat_cache_start[n] + 1
  BY RepeatEffect
<1> SUFFICES ASSUME NEW k \in Node, NEW x \in Slots
             PROVE  Waits(k, x)' <=> Waits(k, x) /\ ~(k = n /\ x = repeat_cache_start[n])
  OBVIOUS
<1>3. CASE k # n
  BY <1>2, <1>3 DEF Waits, Distance
<1>4. CASE k = n
  BY <1>1, <1>2, <1>4, CacheSizeNat DEF Waits, Distance, Slots
<1> QED BY <1>3, <1>4

(* The rings stay well formed, and what waits in them can be repeated.     *)
LEMMA RingStep ==
    ASSUME TypeOK, RingInv, [Next]_vars
    PROVE  RingInv'
<1>0. plan' = plan /\ Packets' = Packets
  BY StepsOfRings DEF Packets
<1>1. CASE UNCHANGED <<ringVars, repeated>>
  BY <1>0, <1>1 DEF ringVars, RingInv, RingOK, Waits, Distance
<1>2. ASSUME NEW n \in Node, NEW p \in air[n], PutInto(n, p), NEW k \in Node
      PROVE  RingOK(k)'
  <2>1. /\ p \in Packets /\ p.hop < MAX_HOP_COUNT
        /\ Append(n, p) /\ repeat_cache_size[n] < CACHE_SIZE
    BY <1>2 DEF PutInto, Repeatable, TypeOK
  <2>2. /\ repeat_cache_start' = repeat_cache_start
        /\ k # n => /\ repeat_cache_size'[k] = repeat_cache_size[k]
                    /\ repeat_cache_end'[k] = repeat_cache_end[k]
        /\ \A x \in Slots : repeat_cache'[k][x] =
               IF k = n /\ x = repeat_cache_end[n] THEN p ELSE repeat_cache[k][x]
    BY <2>1, AppendEffect
  <2>3. /\ repeat_cache_size'[k] < CACHE_SIZE =>
               Distance(k, repeat_cache_end[k])' = repeat_cache_size'[k]
        /\ repeat_cache_size'[k] = CACHE_SIZE =>
               repeat_cache_end'[k] = repeat_cache_start'[k]
    <3>1. CASE k = n
      BY <2>1, <3>1, WaitsAfterPut
    <3>2. CASE k # n
      BY <2>2, <3>2 DEF RingInv, RingOK, Distance
    <3> QED BY <3>1, <3>2
  <2>4. ASSUME NEW x \in Slots, Waits(k, x)'
        PROVE  repeat_cache'[k][x] \in Packets /\ repeat_cache'[k][x].hop < MAX_HOP_COUNT
    <3>1. Waits(k, x) \/ (k = n /\ x = repeat_cache_end[n])
      BY <2>1, <2>4, WaitsAfterPut
    <3>2. Waits(k, x) => repeat_cache[k][x] \in Packets /\ repeat_cache[k][x].hop < MAX_HOP_COUNT
      BY DEF RingInv, RingOK
    <3> QED BY <2>1, <2>2, <3>1, <3>2
  <2> QED BY <1>0, <2>3, <2>4 DEF RingOK
<1>3. ASSUME NEW n \in Node, Repeat(n), NEW k \in Node
      PROVE  RingOK(k)'
  <2>1. /\ repeat_cache_start[n] \in Slots
        /\ repeat_cache_size[n] \in 1..CACHE_SIZE
        /\ repeat_cache_end[n] \in Slots
    BY <1>3, CacheSizeNat DEF TypeOK, Repeat
  <2>2. /\ repeat_cache_end' = repeat_cache_end
        /\ repeat_cache_size'[k] =
               IF k = n THEN repeat_cache_size[n] - 1 ELSE repeat_cache_size[k]
        /\ repeat_cache_start'[k] =
               IF k # n THEN repeat_cache_start[k]
               ELSE IF repeat_cache_start[n] = CACHE_SIZE - 1 THEN 0
               ELSE repeat_cache_start[n] + 1
        /\ \A x \in Slots : ~(k = n /\ x = repeat_cache_start[n]) =>
               repeat_cache'[k][x] = repeat_cache[k][x]
    BY <1>3, RepeatEffect
  <2>3. /\ repeat_cache_size'[k] < CACHE_SIZE =>
               Distance(k, repeat_cache_end[k])' = repeat_cache_size'[k]
        /\ repeat_cache_size'[k] = CACHE_SIZE =>
               repeat_cache_end'[k] = repeat_cache_start'[k]
    <3>1. CASE k = n
      BY <2>1, <2>2, <3>1, CacheSizeNat DEF RingInv, RingOK, Distance, Slots
    <3>2. CASE k # n
      BY <2>2, <3>2 DEF RingInv, RingOK, Distance
    <3> QED BY <3>1, <3>2
  <2>4. ASSUME NEW x \in Slots, Waits(k, x)'
        PROVE  repeat_cache'[k][x] \in Packets /\ repeat_cache'[k][x].hop < MAX_HOP_COUNT
    <3>1. Waits(k, x) /\ ~(k = n /\ x = repeat_cache_start[n])
      BY <1>3, <2>4, WaitsAfterRepeat
    <3> QED BY <2>2, <3>1 DEF RingInv, RingOK
  <2> QED BY <1>0, <2>3, <2>4 DEF RingOK
<1> QED BY <1>1, <1>2, <1>3, StepsOfRings DEF RingInv

(* No packet gets a second slot: one the ring remembers is not put into it *)
(* again, and one that is repeated stays the packet it was.                *)
LEMMA OneSlotStep ==
    ASSUME TypeOK, RingInv, OneSlotEach, [Next]_vars
    PROVE  OneSlotEach'
<1>1. CASE UNCHANGED <<ringVars, repeated>>
  BY <1>1 DEF ringVars, OneSlotEach
<1> SUFFICES ASSUME NEW k \in Node, NEW x \in Slots, NEW y \in Slots, x # y,
                    repeat_cache'[k][x].type \notin {"none", "JOIN"}
             PROVE  SansHop(repeat_cache'[k][x]) # SansHop(repeat_cache'[k][y])
  BY DEF OneSlotEach
<1>0. \A p \in Packets : SansHop(p).type = p.type
  <2>1. 0 \in 0..MAX_HOP_COUNT
    BY HopCountNat
  <2> QED BY <2>1, HopOfPacket DEF TypeOK
<1>2. ASSUME NEW n \in Node, NEW p \in air[n], PutInto(n, p)
      PROVE  SansHop(repeat_cache'[k][x]) # SansHop(repeat_cache'[k][y])
  <2>1. /\ p \in Packets /\ Append(n, p) /\ repeat_cache_size[n] < CACHE_SIZE
        /\ p.type # "JOIN" => ~Remembered(n, p)
    BY <1>2 DEF PutInto, Repeatable, TypeOK
  <2>2. \A z \in Slots : repeat_cache'[k][z] =
            IF k = n /\ z = repeat_cache_end[n] THEN p ELSE repeat_cache[k][z]
    BY <2>1, AppendEffect
  <2>3. \A z \in Slots : repeat_cache[k][z] \in Packets \/ repeat_cache[k][z] = Zeroed
    BY DEF TypeOK
  <2>4. CASE ~(k = n /\ repeat_cache_end[n] \in {x, y})
    BY <2>2, <2>4 DEF OneSlotEach
  <2>5. CASE k = n /\ x = repeat_cache_end[n]
    <3>1. p.type # "JOIN"
      BY <2>2, <2>5
    <3> QED BY <2>1, <2>2, <2>5, <3>1 DEF Remembered
  <2>6. CASE k = n /\ y = repeat_cache_end[n]
    <3>1. repeat_cache'[k][x] = repeat_cache[n][x] /\ repeat_cache'[k][y] = p
      BY <2>2, <2>6
    <3>2. CASE p.type # "JOIN"
      BY <2>1, <3>1, <3>2 DEF Remembered
    <3>3. CASE p.type = "JOIN"
      <4>1. repeat_cache[n][x] \in Packets
        BY <2>3, <2>6, <3>1, ZeroedSlot
      <4>2. SansHop(repeat_cache[n][x]).type # "JOIN" /\ SansHop(p).type = "JOIN"
        BY <1>0, <2>1, <3>1, <3>3, <4>1
      <4> QED BY <3>1, <4>2
    <3> QED BY <3>2, <3>3
  <2> QED BY <2>4, <2>5, <2>6
<1>3. ASSUME NEW n \in Node, Repeat(n)
      PROVE  SansHop(repeat_cache'[k][x]) # SansHop(repeat_cache'[k][y])
  <2> DEFINE p == Hopped(repeat_cache[n][repeat_cache_start[n]])
  <2>1. /\ SansHop(p) = SansHop(repeat_cache[n][repeat_cache_start[n]])
        /\ p.type = repeat_cache[n][repeat_cache_start[n]].type
        /\ \A z \in Slots : repeat_cache'[k][z] =
               IF k = n /\ z = repeat_cache_start[n] THEN p ELSE repeat_cache[k][z]
    BY <1>3, RepeatEffect
  <2>2. \A z \in Slots : /\ SansHop(repeat_cache'[k][z]) = SansHop(repeat_cache[k][z])
                         /\ repeat_cache'[k][z].type = repeat_cache[k][z].type
    <3> HIDE DEF p
    <3> QED BY <2>1
  <2> QED BY <2>2 DEF OneSlotEach
<1> QED BY <1>1, <1>2, <1>3, StepsOfRings DEF OneSlotEach
-----------------------------------------------------------------------------
(* As long as a ring can hold all packets that go around, a packet it does *)
(* not remember finds an unused slot: the used ones hold other packets,    *)
(* one each.                                                               *)
LEMMA RoomLeft ==
    ASSUME TypeOK, OneSlotEach, FewPackets, NEW n \in Node, InOrder(n),
           NEW p \in Packets, ~Remembered(n, p)
    PROVE  Unused(n, repeat_cache_end[n])
<1> SUFFICES ASSUME ~Unused(n, repeat_cache_end[n])
             PROVE  FALSE
  OBVIOUS
<1> DEFINE content == [x \in Slots |-> SansHop(repeat_cache[n][x])]
           others == plan \ {SansHop(p)}
<1>1. \A x \in Slots : ~Unused(n, x)
  <2>1. repeat_cache_end[n] \in Slots /\ repeat_cache_end[n] >= repeat_cache_end[n]
    BY CacheSizeNat DEF TypeOK, Slots
  <2> QED BY <2>1 DEF InOrder
<1>2. \A x \in Slots : repeat_cache[n][x] \in Packets
  BY <1>1, ZeroedSlot DEF TypeOK, Unused
<1>3. 0 \in 0..MAX_HOP_COUNT
  BY HopCountNat
<1>4. /\ SansHop(p) \in plan
      /\ \A x \in Slots : /\ SansHop(repeat_cache[n][x]) \in plan
                          /\ repeat_cache[n][x].type \notin {"none", "JOIN"}
  <2>1. \A q \in Packets : SansHop(q) \in plan /\ SansHop(q).type = q.type /\ q.type # "none"
    BY <1>3, HopOfPacket DEF TypeOK
  <2> QED BY <1>2, <2>1 DEF FewPackets, JoinFree
<1>5. content \in Injection(Slots, others)
  <2>1. \A x, y \in Slots : content[x] = content[y] => x = y
    BY <1>4 DEF OneSlotEach
  <2>2. content \in [Slots -> others]
    BY <1>4 DEF Remembered
  <2> QED BY <2>1, <2>2 DEF Injection, IsInjective
<1>6. IsFiniteSet(plan)
  BY PlansUnrepeated DEF TypeOK
<1>7. /\ IsFiniteSet(others) /\ Cardinality(plan) \in Nat
      /\ Cardinality(others) = Cardinality(plan) - 1
  BY <1>4, <1>6, FS_RemoveElement, FS_CardinalityType
<1>8. Cardinality(Slots) = CACHE_SIZE
  <2>1. 0 \in Int /\ CACHE_SIZE - 1 \in Int /\ ~(0 > CACHE_SIZE - 1)
    BY CacheSizeNat
  <2>2. Cardinality(0..(CACHE_SIZE - 1)) = CACHE_SIZE - 1 - 0 + 1
    BY <2>1, FS_Interval
  <2> QED BY <2>2, CacheSizeNat DEF Slots
<1>9. Cardinality(Slots) <= Cardinality(others)
  <2> HIDE DEF content, others
  <2> QED BY <1>5, <1>7, FS_Injection
<1> QED BY <1>7, <1>8, <1>9, CacheSizeNat DEF FewPackets

(* What was repeated stays in the ring, and is not repeated again.         *)
LEMMA OnceStep ==
    ASSUME TypeOK, RingInv, OneSlotEach, OnceInv, [Next]_vars
    PROVE  OnceInv'
<1>0. plan' = plan /\ Packets' = Packets /\ FewPackets' = FewPackets
  BY StepsOfRings DEF Packets, FewPackets, JoinFree
<1>1. CASE UNCHANGED <<ringVars, repeated>>
  BY <1>0, <1>1 DEF ringVars, OnceInv, InOrder, Kept, Unused, Waits, Distance
<1>2. ASSUME NEW n \in Node, NEW p \in air[n], PutInto(n, p), NEW k \in Node
      PROVE  InOrder(k)' /\ (FewPackets => Kept(k)')
  <2>1. /\ p \in Packets /\ Append(n, p) /\ repeat_cache_size[n] < CACHE_SIZE
        /\ p.type # "JOIN" => ~Remembered(n, p)
        /\ repeated' = repeated
    BY <1>2 DEF PutInto, Repeatable, TypeOK
  <2>2. p.type # "none" /\ (FewPackets => p.type # "JOIN")
    <3>1. 0 \in 0..MAX_HOP_COUNT
      BY HopCountNat
    <3>2. SansHop(p) \in plan /\ SansHop(p).type = p.type /\ p.type # "none"
      BY <2>1, <3>1, HopOfPacket DEF TypeOK
    <3> QED BY <3>2 DEF FewPackets, JoinFree
  <2>3. /\ k # n => repeat_cache_end'[k] = repeat_cache_end[k]
        /\ repeat_cache_end'[n] =
               IF repeat_cache_end[n] = CACHE_SIZE - 1 THEN 0 ELSE repeat_cache_end[n] + 1
        /\ \A x \in Slots : repeat_cache'[k][x] =
               IF k = n /\ x = repeat_cache_end[n] THEN p ELSE repeat_cache[k][x]
    BY <2>1, AppendEffect
  <2>4. \A x \in Slots : Unused(k, x)' <=> Unused(k, x) /\ ~(k = n /\ x = repeat_cache_end[n])
    BY <2>2, <2>3 DEF Unused
  <2>5. InOrder(k)'
    <3>1. InOrder(k)
      BY DEF OnceInv
    <3>2. CASE \A x \in Slots : ~Unused(k, x)
      BY <2>4, <3>2 DEF InOrder
    <3>3. CASE k # n
      BY <2>3, <2>4, <3>1, <3>3 DEF InOrder
    <3>4. CASE k = n /\ \A x \in Slots : Unused(k, x) <=> x >= repeat_cache_end[k]
      <4>1. repeat_cache_end[n] \in Slots
        BY DEF TypeOK
      <4>2. CASE repeat_cache_end[n] = CACHE_SIZE - 1
        <5>1. \A x \in Slots : ~Unused(k, x)'
          BY <2>4, <3>4, <4>2, CacheSizeNat DEF Slots
        <5> QED BY <5>1 DEF InOrder
      <4>3. CASE repeat_cache_end[n] # CACHE_SIZE - 1
        <5>1. \A x \in Slots : Unused(k, x)' <=> x >= repeat_cache_end'[k]
          BY <2>3, <2>4, <3>4, <4>1, <4>3, CacheSizeNat DEF Slots
        <5> QED BY <5>1 DEF InOrder
      <4> QED BY <4>2, <4>3
    <3> QED BY <3>1, <3>2, <3>3, <3>4 DEF InOrder
  <2>6. ASSUME FewPackets
        PROVE  Kept(k)'
    <3>1. Kept(k) /\ InOrder(n)
      BY <2>6 DEF OnceInv
    <3>2. Unused(n, repeat_cache_end[n])
      BY <2>1, <2>2, <2>6, <3>1, RoomLeft
    <3> SUFFICES ASSUME NEW q \in plan
                 PROVE  /\ repeated[k][q] \in {0, 1}
                        /\ repeated[k][q] = 1 =>
                              \E x \in Slots : /\ ~Waits(k, x)'
                                               /\ repeat_cache'[k][x] \in Packets
                                               /\ SansHop(repeat_cache'[k][x]) = q
      BY <1>0, <2>1 DEF Kept
    <3>3. repeated[k][q] \in {0, 1}
      BY <3>1 DEF Kept
    <3>4. ASSUME repeated[k][q] = 1
          PROVE  \E x \in Slots : /\ ~Waits(k, x)'
                                  /\ repeat_cache'[k][x] \in Packets
                                  /\ SansHop(repeat_cache'[k][x]) = q
      <4>1. PICK x \in Slots : /\ ~Waits(k, x)
                               /\ repeat_cache[k][x] \in Packets
                               /\ SansHop(repeat_cache[k][x]) = q
        BY <3>1, <3>4 DEF Kept
      <4>2. ~Unused(k, x)
        <5>1. 0 \in 0..MAX_HOP_COUNT
          BY HopCountNat
        <5> QED BY <4>1, <5>1, HopOfPacket DEF Unused, TypeOK
      <4>3. ~(k = n /\ x = repeat_cache_end[n])
        BY <3>2, <4>2
      <4> QED BY <2>1, <2>3, <4>1, <4>3, WaitsAfterPut
    <3> QED BY <3>3, <3>4
  <2> QED BY <2>5, <2>6
<1>3. ASSUME NEW n \in Node, Repeat(n), NEW k \in Node
      PROVE  InOrder(k)' /\ (FewPackets => Kept(k)')
  <2> DEFINE s == repeat_cache_start[n]
             p == Hopped(repeat_cache[n][s])
  <2>1. /\ s \in Slots /\ Waits(n, s)
        /\ p \in Packets /\ p.type = repeat_cache[n][s].type
        /\ SansHop(p) = SansHop(repeat_cache[n][s]) /\ SansHop(p) \in plan
        /\ repeat_cache_end' = repeat_cache_end
        /\ \A y \in Slots : repeat_cache'[k][y] =
               IF k = n /\ y = s THEN p ELSE repeat_cache[k][y]
    BY <1>3, RepeatEffect
  <2>2. \A x \in Slots : Waits(k, x)' <=> Waits(k, x) /\ ~(k = n /\ x = s)
    BY <1>3, WaitsAfterRepeat
  <2>3. repeated' = [repeated EXCEPT ![n][SansHop(p)] =
                         IF repeated[n][SansHop(p)] < 2 THEN repeated[n][SansHop(p)] + 1
                         ELSE repeated[n][SansHop(p)]]
    BY <1>3 DEF Repeat
  <2> HIDE DEF p
  <2>4. InOrder(k)'
    <3>1. \A x \in Slots : Unused(k, x)' <=> Unused(k, x)
      BY <2>1 DEF Unused
    <3> QED BY <2>1, <3>1 DEF OnceInv, InOrder
  <2>5. ASSUME FewPackets
        PROVE  Kept(k)'
    <3>1. Kept(k) /\ Kept(n)
      BY <2>5 DEF OnceInv
    <3>2. repeat_cache[n][s] \in Packets /\ p.type \notin {"none", "JOIN"}
      <4>1. 0 \in 0..MAX_HOP_COUNT
        BY HopCountNat
      <4>2. SansHop(p).type = p.type /\ p.type # "none"
        BY <2>1, <4>1, HopOfPacket DEF TypeOK
      <4>3. p.type # "JOIN"
        BY <2>1, <2>5, <4>2 DEF FewPackets, JoinFree
      <4> QED BY <2>1, <4>2, <4>3 DEF RingInv, RingOK
    <3>3. repeated[n][SansHop(p)] = 0
      <4> SUFFICES ASSUME repeated[n][SansHop(p)] = 1
                   PROVE  FALSE
        BY <2>1, <3>1 DEF Kept
      <4>1. PICK x \in Slots : ~Waits(n, x) /\ SansHop(repeat_cache[n][x]) = SansHop(p)
        BY <2>1, <3>1 DEF Kept
      <4> QED BY <2>1, <3>2, <4>1 DEF OneSlotEach
    <3>4. \A q \in plan : repeated'[k][q] =
              IF k = n /\ q = SansHop(p) THEN 1 ELSE repeated[k][q]
      BY <2>1, <2>3, <3>3 DEF TypeOK
    <3> SUFFICES ASSUME NEW q \in plan
                 PROVE  /\ repeated'[k][q] \in {0, 1}
                        /\ repeated'[k][q] = 1 =>
                              \E x \in Slots : /\ ~Waits(k, x)'
                                               /\ repeat_cache'[k][x] \in Packets
                                               /\ SansHop(repeat_cache'[k][x]) = q
      BY <1>0 DEF Kept
    <3>5. CASE k = n /\ q = SansHop(p)
      BY <2>1, <2>2, <3>4, <3>5
    <3>6. CASE ~(k = n /\ q = SansHop(p))
      <4>1. repeated'[k][q] = repeated[k][q] /\ repeated[k][q] \in {0, 1}
        BY <3>1, <3>4, <3>6 DEF Kept
      <4>2. ASSUME repeated[k][q] = 1
            PROVE  \E x \in Slots : /\ ~Waits(k, x)'
                                    /\ repeat_cache'[k][x] \in Packets
                                    /\ SansHop(repeat_cache'[k][x]) = q
        <5>1. PICK x \in Slots : /\ ~Waits(k, x)
                                 /\ repeat_cache[k][x] \in Packets
                                 /\ SansHop(repeat_cache[k][x]) = q
          BY <3>1, <4>2 DEF Kept
        <5>2. ~(k = n /\ x = s)
          BY <2>1, <5>1
        <5> QED BY <2>1, <2>2, <5>1, <5>2
      <4> QED BY <4>1, <4>2
    <3> QED BY <3>5, <3>6
  <2> QED BY <2>4, <2>5
<1> QED BY <1>0, <1>1, <1>2, <1>3, StepsOfRings DEF OnceInv
-----------------------------------------------------------------------------
RepeaterInv == TypeOK /\ RingInv /\ OneSlotEach /\ OnceInv

(* The rings begin empty and zeroed.                                       *)
LEMMA RepeaterInit == Init => RepeaterInv
<1> SUFFICES ASSUME Init
             PROVE  RepeaterInv
  OBVIOUS
<1>1. 0 \in Slots /\ 0 \in 0..CACHE_SIZE /\ 0 \in 0..MaxLosses
  BY CacheSizeNat, LossesNat DEF Slots
<1>2. TypeOK
  BY <1>1 DEF Init, TypeOK
<1>3. \A n \in Node : RingOK(n)
  BY <1>1, CacheSizeNat DEF Init, RingOK, Waits, Distance, Slots
<1>4. OneSlotEach
  BY ZeroedSlot DEF Init, OneSlotEach
<1>5. \A n \in Node : InOrder(n)
  BY ZeroedSlot, CacheSizeNat DEF Init, InOrder, Unused, Slots
<1>6. \A n \in Node : Kept(n)
  BY DEF Init, Kept
<1> QED BY <1>2, <1>3, <1>4, <1>5, <1>6 DEF RepeaterInv, RingInv, OnceInv

(* RepeaterInv is an inductive invariant.                                  *)
THEOREM RepeaterInvariant == Spec => []RepeaterInv
<1>1. RepeaterInv /\ [Next]_vars => RepeaterInv'
  BY TypeStep, RingStep, OneSlotStep, OnceStep DEF RepeaterInv
<1> QED BY <1>1, RepeaterInit, PTL DEF Spec

(* TypeOK: in particular the ring indices and sizes stay within the ring.  *)
THEOREM TypeCorrect == Spec => []TypeOK
  BY RepeaterInvariant, PTL DEF RepeaterInv

(* HopsBounded: what is in the air has been repeated MAX_HOP_COUNT times   *)
(* at most, whatever the nodes hear and however full their rings are.      *)
THEOREM HopsBoundedHolds == Spec => []HopsBounded
<1>1. TypeOK => HopsBounded
  <2> SUFFICES ASSUME TypeOK, NEW n \in Node, NEW p \in air[n]
               PROVE  p.hop <= MAX_HOP_COUNT
    BY DEF HopsBounded
  <2>1. p \in Packets /\ 0 \in 0..MAX_HOP_COUNT
    BY HopCountNat DEF TypeOK
  <2>2. p.hop \in 0..MAX_HOP_COUNT
    BY <2>1, HopOfPacket DEF TypeOK
  <2> QED BY <2>2, HopCountNat
<1> QED BY <1>1, TypeCorrect, PTL

(* OneSlotEach: a packet that is no JOIN never has two slots of a ring.    *)
THEOREM OneSlotEachHolds == Spec => []OneSlotEach
  BY RepeaterInvariant, PTL DEF RepeaterInv

(* RepeatedOnce: as long as no more packets go around than a ring holds, a *)
(* node repeats each of them once at most.                                 *)
THEOREM RepeatedOnceHolds == Spec => []RepeatedOnce
<1>1. OnceInv => RepeatedOnce
  BY DEF OnceInv, Kept, FewPackets, RepeatedOnce
<1> QED BY <1>1, RepeaterInvariant, PTL DEF RepeaterInv
=============================================================================
