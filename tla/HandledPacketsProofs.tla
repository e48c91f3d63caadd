------------------------ MODULE HandledPacketsProofs ------------------------
(***************************************************************************)
(* What the handled packet cache achieves, for caches of every length,     *)
(* sequence numbers of every width, and any number of senders and packets. *)
(***************************************************************************)
EXTENDS HandledPackets, TLAPS

(***************************************************************************)
(* Arithmetic of sequence numbers.                                         *)

\* Division by SEQ_RANGE, in the form the steps below use.
LEMMA SeqDivision ==
    ASSUME NEW a \in Nat
    PROVE  \E q \in Int : a = (SEQ_RANGE * q) + (a % SEQ_RANGE)
<1>1. SEQ_RANGE \in Nat /\ SEQ_RANGE > 0
  BY SeqRangeNat
<1>2. /\ a \div SEQ_RANGE \in Int
      /\ a = (SEQ_RANGE * (a \div SEQ_RANGE)) + (a % SEQ_RANGE)
  BY <1>1
<1> QED BY <1>2

\* A multiple of SEQ_RANGE that is smaller than SEQ_RANGE either way is 0.
LEMMA SmallMultiple ==
    ASSUME NEW q \in Int, - SEQ_RANGE < SEQ_RANGE * q, SEQ_RANGE * q < SEQ_RANGE
    PROVE  SEQ_RANGE * q = 0
<1>1. SEQ_RANGE \in Nat /\ SEQ_RANGE > 0
  BY SeqRangeNat
<1>2. CASE q <= -1
  <2>1. SEQ_RANGE * q <= SEQ_RANGE * (-1)
    BY <1>1, <1>2
  <2> QED BY <2>1, <1>1
<1>3. CASE q >= 1
  <2>1. SEQ_RANGE * q >= SEQ_RANGE
    BY <1>1, <1>3
  <2> QED BY <2>1, <1>1
<1>4. CASE q = 0
  BY <1>1, <1>4
<1> QED BY <1>2, <1>3, <1>4

(* A remainder is a sequence number.                                       *)
LEMMA SeqInRange ==
    ASSUME NEW a \in Nat
    PROVE  a % SEQ_RANGE \in Seqs
BY SeqRangeNat DEF Seqs

\* Numbers less than SEQ_RANGE apart have different sequence numbers.
LEMMA SeqsDiffer ==
    ASSUME NEW a \in Nat, NEW b \in Nat, a < b, b < a + SEQ_RANGE
    PROVE  a % SEQ_RANGE # b % SEQ_RANGE
<1>1. SEQ_RANGE \in Nat /\ SEQ_RANGE > 0
  BY SeqRangeNat
<1>2. SUFFICES ASSUME a % SEQ_RANGE = b % SEQ_RANGE PROVE FALSE
  OBVIOUS
<1>3. PICK qa \in Int : a = (SEQ_RANGE * qa) + (a % SEQ_RANGE)
  BY SeqDivision
<1>4. PICK qb \in Int : b = (SEQ_RANGE * qb) + (b % SEQ_RANGE)
  BY SeqDivision
<1>5. a % SEQ_RANGE \in Int /\ b % SEQ_RANGE \in Int
  BY SeqInRange DEF Seqs
<1>6. SEQ_RANGE * qb - SEQ_RANGE * qa = b - a
  BY <1>1, <1>2, <1>3, <1>4, <1>5
<1>7. SEQ_RANGE * (qb - qa) = b - a
  BY <1>1, <1>6
<1>8. SEQ_RANGE * (qb - qa) = 0
  BY <1>1, <1>7, SmallMultiple
<1> QED BY <1>7, <1>8

\* The addition on the nibble is the addition on the number.
LEMMA SeqOfSum ==
    ASSUME NEW k \in Nat, NEW y \in Nat
    PROVE  ((k % SEQ_RANGE) + y) % SEQ_RANGE = (k + y) % SEQ_RANGE
<1>1. SEQ_RANGE \in Nat /\ SEQ_RANGE > 0
  BY SeqRangeNat
<1> DEFINE r == k % SEQ_RANGE
           u == (r + y) % SEQ_RANGE
           v == (k + y) % SEQ_RANGE
<1>2. r \in Seqs
  BY SeqInRange
<1>3. r \in Nat /\ r + y \in Nat /\ k + y \in Nat
  BY <1>2, SeqRangeNat DEF Seqs
<1>4. u \in Seqs /\ v \in Seqs
  BY <1>3, SeqInRange
<1>5. PICK q \in Int : k = (SEQ_RANGE * q) + r
  BY SeqDivision
<1>6. PICK q1 \in Int : r + y = (SEQ_RANGE * q1) + u
  BY <1>3, SeqDivision
<1>7. PICK q2 \in Int : k + y = (SEQ_RANGE * q2) + v
  BY <1>3, SeqDivision
<1> HIDE DEF r, u, v
<1>8. /\ SEQ_RANGE * q \in Int /\ SEQ_RANGE * q1 \in Int /\ SEQ_RANGE * q2 \in Int
      /\ u \in 0..(SEQ_RANGE - 1) /\ v \in 0..(SEQ_RANGE - 1)
  BY <1>1, <1>4 DEF Seqs
<1>9. (SEQ_RANGE * q) + (SEQ_RANGE * q1) - (SEQ_RANGE * q2) = v - u
  BY <1>1, <1>3, <1>5, <1>6, <1>7, <1>8
<1>10. SEQ_RANGE * (q + q1 - q2) = v - u
  BY <1>1, <1>9
<1>11. SEQ_RANGE * (q + q1 - q2) = 0
  BY <1>1, <1>8, <1>10, SmallMultiple
<1>12. u = v
  BY <1>8, <1>10, <1>11
<1> QED BY <1>12 DEF r, u, v
-----------------------------------------------------------------------------
(* The types.                                                              *)

\* What any packet does to the type invariant.
LEMMA PacketTypes ==
    ASSUME TypeOK, NEW s \in Sender, NEW k \in Numbers
    PROVE  /\ k \in Nat
           /\ Packet(s, k) = Entry(Packet(s, k))
           /\ Entry(Packet(s, k)) \in Entries
           /\ Expire(handled_packet_cache, Packet(s, k)) \in [Slots -> Entries]
<1>1. k \in Nat
  BY MaxNumberNat DEF Numbers
<1>2. k % SEQ_RANGE \in Seqs /\ 0 \in Seqs
  BY <1>1, SeqInRange, SeqRangeNat DEF Seqs
<1>3. Entry(Packet(s, k)) \in Entries /\ Zeroed \in Entries
  BY <1>2 DEF Entry, Packet, Entries, Zeroed
<1>4. Packet(s, k) = Entry(Packet(s, k))
  BY DEF Entry, Packet
<1>5. Expire(handled_packet_cache, Packet(s, k)) \in [Slots -> Entries]
  BY <1>3 DEF Expire, TypeOK
<1> QED BY <1>1, <1>3, <1>4, <1>5

(* Everything starts with its type,                                        *)
LEMMA TypeInit == Init => TypeOK
<1> SUFFICES ASSUME Init PROVE TypeOK
  OBVIOUS
<1>1. 0 \in Seqs /\ 0 \in Slots /\ 0 \in Numbers
  BY SeqRangeNat, CacheLengthNat, MaxNumberNat DEF Seqs, Slots, Numbers
<1>2. handled_packet_cache \in [Slots -> Entries]
  BY <1>1 DEF Init, EmptyCache, Zeroed, Entries
<1> QED BY <1>1, <1>2 DEF Init, TypeOK

(* and every step keeps it.                                                *)
LEMMA TypeStep == TypeOK /\ [Next]_vars => TypeOK'
<1> SUFFICES ASSUME TypeOK, [Next]_vars PROVE TypeOK'
  OBVIOUS
<1>1. ASSUME NEW s \in Sender, NEW k \in Numbers, Arrives(s, k)
      PROVE  heard' \in [Sender -> Numbers]
  BY <1>1 DEF Arrives, TypeOK
<1>2. ASSUME NEW s \in Sender, NEW k \in Numbers, PassOver(s, k)
      PROVE  TypeOK'
  <2>1. handled_packet_cache' \in [Slots -> Entries]
    BY <1>2, PacketTypes DEF PassOver
  <2> QED BY <2>1, <1>1, <1>2 DEF PassOver, TypeOK
<1>3. ASSUME NEW s \in Sender, NEW k \in Numbers, Handle(s, k)
      PROVE  TypeOK'
  <2>1. handled_packet_cache' \in [Slots -> Entries]
    BY <1>3, PacketTypes DEF Handle, Remember
  <2>2. last_handled_packet_index' \in Slots
    <3>1. last_handled_packet_index \in Nat /\ CACHE_LENGTH \in Nat \ {0}
      BY CacheLengthNat DEF TypeOK, Slots
    <3>2. (last_handled_packet_index + 1) % CACHE_LENGTH \in 0..(CACHE_LENGTH - 1)
      BY <3>1
    <3> QED BY <1>3, <3>2 DEF Handle, NextSlot, Slots
  <2>3. handled' \in [Slots -> (Sender \X Numbers) \cup {Nothing}]
    BY <1>3 DEF Handle, TypeOK
  <2> QED BY <2>1, <2>2, <2>3, <1>1, <1>3 DEF Handle, TypeOK
<1>4. CASE UNCHANGED vars
  BY <1>4 DEF vars, TypeOK
<1> QED BY <1>2, <1>3, <1>4 DEF Next

\* The state stays within its types.
THEOREM TypeCorrect == Spec => []TypeOK
<1>1. Init => TypeOK
  BY TypeInit
<1>2. TypeOK /\ [Next]_vars => TypeOK'
  BY TypeStep
<1> QED BY <1>1, <1>2, PTL DEF Spec
-----------------------------------------------------------------------------
(* New requests are accepted.                                              *)

\* No entry of a sender has a number it comes to next.
NothingAhead ==
    \A x \in Slots, s \in Sender, i \in 1..SEQ_EXPIRE :
        handled_packet_cache[x].unique_id = s
            => handled_packet_cache[x].seq # (heard[s] + i) % SEQ_RANGE

\* What Expire leaves of the packet's sender is not ahead of the packet.
LEMMA ExpireClears ==
    ASSUME TypeOK, NEW s \in Sender, NEW k \in Numbers, NEW x \in Slots,
           NEW i \in 1..SEQ_EXPIRE,
           Expire(handled_packet_cache, Packet(s, k))[x].unique_id = s
    PROVE  Expire(handled_packet_cache, Packet(s, k))[x].seq # (k + i) % SEQ_RANGE
<1>1. k \in Nat /\ i \in Nat /\ s # 0
  BY PacketTypes, SeqExpireNat, SenderNat
<1>2. ((k % SEQ_RANGE) + i) % SEQ_RANGE = (k + i) % SEQ_RANGE
  BY <1>1, SeqOfSum
<1>3. ~ /\ handled_packet_cache[x].unique_id = s
        /\ Approaches(k % SEQ_RANGE, handled_packet_cache[x].seq)
  BY <1>1 DEF Expire, Packet, Zeroed
<1>4. Expire(handled_packet_cache, Packet(s, k))[x] = handled_packet_cache[x]
  BY <1>3 DEF Expire, Packet
<1>5. ~ Approaches(k % SEQ_RANGE, handled_packet_cache[x].seq)
  BY <1>3, <1>4
<1> QED BY <1>2, <1>4, <1>5 DEF Approaches

\* Expire adds nothing to the cache.
LEMMA ExpireKeeps ==
    ASSUME TypeOK, NEW s \in Sender, NEW k \in Numbers, NEW x \in Slots,
           NEW t \in Sender,
           Expire(handled_packet_cache, Packet(s, k))[x].unique_id = t
    PROVE  Expire(handled_packet_cache, Packet(s, k))[x] = handled_packet_cache[x]
<1>1. t # 0
  BY SenderNat
<1> QED BY <1>1 DEF Expire, Zeroed

(* No step makes an entry that its sender is about to come to.             *)
LEMMA NothingAheadStep ==
    ASSUME Lag + SEQ_EXPIRE < SEQ_RANGE, TypeOK, NothingAhead, [Next]_vars
    PROVE  NothingAhead'
<1>1. ASSUME NEW s \in Sender, NEW k \in Numbers, Arrives(s, k),
             NEW x \in Slots, NEW t \in Sender, NEW i \in 1..SEQ_EXPIRE,
             Expire(handled_packet_cache, Packet(s, k))[x].unique_id = t
      PROVE  Expire(handled_packet_cache, Packet(s, k))[x].seq
                 # (heard'[t] + i) % SEQ_RANGE
  <2>1. CASE heard'[t] = heard[t]
    BY <1>1, <2>1, ExpireKeeps DEF NothingAhead
  <2>2. CASE heard'[t] # heard[t]
    <3>1. t = s /\ heard'[t] = k
      BY <1>1, <2>2 DEF Arrives, TypeOK
    <3> QED BY <1>1, <3>1, ExpireClears
  <2> QED BY <2>1, <2>2
<1>2. ASSUME NEW s \in Sender, NEW k \in Numbers, Arrives(s, k),
             NEW i \in 1..SEQ_EXPIRE
      PROVE  k % SEQ_RANGE # (heard'[s] + i) % SEQ_RANGE
  <2>1. /\ heard[s] \in Nat /\ k \in Nat /\ i \in Nat /\ i >= 1
        /\ i <= SEQ_EXPIRE /\ SEQ_EXPIRE \in Nat /\ SEQ_RANGE \in Nat
    BY SeqExpireNat, SeqRangeNat, MaxNumberNat DEF TypeOK, Numbers
  <2>2. heard'[s] = IF k > heard[s] THEN k ELSE heard[s]
    BY <1>2 DEF Arrives, TypeOK
  <2>3. heard[s] <= k + Lag
    BY <1>2 DEF Arrives
  <2>4. /\ heard'[s] + i \in Nat
        /\ k < heard'[s] + i
        /\ heard'[s] + i < k + SEQ_RANGE
    BY <2>1, <2>2, <2>3, LagNat
  <2> QED BY <2>1, <2>4, SeqsDiffer
<1>3. ASSUME NEW s \in Sender, NEW k \in Numbers, PassOver(s, k)
      PROVE  NothingAhead'
  <2>1. Arrives(s, k)
    BY <1>3 DEF PassOver
  <2>2. handled_packet_cache' = Expire(handled_packet_cache, Packet(s, k))
    BY <1>3 DEF PassOver
  <2> QED BY <1>1, <2>1, <2>2 DEF NothingAhead
<1>4. ASSUME NEW s \in Sender, NEW k \in Numbers, Handle(s, k)
      PROVE  NothingAhead'
  <2> DEFINE cache == Expire(handled_packet_cache, Packet(s, k))
             index == last_handled_packet_index
  <2>1. Arrives(s, k)
    BY <1>4 DEF Handle
  <2>2. handled_packet_cache' = [cache EXCEPT ![index] = Entry(Packet(s, k))]
    BY <1>4 DEF Handle, Remember
  <2>3. cache \in [Slots -> Entries]
    BY PacketTypes
  <2>4. SUFFICES ASSUME NEW x \in Slots, NEW t \in Sender,
                        NEW i \in 1..SEQ_EXPIRE,
                        handled_packet_cache'[x].unique_id = t
                 PROVE  handled_packet_cache'[x].seq # (heard'[t] + i) % SEQ_RANGE
    BY DEF NothingAhead
  <2>5. CASE x = index
    <3>1. handled_packet_cache'[x] = Entry(Packet(s, k))
      BY <2>2, <2>3, <2>5
    <3>2. t = s /\ handled_packet_cache'[x].seq = k % SEQ_RANGE
      BY <3>1, <2>4 DEF Entry, Packet
    <3> QED BY <3>2, <1>2, <2>1
  <2>6. CASE x # index
    <3>1. handled_packet_cache'[x] = cache[x]
      BY <2>2, <2>3, <2>6
    <3> QED BY <3>1, <1>1, <2>1, <2>4
  <2> QED BY <2>5, <2>6
<1>5. CASE UNCHANGED vars
  BY <1>5 DEF vars, NothingAhead
<1> QED BY <1>3, <1>4, <1>5 DEF Next

\* As long as the medium delays a packet by less than SEQ_RANGE - SEQ_EXPIRE
\* numbers of its sender, no new request is taken for an old one.
THEOREM FreshAcceptedHolds ==
    ASSUME Lag + SEQ_EXPIRE < SEQ_RANGE
    PROVE  Spec => []FreshAccepted
<1>1. Init => NothingAhead
  <2> SUFFICES ASSUME Init PROVE NothingAhead
    OBVIOUS
  <2>1. \A x \in Slots, s \in Sender : handled_packet_cache[x].unique_id # s
    BY SenderNat DEF Init, EmptyCache, Zeroed
  <2> QED BY <2>1 DEF NothingAhead
<1>2. TypeOK /\ NothingAhead /\ [Next]_vars => NothingAhead'
  BY NothingAheadStep
<1>3. NothingAhead => FreshAccepted
  BY DEF NothingAhead, FreshAccepted, Handled, Entry, Packet
<1> QED BY <1>1, <1>2, <1>3, TypeCorrect, PTL DEF Spec
-----------------------------------------------------------------------------
(* Requests are handled once.                                              *)

\* The latest packet of a sender, if it was handled, is still in its slot.
LatestKept ==
    \A x \in Slots, s \in Sender, k \in Numbers :
        handled[x] = <<s, k>> =>
            /\ k <= heard[s]
            /\ k = heard[s] => handled_packet_cache[x] = Entry(Packet(s, k))

OnceInv == LatestKept /\ HandledOnce

\* A packet does not expire its own entry, nor those of other senders.
LEMMA ExpireSpares ==
    ASSUME TypeOK, NEW s \in Sender, NEW k \in Numbers,
           NEW t \in Sender, NEW j \in Numbers, NEW x \in Slots,
           handled_packet_cache[x] = Entry(Packet(t, j)),
           t # s \/ j = k
    PROVE  Expire(handled_packet_cache, Packet(s, k))[x] = handled_packet_cache[x]
<1>1. k \in Nat
  BY PacketTypes
<1>2. CASE t # s
  BY <1>2 DEF Expire, Entry, Packet
<1>3. CASE j = k
  <2>1. ASSUME NEW y \in 1..SEQ_EXPIRE
        PROVE  ((k % SEQ_RANGE) + y) % SEQ_RANGE # k % SEQ_RANGE
    <3>1. /\ y \in Nat /\ k + y \in Nat
          /\ k < k + y /\ k + y < k + SEQ_RANGE
      BY <1>1, SeqExpireNat, SeqRangeNat
    <3> QED BY <3>1, <1>1, SeqOfSum, SeqsDiffer
  <2>2. ~ Approaches(k % SEQ_RANGE, k % SEQ_RANGE)
    BY <2>1 DEF Approaches
  <2> QED BY <1>3, <2>2 DEF Expire, Entry, Packet
<1> QED BY <1>2, <1>3

(* Every step keeps what was handled in the cache.                         *)
LEMMA OnceStep ==
    ASSUME Lag = 0, TypeOK, OnceInv, [Next]_vars
    PROVE  OnceInv'
<1>1. ASSUME NEW s \in Sender, NEW k \in Numbers, Arrives(s, k)
      PROVE  /\ heard[s] <= k
             /\ heard' = [heard EXCEPT ![s] = k]
  <2>1. heard[s] \in Nat /\ k \in Nat
    BY MaxNumberNat DEF TypeOK, Numbers
  <2>2. heard[s] <= k
    BY <1>1, <2>1 DEF Arrives
  <2>3. (IF k > heard[s] THEN k ELSE heard[s]) = k
    BY <2>1, <2>2
  <2> QED BY <1>1, <2>2, <2>3 DEF Arrives
<1>2. ASSUME NEW s \in Sender, NEW k \in Numbers, Arrives(s, k),
             NEW x \in Slots, NEW t \in Sender, NEW j \in Numbers,
             handled[x] = <<t, j>>
      PROVE  /\ j <= heard'[t]
             /\ j = heard'[t] => Expire(handled_packet_cache, Packet(s, k))[x]
                                     = Entry(Packet(t, j))
  <2>1. /\ j <= heard[t]
        /\ j = heard[t] => handled_packet_cache[x] = Entry(Packet(t, j))
    BY <1>2 DEF OnceInv, LatestKept
  <2>2. /\ heard[s] \in Nat /\ heard[t] \in Nat /\ j \in Nat /\ k \in Nat
    BY MaxNumberNat DEF TypeOK, Numbers
  <2>3. heard[s] <= k /\ heard' = [heard EXCEPT ![s] = k]
    BY <1>1, <1>2
  <2>4. CASE t # s
    <3>1. heard'[t] = heard[t]
      BY <2>3, <2>4 DEF TypeOK
    <3> QED BY <2>1, <2>4, <3>1, ExpireSpares
  <2>5. CASE t = s
    <3>1. heard'[t] = k
      BY <2>3, <2>5 DEF TypeOK
    <3>2. j <= heard'[t]
      BY <2>1, <2>2, <2>3, <2>5, <3>1
    <3>3. ASSUME j = k
          PROVE  Expire(handled_packet_cache, Packet(s, k))[x] = Entry(Packet(t, j))
      <4>1. j = heard[t]
        BY <2>1, <2>2, <2>3, <2>5, <3>3
      <4>2. handled_packet_cache[x] = Entry(Packet(t, j))
        BY <2>1, <4>1
      <4> QED BY <4>2, <3>3, ExpireSpares
    <3> QED BY <3>1, <3>2, <3>3
  <2> QED BY <2>4, <2>5
<1>3. ASSUME NEW s \in Sender, NEW k \in Numbers, PassOver(s, k)
      PROVE  OnceInv'
  <2>1. LatestKept'
    BY <1>2, <1>3 DEF PassOver, LatestKept
  <2>2. HandledOnce'
    BY <1>3 DEF PassOver, OnceInv, HandledOnce
  <2> QED BY <2>1, <2>2 DEF OnceInv
<1>4. ASSUME NEW s \in Sender, NEW k \in Numbers, Handle(s, k)
      PROVE  OnceInv'
  <2> DEFINE cache == Expire(handled_packet_cache, Packet(s, k))
             index == last_handled_packet_index
  <2>1. /\ Arrives(s, k)
        /\ ~Handled(cache, Packet(s, k))
        /\ handled_packet_cache' = [cache EXCEPT ![index] = Entry(Packet(s, k))]
        /\ handled' = [handled EXCEPT ![index] = <<s, k>>]
    BY <1>4 DEF Handle, Remember
  <2>2. index \in Slots /\ cache \in [Slots -> Entries]
    BY PacketTypes DEF TypeOK
  <2>3. heard[s] <= k /\ heard'[s] = k /\ heard[s] \in Nat /\ k \in Nat
    BY <1>1, <2>1, MaxNumberNat DEF TypeOK, Numbers
  <2>4. \A x \in Slots : handled[x] # <<s, k>>
    <3>1. SUFFICES ASSUME NEW x \in Slots, handled[x] = <<s, k>> PROVE FALSE
      OBVIOUS
    <3>2. cache[x] = Entry(Packet(s, k))
      BY <1>2, <2>1, <2>3, <3>1
    <3> QED BY <2>1, <3>2 DEF Handled
  <2>5. LatestKept'
    <3>1. SUFFICES ASSUME NEW x \in Slots, NEW t \in Sender, NEW j \in Numbers,
                          handled'[x] = <<t, j>>
                   PROVE  /\ j <= heard'[t]
                          /\ j = heard'[t] => handled_packet_cache'[x]
                                                  = Entry(Packet(t, j))
      BY DEF LatestKept
    <3>2. CASE x = index
      <4>1. handled'[x] = <<s, k>> /\ handled_packet_cache'[x] = Entry(Packet(s, k))
        BY <2>1, <2>2, <3>2 DEF TypeOK
      <4>2. t = s /\ j = k
        BY <3>1, <4>1
      <4> QED BY <2>3, <4>1, <4>2
    <3>3. CASE x # index
      <4>1. handled'[x] = handled[x] /\ handled_packet_cache'[x] = cache[x]
        BY <2>1, <2>2, <3>3 DEF TypeOK
      <4> QED BY <1>2, <2>1, <3>1, <4>1
    <3> QED BY <3>2, <3>3
  <2>6. HandledOnce'
    <3>1. SUFFICES ASSUME NEW x \in Slots, NEW y \in Slots, x # y,
                          handled'[x] # Nothing
                   PROVE  handled'[x] # handled'[y]
      BY DEF HandledOnce
    <3>2. CASE x = index
      <4>1. handled'[x] = <<s, k>> /\ handled'[y] = handled[y]
        BY <2>1, <2>2, <3>1, <3>2 DEF TypeOK
      <4> QED BY <4>1, <2>4
    <3>3. CASE y = index
      <4>1. handled'[y] = <<s, k>> /\ handled'[x] = handled[x]
        BY <2>1, <2>2, <3>1, <3>3 DEF TypeOK
      <4> QED BY <4>1, <2>4
    <3>4. CASE x # index /\ y # index
      <4>1. handled'[x] = handled[x] /\ handled'[y] = handled[y]
        BY <2>1, <2>2, <3>4 DEF TypeOK
      <4> QED BY <3>1, <4>1 DEF OnceInv, HandledOnce
    <3> QED BY <3>2, <3>3, <3>4
  <2> QED BY <2>5, <2>6 DEF OnceInv
<1>5. CASE UNCHANGED vars
  BY <1>5 DEF vars, OnceInv, LatestKept, HandledOnce
<1> QED BY <1>3, <1>4, <1>5 DEF Next

\* When the medium keeps the order of each sender's packets, a request is
\* handled once, however often it is repeated, until CACHE_LENGTH requests of
\* other senders have been handled in between.
THEOREM HandledOnceHolds ==
    ASSUME Lag = 0
    PROVE  Spec => []HandledOnce
<1>1. Init => OnceInv
  <2> SUFFICES ASSUME Init PROVE OnceInv
    OBVIOUS
  <2>1. \A x \in Slots : handled[x] = <<0, 0>>
    BY DEF Init, Nothing
  <2>2. \A s \in Sender : s # 0
    BY SenderNat
  <2>3. LatestKept
    BY <2>1, <2>2 DEF LatestKept
  <2>4. HandledOnce
    BY <2>1 DEF HandledOnce, Nothing
  <2> QED BY <2>3, <2>4 DEF OnceInv
<1>2. TypeOK /\ OnceInv /\ [Next]_vars => OnceInv'
  BY OnceStep
<1>3. OnceInv => HandledOnce
  BY DEF OnceInv
<1> QED BY <1>1, <1>2, <1>3, TypeCorrect, PTL DEF Spec
=============================================================================
