---------------------------- MODULE HandledCache ----------------------------
(***************************************************************************)
(* The handled packet cache of a node, as operators on its value: which    *)
(* requests a node remembers having handled, so that it does not handle    *)
(* the same one again when a repeater brings it back.  HandledPackets and  *)
(* MeshRequests both keep such a cache in their state.                     *)
(*                                                                         *)
(* A packet is a record with (at least) the fields type, seq and           *)
(* unique_id; a cache entry has exactly these.                             *)
(***************************************************************************)
EXTENDS Integers

CONSTANTS
    CACHE_LENGTH,   \* A7105_MESH_HANDLED_PACKET_CACHE_LENGTH: 8
    SEQ_RANGE,      \* values of the sequence number nibble: 16
    SEQ_EXPIRE      \* A7105_MESH_HANDLED_PACKET_CACHE_SEQ_EXPIRE: 3

ASSUME CacheLengthNat == CACHE_LENGTH \in Nat \ {0}
ASSUME SeqRangeNat == SEQ_RANGE \in Nat \ {0}
ASSUME SeqExpireNat == SEQ_EXPIRE \in Nat /\ SEQ_EXPIRE < SEQ_RANGE

Slots == 0..(CACHE_LENGTH - 1)

Seqs == 0..(SEQ_RANGE - 1)

\* An entry zeroed by memset: 0 is no packet type and no unique id.
Zeroed == [type |-> "none", seq |-> 0, unique_id |-> 0]

EmptyCache == [x \in Slots |-> Zeroed]

Entry(p) == [type |-> p.type, seq |-> p.seq, unique_id |-> p.unique_id]

\* Mutant: the loop over y starts at 0.
Approaches_FromZero(seq, cached) ==
    \E y \in 0..SEQ_EXPIRE : (seq + y) % SEQ_RANGE = cached

\* Mutant: the loop over y stops before SEQ_EXPIRE.
Approaches_TooShort(seq, cached) ==
    \E y \in 1..(SEQ_EXPIRE - 1) : (seq + y) % SEQ_RANGE = cached

\* A sender that is at seq will soon use the number `cached` again.
Approaches(seq, cached) ==
    \E y \in 1..SEQ_EXPIRE : (seq + y) % SEQ_RANGE = cached

\* _A7105_Mesh_Update_Handled_Packet_Cache: forget what the sender of p did
\* under the numbers it comes to next.
Expire(cache, p) ==
    [x \in Slots |->
        IF /\ cache[x].unique_id = p.unique_id
           /\ Approaches(p.seq, cache[x].seq)
        THEN Zeroed ELSE cache[x]]

\* _A7105_Mesh_Filter_Packet, for a request: has p been handled already?
Handled(cache, p) == \E x \in Slots : cache[x] = Entry(p)

\* _A7105_Mesh_Handling_Request writes p at index, and moves the index on.
Remember(cache, index, p) == [cache EXCEPT ![index] = Entry(p)]

\* Mutant: the index is not wrapped around.
NextSlot_NoWrap(index) == index + 1

NextSlot(index) == (index + 1) % CACHE_LENGTH
=============================================================================
