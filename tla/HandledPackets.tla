--------------------------- MODULE HandledPackets ---------------------------
(***************************************************************************)
(* A node that handles requests through its handled packet cache, against  *)
(* senders whose packets get lost, repeated and delayed.                   *)
(*                                                                         *)
(* A sender numbers its packets 0, 1, 2, ...; what it puts into the header *)
(* is that number modulo SEQ_RANGE.  A node does not know the real number, *)
(* and has to tell a repeated request from a new one by the nibble.        *)
(* Packet k of sender s can arrive any number of times, or never.  Lag     *)
(* says how far the medium reorders: packet k may still come when a packet *)
(* up to k + Lag of its sender has been heard.  All requests have the same *)
(* type here, the hardest case for the filter.  MaxNumber bounds the       *)
(* numbers; heard and handled are history variables.                       *)
(***************************************************************************)
EXTENDS HandledCache

CONSTANTS
    Sender,     \* the unique ids of the other nodes
    Lag,
    MaxNumber

ASSUME SenderNat == Sender \subseteq Nat \ {0}
ASSUME LagNat == Lag \in Nat
ASSUME MaxNumberNat == MaxNumber \in Nat

VARIABLES
    handled_packet_cache,       \* node->handled_packet_cache
    last_handled_packet_index,  \* node->last_handled_packet_index
    heard,      \* the highest number heard, per sender
    handled     \* per slot, the packet that was last handled through it

vars == <<handled_packet_cache, last_handled_packet_index, heard, handled>>

Numbers == 0..MaxNumber

Nothing == <<0, 0>>

Packet(s, k) ==
    [type |-> "REQUEST", seq |-> k % SEQ_RANGE, unique_id |-> s]

Init ==
    /\ handled_packet_cache = EmptyCache
    /\ last_handled_packet_index = 0
    /\ heard = [s \in Sender |-> 0]
    /\ handled = [x \in Slots |-> Nothing]

\* Packet k of s gets through, no later than the medium allows.
Arrives(s, k) ==
    /\ heard[s] <= k + Lag
    /\ heard' = [heard EXCEPT ![s] = IF k > @ THEN k ELSE @]

\* The request was seen before, is for another node, or names a register that
\* is not served here; or the packet is no request: a response carries the
\* number of its sender's next request, a repeated response an older one.
PassOver(s, k) ==
    /\ Arrives(s, k)
    /\ handled_packet_cache' = Expire(handled_packet_cache, Packet(s, k))
    /\ UNCHANGED <<last_handled_packet_index, handled>>

\* The request is for this node, and passes the filter.  (A CONFLICT_NAME that
\* makes the node rejoin is remembered in the same way; it does so once, since
\* the node has another id then.)
Handle(s, k) ==
    LET cache == Expire(handled_packet_cache, Packet(s, k))
        x == last_handled_packet_index
    IN  /\ Arrives(s, k)
        /\ ~Handled(cache, Packet(s, k))
        /\ handled_packet_cache' = Remember(cache, x, Packet(s, k))
        /\ last_handled_packet_index' = NextSlot(x)
        /\ handled' = [handled EXCEPT ![x] = <<s, k>>]

Next == \E s \in Sender, k \in Numbers : PassOver(s, k) \/ Handle(s, k)

Spec == Init /\ [][Next]_vars
-----------------------------------------------------------------------------
(* Properties.                                                             *)

Entries == [type : {"none", "REQUEST"}, seq : Seqs, unique_id : Sender \cup {0}]

TypeOK ==
    /\ handled_packet_cache \in [Slots -> Entries]
    /\ last_handled_packet_index \in Slots
    /\ heard \in [Sender -> Numbers]
    /\ handled \in [Slots -> (Sender \X Numbers) \cup {Nothing}]

\* A request is handled once however often it arrives: the last CACHE_LENGTH
\* requests handled are all different.  (README.md:475-478.)
HandledOnce ==
    \A x, y \in Slots :
        x # y /\ handled[x] # Nothing => handled[x] # handled[y]

\* A new request is never taken for an old one, although its number has been
\* used before: the next SEQ_EXPIRE numbers of a sender all pass the filter.
\* (So a request is ignored by mistake only when that many packets in a row
\* were lost before it.)
FreshAccepted ==
    \A s \in Sender, i \in 1..SEQ_EXPIRE :
        ~Handled(handled_packet_cache, Packet(s, heard[s] + i))
=============================================================================
