------------------------- MODULE MeshRequestsProofs -------------------------
(***************************************************************************)
(* Proofs about MeshRequests for every mesh, every assignment of registers *)
(* to nodes and every plan of the applications: what a node is told of its *)
(* request is true, and the response repeater keeps its cache in order.    *)
(*                                                                         *)
(* That an answer is true does not depend on who asked: RequestInv says    *)
(* that every packet ever sent told the truth when it was sent, that what  *)
(* the response repeater will send is true, and what the node that waits   *)
(* has to compare an answer with.                                          *)
(***************************************************************************)
EXTENDS MeshRequests, SequenceTheorems, WellFoundedInduction, TLAPS

\* The register value that p tells has been in a register of its sender, or it
\* is a broadcast.
Heard(p, h, a) ==
    /\ p.name # NoName /\ p.name # ErrorText
    /\ \/ <<p.node_id, p.name, p.value>> \in h
       \/ p.node_id = 0 /\ \E b \in a : b.name = p.name /\ b.value = p.value

\* What packet p says is so, or was: h are the values registers have had, f is
\* what came of the SET_REGISTER packets, and a what has been broadcast.
Truthful(p, h, f, a) ==
    /\ p.type = "SET_REGISTER" => p.value \in Values
    /\ p.type = "NUM_REGISTERS" => p.value = Len(Served[p.node_id])
    /\ p.type = "REGISTER_NAME" =>
           \/ p.name = NoName
           \/ p.value = NO_INDEX
           \/ HasIndex(p.node_id, p.value) /\ p.name = Served[p.node_id][p.value + 1]
    /\ p.type = "REGISTER_VALUE" =>
           \/ Heard(p, h, a)
           \/ Astray(p.node_id, a)
    /\ p.type = "SET_REGISTER_ACK" =>
           \E e \in f : /\ e[1].node_id = p.target
                        /\ p.value = 1 => e[2] = "rejected"

\* What n needs to send the response again is there.
Repeatable(n, item, f, a) ==
    /\ item.op = "REGISTER_NAME" => item.data = NO_INDEX \/ HasIndex(n, item.data)
    /\ item.op = "REGISTER_VALUE" => \/ HasIndex(n, item.data)
                                     \/ item.data = NO_INDEX /\ Astray(n, a)
    /\ item.op = "SET_REGISTER_ACK" =>
           item.data \in Node /\ \E e \in f : e[1].node_id = item.data

\* What n compares an answer with belongs to the request it waits for.
Waiting(n) ==
    /\ state[n] = "IDLE" => request[n] = NoRequest
    /\ request[n] # NoRequest =>
           /\ request[n].type = state[n]
           /\ state[n] \in Directed => target_node_id[n] = request[n].target
           /\ state[n] = "GET_REGISTER_NAME" => target_register_index[n] = request[n].value
           /\ state[n] = "GET_REGISTER" =>
                  register_cache[n].name \in {request[n].name, NoName, ErrorText}

\* What the application on n has been told, AnswersTrue and SetAnswered.
Told(n, o, h, f, a) ==
    LET q == o.request IN
    /\ o.status = "STATUS_OK" =>
            /\ q.type = "GET_NUM_REGISTERS" => o.value = Len(Served[q.target])
            /\ q.type = "GET_REGISTER_NAME" =>
                   HasIndex(q.target, q.value) /\ o.name = Served[q.target][q.value + 1]
            /\ q.type = "GET_REGISTER" => GotValue(o, h, a)
    /\ q.type = "SET_REGISTER" =>
            /\ o.status \in {"STATUS_OK", "INVALID_REGISTER_VALUE"} =>
                   \E e \in f : e[1].node_id = n
            /\ o.status = "INVALID_REGISTER_VALUE" =>
                   \E e \in f : e[1].node_id = n /\ e[2] = "rejected"

Caches == [name : Text, value : Nat]

Outcomes == [request : Questions \cup {NoRequest}, status : Statuses,
             name : Text, value : Nat, responder : Node \cup {0}]

ClientTypes ==
    /\ state \in [Node -> States]
    /\ target_node_id \in [Node -> Node \cup {0}]
    /\ target_register_index \in [Node -> Nat]
    /\ register_cache \in [Node -> Caches]
    /\ presence_table \in [Node -> SUBSET Node]
    /\ request \in [Node -> Questions \cup {NoRequest}]
    /\ outcome \in [Node -> Outcomes]

ServerTypes ==
    /\ last_handled_packet_index \in [Node -> Slots]
    /\ DOMAIN value = Node
    /\ \A n \in Node : value[n] \in [DOMAIN Served[n] -> Values \cup {0}]

ClientInv ==
    /\ ClientTypes
    /\ \A n \in Node : Waiting(n)
    /\ \A n \in Node : Told(n, outcome[n], held, fates, announced)

CurrentHeld ==
    \A n \in Node : \A i \in DOMAIN Served[n] : <<n, Served[n][i], value[n][i]>> \in held

CacheOK(n, c, f, a) ==
    /\ c \in Seq(RepeatItems)
    /\ Len(c) <= MAX_REPEAT_CACHE_SIZE
    /\ \A i, j \in 1..Len(c) : i < j => c[i].count >= c[j].count
    /\ \A i \in 1..Len(c) : Repeatable(n, c[i], f, a)

RepeatInv ==
    /\ response_repeat_cache = [n \in Node |-> response_repeat_cache[n]]
    /\ \A n \in Node : CacheOK(n, response_repeat_cache[n], fates, announced)

EtherInv ==
    /\ ether \subseteq Packets
    /\ \A p \in ether : Truthful(p, held, fates, announced)

RequestInv ==
    /\ ServerTypes /\ sequence_num \in [Node -> Seqs] /\ plan \in Plans
    /\ ClientInv
    /\ CurrentHeld
    /\ RepeatInv
    /\ EtherInv
-----------------------------------------------------------------------------
(* The operators.                                                          *)

(* A set of natural numbers has a smallest one.                            *)
LEMMA SmallestNat ==
    ASSUME NEW T, T \subseteq Nat, T # {}
    PROVE  \E x \in T : \A y \in T : x <= y
<1>1. \E x \in T : \A y \in T : ~ (<<y, x>> \in OpToRel(<, Nat))
  BY WFMin, NatLessThanWellFounded
<1>2. PICK x \in T : \A y \in T : ~ (<<y, x>> \in OpToRel(<, Nat))
  BY <1>1
<1>3. \A y \in T : ~ (y < x)
  BY <1>2 DEF OpToRel
<1> QED BY <1>3

(* A register that is served is found under its name.                      *)
LEMMA FoundByName ==
    ASSUME NEW n \in Node, NEW name, Serves(n, name)
    PROVE  /\ IndexOf(n, name) \in 0..(Len(Served[n]) - 1)
           /\ Served[n][IndexOf(n, name) + 1] = name
           /\ IndexOf(n, name) + 1 \in DOMAIN Served[n]
           /\ HasIndex(n, IndexOf(n, name)) /\ IndexOf(n, name) < NO_INDEX
<1> DEFINE T == {i \in 0..(Len(Served[n]) - 1) : Served[n][i + 1] = name}
<1>1. Len(Served[n]) \in Nat /\ DOMAIN Served[n] = 1..Len(Served[n])
  BY ServedSeqs
<1>2. PICK k \in DOMAIN Served[n] : Served[n][k] = name
  BY DEF Serves
<1>3. k - 1 \in T
  BY <1>1, <1>2
<1>4. T \subseteq Nat /\ T # {}
  BY <1>1, <1>3
<1>5. PICK x \in T : \A y \in T : x <= y
  BY <1>4, SmallestNat
<1>6. \E i \in 0..(Len(Served[n]) - 1) :
          /\ Served[n][i + 1] = name
          /\ \A j \in 0..(i - 1) : Served[n][j + 1] # name
  BY <1>1, <1>5
<1>7. /\ IndexOf(n, name) \in 0..(Len(Served[n]) - 1)
      /\ Served[n][IndexOf(n, name) + 1] = name
  BY <1>6 DEF IndexOf
<1> QED BY <1>1, <1>7, ServedSeqs DEF HasIndex, NO_INDEX

(* The names of registers are names.                                       *)
LEMMA ServedName ==
    ASSUME NEW n \in Node, NEW i \in DOMAIN Served[n]
    PROVE  /\ Served[n][i] \in Text /\ Served[n][i] # NoName /\ Served[n][i] # ErrorText
           /\ i \in 1..Len(Served[n]) /\ Serves(n, Served[n][i])
           /\ HasIndex(n, i - 1)
  BY ServedSeqs DEF Serves, HasIndex

(* A register that n has an index for is one it serves.                    *)
LEMMA HasIndexIsServed ==
    ASSUME NEW n \in Node, NEW i \in Nat
    PROVE  /\ HasIndex(n, i) <=> i + 1 \in DOMAIN Served[n]
           /\ Len(Served[n]) \in Nat
  BY ServedSeqs DEF HasIndex

(* The entry with the fewest repeats, first of its kind.                   *)
LEMMA SelectedIsFirst ==
    ASSUME NEW c \in Seq(RepeatItems), c # <<>>
    PROVE  /\ Selected(c) \in 1..Len(c)
           /\ \A j \in 1..Len(c) : c[Selected(c)].count <= c[j].count
           /\ \A j \in 1..(Selected(c) - 1) : c[Selected(c)].count < c[j].count
<1> DEFINE T == {c[j].count : j \in 1..Len(c)}
<1>1. /\ Len(c) \in Nat \ {0} /\ DOMAIN c = 1..Len(c)
      /\ \A j \in 1..Len(c) : c[j].count \in Nat
  <2>1. Len(c) \in Nat /\ DOMAIN c = 1..Len(c) /\ Len(c) # 0
    BY LenProperties, EmptySeq
  <2>2. \A j \in 1..Len(c) : c[j] \in RepeatItems
    BY ElementOfSeq
  <2>3. \A r \in RepeatItems : r.count \in Nat
    BY MaxRepeatNat DEF RepeatItems
  <2> QED BY <2>1, <2>2, <2>3
<1>2. T \subseteq Nat /\ c[1].count \in T
  BY <1>1
<1>3. PICK m \in T : \A y \in T : m <= y
  <2> HIDE DEF T
  <2> QED BY <1>2, SmallestNat
<1> DEFINE U == {j \in 1..Len(c) : c[j].count = m}
<1>4. U \subseteq Nat /\ U # {}
  BY <1>1, <1>3
<1>5. PICK x \in U : \A y \in U : x <= y
  <2> HIDE DEF U
  <2> QED BY <1>4, SmallestNat
<1>6. \A j \in 1..Len(c) : c[x].count <= c[j].count
  BY <1>3, <1>5
<1>7. \A j \in 1..(x - 1) : c[x].count < c[j].count
  <2> SUFFICES ASSUME NEW j \in 1..(x - 1)
               PROVE  c[x].count < c[j].count
    OBVIOUS
  <2>1. j \in 1..Len(c) /\ ~(x <= j)
    BY <1>1, <1>5
  <2>2. j \notin U
    BY <2>1, <1>5
  <2> QED BY <2>1, <2>2, <1>1, <1>5, <1>6
<1>8. \E i \in DOMAIN c : /\ \A j \in DOMAIN c : c[i].count <= c[j].count
                          /\ \A j \in 1..(i - 1) : c[i].count < c[j].count
  BY <1>1, <1>5, <1>6, <1>7
<1> QED BY <1>1, <1>8 DEF Selected
(* A sequence number and a slot are followed by one.                       *)
LEMMA NextNumbers ==
    /\ \A s \in Seqs : (s + 1) % SEQ_RANGE \in Seqs
    /\ \A x \in Slots : NextSlot(x) \in Slots
  BY SeqRangeNat, CacheLengthNat DEF Seqs, Slots, NextSlot
-----------------------------------------------------------------------------
(* What has happened stays: held and fates only grow.                      *)

(* of what a packet says,                                                  *)
LEMMA StaysTruthful ==
    ASSUME NEW p, NEW h, NEW f, NEW a, NEW g, NEW e, NEW b,
           h \subseteq g, f \subseteq e, a \subseteq b, Truthful(p, h, f, a)
    PROVE  Truthful(p, g, e, b)
  BY DEF Truthful, Heard, Astray

(* of what an application has been told,                                   *)
LEMMA StaysTold ==
    ASSUME NEW n, NEW o, NEW h, NEW f, NEW a, NEW g, NEW e, NEW b,
           h \subseteq g, f \subseteq e, a \subseteq b, Told(n, o, h, f, a)
    PROVE  Told(n, o, g, e, b)
  BY DEF Told, GotValue, Astray

(* and of what is needed to repeat the responses.                          *)
LEMMA StaysCacheOK ==
    ASSUME NEW n, NEW c, NEW f, NEW a, NEW e, NEW b, f \subseteq e, a \subseteq b,
           CacheOK(n, c, f, a)
    PROVE  CacheOK(n, c, e, b)
  BY DEF CacheOK, Repeatable, Astray
-----------------------------------------------------------------------------
(* The response repeat cache.                                              *)

(* A new response has been repeated less often than those before it.       *)
LEMMA AppendedCache ==
    ASSUME NEW n, NEW c, NEW f, NEW a, CacheOK(n, c, f, a), Len(c) # MAX_REPEAT_CACHE_SIZE,
           NEW item \in RepeatItems, item.count = 0, Repeatable(n, item, f, a)
    PROVE  CacheOK(n, Append(c, item), f, a)
<1>1. c \in Seq(RepeatItems) /\ Len(c) \in Nat
  BY LenProperties DEF CacheOK
<1>2. /\ Append(c, item) \in Seq(RepeatItems)
      /\ Len(Append(c, item)) = Len(c) + 1
      /\ \A i \in 1..Len(c) : Append(c, item)[i] = c[i]
      /\ Append(c, item)[Len(c) + 1] = item
  BY <1>1, AppendProperties
<1>3. \A i \in 1..Len(c) : c[i].count \in Nat
  <2>1. \A i \in 1..Len(c) : c[i] \in RepeatItems
    BY <1>1, ElementOfSeq
  <2> QED BY <2>1, MaxRepeatNat DEF RepeatItems
<1>4. Len(Append(c, item)) <= MAX_REPEAT_CACHE_SIZE
  BY <1>1, <1>2, RepeatCacheNat DEF CacheOK
<1>5. \A i, j \in 1..Len(Append(c, item)) :
          i < j => Append(c, item)[i].count >= Append(c, item)[j].count
  BY <1>1, <1>2, <1>3 DEF CacheOK
<1>6. \A i \in 1..Len(Append(c, item)) : Repeatable(n, Append(c, item)[i], f, a)
  BY <1>1, <1>2 DEF CacheOK
<1> QED BY <1>2, <1>4, <1>5, <1>6 DEF CacheOK

\* What the response repeater makes of c.
Repeated(c) ==
    LET counted == [c EXCEPT ![Selected(c)].count = @ + 1]
    IN  IF counted[1].count >= RESPONSE_MAX_REPEAT THEN Tail(counted) ELSE counted

(* The first of the least repeated entries is counted, and so the order    *)
(* stays; and an entry that is repeated enough is the oldest.              *)
LEMMA RepeatedCache ==
    ASSUME NEW n, NEW c, NEW f, NEW a, CacheOK(n, c, f, a), c # <<>>
    PROVE  CacheOK(n, Repeated(c), f, a)
<1> DEFINE k == Selected(c)
           item == [c[k] EXCEPT !.count = c[k].count + 1]
           d == [c EXCEPT ![k].count = @ + 1]
<1>1. c \in Seq(RepeatItems) /\ Len(c) \in Nat \ {0} /\ DOMAIN c = 1..Len(c)
  BY LenProperties, EmptySeq DEF CacheOK
<1>2. /\ k \in 1..Len(c)
      /\ \A j \in 1..Len(c) : c[k].count <= c[j].count
      /\ \A j \in 1..(k - 1) : c[k].count < c[j].count
  BY <1>1, SelectedIsFirst
<1>3. \A i \in 1..Len(c) : c[i] \in RepeatItems /\ c[i].count \in 0..(RESPONSE_MAX_REPEAT - 1)
  <2>1. \A i \in 1..Len(c) : c[i] \in RepeatItems
    BY <1>1, ElementOfSeq
  <2> QED BY <2>1 DEF RepeatItems
<1>4. /\ \A i \in 1..Len(c) : d[i] = IF i = k THEN item ELSE c[i]
      /\ d = [c EXCEPT ![k] = item]
  BY <1>1, <1>2
<1>5. /\ item.count = c[k].count + 1 /\ item.op = c[k].op /\ item.data = c[k].data
      /\ item.count < RESPONSE_MAX_REPEAT => item \in RepeatItems
  <2>1. c[k] \in RepeatItems
    BY <1>2, <1>3
  <2> HIDE DEF k
  <2>2. PICK o \in PacketTypes \ Operations, m \in 0..(RESPONSE_MAX_REPEAT - 1),
             s \in Seqs, v \in Nat : c[k] = [op |-> o, count |-> m, seq |-> s, data |-> v]
    BY <2>1 DEF RepeatItems
  <2>3. item = [op |-> o, count |-> m + 1, seq |-> s, data |-> v]
    BY <2>2
  <2>4. item.count < RESPONSE_MAX_REPEAT => m + 1 \in 0..(RESPONSE_MAX_REPEAT - 1)
    BY <2>3, MaxRepeatNat
  <2> QED BY <2>2, <2>3, <2>4 DEF RepeatItems
<1>6. \A i \in 1..Len(c) : d[i].count = IF i = k THEN c[k].count + 1 ELSE c[i].count
  BY <1>2, <1>4, <1>5
<1>7. \A i, j \in 1..Len(c) : i < j => d[i].count >= d[j].count
  <2> SUFFICES ASSUME NEW i \in 1..Len(c), NEW j \in 1..Len(c), i < j
               PROVE  d[i].count >= d[j].count
    OBVIOUS
  <2>1. c[i].count \in Nat /\ c[j].count \in Nat /\ c[i].count >= c[j].count
    BY <1>3, MaxRepeatNat DEF CacheOK
  <2>2. j = k => c[i].count > c[k].count
    BY <1>1, <1>2, <1>3, MaxRepeatNat
  <2> HIDE DEF d
  <2> QED BY <2>1, <2>2, <1>6
<1>8. \A i \in 1..Len(c) : Repeatable(n, d[i], f, a)
  BY <1>2, <1>4, <1>5 DEF CacheOK, Repeatable
<1>9. CASE d[1].count >= RESPONSE_MAX_REPEAT
  <2>1. k = 1
    BY <1>1, <1>2, <1>3, <1>6, <1>9, MaxRepeatNat
  <2> DEFINE t == [i \in 1..(Len(c) - 1) |-> c[i + 1]]
  <2>2. d = [i \in 1..Len(c) |-> IF i = 1 THEN item ELSE c[i]]
    BY <2>1, <1>1, <1>4
  <2>3. d \in Seq({item} \cup RepeatItems) /\ Len(d) = Len(c)
    <3>1. c \in Seq({item} \cup RepeatItems)
      BY <1>1, SeqMonotonic
    <3> QED BY <1>2, <1>4, <3>1, ExceptSeq
  <2>4. /\ Len(Tail(d)) = Len(c) - 1
        /\ Tail(d) \in Seq({item} \cup RepeatItems)
        /\ \A i \in 1..(Len(c) - 1) : Tail(d)[i] = c[i + 1]
    <3>1. d # <<>>
      BY <1>1, <2>3
    <3> HIDE DEF d
    <3>2. Len(Tail(d)) = Len(c) - 1 /\ \A i \in 1..(Len(c) - 1) : Tail(d)[i] = d[i + 1]
      BY <2>3, <3>1, HeadTailProperties
    <3>3. \A i \in 1..(Len(c) - 1) : d[i + 1] = c[i + 1]
      BY <1>1, <1>4, <2>1
    <3>4. Tail(d) \in Seq({item} \cup RepeatItems)
      BY <2>3, <3>1, HeadTailProperties
    <3> QED BY <3>2, <3>3, <3>4
  <2>5. Tail(d) \in Seq(RepeatItems)
    <3> DEFINE T == Tail(d)
    <3>1. \A i \in 1..Len(T) : T[i] \in RepeatItems
      BY <1>1, <1>3, <2>4
    <3>2. T = [i \in 1..Len(T) |-> T[i]]
      <4> HIDE DEF T
      <4>1. T \in Seq({item} \cup RepeatItems)
        BY <2>4 DEF T
      <4> QED BY <4>1, LenProperties
    <3>3. Len(T) \in Nat
      BY <1>1, <2>4
    <3> HIDE DEF T
    <3>4. [i \in 1..Len(T) |-> T[i]] \in Seq(RepeatItems)
      BY <3>1, <3>3, IsASeq
    <3> QED BY <3>2, <3>4 DEF T
  <2>6. \A i, j \in 1..(Len(c) - 1) : i < j => Tail(d)[i].count >= Tail(d)[j].count
    <3> SUFFICES ASSUME NEW i \in 1..(Len(c) - 1), NEW j \in 1..(Len(c) - 1), i < j
                 PROVE  c[i + 1].count >= c[j + 1].count
      BY <2>4
    <3> QED BY <1>1 DEF CacheOK
  <2>7. \A i \in 1..(Len(c) - 1) : Repeatable(n, Tail(d)[i], f, a)
    BY <1>1, <2>4 DEF CacheOK
  <2>8. Repeated(c) = Tail(d)
    BY <1>9 DEF Repeated
  <2>9. Len(Tail(d)) <= MAX_REPEAT_CACHE_SIZE
    BY <1>1, <2>4, RepeatCacheNat DEF CacheOK
  <2> HIDE DEF d
  <2> QED BY <2>4, <2>5, <2>6, <2>7, <2>8, <2>9 DEF CacheOK
<1>10. CASE ~(d[1].count >= RESPONSE_MAX_REPEAT)
  <2>1. item.count < RESPONSE_MAX_REPEAT
    <3>1. k # 1 => c[k].count < c[1].count
      BY <1>1, <1>2
    <3> QED BY <3>1, <1>1, <1>2, <1>3, <1>5, <1>6, <1>10, MaxRepeatNat
  <2>2. item \in RepeatItems
    BY <1>5, <2>1
  <2>3. d \in Seq(RepeatItems) /\ Len(d) = Len(c)
    <3> HIDE DEF item, k
    <3> QED BY <1>1, <1>2, <1>4, <2>2, ExceptSeq
  <2>4. Repeated(c) = d
    BY <1>10 DEF Repeated
  <2>5. Len(c) <= MAX_REPEAT_CACHE_SIZE
    BY DEF CacheOK
  <2> HIDE DEF d
  <2> QED BY <1>7, <1>8, <2>3, <2>4, <2>5 DEF CacheOK
<1> QED BY <1>9, <1>10
-----------------------------------------------------------------------------
(* The node that asked.                                                    *)

(* The fields of a packet.                                                 *)
LEMMA PacketFields ==
    ASSUME NEW q \in Packets
    PROVE  /\ q.type \in PacketTypes /\ q.seq \in Seqs
           /\ q.node_id \in Node \cup {0} /\ q.unique_id \in Node /\ q.target \in Node \cup {0}
           /\ q.type # "REGISTER_VALUE" => q.node_id \in Node
           /\ q.name \in Text /\ q.value \in Nat
  BY DEF Packets

(* What a question asks for can be had.                                    *)
LEMMA QuestionFields ==
    /\ NoRequest.type = "none"
    /\ \A q \in Questions :
          /\ q.type \in Operations /\ q.type # "none"
          /\ q.target \in Node \cup {0} /\ q.name \in Text /\ q.value \in Nat
          /\ q.type \in Directed => q.target \in Node
          /\ q.type = "GET_REGISTER_NAME" => q.value < NO_INDEX
          /\ q.type = "SET_REGISTER" => q.value \in Values
  BY DEF NoRequest, Questions, Operations

(* A callback leaves a node idle; what it is told is in outcome.           *)
LEMMA AfterCallback ==
    ASSUME ClientInv, NEW n \in Node, NEW status \in Statuses, NEW answer \in Caches,
           NEW responder \in Node \cup {0}, Callback(n, status, answer, responder),
           target_node_id' = target_node_id,
           target_register_index' = target_register_index,
           register_cache' \in [Node -> Caches],
           \A m \in Node : m # n => register_cache'[m] = register_cache[m],
           held \subseteq held', fates \subseteq fates', announced \subseteq announced',
           Told(n, [request |-> request[n], status |-> status,
                    name |-> answer.name, value |-> answer.value,
                    responder |-> responder], held', fates', announced')
    PROVE  ClientInv'
<1> DEFINE o == [request |-> request[n], status |-> status,
                 name |-> answer.name, value |-> answer.value,
                    responder |-> responder]
<1>1. o \in Outcomes
  BY DEF Outcomes, Caches, ClientInv, ClientTypes
<1>2. ClientTypes'
  BY <1>1 DEF ClientInv, ClientTypes, Callback, States
<1>3. ASSUME NEW m \in Node
      PROVE  Waiting(m)'
  BY <1>3 DEF ClientInv, ClientTypes, Callback, Waiting
<1>4. ASSUME NEW m \in Node
      PROVE  Told(m, outcome[m], held, fates, announced)'
  <2>1. CASE m = n
    <3>1. outcome'[n] = o
      BY DEF Callback, ClientInv, ClientTypes
    <3> QED BY <2>1, <3>1 DEF Told
  <2>2. CASE m # n
    <3>1. outcome'[m] = outcome[m] /\ Told(m, outcome[m], held, fates, announced)
      BY <2>2 DEF Callback, ClientInv, ClientTypes
    <3>2. Told(m, outcome[m], held', fates', announced')
      BY <3>1, StaysTold
    <3> QED BY <3>1, <3>2 DEF Told
  <2> QED BY <2>1, <2>2
<1> QED BY <1>2, <1>3, <1>4 DEF ClientInv

(* Nothing happens to what a node waits for.                               *)
LEMMA StillWaits ==
    ASSUME ClientInv, NEW n \in Node, NEW c \in Caches,
           c.name \in {register_cache[n].name, NoName, ErrorText},
           UNCHANGED <<state, request, outcome, target_node_id, target_register_index>>,
           register_cache' = [register_cache EXCEPT ![n] = c],
           presence_table' \in [Node -> SUBSET Node],
           held \subseteq held', fates \subseteq fates', announced \subseteq announced'
    PROVE  ClientInv'
<1>1. ClientTypes'
  BY DEF ClientInv, ClientTypes
<1>2. ASSUME NEW m \in Node
      PROVE  Waiting(m)'
  BY <1>2 DEF ClientInv, ClientTypes, Waiting
<1>3. ASSUME NEW m \in Node
      PROVE  Told(m, outcome[m], held, fates, announced)'
  <2>1. Told(m, outcome[m], held', fates', announced')
    BY StaysTold DEF ClientInv
  <2> QED BY <2>1 DEF Told
<1> QED BY <1>1, <1>2, <1>3 DEF ClientInv

(* The node takes a true answer to the question it has asked, or another   *)
(* packet, and what its application is told is true.                       *)
LEMMA SeeAnswerKeeps ==
    ASSUME ClientInv, NEW n \in Node, NEW q \in Packets, NEW c \in Caches,
           c.name \in {register_cache[n].name, NoName, ErrorText},
           held \subseteq held', fates \subseteq fates', announced \subseteq announced',
           Truthful(q, held', fates', announced'), SeeAnswer(n, q, c)
    PROVE  ClientInv'
<1> USE PacketFields
<1>1. /\ target_node_id' = target_node_id
      /\ target_register_index' = target_register_index
  BY DEF SeeAnswer
<1>2. /\ Waiting(n) /\ register_cache \in [Node -> Caches]
      /\ request[n] \in Questions \cup {NoRequest}
      /\ c.name \in Text /\ c.value \in Nat
  BY DEF ClientInv, ClientTypes, Caches
<1>3. ASSUME NEW d \in Caches, register_cache' = [register_cache EXCEPT ![n] = d]
      PROVE  /\ register_cache' \in [Node -> Caches]
             /\ \A m \in Node : m # n => register_cache'[m] = register_cache[m]
  BY <1>2, <1>3
<1>4. CASE Answers(n, q, c) /\ HandlePong(n, q, c)
  <2>1. presence_table' \in [Node -> SUBSET Node]
    BY <1>4 DEF HandlePong, ClientInv, ClientTypes
  <2> QED BY <1>1, <1>4, <2>1, StillWaits DEF HandlePong
<1>5. CASE Answers(n, q, c) /\ HandleNumRegisters(n, q, c)
  <2> DEFINE d == [c EXCEPT !.value = q.value]
  <2>1. d \in Caches /\ d.value = q.value /\ d.name = c.name
    BY DEF Caches
  <2>2. state[n] = "GET_NUM_REGISTERS" /\ FromTarget(n, q)
    BY <1>5 DEF Answers, HandleNumRegisters
  <2>3. request[n] # NoRequest =>
            /\ request[n].type = "GET_NUM_REGISTERS"
            /\ d.value = Len(Served[request[n].target])
    <3>1. request[n] # NoRequest =>
              request[n].type = "GET_NUM_REGISTERS" /\ target_node_id[n] = request[n].target
      BY <1>2, <2>2 DEF Waiting, Directed
    <3>2. request[n] # NoRequest => q.node_id = request[n].target
      BY <1>2, <2>2, <3>1, QuestionFields, NodeNat DEF FromTarget, Directed
    <3>3. d.value = Len(Served[q.node_id])
      BY <1>5, <2>1 DEF HandleNumRegisters, Truthful
    <3> QED BY <3>1, <3>2, <3>3
  <2>4. Told(n, [request |-> request[n], status |-> "STATUS_OK",
                 name |-> d.name, value |-> d.value, responder |-> q.node_id],
           held', fates', announced')
    <3> HIDE DEF d
    <3> QED BY <2>3, QuestionFields DEF Told
  <2>5. "STATUS_OK" \in Statuses
    BY DEF Statuses
  <2>6. Callback(n, "STATUS_OK", d, q.node_id) /\ register_cache' = [register_cache EXCEPT ![n] = c]
    BY <1>5 DEF HandleNumRegisters
  <2> HIDE DEF d
  <2> QED BY <1>1, <1>3, <2>1, <2>4, <2>5, <2>6, AfterCallback
<1>6. CASE Answers(n, q, c) /\ HandleRegisterName(n, q, c)
  <2> DEFINE d == IF q.name = NoName THEN c ELSE [c EXCEPT !.name = q.name]
             status == IF q.name = NoName THEN "INVALID_REGISTER_INDEX" ELSE "STATUS_OK"
  <2>1. d \in Caches /\ (q.name # NoName => d.name = q.name) /\ status \in Statuses
    BY DEF Caches, Statuses
  <2>2. state[n] = "GET_REGISTER_NAME" /\ FromTarget(n, q) /\ SameIndex(n, q)
    BY <1>6 DEF Answers, HandleRegisterName
  <2>3. request[n] # NoRequest =>
            /\ request[n].type = "GET_REGISTER_NAME"
            /\ status = "STATUS_OK" =>
                  /\ HasIndex(request[n].target, request[n].value)
                  /\ d.name = Served[request[n].target][request[n].value + 1]
    <3>1. request[n] # NoRequest =>
              /\ request[n].type = "GET_REGISTER_NAME"
              /\ target_node_id[n] = request[n].target
              /\ target_register_index[n] = request[n].value
      BY <1>2, <2>2 DEF Waiting, Directed
    <3>2. request[n] # NoRequest =>
              /\ q.node_id = request[n].target /\ q.value = request[n].value
              /\ q.value < NO_INDEX
      BY <1>2, <2>2, <3>1, QuestionFields, NodeNat DEF FromTarget, Directed, SameIndex
    <3>3. q.name # NoName /\ q.value < NO_INDEX =>
              HasIndex(q.node_id, q.value) /\ q.name = Served[q.node_id][q.value + 1]
      BY <1>6 DEF HandleRegisterName, Truthful, NO_INDEX
    <3> QED BY <2>1, <3>1, <3>2, <3>3
  <2>4. Told(n, [request |-> request[n], status |-> status,
                 name |-> d.name, value |-> d.value, responder |-> q.node_id],
           held', fates', announced')
    <3> HIDE DEF d, status
    <3> QED BY <2>3, QuestionFields DEF Told
  <2>5. Callback(n, status, d, q.node_id) /\ register_cache' = [register_cache EXCEPT ![n] = d]
    BY <1>6 DEF HandleRegisterName
  <2> HIDE DEF d, status
  <2> QED BY <1>1, <1>3, <2>1, <2>4, <2>5, AfterCallback
<1>7. CASE Answers(n, q, c) /\ HandleRegisterValue(n, q, c)
  <2> DEFINE d == IF q.name = NoName THEN c ELSE [name |-> q.name, value |-> q.value]
             status == IF q.name = NoName THEN "INVALID_REGISTER_RETURNED" ELSE "STATUS_OK"
  <2>1. /\ Heard(q, held', announced') \/ Astray(q.node_id, announced')
        /\ state[n] = "GET_REGISTER" /\ q.name = c.name
    BY <1>7 DEF Answers, HandleRegisterValue, Truthful, SameName
  <2>2. /\ d \in Caches /\ status \in Statuses
        /\ q.name # NoName => d.name = q.name /\ d.value = q.value
    BY DEF Caches, Statuses
  <2>3. request[n] # NoRequest => /\ request[n].type = "GET_REGISTER"
                                 /\ q.name \in {request[n].name, NoName, ErrorText}
    BY <1>2, <2>1 DEF Waiting
  <2>4. Told(n, [request |-> request[n], status |-> status,
                 name |-> d.name, value |-> d.value, responder |-> q.node_id],
           held', fates', announced')
    <3>1. status = "STATUS_OK" => q.name # NoName
      OBVIOUS
    <3> HIDE DEF d, status
    <3>2. request[n] # NoRequest /\ status = "STATUS_OK" /\ Heard(q, held', announced') =>
              q.name = request[n].name /\ d.name = q.name /\ d.value = q.value
      BY <2>2, <2>3, <3>1 DEF Heard
    <3> QED BY <2>1, <2>3, <3>2, QuestionFields DEF Told, GotValue, Heard
  <2>5. Callback(n, status, d, q.node_id) /\ register_cache' = [register_cache EXCEPT ![n] = d]
    BY <1>7 DEF HandleRegisterValue
  <2> HIDE DEF d, status
  <2> QED BY <1>1, <1>3, <2>2, <2>4, <2>5, AfterCallback
<1>8. CASE Answers(n, q, c) /\ HandleSetRegisterAck(n, q, c)
  <2> DEFINE d == IF q.value = 1 THEN [c EXCEPT !.name = ErrorText] ELSE c
             status == IF q.value = 1 THEN "INVALID_REGISTER_VALUE" ELSE "STATUS_OK"
  <2>1. d \in Caches /\ status \in Statuses
    BY TextHas DEF Caches, Statuses
  <2>2. /\ state[n] = "SET_REGISTER" /\ q.target = n
        /\ \E e \in fates' : e[1].node_id = q.target /\ (q.value = 1 => e[2] = "rejected")
    BY <1>8 DEF Answers, HandleSetRegisterAck, Truthful, AckForUs
  <2>3. request[n] # NoRequest => request[n].type = "SET_REGISTER"
    BY <1>2, <2>2 DEF Waiting
  <2>4. status = "INVALID_REGISTER_VALUE" <=> q.value = 1
    OBVIOUS
  <2>5. Told(n, [request |-> request[n], status |-> status,
                 name |-> d.name, value |-> d.value, responder |-> q.node_id],
           held', fates', announced')
    <3> HIDE DEF d, status
    <3> QED BY <2>2, <2>3, <2>4, QuestionFields DEF Told
  <2>6. Callback(n, status, d, q.node_id) /\ register_cache' = [register_cache EXCEPT ![n] = d]
    BY <1>8 DEF HandleSetRegisterAck
  <2> HIDE DEF d, status
  <2> QED BY <1>1, <1>3, <2>1, <2>5, <2>6, AfterCallback
<1>9. CASE NoAnswer(n, c)
  <2>1. presence_table' \in [Node -> SUBSET Node]
    BY <1>9 DEF NoAnswer, ClientInv, ClientTypes
  <2> QED BY <1>1, <1>9, <2>1, StillWaits DEF NoAnswer
<1> QED BY <1>4, <1>5, <1>6, <1>7, <1>8, <1>9 DEF SeeAnswer
-----------------------------------------------------------------------------
(* The node that is asked.                                                 *)

\* What r, a response of n, needs to be repeated.
Repeats(n, r, f, a) ==
    /\ r.type \in PacketTypes \ Operations
    /\ r.type = "REGISTER_NAME" => r.name = NoName \/ Serves(n, r.name)
    /\ r.type = "REGISTER_VALUE" => Serves(n, r.name) \/ Astray(n, a)
    /\ r.type = "SET_REGISTER_ACK" =>
           r.target \in Node /\ \E e \in f : e[1].node_id = r.target

(* The response repeater gets what it needs of a response.                 *)
LEMMA AppendKeeps ==
    ASSUME RepeatInv, NEW n \in Node, NEW r \in Packets, fates \subseteq fates', announced \subseteq announced',
           Repeats(n, r, fates', announced'), AppendResponseRepeat(n, r)
    PROVE  RepeatInv'
<1> DEFINE item == [op |-> r.type, count |-> 0, seq |-> r.seq,
                    data |-> CASE r.type \in {"REGISTER_NAME", "REGISTER_VALUE"}
                                    -> IndexOf(n, r.name)
                               [] r.type = "SET_REGISTER_ACK" -> r.target
                               [] OTHER -> 0]
<1>1. item.data \in Nat /\ Repeatable(n, item, fates', announced')
  <2>1. /\ r.type = "REGISTER_NAME" /\ r.name = NoName => IndexOf(n, r.name) = NO_INDEX
        /\ ~Serves(n, r.name) => IndexOf(n, r.name) = NO_INDEX
    BY ServedSeqs DEF IndexOf, Serves
  <2>2. NO_INDEX \in Nat
    BY DEF NO_INDEX
  <2>3. Serves(n, r.name) => IndexOf(n, r.name) \in Nat /\ HasIndex(n, IndexOf(n, r.name))
    <3>1. Len(Served[n]) \in Nat
      BY ServedSeqs
    <3> QED BY <3>1, FoundByName
  <2>4. Node \subseteq Nat
    BY NodeNat
  <2>5. CASE r.type = "REGISTER_NAME"
    BY <2>1, <2>2, <2>3, <2>5 DEF Repeatable, Repeats
  <2>6. CASE r.type = "REGISTER_VALUE"
    BY <2>1, <2>2, <2>3, <2>6 DEF Repeatable, Repeats
  <2>7. CASE r.type = "SET_REGISTER_ACK"
    BY <2>4, <2>7 DEF Repeatable, Repeats
  <2>8. CASE r.type \notin {"REGISTER_NAME", "REGISTER_VALUE", "SET_REGISTER_ACK"}
    BY <2>8 DEF Repeatable
  <2> QED BY <2>5, <2>6, <2>7, <2>8
<1>2. item \in RepeatItems /\ item.count = 0
  BY <1>1, PacketFields, MaxRepeatNat DEF RepeatItems, Repeats
<1> DEFINE d == IF RepeatCacheFull(n) THEN response_repeat_cache[n]
                ELSE Append(response_repeat_cache[n], item)
<1>3. response_repeat_cache' = [response_repeat_cache EXCEPT ![n] = d]
  BY DEF AppendResponseRepeat
<1>4. \A m \in Node : CacheOK(m, response_repeat_cache[m], fates', announced')
  BY StaysCacheOK DEF RepeatInv
<1>5. CacheOK(n, d, fates', announced')
  <2> HIDE DEF item
  <2>1. CASE RepeatCacheFull(n)
    BY <1>4, <2>1
  <2>2. CASE ~RepeatCacheFull(n)
    BY <1>1, <1>2, <1>4, <2>2, AppendedCache DEF RepeatCacheFull
  <2> QED BY <2>1, <2>2
<1> HIDE DEF d
<1>6. response_repeat_cache' = [m \in Node |-> response_repeat_cache'[m]]
  BY <1>3 DEF RepeatInv
<1>7. \A m \in Node : response_repeat_cache'[m] =
          IF m = n THEN d ELSE response_repeat_cache[m]
  BY <1>3 DEF RepeatInv
<1>8. ASSUME NEW m \in Node
      PROVE  CacheOK(m, response_repeat_cache[m], fates, announced)'
  BY <1>4, <1>5, <1>7 DEF CacheOK
<1> QED BY <1>6, <1>8 DEF RepeatInv

(* A true packet gets to be in the ether.                                  *)
LEMMA SendKeeps ==
    ASSUME EtherInv, NEW r \in Packets, held \subseteq held', fates \subseteq fates', announced \subseteq announced',
           Truthful(r, held', fates', announced'), ether' = ether \cup {r}
    PROVE  EtherInv'
<1>1. \A p \in ether' : Truthful(p, held', fates', announced')
  BY StaysTruthful DEF EtherInv
<1>2. \A p \in ether' : Truthful(p, held, fates, announced)'
  BY <1>1 DEF Truthful
<1> QED BY <1>2 DEF EtherInv

(* A response that is true and can be repeated.                            *)
LEMMA RespondKeeps ==
    ASSUME RequestInv, NEW n \in Node, NEW p \in ether, NEW r \in Packets,
           NEW c \in Caches, c.name \in {register_cache[n].name, NoName, ErrorText},
           held \subseteq held', fates \subseteq fates', UNCHANGED plan,
           CurrentHeld',
           DOMAIN value' = Node,
           \A m \in Node : value'[m] \in [DOMAIN Served[m] -> Values \cup {0}],
           Truthful(r, held', fates', announced'), Repeats(n, r, fates', announced'), Respond(n, p, r, c)
    PROVE  RequestInv'
<1>a. announced' = announced
  BY DEF Respond
<1>1. ClientInv'
  BY <1>a, SeeAnswerKeeps DEF Respond, RequestInv
<1>2. RepeatInv'
  BY <1>a, AppendKeeps DEF Respond, RequestInv
<1>3. EtherInv'
  BY <1>a, SendKeeps DEF Respond, RequestInv
<1>4. /\ last_handled_packet_index' \in [Node -> Slots]
      /\ sequence_num' \in [Node -> Seqs]
  BY NextNumbers DEF Respond, RequestInv, ServerTypes
<1> QED BY <1>1, <1>2, <1>3, <1>4 DEF RequestInv, ServerTypes
(* A register that is given a value has had it.                            *)
LEMMA StoreKeeps ==
    ASSUME ServerTypes, CurrentHeld, NEW n \in Node, NEW name, Serves(n, name),
           NEW v \in Values \cup {0},
           value' = [value EXCEPT ![n][IndexOf(n, name) + 1] = v],
           held' = held \cup {<<n, name, v>>}
    PROVE  /\ CurrentHeld'
           /\ DOMAIN value' = Node
           /\ \A m \in Node : value'[m] \in [DOMAIN Served[m] -> Values \cup {0}]
<1> DEFINE k == IndexOf(n, name) + 1
<1>1. k \in DOMAIN Served[n] /\ Served[n][k] = name
  BY FoundByName
<1>2. /\ DOMAIN value' = Node
      /\ \A m \in Node : value'[m] \in [DOMAIN Served[m] -> Values \cup {0}]
  BY <1>1 DEF ServerTypes
<1>3. \A m \in Node : \A i \in DOMAIN Served[m] :
          value'[m][i] = IF m = n /\ i = k THEN v ELSE value[m][i]
  BY <1>1 DEF ServerTypes
<1> HIDE DEF k
<1>4. CurrentHeld'
  BY <1>1, <1>3 DEF CurrentHeld
<1> QED BY <1>2, <1>4

(* What a node says in a response of its own.                              *)
LEMMA ResponseFields ==
    ASSUME sequence_num \in [Node -> Seqs], NEW n \in Node, NEW type \in PacketTypes,
           NEW target \in Node \cup {0}, NEW name \in Text, NEW val \in Nat
    PROVE  LET r == Response(n, type, target, name, val)
           IN  /\ r \in Packets /\ r.type = type /\ r.node_id = n
               /\ r.target = target /\ r.name = name /\ r.value = val
  BY NodeNat DEF Response, Packet, Packets

(* Each handler of a request responds with the truth.                      *)
LEMMA ReceiveRequestKeeps ==
    ASSUME RequestInv, NEW n \in Node, ReceiveRequest(n), UNCHANGED plan
    PROVE  RequestInv'
<1> USE DEF RequestInv
<1>1. PICK p \in ether :
          /\ Addressed(n, p)
          /\ \/ HandlePing(n, p)
             \/ HandleGetNumRegisters(n, p)
             \/ HandleGetRegisterName(n, p)
             \/ HandleGetRegister(n, p)
             \/ ObeySetRegister(n, p)
             \/ RejectSetRegister(n, p)
             \/ BogusSetRegister(n, p)
  BY DEF ReceiveRequest
<1>2. /\ p \in Packets /\ p.node_id \in Node /\ p.name \in Text /\ p.value \in Nat
      /\ p.type = "SET_REGISTER" => p.value \in Values
  <2>1. p \in Packets /\ Truthful(p, held, fates, announced)
    BY <1>1 DEF EtherInv
  <2>2. p.type # "REGISTER_VALUE"
    BY <1>1 DEF Addressed, Directed
  <2> QED BY <2>1, <2>2, PacketFields DEF Truthful
<1>3. /\ register_cache[n] \in Caches
      /\ Blank \in Caches /\ Blank.name = NoName
      /\ [register_cache[n] EXCEPT !.name = ErrorText] \in Caches
      /\ [register_cache[n] EXCEPT !.name = ErrorText].name = ErrorText
  BY TextHas DEF ClientInv, ClientTypes, Caches, Blank
<1>4. /\ NoName \in Text /\ 0 \in Node \cup {0} /\ 0 \in Nat /\ 1 \in Nat
      /\ Len(Served[n]) \in Nat
  BY TextHas, HasIndexIsServed
<1>5. UNCHANGED <<value, held, fates>> => /\ CurrentHeld' /\ DOMAIN value' = Node
          /\ \A m \in Node : value'[m] \in [DOMAIN Served[m] -> Values \cup {0}]
  BY DEF CurrentHeld, ServerTypes
<1>6. \A t \in {"PONG", "NUM_REGISTERS", "REGISTER_NAME", "REGISTER_VALUE",
                "SET_REGISTER_ACK"} : t \in PacketTypes /\ t \notin Operations
  BY DEF PacketTypes, Operations
<1> DEFINE Fields(t, d, m, v) ==
               LET r == Response(n, t, d, m, v)
               IN  /\ r \in Packets /\ r.type = t /\ r.node_id = n
                   /\ r.target = d /\ r.name = m /\ r.value = v
<1>a. \A t \in PacketTypes, d \in Node \cup {0}, m \in Text, v \in Nat : Fields(t, d, m, v)
  BY ResponseFields
<1> HIDE DEF Fields
<1>7. CASE HandlePing(n, p)
  <2> DEFINE r == Response(n, "PONG", 0, NoName, 0)
  <2>1. r \in Packets /\ r.type = "PONG"
    <3>1. Fields("PONG", 0, NoName, 0)
      BY <1>4, <1>6, <1>a
    <3> QED BY <3>1 DEF Fields
  <2>2. Respond(n, p, r, register_cache[n]) /\ UNCHANGED <<value, held, fates>>
    BY <1>7 DEF HandlePing
  <2> HIDE DEF r
  <2>3. Truthful(r, held', fates', announced') /\ Repeats(n, r, fates', announced')
    BY <1>6, <2>1 DEF Truthful, Repeats
  <2> QED BY <1>1, <1>3, <1>5, <2>1, <2>2, <2>3, RespondKeeps
<1>8. CASE HandleGetNumRegisters(n, p)
  <2> DEFINE r == Response(n, "NUM_REGISTERS", 0, NoName, Len(Served[n]))
  <2>1. /\ r \in Packets /\ r.type = "NUM_REGISTERS" /\ r.node_id = n
        /\ r.value = Len(Served[n])
    <3>1. Fields("NUM_REGISTERS", 0, NoName, Len(Served[n]))
      BY <1>4, <1>6, <1>a
    <3> QED BY <3>1 DEF Fields
  <2>2. Respond(n, p, r, register_cache[n]) /\ UNCHANGED <<value, held, fates>>
    BY <1>8 DEF HandleGetNumRegisters
  <2> HIDE DEF r
  <2>3. Truthful(r, held', fates', announced') /\ Repeats(n, r, fates', announced')
    BY <1>6, <2>1 DEF Truthful, Repeats
  <2> QED BY <1>1, <1>3, <1>5, <2>1, <2>2, <2>3, RespondKeeps
<1>9. CASE HandleGetRegisterName(n, p)
  <2> DEFINE r == IF HasIndex(n, p.value)
                  THEN Response(n, "REGISTER_NAME", 0, Served[n][p.value + 1], p.value)
                  ELSE Response(n, "REGISTER_NAME", 0, NoName, 0)
  <2>1. /\ r \in Packets /\ r.type = "REGISTER_NAME" /\ r.node_id = n
        /\ \/ r.name = NoName
           \/ /\ HasIndex(n, p.value) /\ r.value = p.value
              /\ r.name = Served[n][p.value + 1] /\ Serves(n, r.name)
    <3>1. CASE HasIndex(n, p.value)
      <4>1. p.value + 1 \in DOMAIN Served[n]
        BY <1>2, <3>1, HasIndexIsServed
      <4>2. Served[n][p.value + 1] \in Text /\ Serves(n, Served[n][p.value + 1])
        BY <4>1, ServedName
      <4>3. Fields("REGISTER_NAME", 0, Served[n][p.value + 1], p.value)
        BY <1>2, <1>4, <1>6, <1>a, <4>2
      <4> QED BY <3>1, <4>2, <4>3 DEF Fields
    <3>2. CASE ~HasIndex(n, p.value)
      <4>1. Fields("REGISTER_NAME", 0, NoName, 0)
        BY <1>4, <1>6, <1>a
      <4> QED BY <3>2, <4>1 DEF Fields
    <3> QED BY <3>1, <3>2
  <2>2. Respond(n, p, r, register_cache[n]) /\ UNCHANGED <<value, held, fates>>
    BY <1>9 DEF HandleGetRegisterName
  <2> HIDE DEF r
  <2>3. Truthful(r, held', fates', announced') /\ Repeats(n, r, fates', announced')
    BY <1>6, <2>1 DEF Truthful, Repeats
  <2> QED BY <1>1, <1>3, <1>5, <2>1, <2>2, <2>3, RespondKeeps
<1>10. CASE HandleGetRegister(n, p)
  <2>1. Serves(n, p.name) /\ p.name # NoName /\ p.name # ErrorText
    <3>1. Serves(n, p.name)
      BY <1>1, <1>10 DEF Addressed, HandleGetRegister, Directed
    <3> QED BY <3>1, ServedName DEF Serves
  <2> DEFINE k == IndexOf(n, p.name) + 1
             r(v) == Response(n, "REGISTER_VALUE", 0, p.name, v)
  <2>2. PICK v \in {value[n][k]} \cup Measured :
            /\ value' = [value EXCEPT ![n][k] = v]
            /\ held' = held \cup {<<n, p.name, v>>}
            /\ Respond(n, p, r(v), register_cache[n])
    BY <1>10 DEF HandleGetRegister
  <2>3. v \in Values \cup {0} /\ v \in Nat /\ UNCHANGED fates
    <3>1. value[n][k] \in Values \cup {0}
      BY <2>1, FoundByName DEF ServerTypes
    <3> QED BY <1>10, <2>2, <3>1, ValuesNat DEF HandleGetRegister
  <2>4. /\ CurrentHeld' /\ DOMAIN value' = Node
        /\ \A m \in Node : value'[m] \in [DOMAIN Served[m] -> Values \cup {0}]
    BY <2>1, <2>2, <2>3, StoreKeeps
  <2>5. /\ r(v) \in Packets /\ r(v).type = "REGISTER_VALUE"
        /\ r(v).name = p.name /\ r(v).value = v /\ r(v).node_id = n
    <3>1. Fields("REGISTER_VALUE", 0, p.name, v)
      BY <1>2, <1>4, <1>6, <1>a, <2>3
    <3> QED BY <3>1 DEF Fields
  <2> HIDE DEF r
  <2>6. Truthful(r(v), held', fates', announced') /\ Repeats(n, r(v), fates', announced')
    BY <1>6, <2>1, <2>2, <2>5 DEF Truthful, Repeats, Heard
  <2> QED BY <1>1, <1>3, <2>2, <2>3, <2>4, <2>5, <2>6, RespondKeeps
<1> DEFINE ack(v) == Response(n, "SET_REGISTER_ACK", p.node_id, NoName, v)
<1>11. \A v \in {0, 1} : /\ ack(v) \in Packets /\ ack(v).type = "SET_REGISTER_ACK"
                         /\ ack(v).target = p.node_id /\ ack(v).value = v
  <2>1. \A v \in {0, 1} : Fields("SET_REGISTER_ACK", p.node_id, NoName, v)
    BY <1>2, <1>4, <1>6, <1>a
  <2> QED BY <2>1 DEF Fields
<1>12. ASSUME NEW v \in {0, 1},
              \E e \in fates' : e[1].node_id = p.node_id /\ (v = 1 => e[2] = "rejected")
       PROVE  Truthful(ack(v), held', fates', announced') /\ Repeats(n, ack(v), fates', announced')
  <2> HIDE DEF ack
  <2> QED BY <1>2, <1>6, <1>11, <1>12 DEF Truthful, Repeats
<1>13. CASE ObeySetRegister(n, p)
  <2>1. Serves(n, p.name) /\ p.value \in Values
    BY <1>1, <1>2, <1>13 DEF Addressed, ObeySetRegister, Directed
  <2>2. /\ value' = [value EXCEPT ![n][IndexOf(n, p.name) + 1] = p.value]
        /\ held' = held \cup {<<n, p.name, p.value>>}
        /\ fates' = fates \cup {<<p, "stored">>}
        /\ Respond(n, p, ack(0), register_cache[n])
    BY <1>13 DEF ObeySetRegister
  <2>3. /\ CurrentHeld' /\ DOMAIN value' = Node
        /\ \A m \in Node : value'[m] \in [DOMAIN Served[m] -> Values \cup {0}]
    BY <2>1, <2>2, StoreKeeps
  <2>4. Truthful(ack(0), held', fates', announced') /\ Repeats(n, ack(0), fates', announced')
    <3> DEFINE e == <<p, "stored">>
    <3>1. e[1].node_id = p.node_id /\ e[2] = "stored" /\ e \in fates'
      BY <2>2
    <3> HIDE DEF ack, e
    <3> QED BY <1>12, <3>1
  <2>5. ack(0) \in Packets
    BY <1>11
  <2> HIDE DEF ack
  <2> QED BY <1>1, <1>3, <2>2, <2>3, <2>4, <2>5, RespondKeeps
<1>14. CASE RejectSetRegister(n, p)
  <2>1. /\ UNCHANGED <<value, held>>
        /\ fates' = fates \cup {<<p, "rejected">>}
        /\ Respond(n, p, ack(1), Blank)
    BY <1>14 DEF RejectSetRegister
  <2>2. /\ CurrentHeld' /\ DOMAIN value' = Node
        /\ \A m \in Node : value'[m] \in [DOMAIN Served[m] -> Values \cup {0}]
    BY <2>1 DEF CurrentHeld, ServerTypes
  <2>3. Truthful(ack(1), held', fates', announced') /\ Repeats(n, ack(1), fates', announced')
    <3> DEFINE e == <<p, "rejected">>
    <3>1. e[1].node_id = p.node_id /\ e[2] = "rejected" /\ e \in fates'
      BY <2>1
    <3> HIDE DEF ack, e
    <3> QED BY <1>12, <3>1
  <2>4. ack(1) \in Packets
    BY <1>11
  <2> HIDE DEF ack
  <2> QED BY <1>1, <1>3, <2>1, <2>2, <2>3, <2>4, RespondKeeps
<1>15. CASE BogusSetRegister(n, p)
  <2>1. /\ UNCHANGED <<value, held>>
        /\ fates' = fates \cup {<<p, "bogus">>}
        /\ Respond(n, p, ack(0), [register_cache[n] EXCEPT !.name = ErrorText])
    BY <1>15 DEF BogusSetRegister
  <2>2. /\ CurrentHeld' /\ DOMAIN value' = Node
        /\ \A m \in Node : value'[m] \in [DOMAIN Served[m] -> Values \cup {0}]
    BY <2>1 DEF CurrentHeld, ServerTypes
  <2>3. Truthful(ack(0), held', fates', announced') /\ Repeats(n, ack(0), fates', announced')
    <3> DEFINE e == <<p, "bogus">>
    <3>1. e[1].node_id = p.node_id /\ e[2] = "bogus" /\ e \in fates'
      BY <2>1
    <3> HIDE DEF ack, e
    <3> QED BY <1>12, <3>1
  <2>4. ack(0) \in Packets
    BY <1>11
  <2> HIDE DEF ack
  <2> QED BY <1>1, <1>3, <2>1, <2>2, <2>3, <2>4, RespondKeeps
<1> QED BY <1>1, <1>7, <1>8, <1>9, <1>10, <1>13, <1>14, <1>15

(* What is repeated is put together anew, and true.                        *)
LEMMA RepeatedTruth ==
    ASSUME RequestInv, NEW n \in Node, NEW item \in RepeatItems,
           Repeatable(n, item, fates, announced), NEW r \in RepeatPackets(n, item)
    PROVE  r \in Packets /\ Truthful(r, held, fates, announced)
<1> DEFINE R(d, m, v) == Packet(n, item.op, item.seq, d, m, v)
<1>1. /\ item.op \in PacketTypes \ Operations /\ item.op \in PacketTypes
      /\ item.seq \in Seqs /\ item.data \in Nat /\ item.op # "SET_REGISTER"
  BY DEF RepeatItems, Operations
<1>2. \A d \in Node \cup {0}, m \in Text, v \in Nat :
          /\ R(d, m, v) \in Packets /\ R(d, m, v).type = item.op
          /\ R(d, m, v).node_id = n /\ R(d, m, v).target = d
          /\ R(d, m, v).name = m /\ R(d, m, v).value = v
  BY <1>1, NodeNat DEF Packet, Packets
<1>3. /\ NoName \in Text /\ ErrorText \in Text /\ 0 \in Node \cup {0} /\ 0 \in Nat
      /\ Len(Served[n]) \in Nat /\ NO_INDEX \in Nat
  BY TextHas, HasIndexIsServed DEF NO_INDEX
<1>4. HasIndex(n, item.data) =>
          /\ item.data + 1 \in DOMAIN Served[n]
          /\ Served[n][item.data + 1] \in Text
          /\ Served[n][item.data + 1] # NoName /\ Served[n][item.data + 1] # ErrorText
          /\ value[n][item.data + 1] \in Nat
          /\ <<n, Served[n][item.data + 1], value[n][item.data + 1]>> \in held
  <2>1. HasIndex(n, item.data) => item.data + 1 \in DOMAIN Served[n]
    BY <1>1, HasIndexIsServed
  <2>2. item.data + 1 \in DOMAIN Served[n] => value[n][item.data + 1] \in Nat
    <3>1. value[n] \in [DOMAIN Served[n] -> Values \cup {0}]
      BY DEF RequestInv, ServerTypes
    <3>2. Values \cup {0} \subseteq Nat
      BY ValuesNat
    <3> QED BY <3>1, <3>2
  <2> QED BY <2>1, <2>2, ServedName DEF RequestInv, CurrentHeld
<1> HIDE DEF R
<1>5. CASE item.op = "PONG"
  <2>1. r = R(0, NoName, 0)
    BY <1>5 DEF RepeatPackets, R
  <2>2. r \in Packets /\ r.type = "PONG"
    BY <1>2, <1>3, <1>5, <2>1
  <2> QED BY <2>2 DEF Truthful
<1>6. CASE item.op = "NUM_REGISTERS"
  <2>1. r = R(0, NoName, Len(Served[n]))
    BY <1>6 DEF RepeatPackets, R
  <2> QED BY <1>2, <1>3, <1>6, <2>1 DEF Truthful
<1>7. CASE item.op = "REGISTER_NAME" /\ item.data = NO_INDEX
  <2>1. PICK f \in Found : r = R(0, f.name, NO_INDEX)
    BY <1>7 DEF RepeatPackets, R
  <2>2. f.name \in Text
    BY FoundBytes
  <2> QED BY <1>2, <1>3, <1>7, <2>1, <2>2 DEF Truthful
<1>8. CASE item.op = "REGISTER_NAME" /\ item.data # NO_INDEX
  <2>1. r = R(0, Served[n][item.data + 1], item.data)
    BY <1>8 DEF RepeatPackets, R
  <2>2. HasIndex(n, item.data)
    BY <1>8 DEF Repeatable
  <2> DEFINE name == Served[n][item.data + 1]
  <2>3. name \in Text /\ item.data \in Nat
    BY <1>1, <1>4, <2>2
  <2>4. r = R(0, name, item.data)
    BY <2>1
  <2> HIDE DEF name
  <2>5. R(0, name, item.data) \in Packets /\ R(0, name, item.data).type = item.op
        /\ R(0, name, item.data).node_id = n /\ R(0, name, item.data).name = name
        /\ R(0, name, item.data).value = item.data
    BY <1>1, <1>3, <2>3, NodeNat DEF R, Packet, Packets
  <2>6. /\ r \in Packets /\ r.type = "REGISTER_NAME" /\ r.node_id = n
        /\ r.name = name /\ r.value = item.data
    BY <1>8, <2>4, <2>5
  <2> QED BY <2>2, <2>6 DEF Truthful, name
<1>9. CASE item.op = "REGISTER_VALUE" /\ item.data # NO_INDEX
  <2>1. r = R(0, Served[n][item.data + 1], value[n][item.data + 1])
    BY <1>9 DEF RepeatPackets, R
  <2>2. HasIndex(n, item.data)
    BY <1>9 DEF Repeatable
  <2> DEFINE name == Served[n][item.data + 1]
             v == value[n][item.data + 1]
  <2>3. /\ name \in Text /\ name # NoName /\ name # ErrorText
        /\ v \in Nat /\ <<n, name, v>> \in held
    BY <1>4, <2>2
  <2>4. r = R(0, name, v)
    BY <2>1
  <2> HIDE DEF name, v
  <2>5. /\ R(0, name, v) \in Packets /\ R(0, name, v).type = item.op
        /\ R(0, name, v).name = name /\ R(0, name, v).value = v
        /\ R(0, name, v).node_id = n
    BY <1>1, <1>3, <2>3, NodeNat DEF R, Packet, Packets
  <2>6. /\ r \in Packets /\ r.type = "REGISTER_VALUE" /\ r.node_id = n
        /\ r.name = name /\ r.value = v
    BY <1>9, <2>4, <2>5
  <2> QED BY <2>3, <2>6 DEF Truthful, Heard
<1>11. CASE item.op = "REGISTER_VALUE" /\ item.data = NO_INDEX
  <2>1. PICK f \in Found : r = R(0, f.name, f.value)
    BY <1>11 DEF RepeatPackets, R
  <2>2. f.name \in Text /\ f.value \in Nat
    BY FoundBytes
  <2>3. Astray(n, announced)
    BY <1>3, <1>11, ServedSeqs DEF Repeatable, HasIndex
  <2>4. /\ R(0, f.name, f.value) \in Packets /\ R(0, f.name, f.value).type = item.op
        /\ R(0, f.name, f.value).node_id = n
    BY <1>1, <1>3, <2>2, NodeNat DEF R, Packet, Packets
  <2>5. r \in Packets /\ r.type = "REGISTER_VALUE" /\ r.node_id = n
    BY <1>11, <2>1, <2>4
  <2> QED BY <2>3, <2>5 DEF Truthful
<1>10. CASE item.op = "SET_REGISTER_ACK"
  <2>1. r = R(item.data, NoName, 0)
    BY <1>10 DEF RepeatPackets, R
  <2>2. item.data \in Node /\ \E e \in fates : e[1].node_id = item.data
    BY <1>10 DEF Repeatable
  <2> QED BY <1>2, <1>3, <1>10, <2>1, <2>2 DEF Truthful
<1> QED BY <1>1, <1>5, <1>6, <1>7, <1>8, <1>9, <1>10, <1>11 DEF PacketTypes, Operations

(* The response repeater sends the truth, and keeps what it needs.         *)
LEMMA RepeatKeeps ==
    ASSUME RequestInv, NEW n \in Node, RepeatResponse(n), UNCHANGED plan
    PROVE  RequestInv'
<1> DEFINE c == response_repeat_cache[n]
<1>1. CacheOK(n, c, fates, announced) /\ c # <<>>
  BY DEF RequestInv, RepeatInv, RepeatResponse
<1>2. c \in Seq(RepeatItems) /\ Selected(c) \in 1..Len(c)
  BY <1>1, SelectedIsFirst DEF CacheOK
<1>3. c[Selected(c)] \in RepeatItems /\ Repeatable(n, c[Selected(c)], fates, announced)
  BY <1>1, <1>2, ElementOfSeq DEF CacheOK
<1>4. PICK r \in RepeatPackets(n, c[Selected(c)]) : ether' = ether \cup {r}
  BY DEF RepeatResponse
<1>5. /\ response_repeat_cache' = [response_repeat_cache EXCEPT ![n] = Repeated(c)]
      /\ UNCHANGED <<clientVars, last_handled_packet_index, value, held, fates,
                     announced, sequence_num>>
  BY DEF RepeatResponse, Repeated
<1>6. CacheOK(n, Repeated(c), fates, announced)
  BY <1>1, RepeatedCache
<1>7. RepeatInv'
  <2> HIDE DEF c
  <2>1. \A m \in Node : CacheOK(m, response_repeat_cache'[m], fates, announced)
    BY <1>5, <1>6 DEF RequestInv, RepeatInv
  <2>2. response_repeat_cache' = [m \in Node |-> response_repeat_cache'[m]]
    BY <1>5 DEF RequestInv, RepeatInv
  <2> QED BY <1>5, <2>1, <2>2 DEF RepeatInv, CacheOK
<1>8. EtherInv'
  <2>1. r \in Packets /\ Truthful(r, held, fates, announced)
    BY <1>3, <1>4, RepeatedTruth
  <2> QED BY <1>4, <1>5, <2>1, SendKeeps DEF RequestInv
<1>9. ClientInv'
  BY <1>5 DEF RequestInv, ClientInv, ClientTypes, Waiting, Told, clientVars
<1>10. CurrentHeld' /\ ServerTypes'
  BY <1>5 DEF RequestInv, CurrentHeld, ServerTypes
<1> QED BY <1>5, <1>7, <1>8, <1>9, <1>10 DEF RequestInv
-----------------------------------------------------------------------------
(* The applications, and the other steps.                                  *)

(* A question is true, whatever it asks.                                   *)
LEMMA SendRequestKeeps ==
    ASSUME RequestInv, NEW n \in Node, NEW q \in Questions,
           NEW target \in Node \cup {0}, Send(n, q, target), UNCHANGED plan,
           q.type \in Directed => target = q.target,
           target_register_index' \in [Node -> Nat],
           q.type = "GET_REGISTER_NAME" => target_register_index'[n] = q.value,
           register_cache' \in [Node -> Caches],
           q.type = "GET_REGISTER" => register_cache'[n].name = q.name,
           \A m \in Node : m # n => /\ target_register_index'[m] = target_register_index[m]
                                    /\ register_cache'[m] = register_cache[m],
           presence_table' \in [Node -> SUBSET Node]
    PROVE  RequestInv'
<1>a. /\ q.type \in Operations /\ q.target \in Node \cup {0} /\ q.name \in Text
      /\ q.value \in Nat /\ q # NoRequest
      /\ q.type = "SET_REGISTER" => q.value \in Values
  BY QuestionFields
<1> DEFINE r == Packet(n, q.type, sequence_num[n], q.target, q.name, q.value)
<1>1. r \in Packets /\ r.type = q.type /\ r.value = q.value
  BY <1>a, NodeNat DEF Packet, Packets, PacketTypes, RequestInv
<1>2. EtherInv' /\ held' = held /\ fates' = fates /\ announced' = announced
  <2>1. held' = held /\ fates' = fates /\ announced' = announced /\ ether' = ether \cup {r}
    BY DEF Send, serverVars
  <2> HIDE DEF r
  <2>2. Truthful(r, held', fates', announced')
    BY <1>a, <1>1 DEF Truthful, Operations
  <2> QED BY <1>1, <2>1, <2>2, SendKeeps DEF RequestInv
<1>3. ClientTypes'
  <2>1. NoOutcome \in Outcomes
    BY TextHas DEF NoOutcome, Outcomes, Statuses
  <2>2. q.type \in States
    BY <1>a DEF States
  <2> QED BY <2>1, <2>2 DEF Send, RequestInv, ClientInv, ClientTypes
<1>4. ASSUME NEW m \in Node
      PROVE  Waiting(m)'
  <2>1. CASE m = n
    <3>1. state'[n] = q.type /\ request'[n] = q /\ target_node_id'[n] = target
      BY DEF Send, RequestInv, ClientInv, ClientTypes
    <3>2. q.type # "IDLE"
      BY <1>a DEF Operations
    <3> QED BY <2>1, <3>1, <3>2 DEF Waiting
  <2>2. CASE m # n
    <3>1. /\ state'[m] = state[m] /\ request'[m] = request[m]
          /\ target_node_id'[m] = target_node_id[m] /\ Waiting(m)
      BY <2>2 DEF Send, RequestInv, ClientInv, ClientTypes
    <3> QED BY <2>2, <3>1 DEF Waiting
  <2> QED BY <2>1, <2>2
<1>5. ASSUME NEW m \in Node
      PROVE  Told(m, outcome[m], held, fates, announced)'
  <2>1. CASE m = n
    <3>1. outcome'[m] = NoOutcome
      BY <2>1 DEF Send, RequestInv, ClientInv, ClientTypes
    <3> QED BY <3>1 DEF Told, NoOutcome, NoRequest
  <2>2. CASE m # n
    <3>1. outcome'[m] = outcome[m]
      BY <2>2 DEF Send, RequestInv, ClientInv, ClientTypes
    <3> QED BY <1>2, <3>1 DEF Told, RequestInv, ClientInv
  <2> QED BY <2>1, <2>2
<1>6. sequence_num' \in [Node -> Seqs]
  BY NextNumbers DEF Send, RequestInv
<1>7. RepeatInv' /\ CurrentHeld' /\ ServerTypes'
  BY DEF Send, serverVars, RequestInv, RepeatInv, CacheOK, CurrentHeld, ServerTypes
<1> QED BY <1>2, <1>3, <1>4, <1>5, <1>6, <1>7 DEF RequestInv, ClientInv

(* A node that stalls is busy without a request.                           *)
LEMMA StallKeeps ==
    ASSUME RequestInv, NEW n \in Node, NEW q \in Questions, Stall(n, q),
           UNCHANGED <<target_register_index, presence_table, plan>>
    PROVE  RequestInv'
<1>1. ClientTypes'
  <2>1. NoOutcome \in Outcomes
    BY TextHas DEF NoOutcome, Outcomes, Statuses
  <2> QED BY <2>1, QuestionFields DEF Stall, RequestInv, ClientInv, ClientTypes, States
<1>2. ASSUME NEW m \in Node
      PROVE  Waiting(m)'
  BY <1>2 DEF Stall, RequestInv, ClientInv, ClientTypes, Waiting
<1>3. held' = held /\ fates' = fates /\ announced' = announced
  BY DEF Stall, serverVars
<1>4. ASSUME NEW m \in Node
      PROVE  Told(m, outcome[m], held, fates, announced)'
  <2>1. CASE m = n
    <3>1. outcome'[m] = NoOutcome
      BY <2>1 DEF Stall, RequestInv, ClientInv, ClientTypes
    <3> QED BY <3>1 DEF Told, NoOutcome, NoRequest
  <2>2. CASE m # n
    <3>1. outcome'[m] = outcome[m]
      BY <2>2 DEF Stall, RequestInv, ClientInv, ClientTypes
    <3> QED BY <1>3, <3>1 DEF Told, RequestInv, ClientInv
  <2> QED BY <2>1, <2>2
<1>5. RepeatInv' /\ CurrentHeld' /\ ServerTypes' /\ EtherInv' /\ sequence_num' = sequence_num
  BY DEF Stall, serverVars, RequestInv, RepeatInv, CacheOK, CurrentHeld, ServerTypes,
         EtherInv, Truthful
<1> QED BY <1>1, <1>2, <1>4, <1>5 DEF RequestInv, ClientInv

(* The applications ask.                                                   *)
LEMMA AskKeeps ==
    ASSUME RequestInv, NEW n \in Node, UNCHANGED plan,
           \/ Ping(n) \/ GetNumRegisters(n) \/ GetRegisterName(n)
           \/ GetRegister(n) \/ SetRegister(n)
    PROVE  RequestInv'
<1>1. \A q \in plan[n].asks : q \in Questions
  BY PlansBounded DEF RequestInv
<1>2. 0 \in Node \cup {0} /\ 0 \in Nat
  OBVIOUS
<1> USE DEF RequestInv, ClientInv, ClientTypes
<1>3. CASE Ping(n)
  <2>1. PICK q \in Questions :
            /\ q.type = "PING" /\ Send(n, q, 0)
            /\ presence_table' = [presence_table EXCEPT ![n] = {}]
            /\ UNCHANGED <<target_register_index, register_cache>>
    BY <1>1, <1>3 DEF Ping
  <2> QED BY <1>2, <2>1, SendRequestKeeps DEF Directed
<1>4. CASE GetNumRegisters(n)
  <2>1. PICK q \in Questions :
            /\ q.type = "GET_NUM_REGISTERS" /\ Send(n, q, q.target)
            /\ UNCHANGED <<target_register_index, register_cache, presence_table>>
    BY <1>1, <1>4 DEF GetNumRegisters
  <2>2. q.target \in Node \cup {0}
    BY QuestionFields
  <2> QED BY <2>1, <2>2, SendRequestKeeps
<1>5. CASE GetRegisterName(n)
  <2>1. PICK q \in Questions :
            /\ q.type = "GET_REGISTER_NAME" /\ Send(n, q, q.target)
            /\ target_register_index' = [target_register_index EXCEPT ![n] = q.value]
            /\ UNCHANGED <<register_cache, presence_table>>
    BY <1>1, <1>5 DEF GetRegisterName
  <2>2. q.target \in Node \cup {0} /\ q.value \in Nat
    BY QuestionFields
  <2> QED BY <2>1, <2>2, SendRequestKeeps
<1>6. CASE GetRegister(n)
  <2>1. PICK q \in Questions :
            /\ q.type = "GET_REGISTER"
            /\ \/ Stall(n, q)
               \/ /\ Send(n, q, 0)
                  /\ register_cache' =
                         [register_cache EXCEPT ![n] = [name |-> q.name, value |-> 0]]
            /\ UNCHANGED <<target_register_index, presence_table>>
    BY <1>1, <1>6 DEF GetRegister
  <2>2. [name |-> q.name, value |-> 0] \in Caches
    BY QuestionFields DEF Caches
  <2>3. CASE Stall(n, q)
    BY <2>1, <2>3, StallKeeps
  <2>4. CASE ~Stall(n, q)
    <3> DEFINE cache == [name |-> q.name, value |-> 0]
    <3>1. Send(n, q, 0) /\ register_cache' = [register_cache EXCEPT ![n] = cache]
      BY <2>1, <2>4
    <3>2. cache \in Caches /\ cache.name = q.name
      BY <2>2
    <3> HIDE DEF cache
    <3>3. /\ register_cache' \in [Node -> Caches] /\ register_cache'[n].name = q.name
          /\ \A m \in Node : m # n => register_cache'[m] = register_cache[m]
      BY <3>1, <3>2
    <3>4. /\ target_register_index' \in [Node -> Nat] /\ presence_table' \in [Node -> SUBSET Node]
          /\ \A m \in Node : target_register_index'[m] = target_register_index[m]
      BY <2>1
    <3>5. q.type \notin Directed /\ q.type # "GET_REGISTER_NAME"
      BY <2>1 DEF Directed
    <3> QED BY <1>2, <3>1, <3>3, <3>4, <3>5, SendRequestKeeps
  <2> QED BY <2>3, <2>4
<1>7. CASE SetRegister(n)
  <2>1. PICK q \in Questions :
            /\ q.type = "SET_REGISTER"
            /\ \/ Stall(n, q)
               \/ Send(n, q, 0) /\ UNCHANGED register_cache
            /\ UNCHANGED <<target_register_index, presence_table>>
    BY <1>1, <1>7 DEF SetRegister
  <2>2. CASE Stall(n, q)
    BY <2>1, <2>2, StallKeeps
  <2>3. CASE ~Stall(n, q)
    BY <1>2, <2>1, <2>3, SendRequestKeeps DEF Directed
  <2> QED BY <2>2, <2>3
<1> QED BY <1>3, <1>4, <1>5, <1>6, <1>7

(* A request ends without an answer.                                       *)
LEMMA OverKeeps ==
    ASSUME RequestInv, NEW n \in Node, UNCHANGED plan, Timeout(n) \/ PingOver(n)
    PROVE  RequestInv'
<1>1. PICK status \in {"TIMEOUT", "STATUS_OK"} :
          /\ Callback(n, status, register_cache[n], 0)
          /\ status = "STATUS_OK" => state[n] = "PING"
          /\ UNCHANGED <<target_node_id, target_register_index, register_cache,
                         serverVars, sequence_num, ether>>
  BY DEF Timeout, PingOver
<1>2. /\ status \in Statuses /\ register_cache[n] \in Caches
      /\ register_cache' \in [Node -> Caches]
  BY <1>1 DEF Statuses, RequestInv, ClientInv, ClientTypes
<1>3. Told(n, [request |-> request[n], status |-> status, name |-> register_cache[n].name,
               value |-> register_cache[n].value, responder |-> 0],
          held', fates', announced')
  <2>1. status = "STATUS_OK" => request[n] = NoRequest \/ request[n].type = "PING"
    BY <1>1 DEF RequestInv, ClientInv, Waiting
  <2>2. request[n] = NoRequest => request[n].type = "none"
    BY DEF NoRequest
  <2> QED BY <2>1, <2>2 DEF Told
<1>4. held' = held /\ fates' = fates /\ announced' = announced
  BY <1>1 DEF serverVars
<1>5. ClientInv'
  BY <1>1, <1>2, <1>3, <1>4, AfterCallback DEF RequestInv
<1>6. RepeatInv' /\ CurrentHeld' /\ ServerTypes' /\ EtherInv' /\ sequence_num' = sequence_num
  BY <1>1 DEF serverVars, RequestInv, RepeatInv, CacheOK, CurrentHeld, ServerTypes,
              EtherInv, Truthful
<1> QED BY <1>5, <1>6 DEF RequestInv

(* A packet that is no new request.                                        *)
LEMMA ReceiveOtherKeeps ==
    ASSUME RequestInv, NEW n \in Node, UNCHANGED plan, ReceiveOther(n)
    PROVE  RequestInv'
<1>1. PICK p \in ether :
          /\ SeeAnswer(n, p, register_cache[n])
          /\ UNCHANGED <<last_handled_packet_index, response_repeat_cache, value,
                         held, announced, fates, sequence_num, ether>>
  BY DEF ReceiveOther
<1>2. p \in Packets /\ Truthful(p, held', fates', announced') /\ register_cache[n] \in Caches
  BY <1>1 DEF RequestInv, EtherInv, ClientInv, ClientTypes
<1>3. ClientInv'
  BY <1>1, <1>2, SeeAnswerKeeps DEF RequestInv
<1>4. RepeatInv' /\ CurrentHeld' /\ ServerTypes' /\ EtherInv' /\ sequence_num' = sequence_num
  BY <1>1 DEF RequestInv, RepeatInv, CacheOK, CurrentHeld, ServerTypes, EtherInv, Truthful
<1> QED BY <1>3, <1>4 DEF RequestInv
-----------------------------------------------------------------------------
(* Broadcasts.                                                             *)

(* A broadcast says what has been broadcast; it is repeated by the index   *)
(* of the register, or as what lies beyond the registers.                  *)
LEMMA BroadcastKeeps ==
    ASSUME RequestInv, NEW n \in Node, UNCHANGED plan, Broadcast(n)
    PROVE  RequestInv'
<1> USE DEF RequestInv
<1>1. PICK b \in plan[n].says :
          /\ ~BadRegister(b)
          /\ sequence_num' = [sequence_num EXCEPT ![n] = (@ + 1) % SEQ_RANGE]
          /\ AppendResponseRepeat(n, BroadcastPacket(n, b.name, b.value))
          /\ ether' = ether \cup {BroadcastPacket(n, b.name, b.value)}
          /\ announced' =
                 announced \cup {[node |-> n, name |-> b.name, value |-> b.value]}
          /\ UNCHANGED <<clientVars, handled_packet_cache, last_handled_packet_index,
                         value, held, fates>>
  BY DEF Broadcast
<1>2. /\ b.name \in Text /\ b.name # ErrorText /\ b.name # NoName /\ b.value \in Nat
  BY <1>1, PlansBounded DEF Announcements, BadRegister
<1> DEFINE r == BroadcastPacket(n, b.name, b.value)
           a == [node |-> n, name |-> b.name, value |-> b.value]
<1>3. /\ r \in Packets /\ r.type = "REGISTER_VALUE" /\ r.node_id = 0
      /\ r.name = b.name /\ r.value = b.value
  BY <1>2 DEF BroadcastPacket, Packet, Packets, PacketTypes
<1>4. a \in announced' /\ a.node = n /\ a.name = b.name /\ a.value = b.value
  BY <1>1
<1>5. held \subseteq held' /\ fates \subseteq fates' /\ announced \subseteq announced'
  BY <1>1
<1>6. AppendResponseRepeat(n, r) /\ ether' = ether \cup {r}
  BY <1>1
<1> HIDE DEF r, a
<1>7. Truthful(r, held', fates', announced')
  BY <1>2, <1>3, <1>4 DEF Truthful, Heard
<1>8. Repeats(n, r, fates', announced')
  <2>1. "REGISTER_VALUE" \in PacketTypes \ Operations
    BY DEF PacketTypes, Operations
  <2>2. Serves(n, r.name) \/ Astray(n, announced')
    BY <1>3, <1>4 DEF Astray
  <2> QED BY <1>3, <2>1, <2>2 DEF Repeats
<1>9. RepeatInv'
  BY <1>3, <1>5, <1>6, <1>8, AppendKeeps
<1>10. EtherInv'
  BY <1>3, <1>5, <1>6, <1>7, SendKeeps
<1>11. ClientInv'
  <2>1. \A m \in Node : Told(m, outcome[m], held', fates', announced')
    BY <1>5, StaysTold DEF ClientInv
  <2>2. ClientTypes' /\ (\A m \in Node : Waiting(m)') /\ outcome' = outcome
    BY <1>1 DEF clientVars, ClientInv, ClientTypes, Waiting
  <2> QED BY <2>1, <2>2 DEF ClientInv, Told
<1>12. CurrentHeld' /\ ServerTypes' /\ sequence_num' \in [Node -> Seqs]
  BY <1>1, NextNumbers DEF CurrentHeld, ServerTypes
<1> QED BY <1>9, <1>10, <1>11, <1>12

(* A broadcast that is heard may be taken for an answer, like any packet.  *)
LEMMA HandleBroadcastKeeps ==
    ASSUME RequestInv, NEW n \in Node, UNCHANGED plan, HandleBroadcast(n)
    PROVE  RequestInv'
<1>1. PICK p \in ether :
          /\ SeeAnswer(n, p, register_cache[n])
          /\ last_handled_packet_index' =
                 [last_handled_packet_index EXCEPT ![n] = NextSlot(last_handled_packet_index[n])]
          /\ UNCHANGED <<response_repeat_cache, value, held, announced, fates,
                         sequence_num, ether>>
  BY DEF HandleBroadcast
<1>2. /\ p \in Packets /\ Truthful(p, held', fates', announced')
      /\ register_cache[n] \in Caches
  BY <1>1 DEF RequestInv, EtherInv, ClientInv, ClientTypes
<1>3. ClientInv'
  BY <1>1, <1>2, SeeAnswerKeeps DEF RequestInv
<1>4. RepeatInv' /\ CurrentHeld' /\ EtherInv' /\ sequence_num' = sequence_num
  BY <1>1 DEF RequestInv, RepeatInv, CacheOK, CurrentHeld, EtherInv, Truthful
<1>5. ServerTypes'
  BY <1>1, NextNumbers DEF RequestInv, ServerTypes
<1> QED BY <1>1, <1>3, <1>4, <1>5 DEF RequestInv
-----------------------------------------------------------------------------
(* Nothing has been sent, asked or told.                                   *)
LEMMA InitInv == Init => RequestInv
<1> SUFFICES ASSUME Init
             PROVE  RequestInv
  OBVIOUS
<1> USE DEF Init
<1>1. ClientInv
  <2>1. ClientTypes
    <3>1. NoOutcome \in Outcomes /\ Blank \in Caches
      BY TextHas DEF NoOutcome, Outcomes, Statuses, Blank, Caches
    <3> QED BY <3>1 DEF ClientTypes, States
  <2>2. ASSUME NEW n \in Node
        PROVE  Waiting(n) /\ Told(n, outcome[n], held, fates, announced)
    BY <2>2 DEF Waiting, Told, NoOutcome, NoRequest
  <2> QED BY <2>1, <2>2 DEF ClientInv
<1>2. ServerTypes /\ sequence_num \in [Node -> Seqs]
  BY CacheLengthNat, SeqRangeNat DEF ServerTypes, Slots, Seqs
<1>3. CurrentHeld
  BY DEF CurrentHeld
<1>4. RepeatInv
  <2>1. /\ <<>> \in Seq(RepeatItems) /\ Len(<<>>) = 0 /\ 0 <= MAX_REPEAT_CACHE_SIZE
    BY EmptySeq, RepeatCacheNat
  <2>2. \A n \in Node : CacheOK(n, <<>>, fates, announced)
    BY <2>1 DEF CacheOK
  <2> QED BY <2>2 DEF RepeatInv
<1>5. EtherInv
  BY DEF EtherInv
<1> QED BY <1>1, <1>2, <1>3, <1>4, <1>5 DEF RequestInv

(* Every step keeps the invariant.                                         *)
LEMMA NextInv == RequestInv /\ [Next]_requestVars => RequestInv'
<1> SUFFICES ASSUME RequestInv, [Next]_requestVars
             PROVE  RequestInv'
  OBVIOUS
<1>1. CASE Next
  <2>1. PICK n \in Node : \/ Ping(n) \/ GetNumRegisters(n) \/ GetRegisterName(n)
                          \/ GetRegister(n) \/ SetRegister(n)
                          \/ Timeout(n) \/ PingOver(n)
                          \/ ReceiveRequest(n) \/ ReceiveOther(n)
                          \/ Broadcast(n) \/ HandleBroadcast(n)
                          \/ RepeatResponse(n)
    BY <1>1 DEF Next
  <2>2. UNCHANGED plan
    BY <1>1 DEF Next
  <2> QED BY <2>1, <2>2, AskKeeps, OverKeeps, ReceiveRequestKeeps, ReceiveOtherKeeps,
             BroadcastKeeps, HandleBroadcastKeeps, RepeatKeeps
<1>2. CASE UNCHANGED requestVars
  BY <1>2 DEF requestVars, clientVars, serverVars, RequestInv, ServerTypes, ClientInv,
              ClientTypes, Waiting, Told, CurrentHeld, RepeatInv, CacheOK, EtherInv, Truthful
<1> QED BY <1>1, <1>2

(* RequestInv is an invariant.                                             *)
THEOREM RequestInvariant == Spec => []RequestInv
  BY InitInv, NextInv, PTL DEF Spec

(* Every variable keeps to its type, for every mesh: the cache of the      *)
(* response repeater never holds more than it has room for, and no         *)
(* response is kept that has been repeated RESPONSE_MAX_REPEAT times.      *)
THEOREM TypeCorrect == Spec => []TypeOK
<1>1. RequestInv => TypeOK
  <2> SUFFICES ASSUME RequestInv
               PROVE  TypeOK
    OBVIOUS
  <2>1. response_repeat_cache \in [Node -> Seq(RepeatItems)]
    BY DEF RequestInv, RepeatInv, CacheOK
  <2>2. \A n \in Node : Len(response_repeat_cache[n]) <= MAX_REPEAT_CACHE_SIZE
    BY DEF RequestInv, RepeatInv, CacheOK
  <2> QED BY <2>1, <2>2 DEF TypeOK, RequestInv, ServerTypes, ClientInv, ClientTypes,
                            EtherInv, Caches, Outcomes
<1> QED BY <1>1, RequestInvariant, PTL

(* The oldest response is the most repeated one, whatever the node serves  *)
(* and whenever its repeats fall due.                                      *)
THEOREM RepeatsOrderedHolds == Spec => []RepeatsOrdered
<1>1. RequestInv => RepeatsOrdered
  <2> SUFFICES ASSUME RequestInv, NEW n \in Node
               PROVE  \A i, j \in DOMAIN response_repeat_cache[n] : i < j =>
                          response_repeat_cache[n][i].count >= response_repeat_cache[n][j].count
    BY DEF RepeatsOrdered
  <2>1. CacheOK(n, response_repeat_cache[n], fates, announced)
    BY DEF RequestInv, RepeatInv
  <2>2. DOMAIN response_repeat_cache[n] = 1..Len(response_repeat_cache[n])
    BY <2>1, LenProperties DEF CacheOK
  <2> QED BY <2>1, <2>2 DEF CacheOK
<1> QED BY <1>1, RequestInvariant, PTL

(* What applications are told in answer to a query is, or was, so, in      *)
(* every mesh: answers may be lost, late, repeated or meant for others.    *)
THEOREM AnswersTrueHolds == Spec => []AnswersTrue
<1>1. RequestInv => AnswersTrue
  BY DEF RequestInv, ClientInv, Told, AnswersTrue
<1> QED BY <1>1, RequestInvariant, PTL

(* A fate that is told is that of a SET_REGISTER of the node's own.        *)
THEOREM SetAnsweredHolds == Spec => []SetAnswered
<1>1. RequestInv => SetAnswered
  BY DEF RequestInv, ClientInv, Told, SetAnswered
<1> QED BY <1>1, RequestInvariant, PTL
=============================================================================
