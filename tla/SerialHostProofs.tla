-------------------------- MODULE SerialHostProofs --------------------------
(***************************************************************************)
(* Proofs about SerialHost for whatever the host types, whatever is        *)
(* broadcast, any ring and any nodes on the mesh.                          *)
(*                                                                         *)
(* The sketch does one thing at a time, so that the invariants are about   *)
(* one thing each: the ring of broadcasts, the variables of                *)
(* list_registers, the register a command is about.  For each there is a   *)
(* lemma saying what the other steps leave alone.                          *)
(***************************************************************************)
EXTENDS SerialHost, FiniteSetTheorems, WellFoundedInduction, TLAPS

-----------------------------------------------------------------------------
(* The ring: its slots and what the host is shown of them.                 *)

RingType ==
    /\ BROADCAST_CACHE \in [Slots -> Registers]
    /\ BROADCAST_CACHE_START \in Slots
    /\ BROADCAST_CACHE_END \in Slots
    /\ BROADCAST_CACHE_SIZE \in 0..MAX_BROADCAST_CACHE_SIZE
    /\ received \subseteq Broadcasts

\* The slot that follows those waiting.
Behind == (BROADCAST_CACHE_START + BROADCAST_CACHE_SIZE) % MAX_BROADCAST_CACHE_SIZE

\* Until the ring is full for the first time after a RESET, an append finds its
\* end where it should be; after that every slot holds what was received.
SlotsReceived ==
    \/ \A x \in Slots : BROADCAST_CACHE[x] \in received
    \/ /\ BROADCAST_CACHE_END = Behind
       /\ \A x \in Waiting : BROADCAST_CACHE[x] \in received

RingInv == RingType /\ SlotsReceived /\ ShownTrue

(* The next slot, without the remainder.                                   *)
LEMMA NextSlot ==
    ASSUME NEW x \in Slots
    PROVE  /\ (x + 1) % MAX_BROADCAST_CACHE_SIZE =
                  IF x = MAX_BROADCAST_CACHE_SIZE - 1 THEN 0 ELSE x + 1
           /\ (x + 1) % MAX_BROADCAST_CACHE_SIZE \in Slots
  BY CacheSizeNat DEF Slots

(* The sum of two numbers below the size of the ring.                      *)
LEMMA SlotOfSum ==
    ASSUME NEW x \in Slots, NEW i \in 0..MAX_BROADCAST_CACHE_SIZE
    PROVE  /\ (x + i) % MAX_BROADCAST_CACHE_SIZE =
                  IF x + i < MAX_BROADCAST_CACHE_SIZE THEN x + i
                  ELSE x + i - MAX_BROADCAST_CACHE_SIZE
           /\ (x + i) % MAX_BROADCAST_CACHE_SIZE \in Slots
<1> DEFINE M == MAX_BROADCAST_CACHE_SIZE
<1>1. M \in Nat /\ M > 0 /\ x \in 0..(M - 1) /\ i \in 0..M
  BY CacheSizeNat DEF Slots
<1>2. \A k \in 0..(2 * M) : k < 2 * M => k % M = IF k < M THEN k ELSE k - M
  BY <1>1
<1>3. x + i \in 0..(2 * M) /\ x + i < 2 * M
  BY <1>1
<1> QED BY <1>1, <1>2, <1>3 DEF Slots

(* A slot waits if it is one of the first from the start of the ring.      *)
LEMMA WaitingSlots ==
    ASSUME RingType
    PROVE  /\ Waiting \subseteq Slots
           /\ \A x \in Slots : x \in Waiting <=>
                  \E i \in 0..(BROADCAST_CACHE_SIZE - 1) :
                      x = (BROADCAST_CACHE_START + i) % MAX_BROADCAST_CACHE_SIZE
<1>1. \A i \in 0..(BROADCAST_CACHE_SIZE - 1) : i \in 0..MAX_BROADCAST_CACHE_SIZE
  BY CacheSizeNat DEF RingType
<1> QED BY <1>1, SlotOfSum DEF Waiting, RingType

(* In a full ring every slot waits.                                        *)
LEMMA FullRingWaits ==
    ASSUME RingType, BROADCAST_CACHE_SIZE = MAX_BROADCAST_CACHE_SIZE
    PROVE  Slots \subseteq Waiting
<1> SUFFICES ASSUME NEW x \in Slots
             PROVE  x \in Waiting
  OBVIOUS
<1> DEFINE M == MAX_BROADCAST_CACHE_SIZE
           S == BROADCAST_CACHE_START
           i == IF x >= S THEN x - S ELSE x + M - S
<1>1. M \in Nat /\ x \in 0..(M - 1) /\ S \in 0..(M - 1)
  BY CacheSizeNat DEF RingType, Slots
<1>2. i \in 0..(M - 1)
  BY <1>1
<1>3. x = IF S + i < M THEN S + i ELSE S + i - M
  BY <1>1
<1>4. S \in Slots /\ i \in 0..M
  BY <1>1, <1>2 DEF RingType
<1> HIDE DEF i
<1>5. x = (S + i) % M
  BY <1>3, <1>4, SlotOfSum
<1> QED BY <1>2, <1>5 DEF Waiting

(* What the host is told, by its kind.                                     *)
LEMMA Answers ==
    /\ \A kind, name, value : /\ Answer(Line(kind, name, value)) => printed'.kind = kind
                              /\ Answer(Line(kind, name, value)) => printed'.name = name
    /\ Answer(Error) => printed'.kind = "ERROR"
<1>1. \A line : Answer(line) => printed' = line
  BY DEF Answer
<1>2. \A kind, name, value : /\ Line(kind, name, value).kind = kind
                             /\ Line(kind, name, value).name = name
  BY DEF Line
<1>3. \A kind, name, value : Answer(Line(kind, name, value)) =>
          printed'.kind = kind /\ printed'.name = name
  <2> TAKE kind, name, value
  <2>1. Answer(Line(kind, name, value)) => printed' = Line(kind, name, value)
    BY <1>1
  <2> QED BY <1>2, <2>1
<1> QED BY <1>3 DEF Error

(* Only a broadcast, RESET and the dump touch the ring, and only the first *)
(* and the last of them show the host a broadcast.                         *)
LEMMA RingUntouched ==
    ASSUME [Next]_vars
    PROVE  \/ \E reg \in Broadcasts : ReceiveBroadcast(reg)
           \/ init_radio_and_broadcast_cache
           \/ DumpNext
           \/ /\ UNCHANGED <<ringVars, received>>
              /\ printed' = printed \/ printed'.kind # "REGISTER_VALUE"
<1> DEFINE Quiet == printed' = printed \/ printed'.kind # "REGISTER_VALUE"
           Same == UNCHANGED <<ringVars, received>> /\ Quiet
<1>1. ASSUME Type \/ TypeStop \/ StalledRequestEnds \/ UNCHANGED sketchVars
      PROVE  Same
  BY <1>1 DEF Type, TypeStop, StalledRequestEnds, RadioStep, outVars, sketchVars
<1>2. ASSUME UnknownCommand \/ toggle_echo \/ join_mesh
      PROVE  Same
  BY <1>2, Answers DEF UnknownCommand, toggle_echo, join_mesh, outVars
<1>3. ASSUME \/ ping_mesh("PING", "ping") \/ ping_mesh("LIST_REGISTERS", "list_ping")
             \/ start_listening \/ StopListening
             \/ \E field \in RegisterCommands : RegisterCommand(field)
      PROVE  Same
  BY <1>3, Answers DEF ping_mesh, start_listening, StopListening, RegisterCommand, outVars
<1>4. ASSUME NEW field, ReadName(field)
      PROVE  Same
  BY <1>4, Answers DEF ReadName, Refuse, outVars
<1>5. ASSUME NEW reg, Request(reg) \/ SendBroadcast(reg)
      PROVE  Quiet
  BY <1>5, Answers DEF Request, SendBroadcast, Refuse, outVars
<1>6. ASSUME NEW field, ReadFormat(field)
      PROVE  Same
  BY <1>5, <1>6, Answers DEF ReadFormat, Refuse, outVars
<1>7. ASSUME NEW field, ReadValue(field)
      PROVE  Same
  BY <1>5, <1>7, Answers DEF ReadValue, Refuse
<1>8. ASSUME JoinFinished \/ PingFinished \/ ListPingFinished \/ DumpFinished \/ List
      PROVE  Same
  BY <1>8, Answers DEF JoinFinished, PingFinished, ListPingFinished, DumpFinished, List,
              ListStep, ListNumber, ListName, ListNextNode, ListFinished, outVars
<1>9. ASSUME RequestFailed \/ RequestAnswered
      PROVE  Same
  BY <1>9, Answers DEF RequestFailed, RequestAnswered, AfterRequest
<1> QED BY <1>1, <1>2, <1>3, <1>4, <1>6, <1>7, <1>8, <1>9
   DEF Next, Read, Finish, GetAnswer, TimePasses, Conflict, vars

(* An append moves the end of the ring on, and what waits is what waited,  *)
(* the new one in the place of the last, except in a full ring.            *)
LEMMA AppendKeepsSlots ==
    ASSUME RingType, SlotsReceived, NEW reg \in Broadcasts, AppendSlot(reg),
           received' = received \cup {reg}
    PROVE  RingType' /\ SlotsReceived'
<1>1. RingType'
  <2>1. BROADCAST_CACHE_SIZE' \in 0..MAX_BROADCAST_CACHE_SIZE
    BY CacheSizeNat DEF AppendSlot, Full, RingType
  <2>2. BROADCAST_CACHE_END' \in Slots
    BY NextSlot DEF AppendSlot, RingType
  <2>3. BROADCAST_CACHE' \in [Slots -> Registers]
    BY DEF AppendSlot, RingType, Registers
  <2> QED BY <2>1, <2>2, <2>3 DEF AppendSlot, RingType
<1>2. /\ BROADCAST_CACHE'[BROADCAST_CACHE_END] = reg
      /\ \A x \in Slots : x # BROADCAST_CACHE_END => BROADCAST_CACHE'[x] = BROADCAST_CACHE[x]
      /\ BROADCAST_CACHE_END \in Slots
  BY DEF AppendSlot, RingType
<1>3. ASSUME \A x \in Slots : BROADCAST_CACHE[x] \in received
      PROVE  SlotsReceived'
  BY <1>2, <1>3 DEF SlotsReceived
<1>4. ASSUME BROADCAST_CACHE_END = Behind,
             \A x \in Waiting : BROADCAST_CACHE[x] \in received,
             BROADCAST_CACHE_SIZE # MAX_BROADCAST_CACHE_SIZE
      PROVE  SlotsReceived'
  <2>1. /\ BROADCAST_CACHE_SIZE' = BROADCAST_CACHE_SIZE + 1
        /\ BROADCAST_CACHE_START' = BROADCAST_CACHE_START
        /\ BROADCAST_CACHE_SIZE \in Nat /\ BROADCAST_CACHE_SIZE + 1 \in 0..MAX_BROADCAST_CACHE_SIZE
    BY <1>4, CacheSizeNat DEF AppendSlot, Full, RingType
  <2>2. BROADCAST_CACHE_END' = Behind'
    <3>1. BROADCAST_CACHE_END' = (Behind + 1) % MAX_BROADCAST_CACHE_SIZE
      BY <1>4 DEF AppendSlot
    <3>2. /\ Behind \in Slots
          /\ Behind = IF BROADCAST_CACHE_START + BROADCAST_CACHE_SIZE < MAX_BROADCAST_CACHE_SIZE
                        THEN BROADCAST_CACHE_START + BROADCAST_CACHE_SIZE
                        ELSE BROADCAST_CACHE_START + BROADCAST_CACHE_SIZE - MAX_BROADCAST_CACHE_SIZE
      BY SlotOfSum DEF Behind, RingType
    <3>3. Behind' = IF BROADCAST_CACHE_START + (BROADCAST_CACHE_SIZE + 1) < MAX_BROADCAST_CACHE_SIZE
                      THEN BROADCAST_CACHE_START + (BROADCAST_CACHE_SIZE + 1)
                      ELSE BROADCAST_CACHE_START + (BROADCAST_CACHE_SIZE + 1) - MAX_BROADCAST_CACHE_SIZE
      BY <2>1, SlotOfSum DEF Behind, RingType
    <3>4. (Behind + 1) % MAX_BROADCAST_CACHE_SIZE =
              IF Behind = MAX_BROADCAST_CACHE_SIZE - 1 THEN 0 ELSE Behind + 1
      BY <3>2, NextSlot
    <3> HIDE DEF Behind
    <3> QED BY <2>1, <3>1, <3>2, <3>3, <3>4, CacheSizeNat DEF RingType, Slots
  <2>3. ASSUME NEW x \in Waiting'
        PROVE  x = BROADCAST_CACHE_END \/ x \in Waiting
    <3>1. PICK i \in 0..BROADCAST_CACHE_SIZE :
              x = (BROADCAST_CACHE_START + i) % MAX_BROADCAST_CACHE_SIZE
      BY <2>1 DEF Waiting
    <3>2. CASE i = BROADCAST_CACHE_SIZE
      BY <1>4, <3>1, <3>2 DEF Behind
    <3>3. CASE i # BROADCAST_CACHE_SIZE
      <4>1. i \in 0..(BROADCAST_CACHE_SIZE - 1)
        BY <2>1, <3>3
      <4> QED BY <3>1, <4>1 DEF Waiting
    <3> QED BY <3>2, <3>3
  <2>4. \A x \in Waiting : x \in Slots
    BY WaitingSlots
  <2>5. \A x \in Waiting' : BROADCAST_CACHE'[x] \in received'
    BY <1>2, <1>4, <2>3, <2>4
  <2> QED BY <2>2, <2>5 DEF SlotsReceived
<1>5. ASSUME \A x \in Waiting : BROADCAST_CACHE[x] \in received,
             BROADCAST_CACHE_SIZE = MAX_BROADCAST_CACHE_SIZE
      PROVE  SlotsReceived'
  BY <1>3, <1>5, FullRingWaits
<1>6. \/ \A x \in Slots : BROADCAST_CACHE[x] \in received
      \/ /\ BROADCAST_CACHE_END = Behind
         /\ \A x \in Waiting : BROADCAST_CACHE[x] \in received
  BY DEF SlotsReceived
<1> QED BY <1>1, <1>3, <1>4, <1>5, <1>6

(* The step of a broadcast: it has been received, wherever it is put.      *)
LEMMA BroadcastKeepsRing ==
    ASSUME RingInv, NEW reg \in Broadcasts, ReceiveBroadcast(reg)
    PROVE  RingInv'
<1>1. received' = received \cup {reg} /\ received' \subseteq Broadcasts
  BY DEF ReceiveBroadcast, RingInv, RingType
<1>2. CASE HOST_LISTENING
  <2>1. /\ UNCHANGED ringVars
        /\ printed' = Line("REGISTER_VALUE", reg.name, reg.value)
    BY <1>2 DEF ReceiveBroadcast, Show
  <2>2. reg \in [name : Fields, value : Values]
    BY BroadcastsFields
  <2>3. ShownTrue'
    BY <1>1, <2>1, <2>2 DEF ShownTrue, Line, Register
  <2>4. RingType'
    BY <1>1, <2>1 DEF RingInv, RingType, ringVars
  <2>5. Waiting' = Waiting /\ Behind' = Behind
    BY <2>1 DEF ringVars, Waiting, Behind
  <2>6. SlotsReceived'
    BY <1>1, <2>1, <2>5 DEF RingInv, SlotsReceived, ringVars
  <2> QED BY <2>3, <2>4, <2>6 DEF RingInv
<1>3. CASE ~HOST_LISTENING
  <2>1. UNCHANGED printed
    BY <1>3 DEF ReceiveBroadcast, outVars
  <2>2. ShownTrue'
    BY <1>1, <2>1 DEF ShownTrue, RingInv
  <2>3. CASE AppendSlot(reg)
    BY <1>1, <2>2, <2>3, AppendKeepsSlots DEF RingInv
  <2>4. CASE UpdateSlot(reg)
    <3>1. /\ BROADCAST_CACHE' \in [Slots -> Registers]
          /\ \A x \in Slots : BROADCAST_CACHE'[x] \in {BROADCAST_CACHE[x], reg}
          /\ UNCHANGED <<BROADCAST_CACHE_START, BROADCAST_CACHE_END, BROADCAST_CACHE_SIZE>>
      BY <2>4 DEF UpdateSlot, RingInv, RingType, Registers
    <3>2. RingType'
      BY <1>1, <3>1 DEF RingInv, RingType
    <3>3. Waiting' = Waiting /\ Behind' = Behind /\ Waiting \subseteq Slots
      BY <3>1, WaitingSlots DEF RingInv, Waiting, Behind
    <3>4. SlotsReceived'
      BY <1>1, <3>1, <3>3 DEF RingInv, SlotsReceived
    <3> QED BY <2>2, <3>2, <3>4 DEF RingInv
  <2> QED BY <1>3, <2>3, <2>4 DEF ReceiveBroadcast
<1> QED BY <1>2, <1>3

(* A RESET forgets what was received, and the ring waits for nothing.      *)
LEMMA ResetKeepsRing ==
    ASSUME RingInv, init_radio_and_broadcast_cache
    PROVE  RingInv'
<1>1. /\ received' = {} /\ printed'.kind = "INIT"
      /\ BROADCAST_CACHE_START' = 0 /\ BROADCAST_CACHE_END' = 0 /\ BROADCAST_CACHE_SIZE' = 0
      /\ BROADCAST_CACHE' = BROADCAST_CACHE
  BY Answers DEF init_radio_and_broadcast_cache, CacheInit
<1>2. RingType'
  BY <1>1, CacheSizeNat DEF RingInv, RingType, Slots
<1>3. Behind' = 0 /\ Waiting' = {}
  BY <1>1, CacheSizeNat DEF Behind, Waiting
<1>4. SlotsReceived'
  BY <1>1, <1>3 DEF SlotsReceived
<1> QED BY <1>1, <1>2, <1>4 DEF RingInv, ShownTrue

(* The register the host is shown was waiting, and the others wait on.     *)
LEMMA DumpKeepsRing ==
    ASSUME RingInv, DumpNext
    PROVE  RingInv'
<1> DEFINE S == BROADCAST_CACHE_START
           M == MAX_BROADCAST_CACHE_SIZE
<1> USE DEF RingInv
<1>1. /\ BROADCAST_CACHE_SIZE \in 1..M /\ S \in Slots /\ (S + 1) % M \in Slots
      /\ BROADCAST_CACHE_START' = (S + 1) % M
      /\ BROADCAST_CACHE_SIZE' = BROADCAST_CACHE_SIZE - 1
      /\ UNCHANGED <<BROADCAST_CACHE, BROADCAST_CACHE_END, received>>
  BY NextSlot, CacheSizeNat DEF DumpNext, RingType
<1>2. RingType'
  BY <1>1, CacheSizeNat DEF RingType
<1>3. S = (S + 0) % M /\ S \in Waiting
  <2>1. S = (S + 0) % M
    BY <1>1, CacheSizeNat DEF Slots
  <2> QED BY <1>1, <2>1, CacheSizeNat DEF Waiting
<1>4. \A i \in 0..(M - 1) : (((S + 1) % M) + i) % M = (S + (i + 1)) % M
  <2> SUFFICES ASSUME NEW i \in 0..(M - 1)
               PROVE  (((S + 1) % M) + i) % M = (S + (i + 1)) % M
    OBVIOUS
  <2> DEFINE T == (S + 1) % M
  <2>1. T = IF S = M - 1 THEN 0 ELSE S + 1
    BY <1>1, NextSlot
  <2>2. (T + i) % M = IF T + i < M THEN T + i ELSE T + i - M
    <3>1. T \in Slots /\ i \in 0..M
      BY <1>1, CacheSizeNat
    <3> HIDE DEF T
    <3> QED BY <3>1, SlotOfSum
  <2>3. i + 1 \in 0..M
    BY CacheSizeNat
  <2>4. (S + (i + 1)) % M = IF S + (i + 1) < M THEN S + (i + 1) ELSE S + (i + 1) - M
    BY <1>1, <2>3, SlotOfSum
  <2> HIDE DEF T
  <2> QED BY <1>1, <2>1, <2>2, <2>4, CacheSizeNat DEF Slots, T
<1>5. Waiting' \subseteq Waiting
  <2> SUFFICES ASSUME NEW i \in 0..(BROADCAST_CACHE_SIZE - 1 - 1)
               PROVE  (((S + 1) % M) + i) % M \in Waiting
    BY <1>1 DEF Waiting
  <2>1. i \in 0..(M - 1) /\ i + 1 \in 0..(BROADCAST_CACHE_SIZE - 1)
    BY <1>1, CacheSizeNat
  <2> QED BY <1>4, <2>1 DEF Waiting
<1>6. Behind' = Behind
  <2>1. BROADCAST_CACHE_SIZE - 1 \in 0..(M - 1) /\ (BROADCAST_CACHE_SIZE - 1) + 1 = BROADCAST_CACHE_SIZE
    BY <1>1, CacheSizeNat
  <2> QED BY <1>1, <1>4, <2>1 DEF Behind
<1>7. SlotsReceived'
  BY <1>1, <1>5, <1>6 DEF SlotsReceived
<1>8. ShownTrue'
  <2>1. BROADCAST_CACHE[S] \in received
    BY <1>1, <1>3 DEF SlotsReceived
  <2>2. BROADCAST_CACHE[S] \in [name : Fields, value : Values]
    BY <2>1, BroadcastsFields DEF RingType
  <2>3. printed' = Line("REGISTER_VALUE", BROADCAST_CACHE[S].name, BROADCAST_CACHE[S].value)
    BY DEF DumpNext, Show
  <2>4. Register(printed'.name, printed'.value) = BROADCAST_CACHE[S]
    BY <2>2, <2>3 DEF Line, Register
  <2> QED BY <1>1, <2>1, <2>4 DEF ShownTrue
<1> QED BY <1>2, <1>7, <1>8

(* The slots of the ring and what the host has been shown, at every step.  *)
THEOREM RingInvariant == Spec => []RingInv
<1>1. Init => RingInv
  <2> SUFFICES ASSUME Init
               PROVE  RingInv
    OBVIOUS
  <2>1. RingType
    <3>1. 0 \in Slots /\ 0 \in 0..MAX_BROADCAST_CACHE_SIZE
      BY CacheSizeNat DEF Slots
    <3> QED BY <3>1 DEF Init, RingType, Registers
  <2>2. Behind = 0 /\ Waiting = {}
    <3>1. (0 + 0) % MAX_BROADCAST_CACHE_SIZE = 0 /\ 0..(0 - 1) = {}
      BY CacheSizeNat
    <3> QED BY <3>1 DEF Init, Behind, Waiting
  <2>3. SlotsReceived
    BY <2>2 DEF Init, SlotsReceived
  <2> QED BY <2>1, <2>3 DEF Init, RingInv, ShownTrue, Line
<1>2. RingInv /\ [Next]_vars => RingInv'
  <2> SUFFICES ASSUME RingInv, [Next]_vars
               PROVE  RingInv'
    OBVIOUS
  <2>1. CASE /\ UNCHANGED <<ringVars, received>>
             /\ printed' = printed \/ printed'.kind # "REGISTER_VALUE"
    <3>1. RingType' /\ SlotsReceived'
      BY <2>1 DEF RingInv, RingType, SlotsReceived, ringVars, Behind, Waiting
    <3>2. ShownTrue'
      BY <2>1 DEF RingInv, ShownTrue
    <3> QED BY <3>1, <3>2 DEF RingInv
  <2> QED BY <2>1, RingUntouched, BroadcastKeepsRing, ResetKeepsRing, DumpKeepsRing
<1> QED BY <1>1, <1>2, PTL DEF Spec
(* ShownTrue: what the host is shown as broadcast was broadcast since the  *)
(* last RESET, wherever the ring starts and however often it was filled.   *)
THEOREM ShownTrueHolds == Spec => []ShownTrue
  BY RingInvariant, PTL DEF RingInv
-----------------------------------------------------------------------------
(* The ring until it is first dumped.                                      *)

Used == 0..(BROADCAST_CACHE_SIZE - 1)

\* The ring starts at slot 0 then, where broadcast_cache_append looks for names,
\* so that no two slots in use have the same one.
KeptInv ==
    ~dumped => /\ BROADCAST_CACHE_START = 0
               /\ ~Full => BROADCAST_CACHE_END = BROADCAST_CACHE_SIZE
               /\ \A x, y \in Used : x # y => BROADCAST_CACHE[x].name # BROADCAST_CACHE[y].name
               /\ pending = {BROADCAST_CACHE[x] : x \in Used}
               /\ IsFiniteSet(pending) /\ Cardinality(pending) = BROADCAST_CACHE_SIZE

(* What waits in a ring that starts at slot 0.                             *)
LEMMA WaitingIsUsed ==
    ASSUME RingType, BROADCAST_CACHE_START = 0
    PROVE  Waiting = Used /\ Used \subseteq Slots
<1>1. \A i \in Used : i \in Slots /\ (0 + i) % MAX_BROADCAST_CACHE_SIZE = i
  BY CacheSizeNat DEF RingType, Used, Slots
<1> QED BY <1>1 DEF Waiting, Used

(* A slot in use is given another register, whose name no other slot has.  *)
LEMMA ReplaceKeepsPending ==
    ASSUME RingType, KeptInv, ~dumped, NEW reg, NEW x \in Used,
           \A y \in Used : y # x => BROADCAST_CACHE[y].name # reg.name,
           BROADCAST_CACHE' = [BROADCAST_CACHE EXCEPT ![x] = reg],
           pending' = (pending \ {BROADCAST_CACHE[x]}) \cup {reg},
           UNCHANGED <<BROADCAST_CACHE_START, BROADCAST_CACHE_SIZE>>,
           Full \/ BROADCAST_CACHE_END' = BROADCAST_CACHE_END
    PROVE  KeptInv'
<1>1. /\ BROADCAST_CACHE_START = 0
      /\ ~Full => BROADCAST_CACHE_END = BROADCAST_CACHE_SIZE
      /\ \A y, z \in Used : y # z => BROADCAST_CACHE[y].name # BROADCAST_CACHE[z].name
      /\ pending = {BROADCAST_CACHE[y] : y \in Used}
      /\ IsFiniteSet(pending) /\ Cardinality(pending) = BROADCAST_CACHE_SIZE
      /\ Used \subseteq Slots /\ Used' = Used /\ (Full' <=> Full)
  BY WaitingIsUsed DEF KeptInv, Used, Full
<1>2. /\ BROADCAST_CACHE'[x] = reg
      /\ \A y \in Used : y # x => BROADCAST_CACHE'[y] = BROADCAST_CACHE[y]
  BY <1>1 DEF RingType
<1>3. \A y, z \in Used : y # z => BROADCAST_CACHE'[y].name # BROADCAST_CACHE'[z].name
  BY <1>1, <1>2
<1>4. pending' = {BROADCAST_CACHE'[y] : y \in Used}
  <2>1. \A y \in Used : y # x => BROADCAST_CACHE[y] # BROADCAST_CACHE[x]
    BY <1>1
  <2> QED BY <1>1, <1>2, <2>1
<1>5. IsFiniteSet(pending') /\ Cardinality(pending') = BROADCAST_CACHE_SIZE
  <2> DEFINE rest == pending \ {BROADCAST_CACHE[x]}
  <2>1. BROADCAST_CACHE[x] \in pending
    BY <1>1
  <2>2. IsFiniteSet(rest) /\ Cardinality(rest) = BROADCAST_CACHE_SIZE - 1
    BY <1>1, <2>1, FS_RemoveElement
  <2>3. reg \notin rest
    BY <1>1
  <2>4. pending' = rest \cup {reg}
    OBVIOUS
  <2> HIDE DEF rest
  <2>5. /\ IsFiniteSet(rest \cup {reg})
        /\ Cardinality(rest \cup {reg}) = Cardinality(rest) + 1
    BY <2>2, <2>3, FS_AddElement
  <2>6. BROADCAST_CACHE_SIZE \in Nat
    BY CacheSizeNat DEF RingType
  <2> QED BY <2>2, <2>4, <2>5, <2>6
<1> QED BY <1>1, <1>3, <1>4, <1>5 DEF KeptInv

(* An append to a ring that has room.                                      *)
LEMMA AppendKeepsPending ==
    ASSUME RingType, KeptInv, ~dumped, NEW reg, AppendSlot(reg), ~Full
    PROVE  KeptInv'
<1>1. /\ BROADCAST_CACHE_START = 0 /\ BROADCAST_CACHE_END = BROADCAST_CACHE_SIZE
      /\ \A y, z \in Used : y # z => BROADCAST_CACHE[y].name # BROADCAST_CACHE[z].name
      /\ pending = {BROADCAST_CACHE[y] : y \in Used}
      /\ IsFiniteSet(pending) /\ Cardinality(pending) = BROADCAST_CACHE_SIZE
      /\ Used \subseteq Slots
  BY WaitingIsUsed DEF KeptInv
<1>2. /\ BROADCAST_CACHE_SIZE \in Slots
      /\ BROADCAST_CACHE_SIZE' = BROADCAST_CACHE_SIZE + 1
      /\ UNCHANGED <<BROADCAST_CACHE_START, dumped>>
      /\ BROADCAST_CACHE' = [BROADCAST_CACHE EXCEPT ![BROADCAST_CACHE_SIZE] = reg]
  BY <1>1, CacheSizeNat DEF AppendSlot, Full, RingType, Slots
<1>3. Used' = Used \cup {BROADCAST_CACHE_SIZE} /\ BROADCAST_CACHE_SIZE \notin Used
  BY <1>2, CacheSizeNat DEF Used, Slots
<1>4. /\ BROADCAST_CACHE'[BROADCAST_CACHE_SIZE] = reg
      /\ \A y \in Used : BROADCAST_CACHE'[y] = BROADCAST_CACHE[y]
  BY <1>1, <1>2, <1>3 DEF RingType
<1>5. \A y \in Used : BROADCAST_CACHE[y].name # reg.name
  <2>1. \A y \in Used : y < BROADCAST_CACHE_SIZE
    BY <1>2 DEF Used, Slots
  <2> QED BY <1>1, <2>1 DEF AppendSlot, SameName
<1>6. pending' = pending \cup {reg} /\ reg \notin pending
  BY <1>1, <1>5 DEF AppendSlot, Newest
<1>7. pending' = {BROADCAST_CACHE'[y] : y \in Used'}
  BY <1>1, <1>3, <1>4, <1>6
<1>8. \A y, z \in Used' : y # z => BROADCAST_CACHE'[y].name # BROADCAST_CACHE'[z].name
  BY <1>1, <1>3, <1>4, <1>5
<1>9. IsFiniteSet(pending') /\ Cardinality(pending') = BROADCAST_CACHE_SIZE'
  BY <1>1, <1>2, <1>6, FS_AddElement
<1>10. ~Full' => BROADCAST_CACHE_END' = BROADCAST_CACHE_SIZE'
  BY <1>1, <1>2, NextSlot, CacheSizeNat DEF AppendSlot, Full, Slots
<1> QED BY <1>1, <1>2, <1>7, <1>8, <1>9, <1>10 DEF KeptInv

(* A broadcast that is put into the ring.                                  *)
LEMMA BroadcastKeepsPending ==
    ASSUME RingType, KeptInv, NEW reg \in Broadcasts, ReceiveBroadcast(reg)
    PROVE  KeptInv'
<1>1. CASE UNCHANGED ringVars
  BY <1>1 DEF ringVars, KeptInv, Used, Full
<1>2. CASE AppendSlot(reg) \/ UpdateSlot(reg)
  <2>1. dumped' = dumped
    BY <1>2 DEF AppendSlot, UpdateSlot
  <2>2. CASE dumped
    BY <2>1, <2>2 DEF KeptInv
  <2>3. CASE ~dumped /\ UpdateSlot(reg)
    <3>1. PICK x \in Slots :
              /\ SameName(reg, x)
              /\ BROADCAST_CACHE' = [BROADCAST_CACHE EXCEPT ![x] = reg]
      BY <2>3 DEF UpdateSlot
    <3>2. x \in Used /\ BROADCAST_CACHE[x].name = reg.name
      BY <3>1, CacheSizeNat DEF SameName, Used, Slots, RingType
    <3>3. /\ \A y, z \in Used : y # z => BROADCAST_CACHE[y].name # BROADCAST_CACHE[z].name
          /\ pending = {BROADCAST_CACHE[y] : y \in Used}
      BY <2>3 DEF KeptInv
    <3>4. \A y \in Used : y # x => BROADCAST_CACHE[y].name # reg.name
      BY <3>2, <3>3
    <3>5. {r \in pending : r.name # reg.name} = pending \ {BROADCAST_CACHE[x]}
      BY <3>2, <3>3, <3>4
    <3>6. pending' = (pending \ {BROADCAST_CACHE[x]}) \cup {reg}
      BY <2>3, <3>5 DEF UpdateSlot, Newest
    <3>7. UNCHANGED <<BROADCAST_CACHE_START, BROADCAST_CACHE_END, BROADCAST_CACHE_SIZE>>
      BY <2>3 DEF UpdateSlot
    <3> QED BY <2>3, <3>1, <3>2, <3>4, <3>6, <3>7, ReplaceKeepsPending
  <2>4. CASE ~dumped /\ AppendSlot(reg) /\ Full
    <3> DEFINE x == BROADCAST_CACHE_END
    <3>1. x \in Used /\ Used = Slots
      BY <2>4, CacheSizeNat DEF Full, Used, Slots, RingType
    <3>2. \A y \in Used : BROADCAST_CACHE[y].name # reg.name
      <4>1. \A y \in Used : y < BROADCAST_CACHE_SIZE
        BY CacheSizeNat DEF Used, RingType
      <4> QED BY <2>4, <3>1, <4>1 DEF AppendSlot, SameName
    <3>3. pending = {BROADCAST_CACHE[y] : y \in Used}
      BY <2>4 DEF KeptInv
    <3>4. pending' = (pending \ {BROADCAST_CACHE[x]}) \cup {reg}
      <4>1. pending' = {r \in pending \ {BROADCAST_CACHE[x]} : r.name # reg.name} \cup {reg}
        BY <2>4 DEF AppendSlot, Newest
      <4> QED BY <3>2, <3>3, <4>1
    <3>5. UNCHANGED <<BROADCAST_CACHE_START, BROADCAST_CACHE_SIZE>>
      BY <2>4 DEF AppendSlot
    <3>6. BROADCAST_CACHE' = [BROADCAST_CACHE EXCEPT ![x] = reg]
      BY <2>4 DEF AppendSlot
    <3> QED BY <2>4, <3>1, <3>2, <3>4, <3>5, <3>6, ReplaceKeepsPending
  <2> QED BY <1>2, <2>2, <2>3, <2>4, AppendKeepsPending
<1> QED BY <1>1, <1>2 DEF ReceiveBroadcast

(* KeptUntilDumped: until the ring is first dumped, it has the newest      *)
(* value of each register broadcast since the last RESET, in one slot      *)
(* each, but for those there was no room for.                              *)
THEOREM KeptUntilDumpedHolds == Spec => []KeptUntilDumped
<1>1. Init => KeptInv
  <2> SUFFICES ASSUME Init
               PROVE  KeptInv
    OBVIOUS
  <2>1. Used = {}
    <3>1. 0..(0 - 1) = {}
      OBVIOUS
    <3> QED BY <3>1 DEF Init, Used
  <2>2. IsFiniteSet({}) /\ Cardinality({}) = 0
    BY FS_EmptySet
  <2> QED BY <2>1, <2>2 DEF Init, KeptInv
<1>2. RingInv /\ KeptInv /\ [Next]_vars => KeptInv'
  <2> SUFFICES ASSUME RingInv, KeptInv, [Next]_vars
               PROVE  KeptInv'
    OBVIOUS
  <2>1. CASE UNCHANGED ringVars
    BY <2>1 DEF ringVars, KeptInv, Used, Full
  <2>2. CASE init_radio_and_broadcast_cache
    <3>1. /\ BROADCAST_CACHE_START' = 0 /\ BROADCAST_CACHE_END' = 0
          /\ BROADCAST_CACHE_SIZE' = 0 /\ pending' = {}
      BY <2>2 DEF init_radio_and_broadcast_cache, CacheInit
    <3>2. Used' = {}
      BY <3>1 DEF Used
    <3>3. IsFiniteSet({}) /\ Cardinality({}) = 0
      BY FS_EmptySet
    <3> QED BY <3>1, <3>2, <3>3 DEF KeptInv
  <2>3. CASE DumpNext
    BY <2>3 DEF DumpNext, KeptInv
  <2>4. CASE \E reg \in Broadcasts : ReceiveBroadcast(reg)
    BY <2>4, BroadcastKeepsPending DEF RingInv
  <2> QED BY <2>1, <2>2, <2>3, <2>4, RingUntouched
<1>3. RingInv /\ KeptInv => KeptUntilDumped
  BY WaitingIsUsed DEF RingInv, KeptInv, KeptUntilDumped
<1> QED BY <1>1, <1>2, <1>3, RingInvariant, PTL DEF Spec
-----------------------------------------------------------------------------
(* LIST_REGISTERS.                                                         *)

Listing == pc \in {"list_number", "list_name"}

Listings == [node : 0..254, index : Nat, registers : Nat, errors : 0..255,
             incomplete : BOOLEAN, failed : SUBSET (1..254), visited : SUBSET Nat]

ListType ==
    /\ listing \in Listings
    /\ presence_table \subseteq NodeIds

\* Ids come in increasing order, so that a node that fails is a new one, and
\* counted once although each of its registers may fail.
CountInv ==
    /\ pc # "list_name" => listing.errors = Cardinality(listing.failed)
    /\ pc = "list_name" =>
           /\ listing.node # 0
           /\ listing.errors = Cardinality(listing.failed \ {listing.node})
           /\ listing.incomplete <=> listing.node \in listing.failed
    /\ Listing /\ listing.node # 0 =>
           /\ \A id \in listing.failed : id <= listing.node
           /\ pc = "list_number" => listing.node \notin listing.failed

\* What has been visited of the table the PING has filled.
VisitedSoFar ==
    Listing => listing.visited = IF listing.node = 0 THEN presence_table
                                 ELSE {x \in presence_table : x <= listing.node}

VisitInv ==
    /\ VisitedSoFar
    /\ pc = "dump" => printed.kind # "LIST_REGISTERS"
    /\ EveryIdListed

ListInv == ListType /\ CountInv

\* next is the least id of the table past start, or 0.
Follows(next, table, start) ==
    /\ next = 0 => \A x \in table : x <= start \/ x = 255
    /\ next # 0 => /\ next \in table /\ start < next
                   /\ \A x \in table : x <= start \/ next <= x

(* What A7105_Get_Next_Present_Node finds.                                 *)
LEMMA NextPresent ==
    ASSUME NEW table \in SUBSET NodeIds, NEW start \in 0..254,
           NEW next, next = NextPresentNode(table, start)
    PROVE  next \in 0..254 /\ Follows(next, table, start)
<1> DEFINE later == {x \in table : start < x /\ x < 255}
<1>1. \A x \in table : x \in 1..255
  BY NodeIdBytes
<1>2. CASE later = {}
  <2>1. next = 0
    BY <1>2 DEF NextPresentNode
  <2>2. \A x \in table : x <= start \/ x = 255
    BY <1>1, <1>2
  <2> QED BY <2>1, <2>2 DEF Follows
<1>3. CASE later # {}
  <2>1. later \subseteq Nat
    BY <1>1
  <2>2. \E x \in later : \A y \in later : x <= y
    <3> HIDE DEF later
    <3>1. \E x \in later : \A y \in later : ~ (<<y, x>> \in OpToRel(<, Nat))
      BY <1>3, <2>1, WFMin, NatLessThanWellFounded
    <3>2. PICK x \in later : \A y \in later : ~ (<<y, x>> \in OpToRel(<, Nat))
      BY <3>1
    <3>3. \A y \in later : ~ (y < x)
      BY <2>1, <3>2 DEF OpToRel
    <3> QED BY <2>1, <3>3
  <2>3. next = CHOOSE x \in later : \A y \in later : x <= y
    BY <1>3 DEF NextPresentNode
  <2>4. next \in later /\ \A y \in later : next <= y
    <3> HIDE DEF later
    <3> QED BY <2>2, <2>3
  <2>5. next \in table /\ start < next /\ next < 255 /\ next \in 1..255
    BY <1>1, <2>4
  <2>6. \A x \in table : x <= start \/ next <= x
    BY <1>1, <2>4, <2>5
  <2> QED BY <2>5, <2>6 DEF Follows
<1> QED BY <1>2, <1>3

(* Only the four steps of a listing and the end of its PING change the     *)
(* variables of list_registers or the table it goes through.               *)
LEMMA ListingUntouched ==
    ASSUME [Next]_vars
    PROVE  \/ ListPingFinished \/ List
           \/ /\ listing' = listing
              /\ \/ /\ UNCHANGED <<pc, presence_table>>
                    /\ printed' = printed \/ printed'.kind # "LIST_REGISTERS"
                 \/ /\ ~Listing /\ ~Listing'
                    /\ presence_table' \in SUBSET NodeIds \/ UNCHANGED presence_table
                    /\ pc' \in {"command", "dump"} =>
                           \/ printed'.kind # "LIST_REGISTERS"
                           \/ pc = "dump" /\ UNCHANGED printed
<1> DEFINE Quiet == printed' = printed \/ printed'.kind # "LIST_REGISTERS"
           Stays == listing' = listing /\ UNCHANGED <<pc, presence_table>> /\ Quiet
           Elsewhere == ~Listing /\ ~Listing'
           Moves == /\ listing' = listing /\ Elsewhere
                    /\ presence_table' \in SUBSET NodeIds \/ UNCHANGED presence_table
                    /\ pc' \in {"command", "dump"} =>
                           \/ printed'.kind # "LIST_REGISTERS"
                           \/ pc = "dump" /\ UNCHANGED printed
<1>1. ASSUME Type \/ TypeStop \/ StalledRequestEnds \/ UNCHANGED sketchVars
      PROVE  Stays
  BY <1>1 DEF Type, TypeStop, StalledRequestEnds, RadioStep, radioVars, outVars, sketchVars, hostVars
<1>2. ASSUME UnknownCommand \/ toggle_echo \/ StopListening
      PROVE  Stays
  BY <1>2, Answers DEF UnknownCommand, toggle_echo, StopListening, radioVars, outVars
<1>3. ASSUME NEW reg, ReceiveBroadcast(reg)
      PROVE  Stays
  <2>1. Show(reg) => printed'.kind # "LIST_REGISTERS"
    BY DEF Show, Line
  <2> QED BY <1>3, <2>1 DEF ReceiveBroadcast, radioVars, outVars
<1>4. ASSUME init_radio_and_broadcast_cache
      PROVE  Moves
  BY <1>4, Answers DEF init_radio_and_broadcast_cache, Reads, Listing
<1>5. ASSUME join_mesh \/ start_listening
      PROVE  Moves
  BY <1>5, Answers DEF join_mesh, start_listening, Reads, Listing, radioVars
<1>6. ASSUME ping_mesh("PING", "ping") \/ ping_mesh("LIST_REGISTERS", "list_ping")
      PROVE  Moves
  BY <1>6, Answers DEF ping_mesh, Reads, Listing
<1>7. ASSUME NEW field, RegisterCommand(field) \/ ReadName(field)
      PROVE  Moves
  BY <1>7, Answers DEF RegisterCommand, ReadName, Refuse, Listing, radioVars
<1>8. ASSUME NEW reg, Request(reg) \/ SendBroadcast(reg)
      PROVE  /\ UNCHANGED presence_table /\ pc' \in {"command", "wait"}
             /\ pc' = "command" => printed'.kind # "LIST_REGISTERS"
  BY <1>8, Answers DEF Request, SendBroadcast, Refuse, radioVars
<1>9. ASSUME NEW field, ReadFormat(field)
      PROVE  Moves
  BY <1>8, <1>9, Answers DEF ReadFormat, Refuse, Listing, radioVars
<1>10. ASSUME NEW field, ReadValue(field)
       PROVE  Moves
  BY <1>8, <1>10, Answers DEF ReadValue, Refuse, Listing, radioVars
<1>11. ASSUME JoinFinished \/ PingFinished \/ RequestFailed \/ RequestAnswered
       PROVE  Moves
  BY <1>11, Answers DEF JoinFinished, PingFinished, RequestFailed, RequestAnswered,
                        AfterRequest, Listing
<1>12. ASSUME DumpFinished \/ DumpNext
       PROVE  Moves
  <2>1. ASSUME NEW reg, Show(reg)
        PROVE  printed'.kind # "LIST_REGISTERS"
    BY <2>1 DEF Show, Line
  <2> QED BY <1>12, <2>1 DEF DumpFinished, DumpNext, Listing, radioVars, outVars
<1> HIDE DEF Stays, Moves
<1>13. ListPingFinished \/ List \/ Stays \/ Moves
  BY <1>1, <1>2, <1>3, <1>4, <1>5, <1>6, <1>7, <1>9, <1>10, <1>11, <1>12
     DEF Next, Read, Finish, GetAnswer, TimePasses, Conflict, vars
<1> QED BY <1>13 DEF Stays, Moves

(* The count of failed nodes is a number of a byte.                        *)
LEMMA FailedCount ==
    ASSUME NEW ids \in SUBSET (1..254)
    PROVE  IsFiniteSet(ids) /\ Cardinality(ids) \in 0..254
<1> DEFINE all == 1..254
<1>1. IsFiniteSet(all) /\ Cardinality(all) = 254
  <2>1. 1 \in Int /\ 254 \in Int
    OBVIOUS
  <2>2. /\ IsFiniteSet(1..254)
        /\ Cardinality(1..254) = IF 1 > 254 THEN 0 ELSE 254 - 1 + 1
    BY <2>1, FS_Interval
  <2> QED BY <2>2
<1>2. ids \in SUBSET all
  OBVIOUS
<1> HIDE DEF all
<1>3. IsFiniteSet(ids) /\ Cardinality(ids) <= Cardinality(all)
  BY <1>1, <1>2, FS_Subset
<1>4. Cardinality(ids) \in Nat
  BY <1>3, FS_CardinalityType
<1> QED BY <1>1, <1>3, <1>4

(* Going on to the next node.                                              *)
LEMMA GoToNext ==
    ASSUME ListType, NEW next, next = NextPresentNode(presence_table, listing.node),
           NEW s, s = GoToNode(next)
    PROVE  /\ next \in 0..254 /\ s \in Listings /\ s.node = next
           /\ s.errors = listing.errors /\ s.incomplete = listing.incomplete
           /\ s.failed = listing.failed
           /\ s.visited = IF next = 0 THEN listing.visited ELSE listing.visited \cup {next}
           /\ Follows(next, presence_table, listing.node)
<1> DEFINE v == IF next = 0 THEN listing.visited ELSE listing.visited \cup {next}
           moved == [listing EXCEPT !.node = next]
<1>1. /\ listing \in Listings /\ listing.node \in 0..254 /\ listing.visited \in SUBSET Nat
      /\ presence_table \in SUBSET NodeIds
  BY DEF ListType, Listings
<1>2. next \in 0..254
  BY <1>1, NextPresent
<1>3. v \in SUBSET Nat
  BY <1>1, <1>2
<1>4. /\ moved \in Listings /\ moved.node = next
      /\ moved.errors = listing.errors /\ moved.incomplete = listing.incomplete
      /\ moved.failed = listing.failed /\ moved.visited = listing.visited
  BY <1>1, <1>2 DEF Listings
<1>5. s = [moved EXCEPT !.visited = v]
  BY <1>4 DEF GoToNode
<1>6. /\ s \in Listings /\ s.node = moved.node /\ s.visited = v
      /\ s.errors = moved.errors /\ s.incomplete = moved.incomplete
      /\ s.failed = moved.failed
  <2> HIDE DEF moved, v
  <2> QED BY <1>3, <1>4, <1>5 DEF Listings
<1>7. Follows(next, presence_table, listing.node)
  BY <1>1, NextPresent
<1> QED BY <1>2, <1>4, <1>6, <1>7

\* The step goes on to the node that follows in the table.
ToNextNode ==
    /\ pc' = "list_number"
    /\ Follows(listing'.node, presence_table, listing.node)
    /\ listing'.visited = IF listing'.node = 0 THEN listing.visited
                          ELSE listing.visited \cup {listing'.node}

\* One error more, in the byte it is counted in.
OneMore == (listing.errors + 1) % 256

(* What the steps do, field by field.                                      *)
LEMMA PingFields ==
    ASSUME ListPingFinished
    PROVE  /\ listing' \in Listings /\ presence_table' \in SUBSET NodeIds
           /\ pc' = "list_number"
           /\ listing'.errors = 0 /\ listing'.failed = {}
           /\ Follows(listing'.node, presence_table', 0)
           /\ listing'.visited = {listing'.node} \ {0}
<1> DEFINE first == NextPresentNode(presence_table', 0)
<1>1. /\ presence_table' \in SUBSET NodeIds /\ pc' = "list_number"
      /\ listing' = [NoListing EXCEPT !.node = first, !.visited = {first} \ {0}]
  BY DEF ListPingFinished
<1>2. first \in 0..254 /\ Follows(first, presence_table', 0)
  <2>1. 0 \in 0..254
    OBVIOUS
  <2>2. \A table \in SUBSET NodeIds : LET next == NextPresentNode(table, 0)
                                     IN  next \in 0..254 /\ Follows(next, table, 0)
    BY <2>1, NextPresent
  <2> HIDE DEF first
  <2> QED BY <1>1, <2>2 DEF first
<1> HIDE DEF first
<1>3. listing' = [node |-> first, index |-> 0, registers |-> 0, errors |-> 0,
                  incomplete |-> FALSE, failed |-> {}, visited |-> {first} \ {0}]
  BY <1>1 DEF NoListing
<1>4. {first} \ {0} \in SUBSET Nat
  BY <1>2
<1>5. listing' \in Listings
  BY <1>2, <1>3, <1>4 DEF Listings
<1>6. /\ listing'.node = first /\ listing'.errors = 0 /\ listing'.failed = {}
      /\ listing'.visited = {first} \ {0}
  BY <1>3
<1> QED BY <1>1, <1>2, <1>5, <1>6

LEMMA NumberFields ==
    ASSUME ListType, ListNumber
    PROVE  /\ listing' \in Listings /\ UNCHANGED presence_table
           /\ pc = "list_number" /\ listing.node # 0
           /\ \/ /\ pc' = "list_name" /\ listing'.incomplete = FALSE
                 /\ listing'.node = listing.node /\ listing'.visited = listing.visited
                 /\ listing'.errors = listing.errors /\ listing'.failed = listing.failed
              \/ /\ ToNextNode
                 /\ listing'.errors = OneMore
                 /\ listing'.failed = listing.failed \cup {listing.node}
<1> DEFINE next == NextPresentNode(presence_table, listing.node)
           moved == GoToNode(next)
<1>1. listing \in Listings /\ listing.node \in 1..254 /\ OneMore \in 0..255
  <2>1. listing \in Listings /\ listing.node # 0
    BY DEF ListType, ListNumber
  <2>2. listing.node \in 0..254 /\ listing.errors \in 0..255
    BY <2>1 DEF Listings
  <2> QED BY <2>1, <2>2 DEF OneMore
<1>2. UNCHANGED presence_table /\ pc = "list_number" /\ listing.node # 0
  BY DEF ListNumber, ListStep, radioVars
<1>3. ASSUME pc' = "list_name", NEW k \in 0..MaxRegisters,
             listing' = [listing EXCEPT !.index = 0, !.registers = k, !.incomplete = FALSE]
      PROVE  /\ listing' \in Listings /\ listing'.incomplete = FALSE
             /\ listing'.node = listing.node /\ listing'.visited = listing.visited
             /\ listing'.errors = listing.errors /\ listing'.failed = listing.failed
  <2> DEFINE a == [listing EXCEPT !.index = 0]
             b == [a EXCEPT !.registers = k]
             flag == FALSE
  <2>1. /\ a \in Listings /\ a.node = listing.node /\ a.visited = listing.visited
        /\ a.errors = listing.errors /\ a.failed = listing.failed
    BY <1>1 DEF Listings
  <2>2. listing' = [b EXCEPT !.incomplete = flag] /\ flag \in BOOLEAN
    BY <1>3
  <2> HIDE DEF a, flag
  <2>3. /\ b \in Listings /\ b.node = a.node /\ b.visited = a.visited
        /\ b.errors = a.errors /\ b.failed = a.failed
    BY <2>1, MaxRegistersNat DEF Listings
  <2> HIDE DEF b
  <2>4. /\ listing' \in Listings /\ listing'.incomplete = flag
        /\ listing'.node = b.node /\ listing'.visited = b.visited
        /\ listing'.errors = b.errors /\ listing'.failed = b.failed
    BY <2>2, <2>3 DEF Listings
  <2> QED BY <2>1, <2>3, <2>4 DEF flag
<1>4. /\ moved \in Listings /\ moved.node = next /\ moved.failed = listing.failed
      /\ moved.errors = listing.errors
      /\ moved.visited = IF next = 0 THEN listing.visited ELSE listing.visited \cup {next}
      /\ Follows(next, presence_table, listing.node)
  BY GoToNext
<1>5. ASSUME pc' = pc,
             listing' = [moved EXCEPT !.errors = OneMore,
                                      !.failed = moved.failed \cup {listing.node}]
      PROVE  /\ listing' \in Listings /\ ToNextNode
             /\ listing'.errors = OneMore
             /\ listing'.failed = listing.failed \cup {listing.node}
  <2> HIDE DEF moved, next
  <2>1. moved.failed \cup {listing.node} \in SUBSET (1..254)
    BY <1>1, <1>4 DEF Listings
  <2>2. /\ listing' \in Listings /\ listing'.node = moved.node
        /\ listing'.visited = moved.visited /\ listing'.errors = OneMore
        /\ listing'.failed = moved.failed \cup {listing.node}
    <3> DEFINE a == [moved EXCEPT !.errors = OneMore]
               ids == moved.failed \cup {listing.node}
    <3>1. /\ a \in Listings /\ a.node = moved.node /\ a.visited = moved.visited
          /\ a.errors = OneMore
      BY <1>1, <1>4 DEF Listings
    <3>2. listing' = [a EXCEPT !.failed = ids]
      BY <1>5
    <3> HIDE DEF a, ids
    <3>3. /\ listing' \in Listings /\ listing'.node = a.node
          /\ listing'.visited = a.visited /\ listing'.errors = a.errors
          /\ listing'.failed = ids
      BY <2>1, <3>1, <3>2 DEF Listings, ids
    <3> QED BY <3>1, <3>3 DEF ids
  <2> QED BY <1>2, <1>4, <1>5, <2>2 DEF ToNextNode
<1>6. \/ /\ pc' = "list_name"
         /\ \E k \in 0..MaxRegisters :
                listing' = [listing EXCEPT !.index = 0, !.registers = k, !.incomplete = FALSE]
      \/ /\ pc' = pc
         /\ listing' = [moved EXCEPT !.errors = (moved.errors + 1) % 256,
                                     !.failed = moved.failed \cup {listing.node}]
  BY DEF ListNumber
<1>7. (moved.errors + 1) % 256 = OneMore
  BY <1>4 DEF OneMore
<1> HIDE DEF moved
<1> QED BY <1>2, <1>3, <1>5, <1>6, <1>7

LEMMA NameFields ==
    ASSUME ListType, CountInv, ListName
    PROVE  /\ listing' \in Listings /\ UNCHANGED <<presence_table, pc>>
           /\ pc = "list_name"
           /\ listing'.node = listing.node /\ listing'.visited = listing.visited
           /\ listing'.errors = listing.errors
           /\ \/ /\ listing'.failed = listing.failed
                 /\ listing'.incomplete = listing.incomplete
              \/ /\ listing'.failed = listing.failed \cup {listing.node}
                 /\ listing'.incomplete = TRUE
<1>1. listing \in Listings /\ listing.node \in 1..254
  BY DEF ListType, Listings, ListName, CountInv
<1>2. listing.failed \cup {listing.node} \in SUBSET (1..254)
  BY <1>1 DEF Listings
<1>3. CASE listing' = [listing EXCEPT !.index = @ + 1]
  BY <1>1, <1>3 DEF Listings, ListName, ListStep, radioVars
<1>4. CASE listing' = [listing EXCEPT !.index = @ + 1, !.incomplete = TRUE,
                                      !.failed = @ \cup {listing.node}]
  <2> DEFINE a == [listing EXCEPT !.index = listing.index + 1]
             flag == TRUE
             b == [a EXCEPT !.incomplete = flag]
             ids == listing.failed \cup {listing.node}
  <2>1. /\ a \in Listings /\ a.node = listing.node /\ a.visited = listing.visited
        /\ a.errors = listing.errors /\ a.failed = listing.failed
    BY <1>1 DEF Listings
  <2>2. listing' = [b EXCEPT !.failed = ids]
    <3>1. b.failed = listing.failed
      BY <1>1 DEF Listings
    <3> QED BY <1>4, <3>1
  <2>6. flag \in BOOLEAN
    OBVIOUS
  <2> HIDE DEF a, flag
  <2>3. /\ b \in Listings /\ b.node = a.node /\ b.visited = a.visited
        /\ b.errors = a.errors /\ b.incomplete = flag
    BY <2>1, <2>6 DEF Listings
  <2> HIDE DEF b, ids
  <2>4. /\ listing' \in Listings /\ listing'.incomplete = b.incomplete
        /\ listing'.node = b.node /\ listing'.visited = b.visited
        /\ listing'.errors = b.errors /\ listing'.failed = ids
    BY <1>2, <2>2, <2>3 DEF Listings, ids
  <2>5. UNCHANGED <<presence_table, pc>> /\ pc = "list_name"
    BY DEF ListName, ListStep, radioVars
  <2> QED BY <2>1, <2>3, <2>4, <2>5 DEF ids, flag
<1> QED BY <1>3, <1>4 DEF ListName

LEMMA NextNodeFields ==
    ASSUME ListType, ListNextNode
    PROVE  /\ listing' \in Listings /\ UNCHANGED presence_table
           /\ pc = "list_name" /\ ToNextNode
           /\ listing'.errors = IF listing.incomplete THEN OneMore ELSE listing.errors
           /\ listing'.failed = listing.failed
<1> DEFINE next == NextPresentNode(presence_table, listing.node)
           moved == GoToNode(next)
           counted == IF listing.incomplete THEN (moved.errors + 1) % 256 ELSE moved.errors
<1>1. /\ moved \in Listings /\ moved.node = next /\ moved.failed = listing.failed
      /\ moved.errors = listing.errors
      /\ moved.visited = IF next = 0 THEN listing.visited ELSE listing.visited \cup {next}
      /\ Follows(next, presence_table, listing.node)
  BY GoToNext
<1>2. listing' = [moved EXCEPT !.errors = counted]
  BY DEF ListNextNode
<1> HIDE DEF moved, next
<1>3. /\ counted \in 0..255
      /\ counted = IF listing.incomplete THEN OneMore ELSE listing.errors
  BY <1>1 DEF OneMore, Listings
<1> HIDE DEF counted
<1>4. /\ listing' \in Listings /\ listing'.node = moved.node
      /\ listing'.visited = moved.visited /\ listing'.errors = counted
      /\ listing'.failed = moved.failed
  BY <1>1, <1>2, <1>3 DEF Listings
<1>5. UNCHANGED presence_table /\ pc = "list_name" /\ pc' = "list_number"
  BY DEF ListNextNode, ListStep, radioVars
<1> QED BY <1>1, <1>3, <1>4, <1>5 DEF ToNextNode

LEMMA LaterId ==
    \A i, j \in 0..254 : i < j => i <= j /\ i # j
OBVIOUS

(* A node that fails is counted, and its id is below those to come.        *)
LEMMA CountStep ==
    ASSUME ListType, CountInv, ListPingFinished \/ List
    PROVE  ListType' /\ CountInv'
<1> DEFINE failed == listing.failed
           node == listing.node
<1>1. /\ listing \in Listings /\ presence_table \subseteq NodeIds
      /\ failed \in SUBSET (1..254) /\ node \in 0..254 /\ listing.errors \in 0..255
  BY DEF ListType, Listings
<1>2. ASSUME NEW next, Follows(next, presence_table, node), NEW id \in failed, id <= node,
             next \in 0..254, next # 0
      PROVE  id <= next /\ id # next
  <2>1. node < next
    BY <1>2 DEF Follows
  <2>2. id \in 1..254
    BY <1>1
  <2> QED BY <1>1, <1>2, <2>1, <2>2
<1>3. CASE ListPingFinished
  <2>1. Cardinality({}) = 0
    BY FS_EmptySet
  <2> QED BY <1>3, <2>1, PingFields DEF ListType, CountInv, Listing
<1>4. CASE ListNumber
  <2>1. /\ pc = "list_number" /\ node # 0 /\ node \notin failed
        /\ \A id \in failed : id <= node
        /\ listing.errors = Cardinality(failed)
    BY <1>4, NumberFields DEF CountInv, Listing
  <2>2. ListType'
    BY <1>1, <1>4, NumberFields DEF ListType
  <2>3. CASE /\ pc' = "list_name" /\ listing'.incomplete = FALSE
             /\ listing'.node = node
             /\ listing'.errors = listing.errors /\ listing'.failed = failed
    <3>1. failed \ {node} = failed
      BY <2>1
    <3>2. CountInv'
      BY <2>1, <2>3, <3>1 DEF CountInv, Listing
    <3> QED BY <2>2, <3>2
  <2>4. CASE /\ ToNextNode
             /\ listing'.errors = OneMore /\ listing'.failed = failed \cup {node}
    <3>1. /\ IsFiniteSet(failed) /\ Cardinality(failed) \in 0..254
      BY <1>1, FailedCount
    <3>2. listing'.failed \in SUBSET (1..254) /\ listing'.node \in 0..254
      BY <2>2 DEF ListType, Listings
    <3>3. Cardinality(failed \cup {node}) = Cardinality(failed) + 1
      BY <2>1, <3>1, FS_AddElement
    <3>4. Cardinality(failed \cup {node}) \in 0..254
      BY <2>4, <3>2, FailedCount
    <3>5. OneMore = Cardinality(failed) + 1
      BY <2>1, <3>1, <3>3, <3>4 DEF OneMore
    <3>6. listing'.errors = Cardinality(listing'.failed)
      BY <2>4, <3>3, <3>5
    <3>7. ASSUME listing'.node # 0, NEW id \in listing'.failed
          PROVE  id <= listing'.node /\ id # listing'.node
      <4>1. Follows(listing'.node, presence_table, node)
        BY <2>4 DEF ToNextNode
      <4>2. CASE id \in failed
        <5>1. id <= node
          BY <2>1, <4>2
        <5> QED BY <1>2, <3>2, <3>7, <4>1, <4>2, <5>1
      <4>3. CASE id = node
        <5>1. node < listing'.node
          BY <3>7, <4>1 DEF Follows
        <5>2. node \in 0..254 /\ listing'.node \in 0..254
          BY <1>1, <3>2
        <5> HIDE DEF node
        <5> QED BY <4>3, <5>1, <5>2, LaterId
      <4> QED BY <2>4, <4>2, <4>3
    <3>8. listing'.node # 0 => /\ \A id \in listing'.failed : id <= listing'.node
                               /\ listing'.node \notin listing'.failed
      BY <3>7
    <3>9. CountInv'
      BY <2>4, <3>6, <3>8 DEF CountInv, ToNextNode
    <3> QED BY <2>2, <3>9
  <2> QED BY <1>4, <2>3, <2>4, NumberFields
<1>5. CASE ListName
  <2>1. /\ pc = "list_name" /\ node # 0
        /\ \A id \in failed : id <= node
        /\ listing.errors = Cardinality(failed \ {node})
        /\ listing.incomplete <=> node \in failed
    BY <1>5, NameFields DEF CountInv, Listing
  <2>2. ListType'
    BY <1>1, <1>5, NameFields DEF ListType
  <2>3. /\ pc' = pc /\ listing'.node = node /\ listing'.errors = listing.errors
        /\ \/ listing'.failed = failed /\ listing'.incomplete = listing.incomplete
           \/ listing'.failed = failed \cup {node} /\ listing'.incomplete = TRUE
    BY <1>5, NameFields
  <2>4. listing'.failed \ {node} = failed \ {node}
    BY <2>3
  <2>5. listing'.incomplete <=> node \in listing'.failed
    BY <2>1, <2>3
  <2>6. \A id \in listing'.failed : id <= node
    BY <1>1, <2>1, <2>3
  <2>7. CountInv'
    BY <2>1, <2>3, <2>4, <2>5, <2>6 DEF CountInv
  <2> QED BY <2>2, <2>7
<1>6. CASE ListNextNode
  <2>1. /\ pc = "list_name" /\ node # 0
        /\ \A id \in failed : id <= node
        /\ listing.errors = Cardinality(failed \ {node})
        /\ listing.incomplete <=> node \in failed
    BY <1>6, NextNodeFields DEF CountInv, Listing
  <2>2. ListType'
    BY <1>1, <1>6, NextNodeFields DEF ListType
  <2>3. /\ ToNextNode
        /\ listing'.errors = IF listing.incomplete THEN OneMore ELSE listing.errors
        /\ listing'.failed = failed
    BY <1>6, NextNodeFields
  <2>4. IsFiniteSet(failed) /\ Cardinality(failed) \in 0..254
    BY <1>1, FailedCount
  <2>5. Cardinality(failed \ {node}) = IF node \in failed THEN Cardinality(failed) - 1
                                       ELSE Cardinality(failed)
    BY <2>4, FS_RemoveElement
  <2>6. listing'.errors = Cardinality(listing'.failed)
    <3>1. CASE node \in failed
      <4>1. listing.errors = Cardinality(failed) - 1 /\ listing.incomplete
        BY <2>1, <2>5, <3>1
      <4>2. OneMore = Cardinality(failed)
        BY <1>1, <2>4, <4>1 DEF OneMore
      <4> QED BY <2>3, <4>1, <4>2
    <3>2. CASE node \notin failed
      BY <2>1, <2>3, <2>5, <3>2
    <3> QED BY <3>1, <3>2
  <2>7. listing'.node \in 0..254
    BY <2>2 DEF ListType, Listings
  <2>8. ASSUME listing'.node # 0, NEW id \in failed
        PROVE  id <= listing'.node /\ id # listing'.node
    <3>1. Follows(listing'.node, presence_table, node)
      BY <2>3 DEF ToNextNode
    <3>2. id <= node
      BY <2>1
    <3> QED BY <1>2, <2>7, <2>8, <3>1, <3>2
  <2>9. listing'.node # 0 => /\ \A id \in listing'.failed : id <= listing'.node
                             /\ listing'.node \notin listing'.failed
    BY <2>3, <2>8
  <2>10. CountInv'
    BY <2>3, <2>6, <2>9 DEF CountInv, ToNextNode
  <2> QED BY <2>2, <2>10
<1>7. CASE ListFinished
  <2>1. UNCHANGED <<listing, presence_table>> /\ pc = "list_number" /\ pc' = "command"
    BY <1>7 DEF ListFinished, ListStep, radioVars
  <2>2. CountInv'
    BY <2>1 DEF CountInv, Listing
  <2> QED BY <1>1, <2>1, <2>2 DEF ListType
<1> QED BY <1>3, <1>4, <1>5, <1>6, <1>7 DEF List

(* ErrorsCounted, and the types it rests on.                               *)
THEOREM ListInvariant == Spec => []ListInv
<1>1. Init => ListInv
  <2> SUFFICES ASSUME Init
               PROVE  ListInv
    OBVIOUS
  <2>1. Cardinality({}) = 0
    BY FS_EmptySet
  <2>2. listing = NoListing /\ pc = "command" /\ presence_table = {}
    BY DEF Init
  <2>3. /\ listing \in Listings /\ listing.errors = 0 /\ listing.failed = {}
    BY <2>2 DEF NoListing, Listings
  <2> QED BY <2>1, <2>2, <2>3 DEF ListInv, ListType, CountInv, Listing
<1>2. ListInv /\ [Next]_vars => ListInv'
  <2> SUFFICES ASSUME ListInv, [Next]_vars
               PROVE  ListInv'
    OBVIOUS
  <2>1. CASE ListPingFinished \/ List
    BY <2>1, CountStep DEF ListInv
  <2>2. CASE listing' = listing /\ UNCHANGED <<pc, presence_table>>
    BY <2>2 DEF ListInv, ListType, CountInv, Listing
  <2>3. CASE /\ listing' = listing /\ ~Listing /\ ~Listing'
             /\ presence_table' \in SUBSET NodeIds \/ UNCHANGED presence_table
    BY <2>3 DEF ListInv, ListType, CountInv, Listing
  <2> QED BY <2>1, <2>2, <2>3, ListingUntouched
<1> QED BY <1>1, <1>2, PTL DEF Spec

(* ErrorsCounted: LIST_REGISTERS ends with the number of nodes that        *)
(* returned incomplete data, each counted once.                            *)
THEOREM ErrorsCountedHolds == Spec => []ErrorsCounted
<1>1. ListInv => ErrorsCounted
  BY DEF ListInv, CountInv, ErrorsCounted
<1> QED BY <1>1, ListInvariant, PTL

(* The node that follows is the only one visited besides those before it.  *)
LEMMA NextNodeVisited ==
    ASSUME ListType, VisitedSoFar, 255 \notin NodeIds, Listing, listing.node # 0,
           UNCHANGED presence_table, listing' \in Listings, ToNextNode
    PROVE  VisitedSoFar'
<1> DEFINE table == presence_table
           next == listing'.node
           node == listing.node
<1>1. \A x \in table : x \in 1..254
  BY NodeIdBytes DEF ListType
<1>2. next \in 0..254 /\ node \in 0..254
  BY DEF ListType, Listings
<1>3. listing.visited = {x \in table : x <= node}
  BY DEF VisitedSoFar
<1>4. Follows(next, table, node)
  BY DEF ToNextNode
<1>5. listing'.visited = IF next = 0 THEN listing.visited ELSE listing.visited \cup {next}
  BY DEF ToNextNode
<1> SUFFICES listing'.visited = IF next = 0 THEN table ELSE {x \in table : x <= next}
  BY DEF VisitedSoFar
<1> HIDE DEF table, next, node
<1>6. CASE next = 0
  <2>1. \A x \in table : x <= node
    BY <1>1, <1>4, <1>6 DEF Follows
  <2> QED BY <1>3, <1>5, <1>6, <2>1
<1>7. CASE next # 0
  <2>1. next \in table /\ node < next /\ \A x \in table : x <= node \/ next <= x
    BY <1>4, <1>7 DEF Follows
  <2>2. \A x \in table : x <= next <=> x <= node \/ x = next
    BY <1>1, <1>2, <2>1
  <2> QED BY <1>3, <1>5, <1>7, <2>1, <2>2
<1> QED BY <1>6, <1>7

LEMMA VisitStep ==
    ASSUME ListInv, VisitInv, 255 \notin NodeIds, ListPingFinished \/ List
    PROVE  VisitInv'
<1> USE DEF ListInv
<1>1. ASSUME pc' \in {"list_number", "list_name"}, VisitedSoFar'
      PROVE  VisitInv'
  BY <1>1 DEF VisitInv, EveryIdListed
<1>2. CASE ListPingFinished
  <2> DEFINE table == presence_table'
             first == listing'.node
  <2>1. /\ listing' \in Listings /\ table \in SUBSET NodeIds /\ pc' = "list_number"
        /\ Follows(first, table, 0) /\ listing'.visited = {first} \ {0}
    BY <1>2, PingFields
  <2>2. /\ \A x \in table : x \in 1..254
        /\ first \in 0..254
    BY <2>1, NodeIdBytes DEF Listings
  <2>3. listing'.visited = IF first = 0 THEN table ELSE {x \in table : x <= first}
    <3> HIDE DEF table, first
    <3>1. CASE first = 0
      <4>1. \A x \in table : x <= 0 \/ x = 255
        BY <2>1, <3>1 DEF Follows
      <4>2. table = {}
        BY <2>2, <4>1
      <4> QED BY <2>1, <3>1, <4>2
    <3>2. CASE first # 0
      <4>1. first \in table /\ \A x \in table : x <= 0 \/ first <= x
        BY <2>1, <3>2 DEF Follows
      <4>2. \A x \in table : x <= first <=> x = first
        BY <2>2, <4>1
      <4> QED BY <2>1, <3>2, <4>1, <4>2
    <3> QED BY <3>1, <3>2
  <2>4. VisitedSoFar'
    BY <2>3 DEF VisitedSoFar
  <2> QED BY <1>1, <2>1, <2>4
<1>3. CASE ListNumber
  <2>1. /\ listing' \in Listings /\ UNCHANGED presence_table /\ Listing /\ listing.node # 0
        /\ \/ /\ pc' = "list_name"
              /\ listing'.node = listing.node /\ listing'.visited = listing.visited
           \/ pc' = "list_number" /\ ToNextNode
    BY <1>3, NumberFields DEF Listing, ToNextNode
  <2>2. VisitedSoFar'
    <3>1. CASE listing'.node = listing.node /\ listing'.visited = listing.visited
      BY <2>1, <3>1 DEF VisitInv, VisitedSoFar
    <3>2. CASE ToNextNode
      BY <2>1, <3>2, NextNodeVisited DEF VisitInv
    <3> QED BY <2>1, <3>1, <3>2
  <2> QED BY <1>1, <2>1, <2>2
<1>4. CASE ListName
  <2>1. /\ UNCHANGED <<presence_table, pc>> /\ pc = "list_name"
        /\ listing'.node = listing.node /\ listing'.visited = listing.visited
    BY <1>4, NameFields
  <2>2. VisitedSoFar'
    BY <2>1 DEF VisitInv, VisitedSoFar, Listing
  <2> QED BY <1>1, <2>1, <2>2
<1>5. CASE ListNextNode
  <2>1. /\ listing' \in Listings /\ UNCHANGED presence_table
        /\ pc = "list_name" /\ pc' = "list_number" /\ ToNextNode
    BY <1>5, NextNodeFields DEF ToNextNode
  <2>2. Listing /\ listing.node # 0
    BY <2>1 DEF CountInv, Listing
  <2>3. VisitedSoFar'
    BY <2>1, <2>2, NextNodeVisited DEF VisitInv
  <2> QED BY <1>1, <2>1, <2>3
<1>6. CASE ListFinished
  <2>1. /\ UNCHANGED <<listing, presence_table>> /\ pc = "list_number" /\ listing.node = 0
        /\ pc' = "command"
    BY <1>6 DEF ListFinished, ListStep, radioVars
  <2> QED BY <2>1 DEF VisitInv, VisitedSoFar, Listing, EveryIdListed
<1> QED BY <1>2, <1>3, <1>4, <1>5, <1>6 DEF List

(* EveryIdListed: LIST_REGISTERS asks every node that answered its PING,   *)
(* if none has the id 255, before which A7105_Get_Next_Present_Node stops. *)
THEOREM EveryIdListedHolds == 255 \notin NodeIds => (Spec => []EveryIdListed)
<1> SUFFICES ASSUME 255 \notin NodeIds
             PROVE  Spec => []EveryIdListed
  OBVIOUS
<1>1. Init => VisitInv
  <2> SUFFICES ASSUME Init
               PROVE  VisitInv
    OBVIOUS
  <2>1. pc = "command" /\ printed = Line("INIT", "", NoValue)
    BY DEF Init
  <2>2. printed.kind = "INIT"
    BY <2>1 DEF Line
  <2> QED BY <2>1, <2>2 DEF VisitInv, VisitedSoFar, Listing, EveryIdListed
<1>2. ListInv /\ VisitInv /\ [Next]_vars => VisitInv'
  <2> SUFFICES ASSUME ListInv, VisitInv, [Next]_vars
               PROVE  VisitInv'
    OBVIOUS
  <2>1. CASE ListPingFinished \/ List
    BY <2>1, VisitStep
  <2>2. CASE /\ listing' = listing /\ UNCHANGED <<pc, presence_table>>
             /\ printed' = printed \/ printed'.kind # "LIST_REGISTERS"
    BY <2>2 DEF VisitInv, VisitedSoFar, Listing, EveryIdListed
  <2>3. CASE /\ ~Listing /\ ~Listing'
             /\ pc' \in {"command", "dump"} =>
                    \/ printed'.kind # "LIST_REGISTERS"
                    \/ pc = "dump" /\ UNCHANGED printed
    BY <2>3 DEF VisitInv, VisitedSoFar, Listing, EveryIdListed
  <2> QED BY <2>1, <2>2, <2>3, ListingUntouched
<1>3. VisitInv => EveryIdListed
  BY DEF VisitInv
<1> QED BY <1>1, <1>2, <1>3, ListInvariant, PTL DEF Spec
-----------------------------------------------------------------------------
(* The register a command is about.                                        *)

Places == {"command", "name", "format", "value", "wait", "join", "ping", "list_ping",
           "list_number", "list_name", "dump"}

NodeStates == {"NOT_JOINED", "JOINING", "IDLE"} \cup Operations

FieldRegisters == [name : Fields, value : Values]

FieldPairs == [name : Fields, text : Fields]

CommandType ==
    /\ pc \in Places /\ state \in NodeStates
    /\ pc \in {"join", "wait", "ping", "list_ping"} => state \notin {"IDLE", "NOT_JOINED"}
    /\ HOST_LISTENING \in BOOLEAN
    /\ format \in Formats /\ command \in RegisterCommands
    /\ REG_BUFFER \in FieldRegisters /\ typed \in FieldPairs

\* Nothing but the command has been at REG_BUFFER since it began.
Clean == ~disturbed /\ Length[typed.name] <= REGISTER_ARRAY_SIZE - 2

\* The register the host has typed.
Meant == Register(typed.name, Converted(typed.text))

BufferInv ==
    Clean =>
        /\ pc \in {"format", "value"} => REG_BUFFER.name = typed.name
        /\ pc = "wait" /\ command = "SET_REGISTER" => REG_BUFFER = Meant /\ requested = Meant

CommandInv ==
    /\ CommandType
    /\ BufferInv
    /\ pc = "dump" => printed.kind # "SET_REGISTER_ACK"
    /\ SetUndisturbed

(* Only these steps have to do with a register command.                    *)
CommandStep ==
    \/ \E field \in RegisterCommands : RegisterCommand(field)
    \/ \E field \in Fields : ReadName(field) \/ ReadFormat(field) \/ ReadValue(field)
    \/ RequestFailed \/ RequestAnswered
    \/ \E reg \in Broadcasts : ReceiveBroadcast(reg)

(* What is stored for a field is a value, and the same one as long as the  *)
(* format is.                                                              *)
LEMMA ConvertedValue ==
    /\ \A field \in Fields : format \in Formats => Converted(field) \in Values
    /\ UNCHANGED <<format, typed>> => Meant' = Meant
  BY HexFields, AtolFields DEF Converted, Formats, Value, Values, Meant

(* The others leave the command, and the register it is about, alone.      *)
LEMMA CommandUntouched ==
    ASSUME [Next]_vars, CommandType
    PROVE  \/ CommandStep
           \/ /\ UNCHANGED <<command, format, typed, REG_BUFFER, requested, disturbed>>
              /\ HOST_LISTENING' \in BOOLEAN
              /\ state' \in NodeStates
              /\ pc' \in Places \ {"name", "format", "value", "wait"} \/ UNCHANGED pc
              /\ pc' \in {"join", "wait", "ping", "list_ping"} =>
                     state' \notin {"IDLE", "NOT_JOINED"}
              /\ \/ printed'.kind # "SET_REGISTER_ACK"
                 \/ UNCHANGED <<pc, printed>>
                 \/ pc = "dump" /\ UNCHANGED printed
                 \/ pc' \notin {"command", "dump"}
<1> DEFINE Kept == UNCHANGED <<command, format, typed, REG_BUFFER, requested, disturbed>>
           Typed == /\ HOST_LISTENING' \in BOOLEAN
                    /\ state' \in NodeStates
                    /\ pc' \in Places \ {"name", "format", "value", "wait"} \/ UNCHANGED pc
                    /\ pc' \in {"join", "wait", "ping", "list_ping"} =>
                           state' \notin {"IDLE", "NOT_JOINED"}
           Told == \/ printed'.kind # "SET_REGISTER_ACK"
                   \/ UNCHANGED <<pc, printed>>
                   \/ pc = "dump" /\ UNCHANGED printed
                   \/ pc' \notin {"command", "dump"}
           Other == Kept /\ Typed /\ Told
<1> USE DEF CommandType
<1>1. ASSUME Type \/ TypeStop \/ StalledRequestEnds \/ UNCHANGED sketchVars
      PROVE  Other
  BY <1>1 DEF Type, TypeStop, StalledRequestEnds, RadioStep, readVars, radioVars, outVars,
              sketchVars, Between, NodeStates
<1>2. ASSUME UnknownCommand \/ toggle_echo \/ StopListening
      PROVE  Other
  BY <1>2, Answers DEF UnknownCommand, toggle_echo, StopListening, readVars, radioVars, outVars
<1>3. ASSUME init_radio_and_broadcast_cache \/ join_mesh
      PROVE  Other
  BY <1>3, Answers DEF init_radio_and_broadcast_cache, join_mesh, Reads, readVars,
                       Places, NodeStates
<1>4. ASSUME start_listening
      PROVE  Other
  BY <1>4, Answers DEF start_listening, Reads, readVars, radioVars, Places, NodeStates
<1>5. ASSUME ping_mesh("PING", "ping") \/ ping_mesh("LIST_REGISTERS", "list_ping")
      PROVE  Other
  BY <1>5, Answers DEF ping_mesh, Reads, readVars, Places, NodeStates, Operations
<1>6. ASSUME JoinFinished \/ PingFinished \/ ListPingFinished
      PROVE  Other
  BY <1>6, Answers DEF JoinFinished, PingFinished, ListPingFinished, readVars,
                       Places, NodeStates
<1>7. ASSUME List
      PROVE  Other
  BY <1>7, Answers DEF List, ListStep, ListNumber, ListName, ListNextNode, ListFinished,
                       readVars, radioVars, outVars, Places
<1>8. ASSUME DumpFinished \/ DumpNext
      PROVE  Other
  <2>1. ASSUME NEW reg, Show(reg)
        PROVE  printed'.kind # "SET_REGISTER_ACK"
    BY <2>1 DEF Show, Line
  <2> QED BY <1>8, <2>1 DEF DumpFinished, DumpNext, readVars, radioVars, outVars, Places
<1> HIDE DEF Other
<1>9. CommandStep \/ Other
  BY <1>1, <1>2, <1>3, <1>4, <1>5, <1>6, <1>7, <1>8
     DEF Next, Read, Finish, GetAnswer, TimePasses, Conflict, vars, CommandStep
<1> QED BY <1>9 DEF Other

(* What follows is about one step of a command at a time.                  *)
LEMMA CommandKept ==
    ASSUME CommandInv,
           UNCHANGED <<command, format, typed, REG_BUFFER, requested, disturbed>>,
           HOST_LISTENING' \in BOOLEAN, state' \in NodeStates,
           pc' \in Places \ {"name", "format", "value", "wait"} \/ UNCHANGED pc,
           pc' \in {"join", "wait", "ping", "list_ping"} => state' \notin {"IDLE", "NOT_JOINED"},
           \/ printed'.kind # "SET_REGISTER_ACK"
           \/ UNCHANGED <<pc, printed>>
           \/ pc = "dump" /\ UNCHANGED printed
           \/ pc' \notin {"command", "dump"}
    PROVE  CommandInv'
<1>1. CommandType'
  BY DEF CommandInv, CommandType, Places
<1>2. BufferInv'
  BY ConvertedValue DEF CommandInv, BufferInv, Clean
<1>3. CASE printed'.kind # "SET_REGISTER_ACK" \/ pc' \notin {"command", "dump"}
  BY <1>1, <1>2, <1>3 DEF CommandInv, SetUndisturbed
<1>4. CASE UNCHANGED <<pc, printed>> \/ (pc = "dump" /\ UNCHANGED printed)
  BY <1>1, <1>2, <1>4, ConvertedValue DEF CommandInv, SetUndisturbed, Meant
<1> QED BY <1>3, <1>4

(* A step that refuses the command, or has not come to its answer.         *)
LEMMA NotAcknowledged ==
    ASSUME CommandType', BufferInv',
           pc' \notin {"command", "dump"} \/ printed'.kind # "SET_REGISTER_ACK"
    PROVE  CommandInv'
BY DEF CommandInv, SetUndisturbed

LEMMA Refused ==
    ASSUME CommandType', Refuse
    PROVE  CommandInv'
<1>1. pc' = "command" /\ printed'.kind = "ERROR"
  BY Answers DEF Refuse
<1>2. BufferInv'
  BY <1>1 DEF BufferInv
<1> QED BY <1>1, <1>2, NotAcknowledged

LEMMA BeginKeepsCommand ==
    ASSUME CommandInv, NEW field \in RegisterCommands, RegisterCommand(field)
    PROVE  CommandInv'
<1>1. pc' = "name" /\ command' = field
  BY DEF RegisterCommand
<1>2. CommandType'
  BY <1>1 DEF RegisterCommand, CommandInv, CommandType, Places, radioVars
<1>3. BufferInv'
  BY <1>1 DEF BufferInv
<1> QED BY <1>1, <1>2, <1>3, NotAcknowledged

(* The name goes into REG_BUFFER, if there is room for it.                 *)
LEMMA NameKeepsCommand ==
    ASSUME CommandInv, NEW field \in Fields, ReadName(field)
    PROVE  CommandInv'
<1>1. typed' \in FieldPairs /\ typed'.name = field
  BY EmptyField DEF ReadName, FieldPairs
<1>2. REG_BUFFER \in FieldRegisters
  BY DEF CommandInv, CommandType
<1>3. REG_BUFFER' \in FieldRegisters
  BY <1>1, <1>2 DEF ReadName, SetRegisterName, FieldRegisters
<1>4. pc' \in {"command", "format"}
  BY DEF ReadName, Refuse
<1>5. CommandType'
  BY <1>1, <1>3, <1>4 DEF CommandInv, CommandType, ReadName, radioVars, Places
<1>6. CASE Refuse
  BY <1>5, <1>6, Refused
<1>7. CASE pc' = "format" /\ SetRegisterName(field)
  <2>1. Clean' => REG_BUFFER' = [REG_BUFFER EXCEPT !.name = field]
    <3>1. Clean' => ~(Length[field] > REGISTER_ARRAY_SIZE - 2)
      <4>1. Clean' => Length[field] <= REGISTER_ARRAY_SIZE - 2
        BY <1>1 DEF Clean
      <4>2. Length[field] \in Nat
        BY LengthNat
      <4> QED BY <4>1, <4>2, ArraySizeNat
    <3> QED BY <1>7, <3>1 DEF SetRegisterName
  <2>2. Clean' => REG_BUFFER'.name = typed'.name
    BY <1>1, <1>2, <2>1 DEF FieldRegisters
  <2>3. BufferInv'
    BY <1>7, <2>2 DEF BufferInv
  <2> QED BY <1>5, <1>7, <2>3, NotAcknowledged
<1> QED BY <1>6, <1>7 DEF ReadName

(* A request of the register: it is refused, or the sketch waits for the   *)
(* answer with the register as its last request.                           *)
LEMMA RequestKeepsCommand ==
    ASSUME CommandInv, NEW reg, Request(reg),
           UNCHANGED <<command, HOST_LISTENING>>,
           command \in {"GET_REGISTER", "SET_REGISTER"},
           format' \in Formats, REG_BUFFER' \in FieldRegisters, typed' \in FieldPairs,
           command = "SET_REGISTER" /\ Clean' => REG_BUFFER' = Meant' /\ reg = Meant'
    PROVE  CommandInv'
<1>1. state' \in NodeStates /\ pc' \in {"command", "wait"}
      /\ (pc' = "wait" => state' = command /\ requested' = reg)
  BY DEF CommandInv, CommandType, Request, Refuse, radioVars, NodeStates, Operations
<1>2. CommandType'
  BY <1>1 DEF CommandInv, CommandType, Places
<1>3. CASE Refuse
  BY <1>2, <1>3, Refused
<1>4. CASE pc' = "wait"
  <2>1. BufferInv'
    BY <1>1, <1>4 DEF BufferInv
  <2> QED BY <1>2, <1>4, <2>1, NotAcknowledged
<1> QED BY <1>3, <1>4 DEF Request

LEMMA BroadcastSentKeepsCommand ==
    ASSUME CommandInv, NEW reg, SendBroadcast(reg),
           UNCHANGED <<command, HOST_LISTENING>>,
           format' \in Formats, REG_BUFFER' \in FieldRegisters, typed' \in FieldPairs
    PROVE  CommandInv'
<1>1. UNCHANGED state /\ pc' = "command"
  BY DEF SendBroadcast, Refuse, radioVars
<1>2. CommandType'
  BY <1>1 DEF CommandInv, CommandType, Places
<1>3. BufferInv'
  BY <1>1 DEF BufferInv
<1>4. printed'.kind # "SET_REGISTER_ACK"
  BY Answers DEF SendBroadcast, Refuse
<1> QED BY <1>2, <1>3, <1>4, NotAcknowledged

LEMMA FieldDisturbs ==
    ASSUME NEW field, ReadField(field)
    PROVE  ~disturbed' => ~disturbed
<1>1. CASE UNCHANGED disturbed
  BY <1>1
<1>2. CASE disturbed' = TRUE
  BY <1>2
<1> QED BY <1>1, <1>2 DEF ReadField

LEMMA FormatKeepsCommand ==
    ASSUME CommandInv, NEW field \in Fields, ReadFormat(field)
    PROVE  CommandInv'
<1>1. /\ pc = "format" /\ UNCHANGED <<command, typed, HOST_LISTENING, REG_BUFFER>>
      /\ Clean' => Clean
  <2>1. pc = "format" /\ UNCHANGED <<command, typed, HOST_LISTENING, REG_BUFFER>>
    BY DEF ReadFormat
  <2>2. ~disturbed' => ~disturbed
    BY FieldDisturbs DEF ReadFormat
  <2> QED BY <2>1, <2>2 DEF Clean
<1>2. format' \in Formats
  BY DEF ReadFormat, CommandInv, CommandType
<1>3. CASE Refuse /\ UNCHANGED radioVars
  <2>1. CommandType'
    BY <1>1, <1>2, <1>3 DEF Refuse, radioVars, CommandInv, CommandType, Places
  <2> QED BY <1>3, <2>1, Refused
<1>4. CASE command = "GET_REGISTER" /\ Request(REG_BUFFER)
  <2>1. REG_BUFFER' \in FieldRegisters /\ typed' \in FieldPairs
    BY <1>1 DEF CommandInv, CommandType
  <2> QED BY <1>1, <1>2, <1>4, <2>1, RequestKeepsCommand
<1>5. CASE pc' = "value" /\ UNCHANGED radioVars
  <2>1. CommandType'
    BY <1>1, <1>2, <1>5 DEF radioVars, CommandInv, CommandType, Places
  <2>2. BufferInv'
    BY <1>1, <1>5 DEF CommandInv, BufferInv
  <2> QED BY <1>5, <2>1, <2>2, NotAcknowledged
<1> QED BY <1>3, <1>4, <1>5 DEF ReadFormat

(* The value joins the name that is in REG_BUFFER.                         *)
LEMMA ValueKeepsCommand ==
    ASSUME CommandInv, NEW field \in Fields, ReadValue(field)
    PROVE  CommandInv'
<1> DEFINE reg == Register(REG_BUFFER.name, Converted(field))
<1>1. pc = "value" /\ UNCHANGED <<command, format, HOST_LISTENING>>
      /\ typed' = [typed EXCEPT !.text = field] /\ (~disturbed' => ~disturbed)
  BY FieldDisturbs DEF ReadValue
<1>2. /\ typed \in FieldPairs /\ REG_BUFFER \in FieldRegisters
      /\ format \in Formats /\ format' \in Formats
  BY <1>1 DEF CommandInv, CommandType
<1>3. typed' \in FieldPairs /\ typed'.name = typed.name /\ typed'.text = field
  BY <1>1, <1>2 DEF FieldPairs
<1>4. reg \in FieldRegisters
  BY <1>2, ConvertedValue DEF FieldRegisters, Register
<1>5. Clean' => reg = Meant'
  <2>1. Clean' => Clean
    BY <1>1, <1>3 DEF Clean
  <2>2. Clean => REG_BUFFER.name = typed.name
    BY <1>1 DEF CommandInv, BufferInv
  <2>3. Meant' = Register(typed.name, Converted(field))
    BY <1>1, <1>3 DEF Meant, Converted
  <2> QED BY <2>1, <2>2, <2>3
<1>6. CASE Refuse /\ UNCHANGED <<REG_BUFFER, radioVars>>
  <2>1. CommandType'
    BY <1>1, <1>2, <1>3, <1>6 DEF Refuse, radioVars, CommandInv, CommandType, Places
  <2> QED BY <1>6, <2>1, Refused
<1>7. CASE REG_BUFFER' = reg /\ command = "SET_REGISTER" /\ Request(reg)
  <2> HIDE DEF reg
  <2> QED BY <1>1, <1>2, <1>3, <1>4, <1>5, <1>7, RequestKeepsCommand
<1>8. CASE REG_BUFFER' = reg /\ SendBroadcast(reg)
  <2> HIDE DEF reg
  <2> QED BY <1>1, <1>2, <1>3, <1>4, <1>8, BroadcastSentKeepsCommand
<1> QED BY <1>6, <1>7, <1>8 DEF ReadValue

LEMMA AnswerKeepsCommand ==
    ASSUME CommandInv, RequestFailed \/ RequestAnswered
    PROVE  CommandInv'
<1>1. /\ pc = "wait" /\ pc' = "command" /\ state' = "IDLE"
      /\ UNCHANGED <<command, format, typed, HOST_LISTENING, REG_BUFFER, requested, disturbed>>
  BY DEF RequestFailed, RequestAnswered, AfterRequest, readVars
<1>2. CommandType'
  BY <1>1 DEF CommandInv, CommandType, Places, NodeStates
<1>3. BufferInv'
  BY <1>1 DEF BufferInv
<1>4. CASE printed'.kind # "SET_REGISTER_ACK"
  BY <1>2, <1>3, <1>4, NotAcknowledged
<1>5. CASE command = "SET_REGISTER" /\ Answer(Line("SET_REGISTER_ACK", REG_BUFFER.name, NoValue))
  <2>1. printed'.name = REG_BUFFER.name
    BY <1>5, Answers
  <2>2. Clean => REG_BUFFER = Meant /\ requested = Meant
    BY <1>1, <1>5 DEF CommandInv, BufferInv
  <2>3. Clean' => Clean
    BY <1>1 DEF Clean
  <2>4. Meant' = Meant
    BY <1>1, ConvertedValue
  <2>5. Clean' => printed'.name = typed'.name /\ requested' = Meant'
    BY <1>1, <2>1, <2>2, <2>3, <2>4 DEF Register, Meant
  <2>6. SetUndisturbed'
    BY <2>5 DEF SetUndisturbed, Clean, Meant
  <2> QED BY <1>1, <1>2, <1>3, <2>6 DEF CommandInv
<1>6. CASE \/ Answer(Error)
           \/ Answer(Line("GET_REGISTER", requested.name, NoValue))
  <2>1. printed'.kind # "SET_REGISTER_ACK"
    BY <1>6, Answers
  <2> QED BY <1>4, <2>1
<1> QED BY <1>5, <1>6 DEF RequestFailed, RequestAnswered

(* A broadcast overwrites REG_BUFFER, and the command is disturbed.        *)
LEMMA BroadcastDisturbs ==
    ASSUME CommandInv, NEW reg \in Broadcasts, ReceiveBroadcast(reg)
    PROVE  CommandInv'
<1>1. /\ pc # "dump" /\ REG_BUFFER' = reg /\ disturbed' = TRUE
      /\ UNCHANGED <<pc, state, command, format, typed, HOST_LISTENING>>
  BY DEF ReceiveBroadcast, readVars, radioVars
<1>2. CommandType'
  BY <1>1, BroadcastsFields DEF CommandInv, CommandType, FieldRegisters
<1>3. BufferInv' /\ SetUndisturbed'
  BY <1>1 DEF BufferInv, Clean, SetUndisturbed
<1> QED BY <1>1, <1>2, <1>3 DEF CommandInv

THEOREM CommandInvariant == Spec => []CommandInv
<1>1. Init => CommandInv
  <2> SUFFICES ASSUME Init
               PROVE  CommandInv
    OBVIOUS
  <2>1. CommandType
    <3>1. Blank \in FieldRegisters
      BY EmptyField DEF Blank, NoValue, Value, Values, Formats, Register, FieldRegisters
    <3>2. typed \in FieldPairs
      BY EmptyField DEF Init, FieldPairs
    <3> QED BY <3>1, <3>2 DEF Init, CommandType, Places, NodeStates, Formats, RegisterCommands
  <2>2. pc = "command" /\ printed = Line("INIT", "", NoValue)
    BY DEF Init
  <2>3. printed.kind = "INIT"
    BY <2>2 DEF Line
  <2> QED BY <2>1, <2>2, <2>3 DEF CommandInv, BufferInv, SetUndisturbed
<1>2. CommandInv /\ [Next]_vars => CommandInv'
  <2> SUFFICES ASSUME CommandInv, [Next]_vars
               PROVE  CommandInv'
    OBVIOUS
  <2>1. CASE CommandStep
    BY <2>1, BeginKeepsCommand, NameKeepsCommand, FormatKeepsCommand, ValueKeepsCommand,
       AnswerKeepsCommand, BroadcastDisturbs DEF CommandStep
  <2>2. CommandType
    BY DEF CommandInv
  <2> QED BY <2>1, <2>2, CommandUntouched, CommandKept
<1> QED BY <1>1, <1>2, PTL DEF Spec

(* SetUndisturbed: an acknowledged SET_REGISTER has set what it named, if  *)
(* no broadcast and no pause of the host came between its fields.          *)
THEOREM SetUndisturbedHolds == Spec => []SetUndisturbed
  BY CommandInvariant, PTL DEF CommandInv

-----------------------------------------------------------------------------
(* The clock of the operation the sketch waits for.                        *)

ClockInv == due \in BOOLEAN /\ conflicts \in 0..MaxConflicts

(* Only a conflict is counted, and only below the bound.                   *)
LEMMA ClockInvariant == Spec => []ClockInv
<1>1. Init => ClockInv
  <2>1. 0 \in 0..MaxConflicts
    BY ConflictsNat
  <2> QED BY <2>1 DEF Init, ClockInv
<1>2. ClockInv /\ [Next]_vars => ClockInv'
  <2> SUFFICES ASSUME ClockInv, [Next]_vars
               PROVE  ClockInv'
    OBVIOUS
  <2>1. CASE Finish \/ GetAnswer \/ TimePasses
    BY <2>1 DEF Finish, GetAnswer, TimePasses, ClockInv
  <2>2. CASE Conflict
    <3>1. conflicts < MaxConflicts /\ conflicts' \in {conflicts, conflicts + 1} /\ due' = FALSE
      BY <2>2 DEF Conflict
    <3>2. conflicts \in 0..MaxConflicts
      BY DEF ClockInv
    <3>3. conflicts' \in 0..MaxConflicts
      BY <3>1, <3>2, ConflictsNat
    <3> QED BY <3>1, <3>3 DEF ClockInv
  <2>3. CASE UNCHANGED clockVars
    BY <2>3 DEF clockVars, ClockInv
  <2> QED BY <2>1, <2>2, <2>3 DEF Next, vars
<1> QED BY <1>1, <1>2, PTL DEF Spec

(* TypeOK, from the three invariants that hold its parts.                  *)
THEOREM TypeCorrect == Spec => []TypeOK
<1>1. RingInv /\ CommandInv /\ ClockInv => TypeOK
  <2>1. CommandInv => REG_BUFFER.name \in Fields
    BY DEF CommandInv, CommandType, FieldRegisters
  <2> QED BY <2>1 DEF RingInv, RingType, CommandInv, CommandType, ClockInv, TypeOK, Places, NodeStates
<1> QED BY <1>1, RingInvariant, CommandInvariant, ClockInvariant, PTL
=============================================================================
