--------------------------- MODULE RegisterCodec ---------------------------
(***************************************************************************)
(* A register as bytes: how its name and value lie in a buffer one behind  *)
(* the other, how they are written into a packet and read from one.  An    *)
(* application fills `mine`, the library sends it in a packet, and another *)
(* node reads the packet into `theirs`.  The packet is zeroed first, the   *)
(* buffers never are: they are filled over what was in them before.        *)
(*                                                                         *)
(* Bytes are numbers, a string is the sequence of its characters without   *)
(* the null byte at its end.  The buffers are sequences, of which memcpy   *)
(* replaces a part: one that is written past its end gets longer.          *)
(***************************************************************************)
EXTENDS Integers, Sequences

CONSTANTS
    ARRAY_SIZE,     \* A7105_MESH_MAX_REGISTER_ARRAY_SIZE: 57
    Strings,        \* what the application uses as names and as values
    Numbers,        \* the numbers it uses as values
    Indexes,        \* indexes of registers
    MaxSets         \* how often `mine` is changed (a bound of the model)

Byte == 0..255

ASSUME SizeByte == ARRAY_SIZE \in Byte /\ ARRAY_SIZE > 2
ASSUME StringBytes == Strings \subseteq Seq(Byte \ {0})
ASSUME NumbersU32 == \A v \in Numbers : v \in Nat /\ v \div 16777216 < 256
ASSUME MaxSetsNat == MaxSets \in Nat
ASSUME IndexBytes == Indexes \subseteq Byte

VARIABLES
    mine, theirs,   \* registers: _name_len, _data_len and _data
    packet_type,    \* GET_REGISTER, SET_REGISTER (or any with a value) or REGISTER_NAME
    packet,         \* the payload of node->packet_cache
    packetHas,      \* history: what was put into the packet
    named,          \* history: the name last set in `mine`
    valued,         \* history: the value set in `mine` since then, if any
    sets,           \* how often `mine` has been changed
    arrived         \* history: what was put into the packet `theirs` was read from

packetVars == <<packet_type, packet, packetHas>>
vars == <<mine, theirs, packetVars, named, valued, sets, arrived>>

PacketTypes == {"GET_REGISTER", "SET_REGISTER", "REGISTER_NAME"}

\* A7105_MESH_MAX_REGISTER_PART_SIZE, and what a packet has after its header.
PART_SIZE == ARRAY_SIZE - 2
PAYLOAD_SIZE == ARRAY_SIZE + 2

Zeros(n) == [i \in 1..n |-> 0]

\* memcpy: `bytes` into the buffer from an offset on, and back out of it.
Put(buffer, offset, bytes) ==
    SubSeq(buffer, 1, offset) \o bytes
        \o SubSeq(buffer, offset + Len(bytes) + 1, Len(buffer))

Get(buffer, offset, length) == SubSeq(buffer, offset + 1, offset + length)

\* A7105_Mesh_Register_Initialize.
NewRegister == [name_len |-> 0, data_len |-> 0, data |-> Zeros(ARRAY_SIZE)]

NoValue == [kind |-> "none"]
StringValue(s) == [kind |-> "string", string |-> s]
NumberValue(v) == [kind |-> "number", number |-> v]

NoIndex == -1

\* What a packet tells of a register.
Told(name, value, index) == [name |-> name, value |-> value, index |-> index]
Nothing == Told(<<>>, NoValue, 0)

Init ==
    /\ mine = NewRegister
    /\ theirs = NewRegister
    /\ packet_type = "GET_REGISTER"
    /\ packet = Zeros(PAYLOAD_SIZE)
    /\ packetHas = Nothing
    /\ named = <<>>
    /\ valued = NoValue
    /\ sets = 0
    /\ arrived = Nothing
-----------------------------------------------------------------------------
(* The application fills a register.                                       *)

Set == sets < MaxSets /\ sets' = sets + 1

\* A7105_Mesh_Util_SetRegisterNameStr.  A value that was there is not moved.
SetRegisterNameStr(name) ==
    /\ Set
    /\ Len(name) <= PART_SIZE
    /\ mine' = [mine EXCEPT !.name_len = Len(name), !.data = Put(@, 0, name)]
    /\ named' = name
    /\ valued' = NoValue
    /\ UNCHANGED <<theirs, packetVars, arrived>>

SetValue(bytes) ==
    mine' = [mine EXCEPT !.data_len = Len(bytes), !.data = Put(@, mine.name_len, bytes)]

\* Mutant: the null byte at the end is forgotten.
HasRoom_NoNull(name_len, string) == Len(string) <= ARRAY_SIZE - name_len

\* A7105_Mesh_Util_SetRegisterValueStr; the null byte needs room too.
HasRoom(name_len, string) == Len(string) <= ARRAY_SIZE - name_len - 1

SetRegisterValueStr(string) ==
    /\ Set
    /\ HasRoom(mine.name_len, string)
    /\ SetValue(Append(string, 0))
    /\ valued' = StringValue(string)
    /\ UNCHANGED <<theirs, packetVars, named, arrived>>

\* Four bytes, the most significant one first.
NumberBytes(v) ==
    <<(v \div 16777216) % 256, (v \div 65536) % 256, (v \div 256) % 256, v % 256>>

\* A7105_Mesh_Util_SetRegisterValueU32.
SetRegisterValueU32(v) ==
    /\ Set
    /\ 4 <= ARRAY_SIZE - mine.name_len
    /\ SetValue(NumberBytes(v))
    /\ valued' = NumberValue(v)
    /\ UNCHANGED <<theirs, packetVars, named, arrived>>
-----------------------------------------------------------------------------
(* From a register to a packet and back.                                   *)

\* Both lengths count, also if the value is not to be sent.
Sendable(reg, with) ==
    /\ reg.name_len + reg.data_len \in 1..ARRAY_SIZE
    /\ with => reg.name_len + reg.data_len >= 2

\* _A7105_Mesh_Util_Register_To_Packet, into a packet that is zeroed before.
Written(reg, with) ==
    LET name == <<reg.name_len>> \o Get(reg.data, 0, reg.name_len)
        value == <<reg.data_len>> \o Get(reg.data, reg.name_len, reg.data_len)
    IN  Put(Zeros(PAYLOAD_SIZE), 0, IF with THEN name \o value ELSE name)

Packed(type, p, told) ==
    /\ packet_type' = type
    /\ packet' = p
    /\ packetHas' = told
    /\ UNCHANGED <<mine, theirs, named, valued, sets, arrived>>

SendName ==
    /\ Sendable(mine, FALSE)
    /\ Packed("GET_REGISTER", Written(mine, FALSE), Told(named, NoValue, 0))

SendValue ==
    /\ Sendable(mine, TRUE)
    /\ Packed("SET_REGISTER", Written(mine, TRUE), Told(named, valued, 0))

\* Where a packet has what comes behind the name, counted from 0.
BehindName(p) == p[1] + 1

\* _A7105_Mesh_Util_Set_Register_Index.
WithIndex(p, i) == [p EXCEPT ![BehindName(p) + 1] = i]

\* _A7105_Mesh_Handle_GetRegisterName does not ask whether the name was written.
SendIndex(i) ==
    Packed("REGISTER_NAME",
           WithIndex(IF Sendable(mine, FALSE) THEN Written(mine, FALSE) ELSE Zeros(PAYLOAD_SIZE), i),
           Told(IF Sendable(mine, FALSE) THEN named ELSE <<>>, NoValue, i))

\* _A7105_Mesh_Util_Get_Register_Index.
GetRegisterIndex(p) == p[BehindName(p) + 1]

HasValue(type) == type = "SET_REGISTER"

\* _A7105_Mesh_Util_Packet_To_Register makes sure of the lengths first.
Readable(p, with) ==
    /\ p[1] \in 1..ARRAY_SIZE
    /\ with => p[1] + p[BehindName(p) + 1] \in 2..ARRAY_SIZE

\* Mutant: the value is put behind the name that was there before.
Read_BehindOldName(reg, p, with) ==
    LET named_reg == [reg EXCEPT !.name_len = p[1], !.data = Put(@, 0, Get(p, 1, p[1]))]
        length == p[BehindName(p) + 1]
    IN  IF with
        THEN [named_reg EXCEPT !.data_len = length,
                  !.data = Put(@, reg.name_len, Get(p, BehindName(p) + 1, length))]
        ELSE named_reg

\* What a packet was read into before, it is read over.
Read(reg, p, with) ==
    LET named_reg == [reg EXCEPT !.name_len = p[1], !.data = Put(@, 0, Get(p, 1, p[1]))]
        length == p[BehindName(p) + 1]
    IN  IF with
        THEN [named_reg EXCEPT !.data_len = length,
                  !.data = Put(@, p[1], Get(p, BehindName(p) + 1, length))]
        ELSE named_reg

PacketToRegister ==
    /\ Readable(packet, HasValue(packet_type))
    /\ theirs' = Read(theirs, packet, HasValue(packet_type))
    /\ arrived' = packetHas
    /\ UNCHANGED <<mine, packetVars, named, valued, sets>>

\* A7105_Mesh_Register_Copy, from the node's cache to a register it serves.
RegisterCopy ==
    /\ Set
    /\ mine' = theirs
    /\ named' = arrived.name
    /\ valued' = arrived.value
    /\ UNCHANGED <<theirs, packetVars, arrived>>

Next ==
    \/ \E s \in Strings : SetRegisterNameStr(s) \/ SetRegisterValueStr(s)
    \/ \E v \in Numbers : SetRegisterValueU32(v)
    \/ SendName \/ SendValue \/ \E i \in Indexes : SendIndex(i)
    \/ PacketToRegister
    \/ RegisterCopy

Spec == Init /\ [][Next]_vars
-----------------------------------------------------------------------------
(* What a register says: A7105_Mesh_Util_GetRegisterNameStr, _ValueStr and *)
(* _ValueU32, with a buffer that is long enough.                           *)

\* A string ends with its first null byte.
Text(bytes) ==
    LET Ends == {i \in DOMAIN bytes : bytes[i] = 0}
    IN  IF Ends = {} THEN bytes
        ELSE SubSeq(bytes, 1, (CHOOSE i \in Ends : \A j \in Ends : i <= j) - 1)

GetRegisterNameStr(reg) == Text(Get(reg.data, 0, reg.name_len))

GetRegisterValueStr(reg) == Text(Get(reg.data, reg.name_len, reg.data_len))

\* -1 if it is no number.
GetRegisterValueU32(reg) ==
    LET b == Get(reg.data, reg.name_len, reg.data_len)
    IN  IF reg.data_len # 4 THEN -1
        ELSE b[1] * 16777216 + b[2] * 65536 + b[3] * 256 + b[4]

\* _A7105_Mesh_Cmp_Packet_Register.  The values, when they are asked for, are
\* not compared: the register's name is compared with the packet's value and
\* the length before it.
SamePrefix(a, b) == \A i \in DOMAIN a : a[i] = b[i]

CmpPacketRegister(p, reg, with) ==
    /\ reg.name_len = p[1]
    /\ SamePrefix(Get(p, 1, p[1]), reg.data)
    /\ with => /\ reg.data_len = p[BehindName(p) + 1]
               /\ SamePrefix(Get(p, BehindName(p), reg.data_len), reg.data)
-----------------------------------------------------------------------------
(* Properties.                                                             *)

Registers == [name_len : 0..ARRAY_SIZE, data_len : 0..ARRAY_SIZE, data : Seq(Byte)]

\* Nothing is written past the end of a buffer or of the packet: neither ever
\* gets longer (lines 97-143, 1890-1930, 1967-2003).
TypeOK ==
    /\ sets \in 0..MaxSets
    /\ mine \in Registers /\ Len(mine.data) = ARRAY_SIZE
    /\ theirs \in Registers /\ Len(theirs.data) = ARRAY_SIZE
    /\ packet_type \in PacketTypes
    /\ packet \in Seq(Byte) /\ Len(packet) = PAYLOAD_SIZE

Says(reg, told) ==
    /\ GetRegisterNameStr(reg) = told.name
    /\ CASE told.value.kind = "none" -> TRUE
         [] told.value.kind = "string" -> GetRegisterValueStr(reg) = told.value.string
         [] told.value.kind = "number" -> GetRegisterValueU32(reg) = told.value.number

\* A register with a name is taken by the node that receives it, known by its
\* name there, and has the index it was asked for (lines 1868-1888, 1932-2026).
SentIsTaken ==
    packetHas.name # <<>> =>
        /\ Readable(packet, HasValue(packet_type))
        /\ GetRegisterNameStr(theirs) = packetHas.name => CmpPacketRegister(packet, theirs, FALSE)
        /\ packet_type = "REGISTER_NAME" => GetRegisterIndex(packet) = packetHas.index

\* What one node puts into a register, by name and then by value, another node
\* takes and gets out of it, whatever was in the buffers and the packet before;
\* also when the register has been copied and sent on (lines 97-192, 206-212,
\* 1868-2026).
ArrivesAsMeant == SentIsTaken /\ Says(theirs, arrived)

\* "bail if this register/value combo was already processed from a broadcast"
\* (a7105_mesh.cpp:1271): a packet just read into a register is known again.
RepeatKnown ==
    (arrived = packetHas /\ HasValue(packet_type)) => CmpPacketRegister(packet, theirs, TRUE)
=============================================================================
