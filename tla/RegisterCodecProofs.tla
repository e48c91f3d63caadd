------------------------ MODULE RegisterCodecProofs ------------------------
(* What a node puts into a register arrives at another as it was meant, for   *)
(* any strings and numbers, buffers of any size and any sequence of setting,  *)
(* writing, reading and copying. The invariant (CodecInv) says of the bytes   *)
(* of both registers and of the packet what was put into them: a register     *)
(* Holds its name and, if one was set after it, its value; a packet Carries   *)
(* what it was written from. Every step is then one or two copies with memcpy *)
(* (Get and Put), which the first lemmas are about.                           *)
EXTENDS RegisterCodec, SequenceTheorems, TLAPS

Buffers == Seq(Byte)

-----------------------------------------------------------------------------
(* memcpy, on buffers it stays inside of.                                  *)
LEMMA GetPart ==
    ASSUME NEW b \in Buffers, NEW o \in Nat, NEW n \in Nat, o + n <= Len(b)
    PROVE  /\ Get(b, o, n) \in Buffers /\ Len(Get(b, o, n)) = n
           /\ \A i \in 1..n : Get(b, o, n)[i] = b[o + i]
<1>1. \A i \in (o + 1)..(o + n) : b[i] \in Byte
  BY ElementOfSeq DEF Buffers
<1>2. /\ Get(b, o, n) \in Seq(Byte)
      /\ Len(Get(b, o, n)) = IF o + 1 <= o + n THEN o + n - (o + 1) + 1 ELSE 0
      /\ \A i \in 1..(o + n - (o + 1) + 1) : Get(b, o, n)[i] = b[o + 1 + i - 1]
  BY <1>1, SubSeqProperties, o + 1 \in Int, o + n \in Int DEF Get
<1> QED BY <1>2 DEF Buffers

LEMMA PutPart ==
    ASSUME NEW b \in Buffers, NEW o \in Nat, NEW s \in Buffers, o + Len(s) <= Len(b)
    PROVE  /\ Put(b, o, s) \in Buffers /\ Len(Put(b, o, s)) = Len(b)
           /\ \A i \in 1..Len(b) :
                  Put(b, o, s)[i] = IF i <= o THEN b[i]
                                    ELSE IF i <= o + Len(s) THEN s[i - o] ELSE b[i]
<1> DEFINE head == SubSeq(b, 1, o)
           k == o + Len(s)
           tail == SubSeq(b, k + 1, Len(b))
<1>1. Len(b) \in Nat /\ Len(s) \in Nat /\ k \in Nat /\ k <= Len(b)
  BY LenProperties DEF Buffers
<1>2. \A i \in 1..Len(b) : b[i] \in Byte
  BY ElementOfSeq DEF Buffers
<1>3. head \in Seq(Byte) /\ Len(head) = o /\ \A i \in 1..o : head[i] = b[i]
  <2>1. \A i \in 1..o : b[i] \in Byte
    BY <1>1, <1>2
  <2>2. /\ head \in Seq(Byte) /\ Len(head) = IF 1 <= o THEN o - 1 + 1 ELSE 0
        /\ \A i \in 1..(o - 1 + 1) : head[i] = b[1 + i - 1]
    BY <2>1, SubSeqProperties
  <2> QED BY <2>2
<1>4. tail \in Seq(Byte) /\ Len(tail) = Len(b) - k /\ \A i \in 1..(Len(b) - k) : tail[i] = b[k + i]
  <2>1. \A i \in (k + 1)..Len(b) : b[i] \in Byte
    BY <1>1, <1>2
  <2>2. /\ tail \in Seq(Byte) /\ Len(tail) = IF k + 1 <= Len(b) THEN Len(b) - (k + 1) + 1 ELSE 0
        /\ \A i \in 1..(Len(b) - (k + 1) + 1) : tail[i] = b[k + 1 + i - 1]
    <3>1. k + 1 \in Int /\ Len(b) \in Int
      BY <1>1
    <3> HIDE DEF k
    <3> QED BY <2>1, <3>1, SubSeqProperties
  <2> QED BY <1>1, <2>2
<1>5. Put(b, o, s) = (head \o s) \o tail
  BY DEF Put
<1> HIDE DEF head, tail
<1>6. /\ head \o s \in Seq(Byte) /\ Len(head \o s) = k
      /\ \A i \in 1..k : (head \o s)[i] = IF i <= o THEN head[i] ELSE s[i - o]
  BY <1>3, ConcatProperties DEF Buffers
<1>7. /\ Put(b, o, s) \in Seq(Byte) /\ Len(Put(b, o, s)) = k + (Len(b) - k)
      /\ \A i \in 1..(k + (Len(b) - k)) :
             Put(b, o, s)[i] = IF i <= k THEN (head \o s)[i] ELSE tail[i - k]
  <2> DEFINE front == head \o s
             rest == Len(b) - k
  <2>1. front \in Seq(Byte) /\ tail \in Seq(Byte) /\ Len(front) = k /\ Len(tail) = rest
    BY <1>4, <1>6
  <2>2. Put(b, o, s) = front \o tail
    BY <1>5
  <2> HIDE DEF front, rest, k
  <2>3. /\ Put(b, o, s) \in Seq(Byte) /\ Len(Put(b, o, s)) = k + rest
        /\ \A i \in 1..(k + rest) : Put(b, o, s)[i] = IF i <= k THEN front[i] ELSE tail[i - k]
    BY <2>1, <2>2, ConcatProperties
  <2> QED BY <2>3 DEF front, rest
<1>8. Put(b, o, s) \in Buffers /\ Len(Put(b, o, s)) = Len(b)
  BY <1>1, <1>7 DEF Buffers
<1>9. ASSUME NEW i \in 1..Len(b)
      PROVE  Put(b, o, s)[i] = IF i <= o THEN b[i]
                               ELSE IF i <= o + Len(s) THEN s[i - o] ELSE b[i]
  <2>1. Put(b, o, s)[i] = IF i <= k THEN (head \o s)[i] ELSE tail[i - k]
    <3>1. k + (Len(b) - k) = Len(b)
      BY <1>1
    <3> QED BY <1>7, <3>1
  <2>2. CASE i <= k
    <3>1. i \in 1..k /\ (head \o s)[i] = IF i <= o THEN head[i] ELSE s[i - o]
      BY <1>6, <2>2
    <3>2. Put(b, o, s)[i] = IF i <= o THEN head[i] ELSE s[i - o]
      BY <2>1, <2>2, <3>1
    <3>3. i <= o => head[i] = b[i]
      BY <1>3
    <3> QED BY <2>2, <3>2, <3>3
  <2>3. CASE ~(i <= k)
    <3>1. i - k \in 1..(Len(b) - k) /\ k + (i - k) = i
      BY <1>1, <2>3
    <3>2. tail[i - k] = b[i]
      BY <1>4, <3>1
    <3>3. ~(i <= o)
      BY <1>1, <2>3
    <3> QED BY <2>1, <2>3, <3>2, <3>3
  <2> QED BY <2>2, <2>3
<1> QED BY <1>8, <1>9

(* A part of a buffer, by its bytes.                                       *)
LEMMA PartIs ==
    ASSUME NEW b \in Buffers, NEW o \in Nat, NEW n \in Nat, o + n <= Len(b),
           NEW s \in Buffers, Len(s) = n, \A i \in 1..n : b[o + i] = s[i]
    PROVE  Get(b, o, n) = s
<1>1. /\ Get(b, o, n) \in Buffers /\ Len(Get(b, o, n)) = n
      /\ \A i \in 1..n : Get(b, o, n)[i] = b[o + i]
  BY GetPart
<1> DEFINE g == Get(b, o, n)
<1> HIDE DEF g
<1>2. g \in Seq(Byte) /\ s \in Seq(Byte) /\ Len(g) = Len(s) /\ \A i \in 1..Len(g) : g[i] = s[i]
  BY <1>1 DEF g, Buffers
<1> QED BY <1>2, SeqEqual DEF g

(* A length and the bytes it is about.                                     *)
LEMMA HeadedBuffer ==
    ASSUME NEW n \in Byte, NEW s \in Buffers, Len(s) = n
    PROVE  /\ <<n>> \o s \in Buffers /\ Len(<<n>> \o s) = n + 1
           /\ (<<n>> \o s)[1] = n /\ \A i \in 1..n : (<<n>> \o s)[i + 1] = s[i]
<1>1. <<n>> \in Seq(Byte) /\ Len(<<n>>) = 1 /\ <<n>>[1] = n /\ n \in Nat
  BY DEF Byte
<1>2. /\ <<n>> \o s \in Seq(Byte) /\ Len(<<n>> \o s) = 1 + n
      /\ \A i \in 1..(1 + n) : (<<n>> \o s)[i] = IF i <= 1 THEN <<n>>[i] ELSE s[i - 1]
  BY <1>1, ConcatProperties DEF Buffers
<1> DEFINE t == <<n>> \o s
<1> HIDE DEF t
<1>3. t[1] = n
  BY <1>1, <1>2 DEF t
<1>4. ASSUME NEW i \in 1..n
      PROVE  t[i + 1] = s[i]
  <2>1. i + 1 \in 1..(1 + n) /\ ~(i + 1 <= 1) /\ i + 1 - 1 = i
    BY <1>1
  <2> QED BY <1>2, <2>1 DEF t
<1> QED BY <1>1, <1>2, <1>3, <1>4 DEF t, Buffers

(* What was put somewhere is there, and what lies before it is as it was.  *)
LEMMA GetOfPut ==
    ASSUME NEW b \in Buffers, NEW o \in Nat, NEW s \in Buffers, o + Len(s) <= Len(b)
    PROVE  /\ Get(Put(b, o, s), o, Len(s)) = s
           /\ \A k, n \in Nat : k + n <= o => Get(Put(b, o, s), k, n) = Get(b, k, n)
<1> DEFINE p == Put(b, o, s)
<1>1. /\ p \in Buffers /\ Len(p) = Len(b) /\ Len(s) \in Nat /\ Len(b) \in Nat
      /\ \A i \in 1..Len(b) : p[i] = IF i <= o THEN b[i]
                                     ELSE IF i <= o + Len(s) THEN s[i - o] ELSE b[i]
  BY PutPart, LenProperties DEF Buffers
<1> HIDE DEF p
<1>2. Get(p, o, Len(s)) = s
  <2>1. /\ Get(p, o, Len(s)) \in Buffers /\ Len(Get(p, o, Len(s))) = Len(s)
        /\ \A i \in 1..Len(s) : Get(p, o, Len(s))[i] = p[o + i]
    BY <1>1, GetPart
  <2>2. \A i \in 1..Len(s) : p[o + i] = s[i]
    <3> TAKE i \in 1..Len(s)
    <3>1. o + i \in 1..Len(b) /\ ~(o + i <= o) /\ o + i <= o + Len(s) /\ (o + i) - o = i
      BY <1>1
    <3> QED BY <1>1, <3>1
  <2> QED BY <2>1, <2>2, SeqEqual DEF Buffers
<1>3. ASSUME NEW k \in Nat, NEW n \in Nat, k + n <= o
      PROVE  Get(p, k, n) = Get(b, k, n)
  <2>1. k + n <= Len(b)
    BY <1>1, <1>3
  <2>2. /\ Get(p, k, n) \in Buffers /\ Len(Get(p, k, n)) = n
        /\ \A i \in 1..n : Get(p, k, n)[i] = p[k + i]
    BY <1>1, <2>1, GetPart
  <2>3. /\ Get(b, k, n) \in Buffers /\ Len(Get(b, k, n)) = n
        /\ \A i \in 1..n : Get(b, k, n)[i] = b[k + i]
    BY <2>1, GetPart
  <2>4. \A i \in 1..n : p[k + i] = b[k + i]
    <3> TAKE i \in 1..n
    <3>1. k + i \in 1..Len(b) /\ k + i <= o
      BY <1>1, <1>3
    <3> QED BY <1>1, <3>1
  <2> QED BY <2>2, <2>3, <2>4, SeqEqual DEF Buffers
<1> QED BY <1>2, <1>3 DEF p

-----------------------------------------------------------------------------
(* Strings and numbers as bytes.                                           *)

Chars == Seq(Byte \ {0})

(* A string without a null byte is read to its end.                        *)
LEMMA TextOfWhole ==
    ASSUME NEW s \in Chars
    PROVE  Text(s) = s
<1>1. \A i \in DOMAIN s : s[i] # 0
  <2>1. DOMAIN s = 1..Len(s)
    BY LenProperties DEF Chars
  <2>2. \A i \in 1..Len(s) : s[i] \in Byte \ {0}
    BY ElementOfSeq DEF Chars
  <2> QED BY <2>1, <2>2
<1>2. {i \in DOMAIN s : s[i] = 0} = {}
  BY <1>1
<1> QED BY <1>2 DEF Text

(* With its null byte behind it, it is read up to that.                    *)
LEMMA TextOfTerminated ==
    ASSUME NEW s \in Chars
    PROVE  /\ Append(s, 0) \in Buffers /\ Len(Append(s, 0)) = Len(s) + 1 /\ s \in Buffers
           /\ Text(Append(s, 0)) = s
<1> DEFINE t == Append(s, 0)
           n == Len(s) + 1
           Ends == {i \in DOMAIN t : t[i] = 0}
<1>1. s \in Seq(Byte) /\ Len(s) \in Nat /\ 0 \in Byte
  BY SeqMonotonic, LenProperties DEF Chars, Byte
<1>2. /\ t \in Seq(Byte) /\ Len(t) = n /\ DOMAIN t = 1..n
      /\ \A i \in 1..n : t[i] = IF i = n THEN 0 ELSE s[i]
  BY <1>1
<1>3. \A i \in 1..Len(s) : s[i] # 0
  BY ElementOfSeq DEF Chars
<1>4. Ends = {n}
  <2>1. n \in 1..n /\ \A i \in 1..n : i # n => i \in 1..Len(s)
    BY <1>1
  <2> HIDE DEF t, n
  <2> QED BY <1>2, <1>3, <2>1
<1>5. Text(t) = SubSeq(t, 1, n - 1)
  <2>1. Text(t) = SubSeq(t, 1, (CHOOSE i \in Ends : \A j \in Ends : i <= j) - 1)
    BY <1>4 DEF Text
  <2>2. (CHOOSE i \in Ends : \A j \in Ends : i <= j) = n
    <3>1. n <= n
      BY <1>1
    <3> HIDE DEF n, Ends
    <3> QED BY <1>4, <3>1
  <2> QED BY <2>1, <2>2
<1>6. SubSeq(t, 1, n - 1) = s
  <2>1. n - 1 = Len(s) /\ \A i \in 1..Len(s) : i \in 1..n /\ i # n
    BY <1>1
  <2> HIDE DEF t, n
  <2>2. \A i \in 1..Len(s) : t[i] = s[i] /\ t[i] \in Byte
    BY <1>1, <1>2, <2>1, ElementOfSeq
  <2>3. /\ SubSeq(t, 1, Len(s)) \in Seq(Byte)
        /\ Len(SubSeq(t, 1, Len(s))) = IF 1 <= Len(s) THEN Len(s) - 1 + 1 ELSE 0
        /\ \A i \in 1..(Len(s) - 1 + 1) : SubSeq(t, 1, Len(s))[i] = t[1 + i - 1]
    <3>1. 1 \in Int /\ Len(s) \in Int
      BY <1>1
    <3> QED BY <2>2, <3>1, SubSeqProperties
  <2>4. /\ Len(SubSeq(t, 1, Len(s))) = Len(s)
        /\ \A i \in 1..Len(s) : SubSeq(t, 1, Len(s))[i] = s[i]
    BY <1>1, <2>2, <2>3
  <2> QED BY <1>1, <2>1, <2>3, <2>4, SeqEqual
<1> QED BY <1>1, <1>2, <1>5, <1>6 DEF Buffers

(* The bytes of a number are four, and add up to it again.                 *)
LEMMA BytesOfNumber ==
    ASSUME NEW v \in Numbers
    PROVE  /\ NumberBytes(v) \in Buffers /\ Len(NumberBytes(v)) = 4
           /\ NumberBytes(v)[1] * 16777216 + NumberBytes(v)[2] * 65536
                  + NumberBytes(v)[3] * 256 + NumberBytes(v)[4] = v
<1> DEFINE a == (v \div 16777216) % 256
           b == (v \div 65536) % 256
           c == (v \div 256) % 256
           d == v % 256
<1>1. v \in Nat /\ v \div 16777216 < 256
  BY NumbersU32
<1>2. a \in Byte /\ b \in Byte /\ c \in Byte /\ d \in Byte
  BY <1>1 DEF Byte
<1>3. a * 16777216 + b * 65536 + c * 256 + d = v
  BY <1>1
<1>4. NumberBytes(v) = <<a, b, c, d>>
  BY DEF NumberBytes
<1> HIDE DEF a, b, c, d
<1> QED BY <1>2, <1>3, <1>4 DEF Buffers

-----------------------------------------------------------------------------
(* Registers and packets.                                                  *)

IsRegister(reg) == reg \in Registers /\ Len(reg.data) = ARRAY_SIZE

IsPacket(p) == p \in Buffers /\ Len(p) = PAYLOAD_SIZE

LEMMA RegisterFields ==
    ASSUME NEW reg, IsRegister(reg)
    PROVE  /\ reg.name_len \in 0..ARRAY_SIZE /\ reg.data_len \in 0..ARRAY_SIZE
           /\ reg.data \in Buffers /\ Len(reg.data) = ARRAY_SIZE
           /\ ARRAY_SIZE \in Nat /\ ARRAY_SIZE > 2 /\ ARRAY_SIZE <= 255
           /\ PAYLOAD_SIZE = ARRAY_SIZE + 2
BY SizeByte DEF IsRegister, Registers, Buffers, Byte, PAYLOAD_SIZE

LEMMA PacketLength ==
    ASSUME NEW p, IsPacket(p)
    PROVE  p \in Buffers /\ Len(p) = ARRAY_SIZE + 2 /\ ARRAY_SIZE \in Nat
BY SizeByte DEF IsPacket, PAYLOAD_SIZE, Byte

(* A name put at the front of the buffer.                                  *)
LEMMA NameSet ==
    ASSUME NEW reg, IsRegister(reg), NEW name \in Buffers, Len(name) <= ARRAY_SIZE,
           NEW new, new = [reg EXCEPT !.name_len = Len(name), !.data = Put(@, 0, name)]
    PROVE  /\ IsRegister(new) /\ new.name_len = Len(name) /\ new.data_len = reg.data_len
           /\ Get(new.data, 0, Len(name)) = name
<1> DEFINE d == Put(reg.data, 0, name)
           length == Len(name)
           a == [reg EXCEPT !.name_len = length]
<1>1. length \in 0..ARRAY_SIZE /\ 0 \in Nat
  BY RegisterFields, LenProperties DEF Buffers
<1>2. /\ d \in Buffers /\ Len(d) = ARRAY_SIZE
      /\ Get(d, 0, length) = name
  <2>1. /\ reg.data \in Buffers /\ Len(reg.data) = ARRAY_SIZE
        /\ 0 + Len(name) <= Len(reg.data)
    BY <1>1, RegisterFields
  <2>2. d \in Buffers /\ Len(d) = ARRAY_SIZE
    BY <1>1, <2>1, PutPart
  <2> QED BY <1>1, <2>1, <2>2, GetOfPut
<1>3. a \in Registers /\ a.name_len = length /\ a.data_len = reg.data_len
  BY <1>1 DEF IsRegister, Registers
<1>4. new = [a EXCEPT !.data = d]
  OBVIOUS
<1> HIDE DEF a, d
<1>5. new \in Registers /\ new.name_len = length /\ new.data_len = reg.data_len /\ new.data = d
  BY <1>2, <1>3, <1>4 DEF Registers, Buffers
<1> QED BY <1>2, <1>5 DEF IsRegister

(* A value put behind the name, which stays.                               *)
LEMMA ValueSet ==
    ASSUME NEW reg, IsRegister(reg), NEW bytes \in Buffers,
           reg.name_len + Len(bytes) <= ARRAY_SIZE,
           NEW new, new = [reg EXCEPT !.data_len = Len(bytes),
                                      !.data = Put(@, reg.name_len, bytes)]
    PROVE  /\ IsRegister(new) /\ new.name_len = reg.name_len /\ new.data_len = Len(bytes)
           /\ Get(new.data, 0, reg.name_len) = Get(reg.data, 0, reg.name_len)
           /\ Get(new.data, reg.name_len, Len(bytes)) = bytes
<1> DEFINE d == Put(reg.data, reg.name_len, bytes)
           length == Len(bytes)
           a == [reg EXCEPT !.data_len = length]
<1>1. length \in 0..ARRAY_SIZE /\ 0 \in Nat /\ reg.name_len \in Nat
      /\ 0 + reg.name_len <= reg.name_len
  BY RegisterFields, LenProperties DEF Buffers
<1>2. /\ d \in Buffers /\ Len(d) = ARRAY_SIZE
      /\ Get(d, reg.name_len, length) = bytes
      /\ Get(d, 0, reg.name_len) = Get(reg.data, 0, reg.name_len)
  <2>1. /\ reg.data \in Buffers /\ Len(reg.data) = ARRAY_SIZE
        /\ reg.name_len + Len(bytes) <= Len(reg.data)
    BY RegisterFields
  <2>2. d \in Buffers /\ Len(d) = ARRAY_SIZE
    BY <1>1, <2>1, PutPart
  <2>3. Get(d, reg.name_len, length) = bytes
    BY <1>1, <2>1, GetOfPut
  <2>4. Get(d, 0, reg.name_len) = Get(reg.data, 0, reg.name_len)
    <3>1. \A i, n \in Nat : i + n <= reg.name_len => Get(d, i, n) = Get(reg.data, i, n)
      BY <1>1, <2>1, GetOfPut
    <3> QED BY <1>1, <3>1
  <2> QED BY <2>2, <2>3, <2>4
<1>3. a \in Registers /\ a.data_len = length /\ a.name_len = reg.name_len
  BY <1>1 DEF IsRegister, Registers
<1>4. new = [a EXCEPT !.data = d]
  OBVIOUS
<1> HIDE DEF a, d
<1>5. new \in Registers /\ new.data_len = length /\ new.name_len = reg.name_len /\ new.data = d
  BY <1>2, <1>3, <1>4 DEF Registers, Buffers
<1> QED BY <1>2, <1>5 DEF IsRegister

LEMMA ZerosPacket ==
    Zeros(PAYLOAD_SIZE) \in Buffers /\ Len(Zeros(PAYLOAD_SIZE)) = PAYLOAD_SIZE
      /\ Zeros(ARRAY_SIZE) \in Buffers /\ Len(Zeros(ARRAY_SIZE)) = ARRAY_SIZE
      /\ \A i \in 1..PAYLOAD_SIZE : Zeros(PAYLOAD_SIZE)[i] = 0
      /\ ARRAY_SIZE \in Nat /\ PAYLOAD_SIZE = ARRAY_SIZE + 2
<1>1. PAYLOAD_SIZE \in Nat /\ ARRAY_SIZE \in Nat /\ 0 \in Byte /\ PAYLOAD_SIZE = ARRAY_SIZE + 2
  BY SizeByte DEF PAYLOAD_SIZE, Byte
<1>2. ASSUME NEW n \in Nat
      PROVE  Zeros(n) \in Buffers /\ Len(Zeros(n)) = n /\ \A i \in 1..n : Zeros(n)[i] = 0
  <2>1. Zeros(n) \in [1..n -> Byte]
    BY <1>1 DEF Zeros
  <2>2. Zeros(n) \in Seq(Byte)
    BY <2>1, SeqDef
  <2>3. Len(Zeros(n)) \in Nat /\ DOMAIN Zeros(n) = 1..Len(Zeros(n))
    BY <2>2, LenProperties
  <2>4. Len(Zeros(n)) = n
    BY <2>1, <2>3
  <2> QED BY <2>2, <2>4 DEF Buffers, Zeros
<1> QED BY <1>1, <1>2

(* What is written at the front of a zeroed packet.                        *)
LEMMA PacketOf ==
    ASSUME NEW bytes \in Buffers, Len(bytes) <= PAYLOAD_SIZE,
           NEW p, p = Put(Zeros(PAYLOAD_SIZE), 0, bytes)
    PROVE  IsPacket(p) /\ \A i \in 1..Len(bytes) : p[i] = bytes[i]
<1> DEFINE z == Zeros(PAYLOAD_SIZE)
<1>1. z \in Buffers /\ Len(z) = PAYLOAD_SIZE /\ PAYLOAD_SIZE \in Nat
  BY ZerosPacket
<1>2. Len(bytes) \in Nat /\ 0 + Len(bytes) <= Len(z) /\ 0 \in Nat
  BY <1>1, LenProperties DEF Buffers
<1> HIDE DEF z
<1>3. /\ p \in Buffers /\ Len(p) = PAYLOAD_SIZE
      /\ \A i \in 1..PAYLOAD_SIZE : p[i] = IF i <= 0 THEN z[i]
                                           ELSE IF i <= 0 + Len(bytes) THEN bytes[i - 0] ELSE z[i]
  BY <1>1, <1>2, PutPart DEF z
<1>4. \A i \in 1..Len(bytes) : p[i] = bytes[i]
  <2> TAKE i \in 1..Len(bytes)
  <2>1. i \in 1..PAYLOAD_SIZE /\ ~(i <= 0) /\ i <= 0 + Len(bytes) /\ i - 0 = i
    BY <1>1, <1>2
  <2> QED BY <1>3, <2>1
<1> QED BY <1>3, <1>4 DEF IsPacket

(* Written: the name with its length, and the value with its length behind *)
(* it if it is to be sent.                                                 *)
LEMMA WrittenName ==
    ASSUME NEW reg, IsRegister(reg), NEW p, p = Written(reg, FALSE)
    PROVE  /\ IsPacket(p) /\ p[1] = reg.name_len
           /\ Get(p, 1, reg.name_len) = Get(reg.data, 0, reg.name_len)
<1> DEFINE n == reg.name_len
           name == Get(reg.data, 0, n)
           bytes == <<n>> \o name
<1>1. /\ n \in Nat /\ n \in Byte /\ n <= ARRAY_SIZE /\ reg.data \in Buffers
      /\ 0 + n <= Len(reg.data) /\ 0 \in Nat /\ ARRAY_SIZE \in Nat /\ PAYLOAD_SIZE = ARRAY_SIZE + 2
  <2>1. /\ n \in 0..ARRAY_SIZE /\ ARRAY_SIZE \in Nat /\ ARRAY_SIZE <= 255
        /\ reg.data \in Buffers /\ Len(reg.data) = ARRAY_SIZE /\ PAYLOAD_SIZE = ARRAY_SIZE + 2
    BY RegisterFields
  <2> HIDE DEF n
  <2> QED BY <2>1 DEF Byte
<1>2. /\ name \in Buffers /\ Len(name) = n
  BY <1>1, GetPart
<1>3. p = Put(Zeros(PAYLOAD_SIZE), 0, bytes)
  BY DEF Written
<1> HIDE DEF n, name
<1>4. /\ bytes \in Buffers /\ Len(bytes) = n + 1
      /\ bytes[1] = n /\ \A i \in 1..n : bytes[i + 1] = name[i]
  BY <1>1, <1>2, HeadedBuffer
<1> HIDE DEF bytes
<1>5. IsPacket(p) /\ \A i \in 1..(n + 1) : p[i] = bytes[i]
  <2>1. Len(bytes) <= PAYLOAD_SIZE /\ Len(bytes) = n + 1
    BY <1>1, <1>4
  <2>2. IsPacket(p) /\ \A i \in 1..Len(bytes) : p[i] = bytes[i]
    BY <1>3, <1>4, <2>1, PacketOf
  <2> QED BY <2>1, <2>2
<1>6. p[1] = n /\ \A i \in 1..n : p[1 + i] = name[i]
  <2>1. 1 \in 1..(n + 1) /\ \A i \in 1..n : i + 1 \in 1..(n + 1) /\ 1 + i = i + 1
    BY <1>1
  <2> QED BY <1>4, <1>5, <2>1
<1>7. Get(p, 1, n) = name
  <2>1. p \in Buffers /\ 1 \in Nat /\ 1 + n <= Len(p)
    <3>1. p \in Buffers /\ Len(p) = ARRAY_SIZE + 2
      BY <1>1, <1>5 DEF IsPacket
    <3>2. 1 + n <= ARRAY_SIZE + 2
      BY <1>1
    <3> QED BY <3>1, <3>2
  <2>2. name \in Buffers /\ Len(name) = n /\ \A i \in 1..n : p[1 + i] = name[i]
    BY <1>2, <1>6
  <2> QED BY <1>1, <2>1, <2>2, PartIs
<1> QED BY <1>5, <1>6, <1>7 DEF n, name

LEMMA WrittenValue ==
    ASSUME NEW reg, IsRegister(reg), reg.name_len + reg.data_len <= ARRAY_SIZE,
           NEW p, p = Written(reg, TRUE)
    PROVE  /\ IsPacket(p) /\ p[1] = reg.name_len
           /\ Get(p, 1, reg.name_len) = Get(reg.data, 0, reg.name_len)
           /\ p[reg.name_len + 2] = reg.data_len
           /\ Get(p, reg.name_len + 2, reg.data_len) = Get(reg.data, reg.name_len, reg.data_len)
<1> DEFINE n == reg.name_len
           k == reg.data_len
           name == Get(reg.data, 0, n)
           value == Get(reg.data, n, k)
           front == <<n>> \o name
           back == <<k>> \o value
           bytes == front \o back
<1>1. /\ n \in Nat /\ k \in Nat /\ n \in Byte /\ k \in Byte /\ n + k <= ARRAY_SIZE
      /\ reg.data \in Buffers /\ Len(reg.data) = ARRAY_SIZE
      /\ 0 + n <= Len(reg.data) /\ n + k <= Len(reg.data)
      /\ 0 \in Nat /\ ARRAY_SIZE \in Nat /\ PAYLOAD_SIZE = ARRAY_SIZE + 2
  <2>1. /\ n \in 0..ARRAY_SIZE /\ k \in 0..ARRAY_SIZE /\ n + k <= ARRAY_SIZE
        /\ ARRAY_SIZE \in Nat /\ ARRAY_SIZE <= 255
        /\ reg.data \in Buffers /\ Len(reg.data) = ARRAY_SIZE /\ PAYLOAD_SIZE = ARRAY_SIZE + 2
    BY RegisterFields
  <2> HIDE DEF n, k
  <2> QED BY <2>1 DEF Byte
<1>2. name \in Buffers /\ Len(name) = n
  BY <1>1, GetPart
<1>3. value \in Buffers /\ Len(value) = k
  BY <1>1, GetPart
<1>4. p = Put(Zeros(PAYLOAD_SIZE), 0, bytes)
  BY DEF Written
<1> HIDE DEF n, k, name, value
<1>5. /\ front \in Buffers /\ Len(front) = n + 1
      /\ front[1] = n /\ \A i \in 1..n : front[i + 1] = name[i]
  BY <1>1, <1>2, HeadedBuffer
<1>6. /\ back \in Buffers /\ Len(back) = k + 1
      /\ back[1] = k /\ \A i \in 1..k : back[i + 1] = value[i]
  BY <1>1, <1>3, HeadedBuffer
<1> HIDE DEF front, back
<1>7. /\ bytes \in Buffers /\ Len(bytes) = n + 1 + (k + 1)
      /\ \A i \in 1..(n + 1 + (k + 1)) :
             bytes[i] = IF i <= n + 1 THEN front[i] ELSE back[i - (n + 1)]
  <2> DEFINE x == n + 1
             y == k + 1
  <2>1. front \in Seq(Byte) /\ back \in Seq(Byte) /\ Len(front) = x /\ Len(back) = y
    BY <1>5, <1>6 DEF Buffers
  <2> HIDE DEF x, y
  <2>2. /\ bytes \in Seq(Byte) /\ Len(bytes) = x + y
        /\ \A i \in 1..(x + y) : bytes[i] = IF i <= x THEN front[i] ELSE back[i - x]
    BY <2>1, ConcatProperties
  <2> QED BY <2>2 DEF x, y, Buffers
<1> HIDE DEF bytes
<1>8. IsPacket(p) /\ \A i \in 1..(n + k + 2) : p[i] = bytes[i]
  <2>1. n + 1 + (k + 1) = n + k + 2 /\ n + k + 2 <= PAYLOAD_SIZE
    BY <1>1
  <2>2. bytes \in Buffers /\ Len(bytes) = n + k + 2 /\ Len(bytes) <= PAYLOAD_SIZE
    BY <1>7, <2>1
  <2>3. IsPacket(p) /\ \A i \in 1..Len(bytes) : p[i] = bytes[i]
    BY <1>4, <2>2, PacketOf
  <2> QED BY <2>2, <2>3
<1>9. /\ \A i \in 1..(n + 1) : p[i] = front[i]
      /\ \A i \in 1..(k + 1) : p[n + 1 + i] = back[i]
  <2>1. ASSUME NEW i \in 1..(n + 1)
        PROVE  p[i] = front[i]
    <3>1. i \in 1..(n + k + 2) /\ i \in 1..(n + 1 + (k + 1)) /\ i <= n + 1
      BY <1>1
    <3> QED BY <1>7, <1>8, <3>1
  <2>2. ASSUME NEW i \in 1..(k + 1)
        PROVE  p[n + 1 + i] = back[i]
    <3> DEFINE at == n + 1 + i
    <3>1. /\ at \in 1..(n + k + 2) /\ at \in 1..(n + 1 + (k + 1))
          /\ ~(at <= n + 1) /\ at - (n + 1) = i
      BY <1>1
    <3> HIDE DEF at
    <3>2. p[at] = back[at - (n + 1)]
      BY <1>7, <1>8, <3>1
    <3>3. p[at] = back[i]
      BY <3>1, <3>2
    <3> QED BY <3>3 DEF at
  <2> QED BY <2>1, <2>2
<1>10. p[1] = n /\ \A i \in 1..n : p[1 + i] = name[i]
  <2>1. n \in Nat /\ 1 \in 1..(n + 1)
    BY <1>1
  <2>2. p[1] = n
    BY <1>5, <1>9, <2>1
  <2>3. ASSUME NEW i \in 1..n
        PROVE  p[1 + i] = name[i]
    <3> DEFINE at == i + 1
    <3>1. at \in 1..(n + 1) /\ 1 + i = at
      BY <2>1
    <3>2. front[at] = name[i]
      BY <1>5
    <3> HIDE DEF at
    <3> QED BY <1>9, <3>1, <3>2
  <2> QED BY <2>2, <2>3
<1>11. p[n + 2] = k /\ \A i \in 1..k : p[n + 2 + i] = value[i]
  <2>1. n \in Nat /\ k \in Nat /\ 1 \in 1..(k + 1) /\ n + 1 + 1 = n + 2
    BY <1>1
  <2>2. p[n + 2] = k
    <3>1. p[n + 1 + 1] = back[1]
      BY <1>9, <2>1
    <3> QED BY <1>6, <2>1, <3>1
  <2>3. ASSUME NEW i \in 1..k
        PROVE  p[n + 2 + i] = value[i]
    <3> DEFINE at == i + 1
    <3>1. at \in 1..(k + 1) /\ n + 1 + at = n + 2 + i
      BY <2>1
    <3>2. back[at] = value[i]
      BY <1>6
    <3> HIDE DEF at
    <3>3. p[n + 1 + at] = back[at]
      BY <1>9, <3>1
    <3> QED BY <3>1, <3>2, <3>3
  <2> QED BY <2>2, <2>3
<1>12. Get(p, 1, n) = name
  <2> DEFINE at == 1
  <2>1. n \in Nat /\ at \in Nat
    BY <1>1
  <2>2. p \in Buffers /\ at + n <= Len(p)
    <3>1. p \in Buffers /\ Len(p) = ARRAY_SIZE + 2
      BY <1>1, <1>8 DEF IsPacket
    <3>2. 1 + n <= ARRAY_SIZE + 2
      BY <1>1
    <3> QED BY <3>1, <3>2
  <2>3. \A i \in 1..n : p[at + i] = name[i]
    BY <1>10
  <2> HIDE DEF at
  <2>4. Get(p, at, n) = name
    BY <1>2, <2>1, <2>2, <2>3, PartIs
  <2> QED BY <2>4 DEF at
<1>13. Get(p, n + 2, k) = value
  <2> DEFINE at == n + 2
  <2>1. k \in Nat /\ at \in Nat
    BY <1>1
  <2>2. p \in Buffers /\ at + k <= Len(p)
    <3>1. p \in Buffers /\ Len(p) = ARRAY_SIZE + 2
      BY <1>1, <1>8 DEF IsPacket
    <3>2. n + 2 + k <= ARRAY_SIZE + 2
      BY <1>1
    <3> QED BY <3>1, <3>2
  <2>3. \A i \in 1..k : p[at + i] = value[i]
    BY <1>11
  <2> HIDE DEF at
  <2>4. Get(p, at, k) = value
    BY <1>3, <2>1, <2>2, <2>3, PartIs
  <2> QED BY <2>4 DEF at
<1> QED BY <1>8, <1>10, <1>11, <1>12, <1>13 DEF n, k, name, value

(* Read: what a packet has is put over what the register had.              *)
LEMMA ReadName ==
    ASSUME NEW reg, IsRegister(reg), NEW p, IsPacket(p), p[1] \in 1..ARRAY_SIZE,
           NEW new, new = Read(reg, p, FALSE)
    PROVE  /\ IsRegister(new) /\ new.name_len = p[1] /\ new.data_len = reg.data_len
           /\ Get(new.data, 0, p[1]) = Get(p, 1, p[1])
<1> DEFINE n == p[1]
           name == Get(p, 1, n)
<1>1. name \in Buffers /\ Len(name) = n
  <2>1. p \in Buffers /\ Len(p) = ARRAY_SIZE + 2 /\ ARRAY_SIZE \in Nat
    BY PacketLength
  <2>2. n \in Nat /\ 1 + n <= ARRAY_SIZE + 2 /\ 1 \in Nat
    BY <2>1
  <2> HIDE DEF n
  <2> QED BY <2>1, <2>2, GetPart
<1>2. new = [reg EXCEPT !.name_len = n, !.data = Put(@, 0, name)]
  BY DEF Read
<1>3. new = [reg EXCEPT !.name_len = Len(name), !.data = Put(@, 0, name)]
  BY <1>1, <1>2
<1> HIDE DEF name
<1>4. Len(name) <= ARRAY_SIZE
  BY <1>1, RegisterFields
<1>5. /\ IsRegister(new) /\ new.name_len = Len(name) /\ new.data_len = reg.data_len
      /\ Get(new.data, 0, Len(name)) = name
  BY <1>1, <1>3, <1>4, NameSet
<1> QED BY <1>1, <1>5 DEF name

\* A value that lies behind a name of n bytes, and has k.
HasRead(new, p, n, k) ==
    /\ IsRegister(new) /\ new.name_len = n /\ new.data_len = k
    /\ Get(new.data, 0, n) = Get(p, 1, n)
    /\ Get(new.data, n, k) = Get(p, n + 2, k)

LEMMA ReadValue ==
    ASSUME NEW reg, IsRegister(reg), NEW p, IsPacket(p),
           NEW n \in 1..ARRAY_SIZE, n = p[1], NEW at, at = n + 2,
           NEW k \in Nat, k = p[at], n + k <= ARRAY_SIZE,
           NEW new, new = Read(reg, p, TRUE)
    PROVE  HasRead(new, p, n, k)
<1> DEFINE value == Get(p, at, k)
           first == Read(reg, p, FALSE)
<1>1. /\ IsRegister(first) /\ first.name_len = n /\ Get(first.data, 0, n) = Get(p, 1, n)
  BY ReadName
<1>2. new = [first EXCEPT !.data_len = k, !.data = Put(@, n, value)]
  <2>1. n + 1 + 1 = n + 2
    BY RegisterFields
  <2>2. BehindName(p) + 1 = at
    BY <2>1 DEF BehindName
  <2>3. new = [first EXCEPT !.data_len = p[BehindName(p) + 1],
                   !.data = Put(@, n, Get(p, BehindName(p) + 1, p[BehindName(p) + 1]))]
    BY DEF Read
  <2> HIDE DEF first
  <2> QED BY <2>2, <2>3
<1>3. value \in Buffers /\ Len(value) = k
  <2>1. p \in Buffers /\ Len(p) = ARRAY_SIZE + 2 /\ ARRAY_SIZE \in Nat
    BY PacketLength
  <2>2. at \in Nat /\ at + k <= ARRAY_SIZE + 2
    BY <2>1
  <2> QED BY <2>1, <2>2, GetPart
<1> HIDE DEF first, value
<1>4. new = [first EXCEPT !.data_len = Len(value), !.data = Put(@, first.name_len, value)]
  BY <1>1, <1>2, <1>3
<1>5. first.name_len + Len(value) <= ARRAY_SIZE
  BY <1>1, <1>3
<1>6. /\ IsRegister(new) /\ new.name_len = first.name_len /\ new.data_len = Len(value)
      /\ Get(new.data, 0, first.name_len) = Get(first.data, 0, first.name_len)
      /\ Get(new.data, first.name_len, Len(value)) = value
  BY <1>1, <1>3, <1>4, <1>5, ValueSet
<1> QED BY <1>1, <1>3, <1>6 DEF value, HasRead

-----------------------------------------------------------------------------
(* What registers and packets have, against what was put into them.        *)

Names == Strings \cup {<<>>}

Values == {NoValue} \cup {StringValue(s) : s \in Strings} \cup {NumberValue(v) : v \in Numbers}

Bytes(value) ==
    IF value.kind = "string" THEN Append(value.string, 0) ELSE NumberBytes(value.number)

HasBytes(reg, value) ==
    /\ reg.name_len + reg.data_len <= ARRAY_SIZE
    /\ reg.data_len = Len(Bytes(value))
    /\ Get(reg.data, reg.name_len, reg.data_len) = Bytes(value)

\* The bytes of the name are those of the name, and so are those of the value, if
\* it was set after the name.
Holds(reg, name, value) ==
    /\ IsRegister(reg)
    /\ name \in Names /\ value \in Values
    /\ reg.name_len = Len(name)
    /\ Get(reg.data, 0, Len(name)) = name
    /\ value.kind # "none" => HasBytes(reg, value)

ValueLength(p) == p[p[1] + 2]

\* A packet with a value has one that can be read, whoever set it when.
Carries(type, p, told) ==
    /\ IsPacket(p)
    /\ told.name \in Names /\ told.value \in Values
    /\ p[1] = Len(told.name) /\ p[1] <= ARRAY_SIZE
    /\ Get(p, 1, p[1]) = told.name
    /\ type # "SET_REGISTER" => told.value = NoValue
    /\ type = "SET_REGISTER" => p[1] + ValueLength(p) \in 2..ARRAY_SIZE
    /\ told.value.kind # "none" =>
           /\ ValueLength(p) = Len(Bytes(told.value))
           /\ Get(p, p[1] + 2, ValueLength(p)) = Bytes(told.value)
    /\ type = "REGISTER_NAME" => p[p[1] + 2] = told.index

CodecInv ==
    /\ sets \in 0..MaxSets
    /\ Holds(mine, named, valued)
    /\ packet_type \in PacketTypes /\ Carries(packet_type, packet, packetHas)
    /\ Holds(theirs, arrived.name, arrived.value)

LEMMA NameBytes ==
    ASSUME NEW name \in Names
    PROVE  name \in Chars /\ name \in Buffers /\ Len(name) \in Nat /\ (name # <<>> => Len(name) > 0)
<1>1. name \in Chars
  BY StringBytes, EmptySeq DEF Names, Chars
<1>2. name \in Buffers
  BY <1>1, SeqMonotonic DEF Chars, Buffers
<1>3. Len(name) \in Nat /\ (name # <<>> => Len(name) \in Nat \ {0})
  BY <1>1, EmptySeq, LenProperties DEF Chars
<1> QED BY <1>1, <1>2, <1>3

LEMMA ValueKinds ==
    ASSUME NEW value \in Values
    PROVE  \/ value.kind = "none" /\ value = NoValue
           \/ /\ value.kind = "string" /\ value.string \in Strings
              /\ value.string \in Chars /\ Bytes(value) = Append(value.string, 0)
           \/ /\ value.kind = "number" /\ value.number \in Numbers
              /\ Bytes(value) = NumberBytes(value.number)
<1>1. CASE value = NoValue
  BY <1>1 DEF NoValue
<1>2. ASSUME NEW s \in Strings, value = StringValue(s)
      PROVE  /\ value.kind = "string" /\ value.string \in Strings
             /\ value.string \in Chars /\ Bytes(value) = Append(value.string, 0)
  BY <1>2, StringBytes DEF StringValue, Bytes, Chars
<1>3. ASSUME NEW v \in Numbers, value = NumberValue(v)
      PROVE  /\ value.kind = "number" /\ value.number \in Numbers
             /\ Bytes(value) = NumberBytes(value.number)
  BY <1>3 DEF NumberValue, Bytes
<1> QED BY <1>1, <1>2, <1>3 DEF Values

LEMMA ValueBytes ==
    ASSUME NEW value \in Values, value.kind # "none"
    PROVE  Bytes(value) \in Buffers /\ Len(Bytes(value)) \in Nat
<1>1. CASE value.kind = "string"
  <2>1. value.string \in Chars /\ Bytes(value) = Append(value.string, 0)
    BY <1>1, ValueKinds
  <2> QED BY <2>1, TextOfTerminated, LenProperties DEF Buffers
<1>2. CASE value.kind = "number"
  BY <1>2, ValueKinds, BytesOfNumber
<1> QED BY <1>1, <1>2, ValueKinds

(* The first registers and the first packet hold nothing.                  *)
LEMMA NoBytes ==
    ASSUME NEW b \in Buffers, NEW o \in Nat, o <= Len(b)
    PROVE  Get(b, o, 0) = <<>>
<1>1. /\ <<>> \in Buffers /\ Len(<<>>) = 0 /\ 0 \in Nat
      /\ \A i \in 1..0 : b[o + i] = <<>>[i] /\ o + 0 <= Len(b)
  BY EmptySeq DEF Buffers
<1> QED BY <1>1, PartIs

LEMMA NewHolds == Holds(NewRegister, <<>>, NoValue)
<1> DEFINE z == Zeros(ARRAY_SIZE)
<1>1. z \in Buffers /\ Len(z) = ARRAY_SIZE /\ 0 \in 0..ARRAY_SIZE /\ 0 <= Len(z) /\ 0 \in Nat
  BY ZerosPacket
<1>2. Get(z, 0, 0) = <<>>
  BY <1>1, NoBytes
<1> HIDE DEF z
<1>3. NewRegister = [name_len |-> 0, data_len |-> 0, data |-> z]
  BY DEF NewRegister, z
<1>4. IsRegister(NewRegister) /\ NewRegister.name_len = 0 /\ NewRegister.data = z
  BY <1>1, <1>3 DEF IsRegister, Registers, Buffers
<1>5. <<>> \in Names /\ NoValue \in Values /\ NoValue.kind = "none" /\ Len(<<>>) = 0
  BY DEF Names, Values, NoValue
<1> QED BY <1>2, <1>4, <1>5 DEF Holds

LEMMA ZerosCarry ==
    ASSUME NEW type, type # "SET_REGISTER", NEW told, told.name = <<>>, told.value = NoValue,
           NEW p, IsPacket(p), p[1] = 0, type = "REGISTER_NAME" => p[p[1] + 2] = told.index
    PROVE  Carries(type, p, told)
<1>1. p \in Buffers /\ 1 \in Nat /\ 1 <= Len(p) /\ 0 <= ARRAY_SIZE
  <2>1. p \in Buffers /\ Len(p) = ARRAY_SIZE + 2 /\ ARRAY_SIZE \in Nat
    BY PacketLength
  <2> QED BY <2>1
<1>2. Get(p, 1, 0) = <<>>
  BY <1>1, NoBytes
<1>3. <<>> \in Names /\ NoValue \in Values /\ NoValue.kind = "none" /\ Len(<<>>) = 0
  BY DEF Names, Values, NoValue
<1> QED BY <1>1, <1>2, <1>3 DEF Carries

LEMMA CodecInit == Init => CodecInv
<1> SUFFICES ASSUME Init
             PROVE  CodecInv
  OBVIOUS
<1>1. sets \in 0..MaxSets
  BY MaxSetsNat DEF Init
<1>2. Holds(mine, named, valued)
  BY NewHolds DEF Init
<1>3. Holds(theirs, arrived.name, arrived.value)
  BY NewHolds DEF Init, Nothing, Told
<1>4. Carries(packet_type, packet, packetHas)
  <2>1. IsPacket(packet) /\ packet[1] = 0
    <3>1. packet = Zeros(PAYLOAD_SIZE)
      BY DEF Init
    <3>2. PAYLOAD_SIZE \in Nat /\ PAYLOAD_SIZE >= 2
      BY SizeByte DEF PAYLOAD_SIZE, Byte
    <3>3. 1 \in 1..PAYLOAD_SIZE
      BY <3>2
    <3> QED BY <3>1, <3>3, ZerosPacket DEF IsPacket
  <2>2. packet_type = "GET_REGISTER" /\ packetHas.name = <<>> /\ packetHas.value = NoValue
    BY DEF Init, Nothing, Told
  <2> QED BY <2>1, <2>2, ZerosCarry
<1>5. packet_type \in PacketTypes
  BY DEF Init, PacketTypes
<1> QED BY <1>1, <1>2, <1>3, <1>4, <1>5 DEF CodecInv
-----------------------------------------------------------------------------
(* The application's steps.                                                *)

LEMMA CountedSet == CodecInv /\ Set => sets' \in 0..MaxSets
BY MaxSetsNat DEF CodecInv, Set

LEMMA NameKeepsCodec ==
    ASSUME CodecInv, NEW name \in Strings, SetRegisterNameStr(name)
    PROVE  CodecInv'
<1>1. sets' \in 0..MaxSets
  BY CountedSet DEF SetRegisterNameStr
<1>2. name \in Names /\ name \in Buffers /\ Len(name) <= ARRAY_SIZE
  <2>1. name \in Names /\ name \in Buffers /\ Len(name) \in Nat
    BY NameBytes DEF Names
  <2>2. Len(name) <= ARRAY_SIZE - 2 /\ ARRAY_SIZE \in Nat
    BY ZerosPacket DEF SetRegisterNameStr, PART_SIZE
  <2> QED BY <2>1, <2>2
<1>3. IsRegister(mine)
  BY DEF CodecInv, Holds
<1>4. mine' = [mine EXCEPT !.name_len = Len(name), !.data = Put(@, 0, name)]
      /\ named' = name /\ valued' = NoValue
  BY DEF SetRegisterNameStr
<1>5. /\ IsRegister(mine') /\ mine'.name_len = Len(name) /\ Get(mine'.data, 0, Len(name)) = name
  BY <1>2, <1>3, <1>4, NameSet
<1>6. NoValue \in Values /\ NoValue.kind = "none"
  BY DEF Values, NoValue
<1>7. Holds(mine', named', valued')
  BY <1>2, <1>4, <1>5, <1>6 DEF Holds
<1> QED BY <1>1, <1>7 DEF SetRegisterNameStr, CodecInv, packetVars

(* A value of either kind.                                                 *)
LEMMA ValueKeepsCodec ==
    ASSUME CodecInv, Set, NEW value \in Values, value.kind # "none",
           mine.name_len + Len(Bytes(value)) <= ARRAY_SIZE, SetValue(Bytes(value)),
           valued' = value, UNCHANGED <<theirs, packetVars, named, arrived>>
    PROVE  CodecInv'
<1> DEFINE bytes == Bytes(value)
<1>1. sets' \in 0..MaxSets
  BY CountedSet
<1>2. IsRegister(mine) /\ named \in Names /\ mine.name_len = Len(named)
      /\ Get(mine.data, 0, Len(named)) = named
  BY DEF CodecInv, Holds
<1>3. bytes \in Buffers
  BY ValueBytes
<1>4. mine' = [mine EXCEPT !.data_len = Len(bytes), !.data = Put(@, mine.name_len, bytes)]
  BY DEF SetValue
<1> HIDE DEF bytes
<1>5. mine.name_len + Len(bytes) <= ARRAY_SIZE
  BY DEF bytes
<1>6. /\ IsRegister(mine') /\ mine'.name_len = mine.name_len /\ mine'.data_len = Len(bytes)
      /\ Get(mine'.data, 0, mine.name_len) = Get(mine.data, 0, mine.name_len)
      /\ Get(mine'.data, mine.name_len, Len(bytes)) = bytes
  <2>1. \A new : new = [mine EXCEPT !.data_len = Len(bytes), !.data = Put(@, mine.name_len, bytes)]
            => /\ IsRegister(new) /\ new.name_len = mine.name_len /\ new.data_len = Len(bytes)
               /\ Get(new.data, 0, mine.name_len) = Get(mine.data, 0, mine.name_len)
               /\ Get(new.data, mine.name_len, Len(bytes)) = bytes
    <3>1. IsRegister(mine)
      BY <1>2
    <3> QED BY <1>3, <1>5, <3>1, ValueSet
  <2> QED BY <1>4, <2>1
<1>7. HasBytes(mine', value)
  BY <1>5, <1>6 DEF HasBytes, bytes
<1>8. Holds(mine', named, value)
  BY <1>2, <1>6, <1>7 DEF Holds
<1> QED BY <1>1, <1>8 DEF CodecInv, packetVars

LEMMA StringKeepsCodec ==
    ASSUME CodecInv, NEW s \in Strings, SetRegisterValueStr(s)
    PROVE  CodecInv'
<1> DEFINE value == StringValue(s)
<1>1. value \in Values /\ value.kind = "string" /\ Bytes(value) = Append(s, 0)
  BY DEF Values, StringValue, Bytes
<1>2. s \in Chars
  BY StringBytes DEF Chars
<1>3. Len(Append(s, 0)) = Len(s) + 1 /\ Len(s) \in Nat
  BY <1>2, TextOfTerminated, LenProperties DEF Chars
<1>4. mine.name_len \in Nat /\ ARRAY_SIZE \in Nat
  BY RegisterFields DEF CodecInv, Holds
<1>5. mine.name_len + Len(Append(s, 0)) <= ARRAY_SIZE
  <2>1. Len(s) <= ARRAY_SIZE - mine.name_len - 1
    BY DEF SetRegisterValueStr, HasRoom
  <2> QED BY <1>3, <1>4, <2>1
<1>6. /\ Set /\ SetValue(Append(s, 0)) /\ valued' = value
      /\ UNCHANGED <<theirs, packetVars, named, arrived>>
  BY DEF SetRegisterValueStr
<1> HIDE DEF value
<1> QED BY <1>1, <1>5, <1>6, ValueKeepsCodec

LEMMA NumberKeepsCodec ==
    ASSUME CodecInv, NEW v \in Numbers, SetRegisterValueU32(v)
    PROVE  CodecInv'
<1> DEFINE value == NumberValue(v)
<1>1. value \in Values /\ value.kind = "number" /\ Bytes(value) = NumberBytes(v)
  BY DEF Values, NumberValue, Bytes
<1>2. mine.name_len \in Nat /\ ARRAY_SIZE \in Nat
  BY RegisterFields DEF CodecInv, Holds
<1>3. mine.name_len + Len(NumberBytes(v)) <= ARRAY_SIZE
  <2>1. 4 <= ARRAY_SIZE - mine.name_len
    BY DEF SetRegisterValueU32
  <2>2. Len(NumberBytes(v)) = 4
    BY BytesOfNumber
  <2> QED BY <1>2, <2>1, <2>2
<1>4. /\ Set /\ SetValue(NumberBytes(v)) /\ valued' = value
      /\ UNCHANGED <<theirs, packetVars, named, arrived>>
  BY DEF SetRegisterValueU32
<1> HIDE DEF value
<1> QED BY <1>1, <1>3, <1>4, ValueKeepsCodec

-----------------------------------------------------------------------------
(* The library's steps.                                                    *)

LEMMA MineFields ==
    ASSUME CodecInv
    PROVE  /\ IsRegister(mine) /\ named \in Names /\ valued \in Values
           /\ mine.name_len = Len(named) /\ Get(mine.data, 0, mine.name_len) = named
           /\ valued.kind # "none" => HasBytes(mine, valued)
           /\ NoValue \in Values /\ NoValue.kind = "none"
BY DEF CodecInv, Holds, Values, NoValue

LEMMA PackedKeepsCodec ==
    ASSUME CodecInv, NEW type \in PacketTypes, NEW p, NEW told, Packed(type, p, told),
           Carries(type, p, told)
    PROVE  CodecInv'
BY DEF CodecInv, Packed

LEMMA SendNameKeepsCodec ==
    ASSUME CodecInv, SendName
    PROVE  CodecInv'
<1> DEFINE p == Written(mine, FALSE)
           told == Told(named, NoValue, 0)
<1>1. told.name = named /\ told.value = NoValue
  BY DEF Told
<1>2. /\ IsPacket(p) /\ p[1] = mine.name_len
      /\ Get(p, 1, mine.name_len) = Get(mine.data, 0, mine.name_len)
  BY MineFields, WrittenName
<1>3. mine.name_len <= ARRAY_SIZE
  BY MineFields, RegisterFields
<1>4. Packed("GET_REGISTER", p, told)
  BY DEF SendName
<1> HIDE DEF p, told
<1>5. Carries("GET_REGISTER", p, told)
  BY <1>1, <1>2, <1>3, MineFields DEF Carries
<1>6. "GET_REGISTER" \in PacketTypes
  BY DEF PacketTypes
<1> QED BY <1>4, <1>5, <1>6, PackedKeepsCodec

LEMMA SendValueKeepsCodec ==
    ASSUME CodecInv, SendValue
    PROVE  CodecInv'
<1> DEFINE p == Written(mine, TRUE)
           told == Told(named, valued, 0)
           n == mine.name_len
           k == mine.data_len
<1>1. told.name = named /\ told.value = valued
  BY DEF Told
<1>2. n \in Nat /\ k \in Nat /\ n <= ARRAY_SIZE /\ n + k \in 2..ARRAY_SIZE /\ n + k <= ARRAY_SIZE
  <2>1. n \in 0..ARRAY_SIZE /\ k \in 0..ARRAY_SIZE /\ ARRAY_SIZE \in Nat
    BY MineFields, RegisterFields
  <2>2. n + k \in 1..ARRAY_SIZE /\ n + k >= 2
    BY DEF SendValue, Sendable
  <2> QED BY <2>1, <2>2
<1>3. /\ IsPacket(p) /\ p[1] = n /\ Get(p, 1, n) = Get(mine.data, 0, n)
      /\ p[n + 2] = k /\ Get(p, n + 2, k) = Get(mine.data, n, k)
  BY <1>2, MineFields, WrittenValue
<1>4. Packed("SET_REGISTER", p, told)
  BY DEF SendValue
<1> HIDE DEF p, told
<1>5. valued.kind # "none" =>
          k = Len(Bytes(valued)) /\ Get(mine.data, n, k) = Bytes(valued)
  BY MineFields DEF HasBytes
<1>6. ValueLength(p) = k
  BY <1>3 DEF ValueLength
<1>7. Carries("SET_REGISTER", p, told)
  <2> HIDE DEF n, k
  <2>1. named = Get(mine.data, 0, n) /\ Len(named) = n
    BY MineFields DEF n
  <2>2. named \in Names /\ valued \in Values
    BY MineFields
  <2> QED BY <1>1, <1>2, <1>3, <1>5, <1>6, <2>1, <2>2 DEF Carries
<1>8. "SET_REGISTER" \in PacketTypes
  BY DEF PacketTypes
<1> QED BY <1>4, <1>7, <1>8, PackedKeepsCodec

(* The index goes behind the name, which it leaves alone.                  *)
LEMMA IndexWritten ==
    ASSUME NEW q, IsPacket(q), q[1] \in 0..ARRAY_SIZE, NEW i \in Byte,
           NEW p, p = WithIndex(q, i)
    PROVE  /\ IsPacket(p) /\ p[1] = q[1] /\ Get(p, 1, p[1]) = Get(q, 1, q[1])
           /\ p[p[1] + 2] = i
<1> DEFINE n == q[1]
<1>1. /\ q \in Buffers /\ Len(q) = ARRAY_SIZE + 2 /\ ARRAY_SIZE \in Nat
      /\ PAYLOAD_SIZE = ARRAY_SIZE + 2 /\ n \in Nat /\ n <= ARRAY_SIZE
  <2>1. q \in Buffers /\ Len(q) = ARRAY_SIZE + 2 /\ ARRAY_SIZE \in Nat
    BY PacketLength
  <2>2. PAYLOAD_SIZE = ARRAY_SIZE + 2
    BY DEF PAYLOAD_SIZE
  <2> QED BY <2>1, <2>2
<1>2. p = [q EXCEPT ![n + 1 + 1] = i]
  BY DEF WithIndex, BehindName
<1> HIDE DEF n
<1>3. n + 1 + 1 = n + 2 /\ n + 2 \in 1..Len(q) /\ n + 2 # 1 /\ 1 \in 1..Len(q)
  BY <1>1
<1>4. /\ p \in Buffers /\ Len(p) = Len(q)
      /\ \A j \in 1..Len(q) : p[j] = IF j = n + 2 THEN i ELSE q[j]
  <2> DEFINE at == n + 2
  <2>1. p = [q EXCEPT ![at] = i] /\ at \in 1..Len(q)
    BY <1>2, <1>3
  <2> HIDE DEF at
  <2>2. /\ p \in Buffers /\ Len(p) = Len(q)
        /\ \A j \in 1..Len(q) : p[j] = IF j = at THEN i ELSE q[j]
    BY <1>1, <2>1, ExceptSeq DEF Buffers
  <2> QED BY <2>2 DEF at
<1>5. p[1] = n
  BY <1>3, <1>4 DEF n
<1>6. p[n + 2] = i
  BY <1>3, <1>4
<1>7. Get(p, 1, n) = Get(q, 1, n)
  <2> DEFINE at == 1
             name == Get(q, at, n)
  <2>1. n \in Nat /\ at \in Nat /\ at + n <= Len(q)
    BY <1>1
  <2>2. p \in Buffers /\ at + n <= Len(p)
    BY <1>4, <2>1
  <2>3. name \in Buffers /\ Len(name) = n /\ \A j \in 1..n : name[j] = q[at + j]
    <3> HIDE DEF at
    <3> QED BY <1>1, <2>1, GetPart
  <2>4. \A j \in 1..n : at + j \in 1..Len(q) /\ at + j # n + 2
    BY <1>1
  <2> HIDE DEF at, name
  <2>5. \A j \in 1..n : p[at + j] = name[j]
    BY <1>4, <2>3, <2>4
  <2>6. Get(p, at, n) = name
    BY <2>1, <2>2, <2>3, <2>5, PartIs
  <2> QED BY <2>6 DEF at, name
<1>8. IsPacket(p)
  BY <1>1, <1>4 DEF IsPacket
<1> QED BY <1>5, <1>6, <1>7, <1>8 DEF n

LEMMA SendIndexKeepsCodec ==
    ASSUME CodecInv, NEW i \in Indexes, SendIndex(i)
    PROVE  CodecInv'
<1>1. i \in Byte /\ "REGISTER_NAME" \in PacketTypes
  BY IndexBytes DEF PacketTypes
<1>2. CASE Sendable(mine, FALSE)
  <2> DEFINE q == Written(mine, FALSE)
             p == WithIndex(q, i)
             told == Told(named, NoValue, i)
  <2>1. told.name = named /\ told.value = NoValue /\ told.index = i
    BY DEF Told
  <2>2. /\ IsPacket(q) /\ q[1] = mine.name_len
        /\ Get(q, 1, mine.name_len) = Get(mine.data, 0, mine.name_len)
    BY MineFields, WrittenName
  <2>3. Packed("REGISTER_NAME", p, told)
    BY <1>2 DEF SendIndex
  <2> HIDE DEF q, told
  <2>4. q[1] \in 0..ARRAY_SIZE /\ q[1] <= ARRAY_SIZE
    BY <2>2, MineFields, RegisterFields
  <2>5. /\ IsPacket(p) /\ p[1] = q[1] /\ Get(p, 1, p[1]) = Get(q, 1, q[1]) /\ p[p[1] + 2] = i
    BY <1>1, <2>2, <2>4, IndexWritten
  <2> HIDE DEF p
  <2>6. Carries("REGISTER_NAME", p, told)
    BY <2>1, <2>2, <2>4, <2>5, MineFields DEF Carries
  <2> QED BY <1>1, <2>3, <2>6, PackedKeepsCodec
<1>3. CASE ~Sendable(mine, FALSE)
  <2> DEFINE q == Zeros(PAYLOAD_SIZE)
             p == WithIndex(q, i)
             told == Told(<<>>, NoValue, i)
  <2>1. told.name = <<>> /\ told.value = NoValue /\ told.index = i
    BY DEF Told
  <2>2. IsPacket(q)
    BY ZerosPacket DEF IsPacket
  <2>3. q[1] = 0
    <3>1. 1 \in 1..PAYLOAD_SIZE
      BY SizeByte DEF PAYLOAD_SIZE, Byte
    <3> QED BY <3>1, ZerosPacket
  <2>4. Packed("REGISTER_NAME", p, told)
    BY <1>3 DEF SendIndex
  <2> HIDE DEF q, told
  <2>5. q[1] \in 0..ARRAY_SIZE
    BY <2>3, ZerosPacket
  <2>6. /\ IsPacket(p) /\ p[1] = q[1] /\ p[p[1] + 2] = i
    BY <1>1, <2>2, <2>5, IndexWritten
  <2> HIDE DEF p
  <2>7. Carries("REGISTER_NAME", p, told)
    BY <2>1, <2>3, <2>6, ZerosCarry
  <2> QED BY <1>1, <2>4, <2>7, PackedKeepsCodec
<1> QED BY <1>2, <1>3

(* What a packet carries, the register holds that it is read into.         *)
LEMMA ReadKeepsCodec ==
    ASSUME CodecInv, PacketToRegister
    PROVE  CodecInv'
<1> DEFINE n == packet[1]
           told == packetHas
<1>1. /\ IsRegister(theirs) /\ IsPacket(packet) /\ Carries(packet_type, packet, told)
      /\ packet_type \in PacketTypes
  BY DEF CodecInv, Holds, Carries
<1>2. n \in 1..ARRAY_SIZE /\ arrived' = told
  BY DEF PacketToRegister, Readable
<1>3. /\ told.name \in Names /\ told.value \in Values /\ n = Len(told.name)
      /\ Get(packet, 1, n) = told.name
  BY <1>1 DEF Carries
<1>4. CASE packet_type = "SET_REGISTER"
  <2> DEFINE k == ValueLength(packet)
  <2>1. theirs' = Read(theirs, packet, TRUE)
    BY <1>4 DEF PacketToRegister, HasValue
  <2>2. k = packet[packet[1] + 2] /\ n + k \in 2..ARRAY_SIZE
    BY <1>1, <1>4 DEF Carries, ValueLength
  <2>3. k \in Nat
    <3>1. packet \in Seq(Byte) /\ Len(packet) = ARRAY_SIZE + 2 /\ ARRAY_SIZE \in Nat
      BY <1>1, PacketLength DEF Buffers
    <3>2. n + 2 \in 1..Len(packet)
      BY <1>2, <3>1
    <3>3. packet[n + 2] \in Byte
      BY <3>1, <3>2, ElementOfSeq
    <3> QED BY <2>2, <3>3 DEF Byte
  <2>4. told.value.kind # "none" =>
            k = Len(Bytes(told.value)) /\ Get(packet, n + 2, k) = Bytes(told.value)
    BY <1>1 DEF Carries
  <2> HIDE DEF k
  <2>5. n + k <= ARRAY_SIZE
    BY <2>2
  <2>6. /\ IsRegister(theirs') /\ theirs'.name_len = n /\ theirs'.data_len = k
        /\ Get(theirs'.data, 0, n) = Get(packet, 1, n)
        /\ Get(theirs'.data, n, k) = Get(packet, n + 2, k)
    <3> DEFINE at == n + 2
               new == Read(theirs, packet, TRUE)
    <3>1. IsRegister(theirs) /\ IsPacket(packet)
      BY <1>1
    <3>2. n \in 1..ARRAY_SIZE /\ k \in Nat /\ n = packet[1] /\ at = n + 2
      BY <1>2, <2>3
    <3>3. k = packet[at] /\ n + k <= ARRAY_SIZE
      BY <2>2, <2>5
    <3> HIDE DEF n, at
    <3>4. HasRead(new, packet, n, k)
      BY <3>1, <3>2, <3>3, ReadValue
    <3> QED BY <2>1, <3>4 DEF HasRead
  <2>7. told.value.kind # "none" => HasBytes(theirs', told.value)
    BY <2>4, <2>5, <2>6 DEF HasBytes
  <2>8. Holds(theirs', told.name, told.value)
    BY <1>3, <2>6, <2>7 DEF Holds
  <2> QED BY <1>2, <2>8 DEF PacketToRegister, CodecInv, packetVars
<1>5. CASE packet_type # "SET_REGISTER"
  <2>1. theirs' = Read(theirs, packet, FALSE)
    BY <1>5 DEF PacketToRegister, HasValue
  <2>2. /\ IsRegister(theirs') /\ theirs'.name_len = n
        /\ Get(theirs'.data, 0, n) = Get(packet, 1, n)
    <3>1. \A new : new = Read(theirs, packet, FALSE) =>
              /\ IsRegister(new) /\ new.name_len = n
              /\ Get(new.data, 0, n) = Get(packet, 1, n)
      BY <1>1, <1>2, ReadName
    <3> QED BY <2>1, <3>1
  <2>3. told.value.kind = "none"
    BY <1>1, <1>5 DEF Carries, NoValue
  <2>4. Holds(theirs', told.name, told.value)
    BY <1>3, <2>2, <2>3 DEF Holds
  <2> QED BY <1>2, <2>4 DEF PacketToRegister, CodecInv, packetVars
<1> QED BY <1>4, <1>5

LEMMA CopyKeepsCodec == CodecInv /\ RegisterCopy => CodecInv'
<1>1. CodecInv /\ RegisterCopy => sets' \in 0..MaxSets
  BY CountedSet DEF RegisterCopy
<1> QED BY <1>1 DEF RegisterCopy, CodecInv, packetVars

(* CodecInv: at every step, both registers hold and the packet carries what  *)
(* was last put into them, whatever they had before.                         *)
THEOREM CodecInvariant == Spec => []CodecInv
<1>1. CodecInv /\ [Next]_vars => CodecInv'
  <2> SUFFICES ASSUME CodecInv, [Next]_vars
               PROVE  CodecInv'
    OBVIOUS
  <2>1. CASE UNCHANGED vars
    BY <2>1 DEF vars, packetVars, CodecInv
  <2>2. CASE Next
    BY <2>2, NameKeepsCodec, StringKeepsCodec, NumberKeepsCodec, SendNameKeepsCodec,
       SendValueKeepsCodec, SendIndexKeepsCodec, ReadKeepsCodec, CopyKeepsCodec DEF Next
  <2> QED BY <2>1, <2>2
<1> QED BY <1>1, CodecInit, PTL DEF Spec

(* TypeOK: no buffer and no packet is written past its end.                *)
THEOREM TypeCorrect == Spec => []TypeOK
<1>1. CodecInv => TypeOK
  BY DEF CodecInv, TypeOK, Holds, Carries, IsRegister, IsPacket, Buffers
<1> QED BY <1>1, CodecInvariant, PTL

-----------------------------------------------------------------------------
(* What a register that holds a name and a value says.                     *)

LEMMA HeldName ==
    ASSUME NEW reg, NEW name, NEW value, Holds(reg, name, value)
    PROVE  GetRegisterNameStr(reg) = name /\ name \in Chars /\ reg.name_len = Len(name)
<1>1. name \in Chars /\ reg.name_len = Len(name) /\ Get(reg.data, 0, reg.name_len) = name
  BY NameBytes DEF Holds
<1> QED BY <1>1, TextOfWhole DEF GetRegisterNameStr

LEMMA HeldSays ==
    ASSUME NEW reg, NEW told, Holds(reg, told.name, told.value)
    PROVE  Says(reg, told)
<1> DEFINE value == told.value
<1>1. value \in Values /\ (value.kind # "none" => HasBytes(reg, value))
  BY DEF Holds
<1>2. GetRegisterNameStr(reg) = told.name
  BY HeldName
<1>3. CASE value.kind = "none"
  BY <1>2, <1>3 DEF Says
<1>4. CASE value.kind = "string"
  <2>1. /\ value.string \in Chars /\ Bytes(value) = Append(value.string, 0)
        /\ Get(reg.data, reg.name_len, reg.data_len) = Bytes(value)
    BY <1>1, <1>4, ValueKinds DEF HasBytes
  <2>2. GetRegisterValueStr(reg) = value.string
    BY <2>1, TextOfTerminated DEF GetRegisterValueStr
  <2> QED BY <1>2, <1>4, <2>2 DEF Says
<1>5. CASE value.kind = "number"
  <2>1. /\ value.number \in Numbers /\ Bytes(value) = NumberBytes(value.number)
        /\ reg.data_len = Len(Bytes(value))
        /\ Get(reg.data, reg.name_len, reg.data_len) = Bytes(value)
    BY <1>1, <1>5, ValueKinds DEF HasBytes
  <2>2. reg.data_len = 4
    BY <2>1, BytesOfNumber
  <2>3. GetRegisterValueU32(reg) = value.number
    <3> DEFINE b == NumberBytes(value.number)
    <3>1. Get(reg.data, reg.name_len, reg.data_len) = b
      BY <2>1
    <3>2. b[1] * 16777216 + b[2] * 65536 + b[3] * 256 + b[4] = value.number
      BY <2>1, BytesOfNumber
    <3> HIDE DEF b
    <3> QED BY <2>2, <3>1, <3>2 DEF GetRegisterValueU32
  <2> QED BY <1>2, <1>5, <2>3 DEF Says
<1> QED BY <1>1, <1>3, <1>4, <1>5, ValueKinds

(* A packet with a name can be read, is known by that name, and has the    *)
(* index that was put into it.                                             *)
LEMMA CarriedIsTaken ==
    ASSUME CodecInv
    PROVE  SentIsTaken
<1> DEFINE n == packet[1]
<1>1. Carries(packet_type, packet, packetHas) /\ Holds(theirs, arrived.name, arrived.value)
  BY DEF CodecInv
<1>2. /\ IsPacket(packet) /\ n = Len(packetHas.name) /\ n <= ARRAY_SIZE
      /\ packetHas.name \in Names /\ Get(packet, 1, n) = packetHas.name
  BY <1>1 DEF Carries
<1>3. ARRAY_SIZE \in Nat /\ n \in Nat /\ n + 1 + 1 = n + 2 /\ (packetHas.name # <<>> => n > 0)
  BY <1>2, NameBytes, PacketLength
<1>4. BehindName(packet) + 1 = n + 2
  BY <1>3 DEF BehindName
<1>5. ASSUME packetHas.name # <<>>
      PROVE  Readable(packet, HasValue(packet_type))
  <2>1. n \in 1..ARRAY_SIZE
    BY <1>2, <1>3, <1>5
  <2>2. packet_type = "SET_REGISTER" => n + packet[BehindName(packet) + 1] \in 2..ARRAY_SIZE
    BY <1>1, <1>4 DEF Carries, ValueLength
  <2> QED BY <2>1, <2>2 DEF Readable, HasValue
<1>6. ASSUME GetRegisterNameStr(theirs) = packetHas.name
      PROVE  CmpPacketRegister(packet, theirs, FALSE)
  <2>1. arrived.name = packetHas.name /\ theirs.name_len = n
    BY <1>1, <1>2, <1>6, HeldName
  <2>2. IsRegister(theirs) /\ Get(theirs.data, 0, n) = packetHas.name
    BY <1>1, <1>2, <2>1 DEF Holds
  <2>3. /\ theirs.data \in Buffers /\ 0 + n <= Len(theirs.data) /\ 0 \in Nat
    <3>1. theirs.data \in Buffers /\ Len(theirs.data) = ARRAY_SIZE
      BY <2>2, RegisterFields
    <3> QED BY <1>2, <1>3, <3>1
  <2>4. \A i \in 1..n : packetHas.name[i] = theirs.data[i]
    <3>1. \A i \in 1..n : Get(theirs.data, 0, n)[i] = theirs.data[0 + i]
      BY <1>3, <2>3, GetPart
    <3>2. \A i \in 1..n : 0 + i = i
      BY <1>3
    <3> QED BY <2>2, <3>1, <3>2
  <2>5. DOMAIN packetHas.name = 1..n
    BY <1>2, NameBytes, LenProperties DEF Chars
  <2>6. SamePrefix(Get(packet, 1, n), theirs.data)
    BY <1>2, <2>4, <2>5 DEF SamePrefix
  <2> QED BY <2>1, <2>6 DEF CmpPacketRegister
<1>7. packet_type = "REGISTER_NAME" => GetRegisterIndex(packet) = packetHas.index
  BY <1>1, <1>4 DEF Carries, GetRegisterIndex
<1> QED BY <1>5, <1>6, <1>7 DEF SentIsTaken

(* ArrivesAsMeant: what one node puts into a register, another gets out of *)
(* it, for buffers of any size and whatever was in them before.            *)
THEOREM ArrivesAsMeantHolds == Spec => []ArrivesAsMeant
<1>1. CodecInv => ArrivesAsMeant
  BY CarriedIsTaken, HeldSays DEF CodecInv, ArrivesAsMeant
<1> QED BY <1>1, CodecInvariant, PTL
=============================================================================
