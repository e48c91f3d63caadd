----------------------------- MODULE SerialHost -----------------------------
(***************************************************************************)
(* The sketch of the serial mesh interface (src/atmega_a7105.ino): one     *)
(* node, the host at its serial line, and the broadcasts of other nodes.   *)
(*                                                                         *)
(* The host types the lines of one of the Scripts, each when the one       *)
(* before is read to its end.  A line is a sequence of fields; the sketch  *)
(* reads a field at a time, and while it waits for a character it lets     *)
(* A7105_Mesh_Update run.  So a broadcast may be received between any two  *)
(* fields, and it goes into REG_BUFFER, where the sketch also puts the     *)
(* register a command is about.                                            *)
(*                                                                         *)
(* What a blocking operation does is in MeshRequests and RequestClocks;    *)
(* here it comes to an end, with an answer, or without one when its time   *)
(* is over, and its clock is restarted by each packet about the node's id. *)
(* Echoing characters back is left out, and so is                          *)
(* BROADCAST_CACHE_OVERFLOW, which is counted and never read.  Fields are  *)
(* tokens, and so are the texts that stand for register values: a number   *)
(* as it is written, bytes as their hex digits.  That a BINARY value may   *)
(* have more bytes than a register has room for is not looked at.          *)
(***************************************************************************)
EXTENDS Integers, Sequences, FiniteSets

CONSTANTS
    Length,         \* for each field, how many characters it has
    Hex,            \* the bytes ascii_hex_2_bin makes of its characters
    Atol,           \* the number atol makes of it
    Scripts,        \* sequences of lines the host types
    Broadcasts,     \* registers other nodes may broadcast, with their values
    NodeIds,        \* ids of other nodes that may be on the mesh
    MaxRegisters,   \* how many registers they may have (a bound of the model)
    MaxConflicts,   \* packets about the node's id (a bound of the model)
    ConflictsEnd,   \* do they end?
    MAX_BROADCAST_CACHE_SIZE,   \* 4 registers
    ASCII_BUFFER_SIZE,          \* 64 characters
    REGISTER_ARRAY_SIZE         \* A7105_MESH_MAX_REGISTER_ARRAY_SIZE: 57 bytes

Fields == DOMAIN Length

\* Two digits are a byte, and a character that is no digit is taken for one.
ASSUME LengthNat == Length \in [Fields -> Nat]
ASSUME EmptyField == "" \in Fields
ASSUME HexFields ==
    Hex \in [Fields -> Fields] /\ \A field \in Fields : Length[Hex[field]] = Length[field]
ASSUME AtolFields == Atol \in [Fields -> Fields]
ASSUME CacheSizeNat == MAX_BROADCAST_CACHE_SIZE \in Nat \ {0}
ASSUME NodeIdBytes == NodeIds \subseteq 1..255
ASSUME MaxRegistersNat == MaxRegisters \in Nat
ASSUME ArraySizeNat == REGISTER_ARRAY_SIZE \in Nat
ASSUME ConflictsNat == MaxConflicts \in Nat /\ ConflictsEnd \in BOOLEAN

Formats == {"STRING", "BINARY", "UINT32"}

\* What the bytes of a register's value are, as a text of that format.
Values == [format : Formats, text : Fields]

ASSUME BroadcastsFields == Broadcasts \subseteq [name : Fields, value : Values]

VARIABLES
    script,         \* lines the host has still to type
    input,          \* fields on the serial line, not read yet
    pc,             \* what the sketch is about to do
    command,        \* the register command it is carrying out
    format,         \* expected_format of that command
    HOST_LISTENING,
    ECHO,           \* are the characters sent back? (of no consequence here)
    REG_BUFFER,
    BROADCAST_CACHE, BROADCAST_CACHE_START, BROADCAST_CACHE_END, BROADCAST_CACHE_SIZE,
    state,          \* RADIO.state
    presence_table, \* RADIO.presence_table, as the set of ids in it
    listing,        \* the local variables of list_registers
    printed,        \* the last line sent to the host
    due,            \* has the operation the sketch waits for had its time?
    conflicts,      \* packets about the node's id so far
    answers,        \* history: lines sent since the host typed one: 2 is several
    typed,          \* history: the name and the value the host typed in the command
    disturbed,      \* history: did a broadcast come, or the host pause, since then?
    requested,      \* history: the last register request or broadcast sent
    received,       \* history: broadcasts received since the last RESET
    pending,        \* history: those the host should be told of at the next LISTEN
    dumped          \* history: has the host been shown any of the ring since then?

ringVars == <<BROADCAST_CACHE, BROADCAST_CACHE_START, BROADCAST_CACHE_END,
              BROADCAST_CACHE_SIZE, pending, dumped>>
outVars == <<printed, answers>>
readVars == <<command, format, typed, ECHO>>
radioVars == <<state, presence_table, requested>>
hostVars == <<script, input>>
sketchVars == <<hostVars, pc, readVars, HOST_LISTENING, REG_BUFFER, ringVars, radioVars,
                listing, outVars, disturbed, received>>
clockVars == <<due, conflicts>>
vars == <<sketchVars, clockVars>>

Operations == {"PING", "GET_REGISTER", "SET_REGISTER"}

RegisterCommands == {"GET_REGISTER", "SET_REGISTER", "VALUE_BROADCAST"}

Slots == 0..(MAX_BROADCAST_CACHE_SIZE - 1)

Value(fmt, text) == [format |-> fmt, text |-> text]

Register(name, value) == [name |-> name, value |-> value]

\* Both of its lengths are zero.
NoValue == Value("BINARY", "")
Blank == Register("", NoValue)

\* The slots of the ring that are waiting for the host.
Waiting == {(BROADCAST_CACHE_START + i) % MAX_BROADCAST_CACHE_SIZE :
            i \in 0..(BROADCAST_CACHE_SIZE - 1)}

NoListing == [node |-> 0, index |-> 0, registers |-> 0, errors |-> 0,
              incomplete |-> FALSE, failed |-> {}, visited |-> {}]

Line(kind, name, value) == [kind |-> kind, name |-> name, value |-> value]

Error == Line("ERROR", "", NoValue)

\* The sketch prints a line that answers the host.
Answer(line) ==
    /\ printed' = line
    /\ answers' = IF answers < 2 THEN answers + 1 ELSE answers

\* A broadcast for a listening host is no answer.
Show(reg) ==
    /\ printed' = Line("REGISTER_VALUE", reg.name, reg.value)
    /\ UNCHANGED answers

Init ==
    /\ script \in Scripts
    /\ input = <<>>
    /\ pc = "command"
    /\ command = "GET_REGISTER"
    /\ format = "STRING"
    /\ HOST_LISTENING = FALSE
    /\ ECHO = FALSE
    /\ REG_BUFFER = Blank
    /\ BROADCAST_CACHE = [x \in Slots |-> Blank]
    /\ BROADCAST_CACHE_START = 0
    /\ BROADCAST_CACHE_END = 0
    /\ BROADCAST_CACHE_SIZE = 0
    /\ state = "NOT_JOINED"
    /\ presence_table = {}
    /\ listing = NoListing
    /\ printed = Line("INIT", "", NoValue)
    /\ answers = 1
    /\ due = FALSE
    /\ conflicts = 0
    /\ typed = [name |-> "", text |-> ""]
    /\ disturbed = FALSE
    /\ requested = Blank
    /\ received = {}
    /\ pending = {}
    /\ dumped = FALSE
-----------------------------------------------------------------------------
(* The host.                                                               *)

Type ==
    /\ script # <<>> /\ input = <<>> /\ pc = "command" /\ ~HOST_LISTENING
    /\ input' = Head(script)
    /\ script' = Tail(script)
    /\ answers' = 0
    /\ UNCHANGED <<pc, readVars, HOST_LISTENING, REG_BUFFER, ringVars, radioVars,
                   listing, printed, disturbed, received>>

\* Anything typed ends a LISTEN, also while the cache is being dumped.
TypeStop ==
    /\ HOST_LISTENING /\ input = <<>>
    /\ input' = <<"stop">>
    /\ answers' = 0
    /\ UNCHANGED <<script, pc, readVars, HOST_LISTENING, REG_BUFFER, ringVars,
                   radioVars, listing, printed, disturbed, received>>
-----------------------------------------------------------------------------
(* The ring of broadcasts.                                                 *)

\* broadcast_cache_init: the slots keep what they hold.
CacheInit ==
    /\ BROADCAST_CACHE_START' = 0
    /\ BROADCAST_CACHE_END' = 0
    /\ BROADCAST_CACHE_SIZE' = 0
    /\ pending' = {}
    /\ dumped' = FALSE
    /\ UNCHANGED BROADCAST_CACHE

\* Mutant: the name is not looked for.
SameName_Never(reg, x) == FALSE

\* A slot in which broadcast_cache_append looks for the name.  It counts from
\* slot 0, wherever the ring starts.
SameName(reg, x) == x < BROADCAST_CACHE_SIZE /\ BROADCAST_CACHE[x].name = reg.name

Newest(reg, old) == {r \in old : r.name # reg.name} \cup {reg}

\* The first slot of that name is given the new value.
UpdateSlot(reg) ==
    /\ \E x \in Slots :
           /\ SameName(reg, x)
           /\ \A y \in Slots : y < x => ~SameName(reg, y)
           /\ BROADCAST_CACHE' = [BROADCAST_CACHE EXCEPT ![x] = reg]
    /\ pending' = Newest(reg, pending)
    /\ UNCHANGED <<BROADCAST_CACHE_START, BROADCAST_CACHE_END, BROADCAST_CACHE_SIZE, dumped>>

Full == BROADCAST_CACHE_SIZE = MAX_BROADCAST_CACHE_SIZE

\* Mutant: the end of the ring is never moved on.
AppendSlot_EndKept(reg) ==
    /\ \A x \in Slots : ~SameName(reg, x)
    /\ BROADCAST_CACHE' = [BROADCAST_CACHE EXCEPT ![BROADCAST_CACHE_END] = reg]
    /\ BROADCAST_CACHE_SIZE' = IF Full THEN BROADCAST_CACHE_SIZE ELSE BROADCAST_CACHE_SIZE + 1
    /\ pending' = Newest(reg, pending \ (IF Full THEN {BROADCAST_CACHE[BROADCAST_CACHE_END]} ELSE {}))
    /\ UNCHANGED <<BROADCAST_CACHE_START, BROADCAST_CACHE_END, dumped>>

\* Mutant: the end of the ring runs over.
AppendSlot_NoWrap(reg) ==
    /\ \A x \in Slots : ~SameName(reg, x)
    /\ BROADCAST_CACHE' = [BROADCAST_CACHE EXCEPT ![BROADCAST_CACHE_END] = reg]
    /\ BROADCAST_CACHE_END' = BROADCAST_CACHE_END + 1
    /\ BROADCAST_CACHE_SIZE' = IF Full THEN BROADCAST_CACHE_SIZE ELSE BROADCAST_CACHE_SIZE + 1
    /\ pending' = Newest(reg, pending)
    /\ UNCHANGED <<BROADCAST_CACHE_START, dumped>>

\* Otherwise the slot at the end is.  In a full ring this is the oldest, which
\* is lost; the ring still starts where it did.
AppendSlot(reg) ==
    /\ \A x \in Slots : ~SameName(reg, x)
    /\ BROADCAST_CACHE' = [BROADCAST_CACHE EXCEPT ![BROADCAST_CACHE_END] = reg]
    /\ BROADCAST_CACHE_END' = (BROADCAST_CACHE_END + 1) % MAX_BROADCAST_CACHE_SIZE
    /\ BROADCAST_CACHE_SIZE' = IF Full THEN BROADCAST_CACHE_SIZE ELSE BROADCAST_CACHE_SIZE + 1
    /\ pending' = Newest(reg, pending \ (IF Full THEN {BROADCAST_CACHE[BROADCAST_CACHE_END]} ELSE {}))
    /\ UNCHANGED <<BROADCAST_CACHE_START, dumped>>

\* _A7105_Mesh_Handle_RegisterValue_Broadcast and value_broadcast_callback,
\* whenever A7105_Mesh_Update runs.  (The comparison with what the buffer holds
\* takes the name's bytes for the value's, and does not find them equal.)
ReceiveBroadcast(reg) ==
    /\ pc # "dump"
    /\ state \notin {"NOT_JOINED", "JOINING"}
    /\ REG_BUFFER' = reg
    /\ IF HOST_LISTENING
         THEN Show(reg) /\ UNCHANGED ringVars
         ELSE (UpdateSlot(reg) \/ AppendSlot(reg)) /\ UNCHANGED outVars
    /\ received' = received \cup {reg}
    /\ disturbed' = TRUE
    /\ UNCHANGED <<hostVars, pc, readVars, HOST_LISTENING, radioVars, listing>>
-----------------------------------------------------------------------------
(* Commands of one field.  What follows it on the line is the next command. *)

\* get_serial_cmd in the main loop.
Reads(field) ==
    /\ pc = "command" /\ ~HOST_LISTENING
    /\ input # <<>> /\ Head(input) = field
    /\ input' = Tail(input)
    /\ UNCHANGED <<script, readVars, disturbed>>

TooLong(field) == Length[field] >= ASCII_BUFFER_SIZE - 1

\* What fills the buffer is dropped up to the end of the line, as far as that
\* has come already.
UnknownCommand ==
    /\ pc = "command" /\ ~HOST_LISTENING /\ input # <<>>
    /\ Head(input) \notin RegisterCommands \cup
           {"ECHO", "JOIN", "RESET", "PING", "LISTEN", "LIST_REGISTERS"}
    /\ input' \in {Tail(input)} \cup (IF TooLong(Head(input)) THEN {<<>>} ELSE {})
    /\ IF Head(input) = "" THEN UNCHANGED outVars ELSE Answer(Error)
    /\ UNCHANGED <<script, pc, readVars, HOST_LISTENING, REG_BUFFER, ringVars,
                   radioVars, listing, disturbed, received>>

toggle_echo ==
    /\ pc = "command" /\ ~HOST_LISTENING
    /\ input # <<>> /\ Head(input) = "ECHO"
    /\ input' = Tail(input)
    /\ ECHO' = ~ECHO
    /\ Answer(Line("ECHO", "", NoValue))
    /\ UNCHANGED <<script, command, format, typed, disturbed, pc, HOST_LISTENING,
                   REG_BUFFER, ringVars, radioVars, listing, received>>

join_mesh ==
    /\ Reads("JOIN")
    /\ IF state # "NOT_JOINED"
         THEN Answer(Error) /\ UNCHANGED <<pc, state>>
         ELSE pc' = "join" /\ state' = "JOINING" /\ UNCHANGED outVars
    /\ UNCHANGED <<HOST_LISTENING, REG_BUFFER, ringVars, presence_table, requested,
                   listing, received>>

JoinFinished ==
    /\ pc = "join" /\ due
    /\ pc' = "command"
    /\ state' = "IDLE"
    /\ Answer(Line("JOINED", "", NoValue))
    /\ UNCHANGED <<hostVars, readVars, HOST_LISTENING, REG_BUFFER, ringVars,
                   presence_table, requested, listing, disturbed, received>>

\* RESET: A7105_Mesh_Initialize, and the ring is emptied.
init_radio_and_broadcast_cache ==
    /\ Reads("RESET")
    /\ state' = "NOT_JOINED"
    /\ presence_table' = {}
    /\ CacheInit
    /\ received' = {}
    /\ Answer(Line("INIT", "", NoValue))
    /\ UNCHANGED <<pc, HOST_LISTENING, REG_BUFFER, requested, listing>>

\* Both begin with a blocking PING, in which the ids that answer are collected.
ping_mesh(field, next) ==
    /\ Reads(field)
    /\ IF state # "IDLE"
         THEN Answer(Error) /\ UNCHANGED <<pc, state, presence_table>>
         ELSE /\ pc' = next
              /\ state' = "PING"
              /\ presence_table' = {}
              /\ UNCHANGED outVars
    /\ UNCHANGED <<HOST_LISTENING, REG_BUFFER, ringVars, requested, listing, received>>

PingFinished ==
    /\ pc = "ping" /\ due
    /\ pc' = "command"
    /\ state' = "IDLE"
    /\ presence_table' \in SUBSET NodeIds
    /\ Answer(Line("PING", "", NoValue))
    /\ UNCHANGED <<hostVars, readVars, HOST_LISTENING, REG_BUFFER, ringVars,
                   requested, listing, disturbed, received>>

start_listening ==
    /\ Reads("LISTEN")
    /\ IF state # "IDLE"
         THEN Answer(Error) /\ UNCHANGED <<pc, HOST_LISTENING>>
         ELSE /\ HOST_LISTENING' = TRUE
              /\ pc' = "dump"
              /\ Answer(Line("LISTEN", "", NoValue))
    /\ UNCHANGED <<REG_BUFFER, ringVars, radioVars, listing, received>>

\* dump_broadcast_cache shows a register at a time (broadcast_cache_pop) and
\* stops when the host types.
DumpNext ==
    /\ pc = "dump" /\ BROADCAST_CACHE_SIZE > 0
    /\ BROADCAST_CACHE_START' = (BROADCAST_CACHE_START + 1) % MAX_BROADCAST_CACHE_SIZE
    /\ BROADCAST_CACHE_SIZE' = BROADCAST_CACHE_SIZE - 1
    /\ Show(BROADCAST_CACHE[BROADCAST_CACHE_START])
    /\ pending' = pending \ {BROADCAST_CACHE[BROADCAST_CACHE_START]}
    /\ pc' = IF input # <<>> THEN "command" ELSE "dump"
    /\ dumped' = TRUE
    /\ UNCHANGED <<hostVars, readVars, HOST_LISTENING, REG_BUFFER, BROADCAST_CACHE,
                   BROADCAST_CACHE_END, radioVars, listing, disturbed, received>>

DumpFinished ==
    /\ pc = "dump" /\ BROADCAST_CACHE_SIZE = 0
    /\ pc' = "command"
    /\ UNCHANGED <<hostVars, readVars, HOST_LISTENING, REG_BUFFER, ringVars,
                   radioVars, listing, outVars, disturbed, received>>

\* The main loop, when a listening host has typed something.
StopListening ==
    /\ pc = "command" /\ HOST_LISTENING /\ input # <<>>
    /\ HOST_LISTENING' = FALSE
    /\ input' = <<>>
    /\ Answer(Line("READY", "", NoValue))
    /\ UNCHANGED <<script, pc, readVars, REG_BUFFER, ringVars, radioVars, listing,
                   disturbed, received>>
-----------------------------------------------------------------------------
(* Register commands: get_register, set_register, value_broadcast.         *)

RegisterCommand(field) ==
    /\ pc = "command" /\ ~HOST_LISTENING
    /\ input # <<>> /\ Head(input) = field
    /\ input' = Tail(input)
    /\ command' = field
    /\ pc' = "name"
    /\ disturbed' = FALSE
    /\ UNCHANGED <<script, format, typed, ECHO, HOST_LISTENING, REG_BUFFER, ringVars,
                   radioVars, listing, outVars, received>>

\* get_serial_cmd for a field of a command: the next field, or an empty one
\* when no character comes within SERIAL_READ_TIMEOUT.
ReadField(field) ==
    \/ /\ input # <<>> /\ field = Head(input)
       /\ input' \in {Tail(input)} \cup (IF TooLong(field) THEN {<<>>} ELSE {})
       /\ UNCHANGED disturbed
    \/ /\ field = ""
       /\ disturbed' = TRUE
       /\ UNCHANGED input

Refuse == pc' = "command" /\ Answer(Error)

\* Mutant: the name stays in ASCII_BUFFER, which the format overwrites.
SetRegisterName_Not(field) == REG_BUFFER' = REG_BUFFER

\* A7105_Mesh_Util_SetRegisterNameStr: a name that is too long changes nothing,
\* and the sketch does not ask.  The lengths and the bytes of the old value stay.
SetRegisterName(field) ==
    REG_BUFFER' = IF Length[field] > REGISTER_ARRAY_SIZE - 2
                    THEN REG_BUFFER ELSE [REG_BUFFER EXCEPT !.name = field]

ReadName(field) ==
    /\ pc = "name"
    /\ ReadField(field)
    /\ IF field = "" \/ TooLong(field)
         THEN Refuse /\ UNCHANGED REG_BUFFER
         ELSE pc' = "format" /\ SetRegisterName(field) /\ UNCHANGED outVars
    /\ typed' = [name |-> field, text |-> ""]
    /\ UNCHANGED <<script, command, format, ECHO, HOST_LISTENING, ringVars, radioVars,
                   listing, received>>

\* A string is stored with a null byte.
Bytes(value) ==
    CASE value.format = "STRING" -> Length[value.text] + 1
      [] value.format = "BINARY" -> Length[value.text] \div 2
      [] value.format = "UINT32" -> 4

HasRoom(reg) == Length[reg.name] + Bytes(reg.value) <= REGISTER_ARRAY_SIZE

\* The lengths a packet may have.  A GET_REGISTER carries the name alone, but the
\* value that is in the buffer still is counted.
Fits(reg) ==
    /\ HasRoom(reg)
    /\ Length[reg.name] + Bytes(reg.value) >= (IF command = "GET_REGISTER" THEN 1 ELSE 2)

\* A7105_Mesh_GetRegister or A7105_Mesh_SetRegister.  If the lengths do not fit,
\* the node is left in its new state although nothing was sent.
Request(reg) ==
    IF state # "IDLE"
      THEN Refuse /\ UNCHANGED radioVars
      ELSE /\ state' = command
           /\ UNCHANGED presence_table
           /\ IF Fits(reg)
                THEN pc' = "wait" /\ requested' = reg /\ UNCHANGED outVars
                ELSE Refuse /\ UNCHANGED requested

\* A7105_Mesh_Broadcast does not mind what else the node is doing.
SendBroadcast(reg) ==
    IF state \in {"NOT_JOINED", "JOINING"} \/ ~Fits(reg)
      THEN Refuse /\ UNCHANGED radioVars
      ELSE /\ pc' = "command"
           /\ requested' = reg
           /\ Answer(Line("READY", "", NoValue))
           /\ UNCHANGED <<state, presence_table>>

\* read_reg_format.  A GET_REGISTER is complete now.
ReadFormat(field) ==
    /\ pc = "format"
    /\ ReadField(field)
    /\ IF field \notin Formats THEN Refuse /\ UNCHANGED <<format, radioVars>>
       ELSE /\ format' = field
            /\ IF command = "GET_REGISTER" THEN Request(REG_BUFFER)
               ELSE pc' = "value" /\ UNCHANGED <<radioVars, outVars>>
    /\ UNCHANGED <<script, command, typed, ECHO, HOST_LISTENING, REG_BUFFER, ringVars,
                   listing, received>>

\* What is stored for the field: nobody looks whether it is made of hex digits,
\* or a number at all.
Converted(field) ==
    CASE format = "STRING" -> Value("STRING", field)
      [] format = "BINARY" -> Value("BINARY", Hex[field])
      [] format = "UINT32" -> Value("UINT32", Atol[field])

\* Pairs of hex digits are not counted; other values must fit.
ValueRefused(field) ==
    IF format = "BINARY" THEN Length[field] % 2 = 1
    ELSE ~HasRoom(Register(REG_BUFFER.name, Converted(field)))

ReadValue(field) ==
    LET reg == Register(REG_BUFFER.name, Converted(field))
    IN  /\ pc = "value"
        /\ ReadField(field)
        /\ typed' = [typed EXCEPT !.text = field]
        /\ IF ValueRefused(field) THEN Refuse /\ UNCHANGED <<REG_BUFFER, radioVars>>
           ELSE /\ REG_BUFFER' = reg
                /\ IF command = "SET_REGISTER" THEN Request(reg) ELSE SendBroadcast(reg)
        /\ UNCHANGED <<script, command, format, ECHO, HOST_LISTENING, ringVars, listing, received>>

AfterRequest ==
    /\ pc = "wait"
    /\ pc' = "command"
    /\ state' = "IDLE"
    /\ UNCHANGED <<hostVars, readVars, HOST_LISTENING, REG_BUFFER, ringVars,
                   presence_table, requested, listing, disturbed, received>>

\* The name of a register that was set is taken from REG_BUFFER, that of one
\* that was asked for from register_cache.
RequestAnswered ==
    /\ AfterRequest
    /\ \/ command = "GET_REGISTER" /\ Answer(Line("GET_REGISTER", requested.name, NoValue))
       \/ command = "SET_REGISTER" /\ Answer(Line("SET_REGISTER_ACK", REG_BUFFER.name, NoValue))

\* Mutant: a SET_REGISTER does not time out.
RequestFailed_NotSet ==
    /\ AfterRequest
    /\ command # "SET_REGISTER"
    /\ Answer(Error)

\* It times out, or the answer is an error or a value of another format.
RequestFailed ==
    /\ AfterRequest
    /\ Answer(Error)
-----------------------------------------------------------------------------
(* LIST_REGISTERS: how many registers each node has, and their names.      *)

\* Mutant: the id after the last one is passed over.
NextPresentNode_Skips(table, start) ==
    LET later == {x \in table : start + 1 < x /\ x < 255}
    IN  IF later = {} THEN 0 ELSE CHOOSE x \in later : \A y \in later : x <= y

\* A7105_Get_Next_Present_Node, which stops before 255.
NextPresentNode(table, start) ==
    LET later == {x \in table : start < x /\ x < 255}
    IN  IF later = {} THEN 0 ELSE CHOOSE x \in later : \A y \in later : x <= y

GoToNode(n) == [listing EXCEPT !.node = n, !.visited = IF n = 0 THEN @ ELSE @ \cup {n}]

ListPingFinished ==
    /\ pc = "list_ping" /\ due
    /\ pc' = "list_number"
    /\ state' = "IDLE"
    /\ presence_table' \in SUBSET NodeIds
    /\ LET first == NextPresentNode(presence_table', 0)
       IN  listing' = [NoListing EXCEPT !.node = first, !.visited = {first} \ {0}]
    /\ UNCHANGED <<hostVars, readVars, HOST_LISTENING, REG_BUFFER, ringVars,
                   requested, outVars, disturbed, received>>

ListStep ==
    UNCHANGED <<hostVars, readVars, HOST_LISTENING, REG_BUFFER, ringVars, radioVars,
                disturbed, received>>

ListNumber ==
    /\ pc = "list_number" /\ listing.node # 0
    /\ \/ /\ pc' = "list_name"
          /\ \E k \in 0..MaxRegisters :
                 listing' = [listing EXCEPT !.index = 0, !.registers = k, !.incomplete = FALSE]
       \/ /\ pc' = pc
          /\ listing' = [GoToNode(NextPresentNode(presence_table, listing.node)) EXCEPT
                             !.errors = (@ + 1) % 256, !.failed = @ \cup {listing.node}]
    /\ UNCHANGED outVars
    /\ ListStep

ListName ==
    /\ pc = "list_name" /\ listing.index < listing.registers
    /\ \/ listing' = [listing EXCEPT !.index = @ + 1]
       \/ listing' = [listing EXCEPT !.index = @ + 1, !.incomplete = TRUE,
                                     !.failed = @ \cup {listing.node}]
    /\ UNCHANGED <<pc, outVars>>
    /\ ListStep

\* Mutant: the flag is taken for the count.
ListNextNode_Counts ==
    /\ pc = "list_name" /\ listing.index = listing.registers
    /\ pc' = "list_number"
    /\ listing' = [GoToNode(NextPresentNode(presence_table, listing.node)) EXCEPT
                       !.errors = IF listing.incomplete THEN 1 ELSE @]
    /\ UNCHANGED outVars
    /\ ListStep

ListNextNode ==
    /\ pc = "list_name" /\ listing.index = listing.registers
    /\ pc' = "list_number"
    /\ listing' = [GoToNode(NextPresentNode(presence_table, listing.node)) EXCEPT
                       !.errors = IF listing.incomplete THEN (@ + 1) % 256 ELSE @]
    /\ UNCHANGED outVars
    /\ ListStep

ListFinished ==
    /\ pc = "list_number" /\ listing.node = 0
    /\ pc' = "command"
    /\ Answer(Line("LIST_REGISTERS", "", NoValue))
    /\ UNCHANGED listing
    /\ ListStep
-----------------------------------------------------------------------------
(* The mesh, whenever the sketch is not about to dump its ring.            *)

Between == pc \in {"command", "name", "format", "value"}

RadioStep ==
    UNCHANGED <<hostVars, pc, readVars, HOST_LISTENING, REG_BUFFER, ringVars,
                presence_table, requested, listing, outVars, disturbed, received>>

\* A request that was never sent times out too.
StalledRequestEnds ==
    /\ Between /\ state \in Operations
    /\ state' = "IDLE"
    /\ RadioStep

\* The sketch waits for an operation of the mesh to end.
Blocked ==
    \/ pc \in {"join", "ping", "list_ping", "wait"}
    \/ pc = "list_number" /\ listing.node # 0
    \/ pc = "list_name" /\ listing.index < listing.registers

TimePasses ==
    /\ Blocked /\ ~due
    /\ due' = TRUE
    /\ UNCHANGED <<conflicts, sketchVars>>

\* A packet about the node's id.  A node that is joining tries the next id; any
\* other sends a CONFLICT_NAME, as a request.  Both start the clock anew.
Conflict ==
    /\ Blocked
    /\ conflicts < MaxConflicts
    /\ conflicts' = IF ConflictsEnd THEN conflicts + 1 ELSE conflicts
    /\ due' = FALSE
    /\ UNCHANGED sketchVars

Read ==
    \/ UnknownCommand \/ toggle_echo \/ join_mesh \/ init_radio_and_broadcast_cache
    \/ ping_mesh("PING", "ping") \/ ping_mesh("LIST_REGISTERS", "list_ping")
    \/ start_listening
    \/ StopListening
    \/ \E field \in RegisterCommands : RegisterCommand(field)
    \/ \E field \in Fields : ReadName(field) \/ ReadFormat(field) \/ ReadValue(field)

List == ListNumber \/ ListName \/ ListNextNode \/ ListFinished

\* The operation is answered or its time is over; the next has its own clock.
Finish ==
    /\ \/ JoinFinished \/ PingFinished \/ ListPingFinished \/ RequestFailed
       \/ List \/ DumpNext \/ DumpFinished
    /\ due' = FALSE
    /\ UNCHANGED conflicts

GetAnswer == RequestAnswered /\ due' = FALSE /\ UNCHANGED conflicts

Next ==
    \/ /\ \/ Type \/ TypeStop \/ Read
          \/ \E reg \in Broadcasts : ReceiveBroadcast(reg)
          \/ StalledRequestEnds
       /\ UNCHANGED clockVars
    \/ Finish \/ GetAnswer
    \/ TimePasses \/ Conflict

Spec == Init /\ [][Next]_vars

\* The main loop runs, time passes, and an operation whose time is over ends, if
\* no conflict comes just before.  Nothing makes the host type, the mesh answer,
\* or a broadcast come.
FairSpec ==
    /\ Spec
    /\ WF_vars(Read /\ UNCHANGED clockVars)
    /\ WF_vars(TimePasses)
    /\ WF_vars(Finish /\ (Blocked => due))
-----------------------------------------------------------------------------
(* Properties.                                                             *)

Registers == Broadcasts \cup {Blank}

TypeOK ==
    /\ pc \in {"command", "name", "format", "value", "wait", "join", "ping", "list_ping",
               "list_number", "list_name", "dump"}
    /\ state \in {"NOT_JOINED", "JOINING", "IDLE"} \cup Operations
    /\ BROADCAST_CACHE \in [Slots -> Registers]
    /\ BROADCAST_CACHE_START \in Slots
    /\ BROADCAST_CACHE_END \in Slots
    /\ BROADCAST_CACHE_SIZE \in 0..MAX_BROADCAST_CACHE_SIZE
    /\ HOST_LISTENING \in BOOLEAN
    /\ received \subseteq Broadcasts
    /\ REG_BUFFER.name \in Fields
    /\ format \in Formats
    /\ command \in RegisterCommands
    /\ pc \in {"join", "wait", "ping", "list_ping"} => state \notin {"IDLE", "NOT_JOINED"}
    /\ due \in BOOLEAN
    /\ conflicts \in 0..MaxConflicts

\* What the host is shown as broadcast was broadcast since the last RESET,
\* although an append does not always find the ring where it is and a reset
\* leaves the old registers in it (src/atmega_a7105.ino:221-299, 385-416).
ShownTrue ==
    printed.kind = "REGISTER_VALUE" => Register(printed.name, printed.value) \in received

\* Until the ring is first dumped, it has just what was broadcast since the last
\* RESET, of each register the newest value in one slot, except for those that
\* were the oldest when there was no room (lines 229-265).
KeptUntilDumped ==
    ~dumped => /\ {BROADCAST_CACHE[x] : x \in Waiting} = pending
               /\ Cardinality(pending) = BROADCAST_CACHE_SIZE

\* A SET_REGISTER that is acknowledged to the host was sent for the register it
\* named, with the value that the format makes of what was typed, if nothing
\* disturbed the command and the name has room in a packet (lines 689-794).  That
\* need not be a value the host can have meant, and whether the register has been
\* set to it is SetAnswered of MeshRequests.
SetUndisturbed ==
    (printed.kind = "SET_REGISTER_ACK" /\ pc = "command" /\ ~disturbed
       /\ Length[typed.name] <= REGISTER_ARRAY_SIZE - 2)
        => /\ printed.name = typed.name
           /\ requested = Register(typed.name, Converted(typed.text))

\* The last field of LIST_REGISTERS is the number of nodes that returned
\* incomplete data, each counted once (lines 108-114, 447-533).
ErrorsCounted ==
    pc \in {"command", "list_number"} => listing.errors = Cardinality(listing.failed)

\* LIST_REGISTERS asks every node that answered its PING: "Simply start at 0 and
\* pass the last returned ID on each iteration until 0 is returned" to get every
\* node id (a7105_mesh.h:655-657).  For the id 255 this is not so.
EveryIdListed ==
    (printed.kind = "LIST_REGISTERS" /\ pc = "command") => listing.visited = presence_table

\* Whatever the host types and whoever answers, the sketch comes back to reading
\* commands (lines 932-1100), if the packets about the node's id come to an end:
\* each of them starts the timeout of the operation anew (a7105_mesh.cpp:437-463,
\* 575-598, 1829).
AlwaysBack ==
    (pc # "command" \/ input # <<>>) ~> (pc = "command" /\ input = <<>>)

\* "Set's the value of a single register identified by <REGISTER_NAME>;
\* Response: SET_REGISTER_ACK,REGISTER_NAME" (lines 123-124).
AcksWhatItNames ==
    (printed.kind = "SET_REGISTER_ACK" /\ pc = "command")
        => printed.name = typed.name /\ requested.name = typed.name

\* The register is set to what was typed: "REGISTER_VALUE is taken to be a
\* byte-alinged ASCII_HEX string", or "must be an ascii string representing a
\* numerical value between 0 and UINT32_MAX" (lines 129-134).
SetsWhatWasTyped ==
    (printed.kind = "SET_REGISTER_ACK" /\ pc = "command" /\ ~disturbed)
        => requested.value.text = typed.text

\* LISTEN shows what is "accumulated from the last LISTEN" (line 915): what has
\* been broadcast and not overwritten is waiting in the ring.
NewestKept == pending \subseteq {BROADCAST_CACHE[x] : x \in Waiting}

\* "All Serial commands return either the specified Response: response defined
\* below or the universal error response" (lines 69-70).
OneAnswer == answers <= 1
=============================================================================
