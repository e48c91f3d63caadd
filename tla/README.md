# atmega_a7105: a verification project

TLA+ models of the mesh library in `src/libraries/a7105_mesh`, of the radio
driver below it, `src/libraries/a7105`, and of the serial sketch above it,
`src/atmega_a7105.ino`, with TLC runs and TLAPS proofs. The
library runs on single-threaded AVR boards: each node has a main loop that calls
`A7105_Mesh_Update`, one interrupt, and an A7105 radio chip. Everything hard
about it comes from other nodes: packets get lost, come late and come again, and
nobody is in charge.

Line numbers without a file are those of `libraries/a7105_mesh/a7105_mesh.cpp`.

## 1. Inventory

| Component | State | Operations | What must hold |
|---|---|---|---|
| Naming (400-598) | `state`, `node_id`, `unique_id`, join clocks, `pending_*` | `A7105_Mesh_Join`, `_Update_Join`, `_Handle_Conflict_Name`, `_Handle_Deferred_Joining`, `_Check_For_Node_ID_Conflicts` | two nodes on the mesh have different ids; joins end; a node is not pushed on by echoes or by stale packets |
| Handled packet cache (2049-2085, 2212-2241) | 8 entries of type, sequence nibble and unique id, an index | `_Handling_Request`, `_Update_Handled_Packet_Cache`, `_Filter_Packet` | a request is handled once however often it comes; a new one is never taken for an old one |
| Requests and answers (646-1247) | `state`, `target_*`, `register_cache`, `num_registers_cache`, `presence_table`, `request_sent_time` | `A7105_Mesh_Ping`, `_GetNumRegisters`, `_GetRegisterName`, `_GetRegister`, `_SetRegister`, a `_Handle_*` for each request and each answer, timeouts | what a callback is told is true |
| Response repeater (1441-1556, 1688-1743) | ring of `response_repeat_cache`, 4 bytes per entry | `_Append_Response_Repeat`, `_Update_Response_Repeats`, `_Response_Repeat_Cache_Packet_Prep` | a response goes out a bounded number of times, and each time says the same |
| Request repeater and request clocks (600-642, 1558-1604, 1811-1850) | `pending_request_cache`, `request_repeat_count`, `request_sent_time`, `random_delay` | `_Send_Request`, `_Update_Request_Repeats`, `_Update_Ping`, `_Check_For_Timeout` | a request is repeated as often as it should be, and it ends |
| Packet repeater (1356-1439, 1606-1677) | ring of two packets, a clock | `_Cache_Packet_For_Repeat`, `_Update_Repeats`, `_Pop_Repeat` | a node repeats a packet once at most, and never beyond the hop limit |
| Broadcasts (1249-1321) | `broadcast_cache`, the ring of the sketch | `A7105_Mesh_Broadcast`, `_Handle_RegisterValue_Broadcast`, `broadcast_cache_append`, `dump_broadcast_cache` | a broadcast is handled once while the cache remembers it; the host is shown the newest values |
| Register codec (58-213, 1868-2047) | a register's name and value | setters, getters, packet layout | what is put in comes out; lengths stay in bounds |
| Radio driver (`a7105.cpp`) | interrupt counter, chip mode, FIFO | `A7105_WriteData`, `_ReadData`, `_CheckRXWaiting`, `_CheckTXFinished`, `_Easy_Listen_For_Packets`, the pin interrupt | the node is never deaf; packets are read whole |
| Radio setup | chip registers | `A7105_Easy_Setup_Radio`, calibration | (not modelled) |
| Sketch (`atmega_a7105.ino`) | the line being read, `REG_BUFFER`, `HOST_LISTENING`, ring of broadcasts | init, join, ping, list, get, set, broadcast, listen | a command does what it says although broadcasts come in between its fields; the sketch always comes back to reading commands |
| Host example (`register_host_test`) | two registers | serves them | (the library's behaviour for it is in `MeshRequests`) |

How they interact: all are called from `A7105_Mesh_Update` (600-642), which first
reads one packet and gives it to a chain of handlers (2099-2201), then lets the
join, the timeouts and the three repeaters do what their clocks say. Nodes
interact through packets only; inside a node the parts share `packet_cache` (the
packet received, or the one just sent), `register_cache`, `state`,
`request_sent_time`, `pending_request_cache` and `random_delay`, and this is
where most of the hazards listed in `PROJECT.json` are. The application is called
back from inside a handler and may not call back into the library.

Hard behaviours: a medium that loses, repeats and delays; several nodes that
claim one id at the same time; acceptance by silence; small numbers that wrap
(node id, sequence nibble); caches shared by the requests a node makes and those
it serves; an interrupt between any two steps of the radio driver.

## 2. Modules

| Module | Models |
|---|---|
| `NameClaims` | abstract: who claims which id, no packets |
| `MeshNaming` | the naming protocol on an arbitrary medium, no clocks; implements `NameClaims` |
| `TimedNaming` | `MeshNaming` with the join clocks and a medium that delivers; implements `MeshNaming` |
| `HandledCache` | the handled packet cache as operators on its value |
| `HandledPackets` | one node's cache against senders and a medium |
| `MeshRequests` | requests, handlers, answers, timeouts, the response repeater and broadcasts among them; uses `HandledCache` |
| `RequestClocks` | one node's joins and requests under its clocks, with the request repeater |
| `PacketRepeater` | the packet repeaters of a mesh in which not everybody hears everybody |
| `RegisterCodec` | registers and packets as bytes |
| `SerialHost` | the serial sketch: a host's commands, broadcasts in between, the ring |
| `RadioDriver` | main loop, WTR interrupt and chip |
| `NamingProofs` (of `MeshNaming` and `TimedNaming`), `HandledPacketsProofs`, `MeshRequestsProofs`, `RequestClocksProofs`, `PacketRepeaterProofs`, `RegisterCodecProofs`, `SerialHostProofs`, `RadioDriverProofs` | theorems |
| `MC*` | instances for TLC |

### How state and actions correspond to the code

**MeshNaming.** `state`, `node_id`, `unique_id` and `pending_operation` are the
fields of `struct A7105_Mesh`; the six operation states are one, `BUSY`. `ether`
is the set of the packets ever sent, header only; a node may process any of them
at any time and any number of times. This one set covers loss, the packet
repeater, the request repeater and a node that hears its own packets again. A
boot that ends is `LEFT` and never comes back: a reset node is a new element of
`Node`, with a new random unique id (or the same one: the ids are drawn freely).
`JoinAs` is the four-argument `A7105_Mesh_Join`; `SendConflict`,
`HandleConflictName` and `HandleDeferredJoining` are the handlers at 575, 503 and
552, and their guards repeat the order in which the chain tries them: a handler
that acts has overwritten `packet_cache` with a packet of the node itself, which
the later ones ignore. The `AcceptJoin` branch for an interrupted operation is in
the model because it is in the code; `JoinedIdPermanent` shows that it is never
taken, because only a joined node could be interrupted.

**TimedNaming** adds `join_age` and `tx_age`, the ages of `join_first_tx_time` and
`request_sent_time`, and `due`, the deliveries under way. A `Tick` is a stretch of
time in which every main loop runs and a packet reaches everybody, so it happens
only when no delivery and no clock is due. `MaxLosses` deliveries may fail, and
`LateRepeat` lets any packet ever sent come again.

**HandledPackets** gives each request its true number, of which the packet has
only the residue. `Lag` is how far the medium reorders. `heard` and `handled` are
history variables.

**MeshRequests** has joined nodes of different ids. Each request of the library is
an action, each handler an operator used in `ReceiveRequest` or `SeeAnswer`. What
the application of each node asks for is drawn at the start from `Plans`; a
question (`Questions`) is never about register index 255, which is the code's
sign for an invalid one. `Text` has the register names, the empty name and the
error text, which a handler may put where a name belongs (`TextHas`). A
request that is handled also runs the handlers of answers, with the node's own
response in `packet_cache` (`Respond`). `Stall` is the early return of
GetRegister and SetRegister that leaves `state` set. A repeated response is
rebuilt from the register as it is then. Any node may `Broadcast` any name and value
its plan has (1296-1321): the packet has node id 0, passes the filter (2244), and
to a node that waits for a GET_REGISTER of that name it is an answer as good as any
(`Handle_RegisterValue`, 1033-1043). A node with a broadcast callback also remembers it
like a request (`HandleBroadcast`). The response repeater keeps a broadcast too, but
repeats it with the node's own id and with what its own register of that name holds;
if the node serves none, with bytes from beyond its registers, some member of `Found`.
So `AnswersTrue` says of a value that the node named as responder has held
it, or that it was broadcast. `request`, `outcome`, `held`, `announced` and `fates` are
history variables for the properties. Register names and values are tokens.

**RequestClocks** has one node, and of a packet only its type. `SendRequest` is
`_A7105_Mesh_Send_Request` (1826), through which every join, request and
CONFLICT_NAME goes; all three share `request_sent_time`, the repeat clock and
`request_repeat_count`. Ages stand for differences of `millis()`; a `Tick` happens
when no clock of the node is due. The other repeaters of the node are one action,
`OtherRepeats`: they draw `random_delay` anew. `waiting`, `unasked` and `sent` are
history variables: whom the application waits for, whether a callback came that
nobody waited for, and what was last repeated for which request. The longest delay,
`MaxDelay`, depends on the data rate and is a constant without an upper bound;
`RepeatsAllSent` is stated by it and not by the timeout, because at 50 kbps and below
the four repeats need not fit into one.

**PacketRepeater** replaces the arbitrary medium by nodes. `Hears` says who is in
range of whom, `air` has what is on its way to each node, and `Hear` is the part of
the handler chain that decides about repeating: own packets, answers to this
node's own request, requests for one of its registers or for its id, and what the
ring remembers are not repeated. `Repeat` is `_Update_Repeats` without its clock:
a repeater may send at any time.

**RegisterCodec** has `mine`, a register an application fills, `packet`, and
`theirs`, the register another node reads it into; neither register is cleared
between uses. Buffers are sequences of bytes in which `Put` replaces a part, so a
write past the end would make one longer, which `TypeOK` forbids. `packetHas`,
`named`, `valued` and `arrived` are history variables: what was meant.

**SerialHost** reads a line field by field. Between two fields the sketch lets
`A7105_Mesh_Update` run, so `ReceiveBroadcast` may come there, and it goes through
`REG_BUFFER` as in the code. `pc` says where the sketch is. A blocking operation is
a `pc` in which it is answered, or fails once its time is over (`due`); each packet
about the node's id starts that time anew (`Conflict`), as `_Send_Request` does. A
value is stored as what its format makes of the typed text (`Converted`): the
constants `Hex` and `Atol` give what `ascii_hex_2_bin` and `atol` make of any text, also
of one that is no number. A command that is refused leaves the rest
of its line in `input`, to be read as commands. `typed`, `disturbed`, `requested`,
`received`, `pending` and `dumped` are history variables. The two copies of the
sketch in the repository are the same text.

**RadioDriver** steps through the library's functions at the points where an
interrupt makes a difference: `pc` names the point, `interrupt_count` is the
counter, `mode`, `fifo` and `intact` are the chip's. The chip is external and
modelled by what the library relies on; whether breaking off a reception makes
the WTR pin fall is left open, and both are explored. `packet_cache` is two halves,
so that a packet overwritten while it is read would show.

## 3. Runs

| Run | Shows | Bounds |
|---|---|---|
| `naming` | `NoGaps`, `IdsBounded`, `JoinsBacked`, `ConflictsBacked`, `JoinedIdPermanent`, refinement of `NameClaims` | 3 boots, any unique ids of 1..3, equal ones included, ids 0..3 |
| `naming_heal` | finding: duplicates stay | 2 boots |
| `timed` | `UniqueNames`, `JoinCompletes` | 2 boots, one loss, accept delay 9, retransmit delays 1 and 2 |
| `handled` | `HandledOnce`, `FreshAccepted` | 2 senders, 3 entries, numbers 0..8 modulo 6, expiry 2, no reordering |
| `handled_late` | finding: a late packet makes a request be handled twice | the same, reordering by one |
| `requests` | `RepeatsOrdered`, `AnswersTrue`, `SetAnswered` | node 1 makes 2 requests out of 7 of node 2; or each makes one of the other; or node 1 gets a register and broadcasts it, up to twice, while node 2, which serves it, broadcasts it with another value |
| `set_ok` | finding: a rejected value is reported as set | each makes one request of the other |
| `clocks` | `RepeatsAllSent`, `RequestsEnd` | accept 4, PING 6, other requests 5, 2 repeats, random delay 0 or 1, 2 conflicts |
| `repeater` | `HopsBounded`, `OneSlotEach`, `RepeatedOnce`, `StormEnds`, `EverybodyHears` | 4 nodes in a row, the last not on the mesh; ring of 2, hop limit 3, one loss, 6 plans of 2 or 3 packets |
| `host` | `ShownTrue`, `KeptUntilDumped`, `SetUndisturbed`, `ErrorsCounted`, `EveryIdListed`, `AlwaysBack` | 8 scripts of 3 to 5 lines, 4 broadcast registers, ring of 2, node ids 3, 4 and 254, one conflict |
| `codec` | `ArrivesAsMeant`, and that no buffer is overrun (`TypeOK`) | registers of 5 bytes, 4 strings of 0 to 3 characters, one number, 5 changes |
| `radio` | `NeverDeaf`, `PacketsWhole`, `NothingReadTwice`, `TransmissionsComplete`, `PollsAgain` | 2 payloads; otherwise unbounded |

Each passing run but `radio` also checks the module's type invariant; that of
`RadioDriver` is proved only.

Why the bounds are enough. Three boots give a claimant, a rival and a third party
whose packets concern both, and an id range of 4 lets them all join (3, in `MCMeshNaming_full.cfg`, makes the
byte wrap). For the handled cache, the numbers go past a full turn of the modulus
and past a turn of the index, which is what can go wrong there; the theorems
cover every size. In `timed` the accept delay is the least for which
`UniqueNames` is proved (`EnoughTime`, see section 4): `MaxLosses + 2` times the
longest time between two JOINs, 3 * 3 ticks. In the code it is 5 s against at most
0.6 s between two, which leaves room for six losses. Two requests are the least that show an answer to the first being
taken for one to the second. `MAX_REPEAT_CACHE_SIZE` has the code's value 2;
`RESPONSE_MAX_REPEAT` is 2 instead of 6, which shortens behaviours only.
`CACHE_LENGTH` is 2 instead of 8 in the request runs: a smaller cache forgets
earlier and adds behaviours. `naming` and `MCTimedNaming_three.cfg` use symmetry
between boots: they check invariants and properties of single steps only, and no
definition tells boots apart.

In `clocks` a unit is about 400 ms: at 125 kbps a random delay is at most 327 ms, so it
is 0 or 1, and the timeouts keep their order. The longest delay is 163 ms at 250 kbps,
409 at 100, 819 at 50, 1639 at 25, 4099 at 10 and 20253 at 2 kbps (`Calculate_Random_Delay`,
220-261): at 100 kbps and more the four repeats of a request fit into the 2 s of
`REQUEST_TIMEOUT`, and below that they need not (`MCRequestClocks_slow.cfg`); the theorem
is for any delay. In `repeater`, a row is the
shape with the longest way for its size; a hop limit of 3 is one more than the row
needs, so that a repeat can come back to who sent it, and the plans have as many
packets as the ring holds, or one more. In `host`, four registers fill a ring of two
twice over; the scripts have the well formed commands, names and values that do
not fit, a command whose rest reads like another, and orders of LISTEN and RESET
between which anything may be received; one conflict can restart any one operation. In
`codec`, five bytes leave room for a
number behind a name of one character and not behind one of two; the code's size
is 57.

Deadlock is not checked where the system may stop: in `naming` and `timed`, because
all boots may have left; in `repeater`, where it becomes quiet; in `host`, where the
script ends. The other passing runs check it.

Fairness. `TimedFairSpec`: a main loop keeps running (`A7105_Mesh_Update` is called
from `loop()`), so its timer actions and deliveries are weakly fair, and time
passes, which is strong fairness of `Tick` because late repeats could come between
any two ticks. Nothing that the application or the medium may refuse to do
(joining, leaving, losing, late repeats) is fair. `FairSpec` of `MeshNaming`, for the
finding about duplicates, is as generous as can be: every handler gets to see
every packet it would act on again and again, and still nobody moves.
`FairSpec` of `RequestClocks`: the same, with strong fairness of `Tick` because the
other repeaters may draw a delay between any two ticks; no answer ever has to
come. `FairSpec` of `PacketRepeater`: what is on its way to a node is heard in the
end (or lost, which is no more than `MaxLosses` times), and what waits in a ring is
repeated in the end. A reception puts a repeat off (2148), but a node hears each packet
with each hop count a finite number of times, so it cannot do so forever.
`FairSpec` of `SerialHost`: the main loop reads what is there, time passes, and a
blocking operation whose time is over ends; that the host types, or that anybody
answers, is not assumed. The time of an operation starts anew with each packet about
the node's id (1829), and nothing in the code makes these end: two joined nodes with
one id go on for ever. `AlwaysBack`, like `RequestsEnd`, is therefore checked under the
condition that they do end (`ConflictsEnd`), and violated without it
(`MCSerialHost_conflicts.cfg`). `FairSpec` of `RadioDriver`: the processor runs, the chip gets a transmission out,
and the main loop goes back to polling if it comes to that choice again and
again; this follows from the code, where only so many packets are sent between two
polls.

### What the findings say

1. `DuplicatesHeal` (`naming_heal`): the handler that answers a conflict comes before
   the one that would resolve it, and returns.
2. `HandledOnce` (`handled_late`): an old packet expires a newer entry.
3. `SetOkStored` (`set_ok`): a repeated acknowledgement has lost its error. The same
   property would fail on a stale acknowledgement of an earlier request too: an
   acknowledgement has no sequence number that is compared.

### Further instances

These configurations are kept beside the runs, for the same modules. The first
passes; each of the others states what a comment or document says, or what one
would expect, and is violated, which bounds what the runs above can claim.

| Configuration | Property | What it shows |
|---|---|---|
| `MCTimedNaming_three.cfg` | `UniqueNames` | passes, with three boots |
| `MCTimedNaming_short.cfg` | `UniqueNames` | with an accept delay of one tick less than `EnoughTime` asks for, two nodes join with one id |
| `MCMeshNaming_full.cfg` | `NobodyIsBroadcast` | README.md:287 has at most 255 nodes and keeps 0 for broadcasts; nothing stops the id byte at 255, and `A7105_Mesh_MESH_FULL` (a7105_mesh.h:384) is never returned |
| `MCMeshRequests_name.cfg` | `RequestedNameKept` | 1038-1039 rely on `register_cache` having the name that was asked for; the error text of a request served meanwhile goes through it, and the own request times out |
| `MCMeshRequests_held.cfg` | `AnswersHeld` | a broadcast is taken for the answer to a GET_REGISTER, with a value no register has held |
| `MCRequestClocks_slow.cfg` | `RepeatedBeforeTimeout` | a7105_mesh.h:93-94 has four repeats for each request; at 50 kbps one may time out before |
| `MCRequestClocks_itself.cfg` | `RepeatsItself` | a CONFLICT_NAME sent while a request runs is repeated in its place |
| `MCRequestClocks_storm.cfg` | `TimesOut` | while conflicts come, they restart the clock of a running request, which does not time out |
| `MCRequestClocks_asked.cfg` | `CalledWhenAsked` | a request refused for its lengths has set the state, times out and calls its callback |
| `MCPacketRepeater_own.cfg` | `NotItsOwn` | README.md:511-514 says that a node does not repeat its own packet; a broadcast has node id 0 and is not recognised as one's own |
| `MCSerialHost_acks.cfg` | `AcksWhatItNames` | a broadcast between two fields of a SET_REGISTER, or a name that is too long, makes another register be set and acknowledged |
| `MCSerialHost_answer.cfg` | `OneAnswer` | the rest of a refused line is read as commands, with an answer of its own |
| `MCSerialHost_ids.cfg` | `EveryIdListed` | the id 255 is never listed |
| `MCSerialHost_newest.cfg` | `NewestKept` | once part of the ring has been shown, a new value may go into a slot already shown and is lost |
| `MCSerialHost_value.cfg` | `SetsWhatWasTyped` | lines 129-134 of the sketch say what a value must look like; nobody checks, and "on" is set and acknowledged as the byte 0x55 or the number 0 |
| `MCSerialHost_conflicts.cfg` | `AlwaysBack` | while packets about the node's id come, a blocking operation does not end and the sketch reads nothing |
| `MCRegisterCodec_known.cfg` | `RepeatKnown` | the comparison meant to recognise a repeated broadcast (1271) compares the packet's value with the register's name |

## 4. Proofs

The assumptions are those the modules name (`ASSUME`), all about the constants.

**NamingProofs: MeshNaming** (any `Node` that is finite, any unique ids, any `ID_RANGE`).
`TypeCorrect` is inductive as it stands. `NoGaps` is not: a node moves up because of
a packet, which may be old, so one needs to know that behind every packet there is
still a claimant of its id. `NamingInv` is the conjunction of `TypeOK`,
`JoinsBacked`, `ConflictsBacked` and `NoGaps`. The steps fall into two kinds: those
that only add claims, packets or settled nodes (`GrowthKeepsInv`), and a move of one
node from an id to the next (`MoveKeepsInv`), where the node that moves is outranked
by another claimant of the same id (`MoverIsOutranked`), who takes over as witness.
`JoinedKeepsId` needs no invariant on packets, only the guards. `IdsBounded` follows
from `NoGaps` by counting: the ids below a node's own have a claimant each, all
different (`ClaimantsCount`); as long as there are fewer boots than ids, no id wraps
(`NobodyWrapped`), which has to be carried along. `ImplementsClaims` maps states to
phases; the one step that is not immediate is the move, where the abstract protocol
asks for another claimant, and `MoverIsOutranked` has it.

**NamingProofs: TimedNaming** (any delays, any number of losses). `TimedSpec => Spec`:
a delivery is a reception, if what is due was sent. For that, `TimedInv` is
`TimedTypeOK` and `JoinsSent`: the JOIN a joining node would send again is in the
ether. `TimedIds` then carries the theorems over.

`UniqueNames` is the point of the protocol, and true only if there is time enough:
`UniqueNamesHold` assumes `EnoughTime`, that `MaxLosses + 2` times the longest time
between two JOINs of a node (`Period`) fits into the accept delay. One tick less and
TLC finds a duplicate id (`MCTimedNaming_short.cfg`; smaller delays leave a little
more room, as `MCTimedNaming_three.cfg` shows). The invariant, `UniqueInv`, says how
old two claims of one id can be. Of two nodes joining at one id, the JOIN of the
higher unique id makes the other move; as long as it has not, each of these JOINs
but the last has been lost, so that the younger of the two claims is no older than
the losses so far explain (`BothJoining`). If one has joined, it answers the JOINs of
the other with a CONFLICT_NAME, and either may be lost (`OneJoined`). An age that
only losses explain is below the accept delay (`AllowedFits`), so nobody accepts an
id that is contested. A node that starts to join or moves up makes a claim of age 0
(`MoveKeepsUnique`), and a packet that is answered, ignored or comes again leaves all
claims as they are (`QuietKeepsUnique`).

**HandledPacketsProofs** (any cache length, range and expiry, any senders).
`FreshAccepted` follows from: no entry of a sender is up to `SEQ_EXPIRE` numbers
ahead of what was heard of it. `HandledOnce` is proved for `Lag = 0` (the run
`handled_late` shows that it needs that), with `LatestKept`: the latest packet of a
sender, if it was handled, is still in its slot, and older ones cannot come again.
Arithmetic modulo `SEQ_RANGE` is in lemmas of its own (`SeqsDiffer`, `SeqOfSum`).

**MeshRequestsProofs** (any nodes, registers, values and plans). Whether an answer is
true does not depend on who asked for what, so `RequestInv` says it of packets:
every packet ever sent is `Truthful` (`EtherInv`), and so is what the response
repeater will make of its entries (`RepeatInv`, in which `CacheOK` also has the
order of the counts, hence `RepeatsOrdered`). `ClientInv` says what a waiting node
compares an answer with (`Waiting`), and what it has been told (`Told`, which is
`AnswersTrue` and `SetAnswered`). `Truthful` and `Told` grow with `held`, `fates` and
`announced`, the values registers have had, what came of SET_REGISTER packets and what
was broadcast, so old packets stay truthful (`StaysTruthful`). A REGISTER_VALUE with
node id 0 is truthful if it was broadcast; one of a node that has broadcast what it
does not serve (`Astray`) may say anything, and the theorem promises nothing of it.
Every action is a lemma.

**RequestClocksProofs** (any delays, hence any data rate, and any timeouts; `AgesTell`
only says that the model's clocks stop late enough to be compared).
`RepeatsAllSent` looks at one moment; `InTime` bounds the age of a request at every
moment by the repeats sent so far, each of which waits `MaxDelay + 1` ticks at most
whoever drew the delay. `CallsFit` says that state, callback and waiting application
agree.

**PacketRepeaterProofs** (any mesh, plans, ring size and hop limit). `RingInv` says
which slots of a ring wait and that what waits is below the hop limit; it gives
`HopsBounded`. A packet is put into a ring only if it is in no slot, which gives
`OneSlotEach`. `RepeatedOnce` needs that what was repeated is still remembered:
`OnceInv` says that slots are used in order, and that while no more packets go
around than a ring has slots (`FewPackets`), each repeated one is in a slot that does
not wait; `RoomLeft` counts the unused ones.

**RadioDriverProofs** (any payloads). `DriverInv` says, for each place of the main
loop, which pairs of counter and chip mode are possible; it is inductive, and the
five safety properties of the driver follow from it, `NeverRefused` and `TypeOK`
among them.

**RegisterCodecProofs** (any buffer size up to a byte, any strings without null
bytes, any numbers of 32 bits, any sequence of settings and messages). `CodecInv` says
what the bytes are: a register `Holds` its name, and its value if that was set after
the name; a packet `Carries` what it was written from, and a length that can be read
even if the value is a left-over one. `ArrivesAsMeant` is a consequence. Everything
else is about `memcpy`: what is got back of what was put (`GetOfPut`), what is left
alone, and that a string ends at its first null byte (`TextOfTerminated`) and a number
is the sum of its bytes (`BytesOfNumber`). `NumbersU32`, that a number has no bits
above the 32nd, is what the `uint32_t` of the code guarantees; without it a number
does not arrive.

**SerialHostProofs** (any lines, broadcasts, nodes and ring size). The sketch does one
thing at a time, so there is one invariant for each concern, and a lemma that says
which steps leave it alone (`RingUntouched`, `CommandUntouched`, ...).
*The ring*: `broadcast_cache_append` looks for a register from slot 0 on, but dumping
moves the start, so that slots outside the waiting ones can be written. `ShownTrue`
therefore needs `SlotsReceived`: either the waiting slots hold what was received and
the end is right behind them, or all slots do. `KeptUntilDumped` is stronger and holds
until the first dump only: `KeptInv` has the start at 0, no name twice, and the set of
the slots in use equal to what the host should be told.
*LIST_REGISTERS*: ids come in increasing order (`NextPresent`, about
`A7105_Get_Next_Present_Node`), so that a node is counted once although each of its
registers may fail, and the count, which is a byte, does not wrap (`CountInv`);
`VisitInv` has the nodes visited so far. `EveryIdListedHolds` assumes that no node has
the id 255, and the instance `MCSerialHost_ids.cfg` shows that it needs that.
*SET_REGISTER*: `BufferInv` follows `REG_BUFFER`, which broadcasts share, from field to
field, up to the register that is `Meant`: the name as typed and what the format makes
of the value, for any `Hex` and `Atol`. That an acknowledged request was carried out is
`SetAnswered` of `MeshRequests`.

Only model-checked: all liveness (`JoinCompletes`, `RequestsEnd`, `StormEnds`,
`EverybodyHears`, `AlwaysBack`, `PollsAgain`), which under fairness is beyond the
prover, as is induction over data. Every invariant and action property of a passing
run, and the refinement of `NameClaims`, is a theorem. No module here has a RECURSIVE
operator.

## 5. Plan

Done, in this order: naming, handled cache, requests, radio driver; packet repeater,
request clocks, broadcasts and the sketch, register codec; the proofs above.

Left, in the order of what it would add:

1. Requests by unique id (the overloads with a `target_unique_id`), in `MeshRequests`.
2. The response repeater's clock, in `RequestClocks`.
3. `A7105_Pause` and `A7105_Resume`, if anything comes to use them.

## 6. Not modelled, and why

- Radio setup and calibration: sequential register writes against a data sheet.
- What a join would do to an operation it interrupts is a flag only: that code is
  never reached (`JoinedIdPermanent`).
- Requests by unique id, which are like those by node id; blocking calls (a NULL
  callback), which are the same operations with the main loop inside.
- Register callbacks that call back into the library, which its contract excludes,
  or that store something else than what they are given.
- Broadcasts sent from within a callback, and broadcasts of a register named like an
  error text, in `MeshRequests`. What lies in memory beyond a node's registers, which the
  repeat of an unknown one reads, is anything in `Found`.
- Error texts as bytes of a register in `RegisterCodec`; they are tokens in
  `MeshRequests`.
- In the sketch: characters echoed, the wording of errors, the counter of overflows,
  which nothing reads, and BINARY values longer than a register. Fields and values are
  tokens with a length; the conversions `Hex` and `Atol` are given by the instance.
- The random seed, debug output, and the vendored PinChangeInt library. A radio
  without WTR pin: `A7105_Mesh_Update` never finds a packet on one.
- `register_host_test`, a sketch of two registers without behaviour of its own.
