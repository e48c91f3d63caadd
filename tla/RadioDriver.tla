---------------------------- MODULE RadioDriver -----------------------------
(***************************************************************************)
(* One node's radio: the main loop, which talks to the A7105 chip over     *)
(* SPI, the chip, which runs by itself, and the interrupt of its WTR pin,  *)
(* which comes between any two steps of the main loop.                     *)
(*                                                                         *)
(* The main loop is A7105_Mesh_Update as far as the radio is concerned: it *)
(* polls for a packet, reads and handles it, and sends any number of       *)
(* packets of its own.  The library tells the two reasons for an interrupt *)
(* apart with a counter: 0 says that the next one ends a transmission.     *)
(*                                                                         *)
(* The chip is modelled from what the library expects of it: it goes back  *)
(* to standby after a packet in either direction, and its WTR pin falls    *)
(* then.  Whether the pin falls, too, when a STANDBY strobe breaks off a   *)
(* reception is left open.                                                 *)
(***************************************************************************)
EXTENDS Integers

CONSTANT Payload    \* what a packet may contain

ASSUME PayloadNat == Payload \subseteq Nat \ {0}

VARIABLES
    pc,                 \* where the main loop is
    listen_then,        \* where A7105_Easy_Listen_For_Packets returns to
    packet_cache,       \* node->packet_cache, in two halves
    interrupt_count,    \* _A7105_INTERRUPT_COUNTS[radio->_INTERRUPT_PIN]
    mode,               \* of the chip
    fifo,               \* of the chip: the last packet received
    intact,             \* of the chip: neither its CRC nor its FEC flag is up
    unread              \* history: that packet has not been read

chipVars == <<mode, fifo, intact, unread>>
vars == <<pc, listen_then, packet_cache, interrupt_count, chipVars>>

\* The values of the counter: A7105_INT_IGNORE_ONE, _NULL, _TRIGGERED.
IGNORE_ONE == 0
INT_NULL == 1
TRIGGERED == 2

\* _A7105_Pin_Interrupt_Callback, at a falling edge of the WTR pin.
Counted(c) == IF c < TRIGGERED THEN c + 1 ELSE c

\* A7105_Mesh_Initialize has just made the radio listen.
Init ==
    /\ pc = "poll"
    /\ listen_then = "update"
    /\ packet_cache = <<0, 0>>
    /\ interrupt_count = INT_NULL
    /\ mode = "RX"
    /\ fifo = 0
    /\ intact = TRUE
    /\ unread = FALSE
-----------------------------------------------------------------------------
(* The chip.                                                               *)

PacketArrives ==
    /\ mode = "RX"
    /\ mode' = "STANDBY"
    /\ fifo' \in Payload
    /\ intact' \in BOOLEAN
    /\ unread' = TRUE
    /\ interrupt_count' = Counted(interrupt_count)
    /\ UNCHANGED <<pc, listen_then, packet_cache>>

PacketIsOut ==
    /\ mode = "TX"
    /\ mode' = "STANDBY"
    /\ interrupt_count' = Counted(interrupt_count)
    /\ UNCHANGED <<pc, listen_then, packet_cache, fifo, intact, unread>>

\* The chip obeys a STANDBY strobe.
GoToStandby ==
    /\ mode' = "STANDBY"
    /\ \/ UNCHANGED interrupt_count
       \/ mode # "STANDBY" /\ interrupt_count' = Counted(interrupt_count)
    /\ UNCHANGED <<fifo, intact, unread>>
-----------------------------------------------------------------------------
(* Receiving: _A7105_Mesh_Handle_RX.                                       *)

\* Mutant: anything but a transmission under way is taken for a packet.
RXWaiting_UnlessSending == interrupt_count # IGNORE_ONE

RXWaiting == interrupt_count = TRIGGERED

\* A7105_CheckRXWaiting.
Poll ==
    /\ pc = "poll"
    /\ pc' = IF RXWaiting THEN "read" ELSE "update"
    /\ UNCHANGED <<listen_then, packet_cache, interrupt_count, chipVars>>

\* A7105_ReadData: look again, clear the counter, read the first bytes.
BeginRead ==
    /\ pc = "read"
    /\ IF RXWaiting
         THEN /\ interrupt_count' = INT_NULL
              /\ packet_cache' = [packet_cache EXCEPT ![1] = fifo]
              /\ pc' = "reading"
              /\ UNCHANGED listen_then
         ELSE /\ pc' = "standby"
              /\ listen_then' = "update"
              /\ UNCHANGED <<interrupt_count, packet_cache>>
    /\ UNCHANGED chipVars

\* Mutant: after a bogus read, the radio is not made to listen again.
AfterRead_ReturnEarly(good) == IF good THEN "standby" ELSE "update"

\* Good or bogus, the packet was read, and the radio is to listen again.
AfterRead(good) == "standby"

\* The last bytes, and the flags.  A bogus packet is not handled.
EndRead ==
    /\ pc = "reading"
    /\ packet_cache' = [packet_cache EXCEPT ![2] = fifo]
    /\ unread' = FALSE
    /\ pc' = AfterRead(intact)
    /\ listen_then' = IF intact THEN "handle" ELSE "update"
    /\ UNCHANGED <<interrupt_count, mode, fifo, intact>>

\* The handlers may answer, and write the answer into packet_cache.
Handle ==
    /\ pc = "handle"
    /\ \/ pc' = "update" /\ UNCHANGED packet_cache
       \/ \E x \in Payload : pc' = "write" /\ packet_cache' = <<x, x>>
    /\ UNCHANGED <<listen_then, interrupt_count, chipVars>>

\* The rest of A7105_Mesh_Update, and what the application does between two
\* calls of it: a packet is sent, or not.
Update ==
    /\ pc = "update"
    /\ pc' \in {"write", "poll"}
    /\ UNCHANGED <<listen_then, packet_cache, interrupt_count, chipVars>>
-----------------------------------------------------------------------------
(* A7105_Easy_Listen_For_Packets.                                          *)

ListenStandby ==
    /\ pc = "standby"
    /\ GoToStandby
    /\ pc' = "reset"
    /\ UNCHANGED <<listen_then, packet_cache>>

ListenReset ==
    /\ pc = "reset"
    /\ interrupt_count' = INT_NULL
    /\ pc' = "receive"
    /\ UNCHANGED <<listen_then, packet_cache, chipVars>>

ListenReceive ==
    /\ pc = "receive"
    /\ mode' = "RX"
    /\ pc' = listen_then
    /\ UNCHANGED <<listen_then, packet_cache, interrupt_count, fifo, intact, unread>>
-----------------------------------------------------------------------------
(* Sending: A7105_WriteData, and the wait for A7105_CheckTXFinished.       *)

WriteStandby ==
    /\ pc = "write"
    /\ GoToStandby
    /\ pc' = "mark"
    /\ UNCHANGED <<listen_then, packet_cache>>

\* The counter is overwritten, whether or not a packet is waiting.  If it says
\* that a transmission is under way, A7105_BUSY is returned, which nobody
\* looks at, and the packet is not sent.
WriteMark ==
    /\ pc = "mark"
    /\ pc' = IF interrupt_count = IGNORE_ONE THEN "wait" ELSE "transmit"
    /\ interrupt_count' = IGNORE_ONE
    /\ UNCHANGED <<listen_then, packet_cache, chipVars>>

WriteTransmit ==
    /\ pc = "transmit"
    /\ mode' = "TX"
    /\ pc' = "wait"
    /\ UNCHANGED <<listen_then, packet_cache, interrupt_count, fifo, intact, unread>>

\* Mutant: the end of a transmission is expected to trigger the counter.
TXFinished_Triggered == interrupt_count = TRIGGERED

\* Mutant: the counter is looked at for a packet that waits, not the chip.
TXFinished_NotTriggered == interrupt_count # TRIGGERED

\* A7105_CheckTXFinished: the lowest bit of the mode register.
TXFinished == mode = "STANDBY"

StillSending ==
    /\ pc = "wait"
    /\ ~TXFinished
    /\ UNCHANGED vars

Sent ==
    /\ pc = "wait"
    /\ TXFinished
    /\ pc' = "standby"
    /\ listen_then' = "update"
    /\ UNCHANGED <<packet_cache, interrupt_count, chipVars>>
-----------------------------------------------------------------------------
MainLoop ==
    \/ Poll \/ BeginRead \/ EndRead \/ Handle \/ Update
    \/ ListenStandby \/ ListenReset \/ ListenReceive
    \/ WriteStandby \/ WriteMark \/ WriteTransmit \/ StillSending \/ Sent

Next == MainLoop \/ PacketArrives \/ PacketIsOut

Spec == Init /\ [][Next]_vars

\* The processor runs, the chip gets its packets out, and between two polls
\* only so many packets are sent.
FairSpec ==
    /\ Spec
    /\ WF_vars(MainLoop)
    /\ WF_vars(PacketIsOut)
    /\ SF_vars(Update /\ pc' = "poll")
-----------------------------------------------------------------------------
(* Properties.                                                             *)

Places == {"poll", "read", "reading", "handle", "update", "standby", "reset",
           "receive", "write", "mark", "transmit", "wait"}

TypeOK ==
    /\ pc \in Places
    /\ listen_then \in {"handle", "update"}
    /\ packet_cache \in (Payload \cup {0}) \X (Payload \cup {0})
    /\ interrupt_count \in {IGNORE_ONE, INT_NULL, TRIGGERED}
    /\ mode \in {"STANDBY", "RX", "TX"}
    /\ fifo \in Payload \cup {0}
    /\ intact \in BOOLEAN
    /\ unread \in BOOLEAN

\* Whenever the main loop is free the node is listening, or knows of a packet:
\* the counter is reset before the radio is strobed to RX, never after, and
\* every way out of a read or a transmission leads through Listen.  A node of
\* which this is not true hears nothing until it happens to send.
NeverDeaf ==
    pc \in {"poll", "update"} => mode = "RX" \/ interrupt_count = TRIGGERED

\* The handlers get a packet as it was received, never half of one and half of
\* the next: the chip leaves the FIFO alone while it is read.
PacketsWhole ==
    pc = "handle" => packet_cache[1] = packet_cache[2]

\* What is read is a packet that has come in since the last read.
NothingReadTwice ==
    pc \in {"read", "reading"} => unread

\* A packet is never refused: A7105_WriteData does not find a transmission
\* under way, which it would tell to a caller that does not listen.
NeverRefused ==
    pc = "mark" => interrupt_count # IGNORE_ONE

\* A transmission ends when the packet is out, not because the main loop
\* strobes the radio to another mode.
TransmissionsComplete ==
    [][mode = "TX" /\ mode' # "TX" => PacketIsOut]_vars

\* The main loop gets back to its poll: no busy wait is for ever.
PollsAgain == []<>(pc = "poll")
=============================================================================
