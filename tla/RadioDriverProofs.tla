-------------------------- MODULE RadioDriverProofs --------------------------
(***************************************************************************)
(* Proofs about RadioDriver, for any set of payloads.                      *)
(*                                                                         *)
(* At every place of the main loop the counter and the chip agree in one   *)
(* of a few ways; Agreement says in which.  All safety properties of the   *)
(* driver follow from it.                                                  *)
(***************************************************************************)
EXTENDS RadioDriver, TLAPS

\* Listening, or a packet has come in and is known.
Open ==
    \/ mode = "RX" /\ interrupt_count = INT_NULL
    \/ mode = "STANDBY" /\ interrupt_count = TRIGGERED /\ unread

Sending ==
    \/ mode = "TX" /\ interrupt_count = IGNORE_ONE
    \/ mode = "STANDBY" /\ interrupt_count = INT_NULL

Quiet == mode = "STANDBY" /\ interrupt_count = INT_NULL

Whole == packet_cache[1] = packet_cache[2]

Agreement ==
    /\ pc \in {"poll", "update", "handle", "write"} => Open
    /\ pc = "read" => mode = "STANDBY" /\ interrupt_count = TRIGGERED /\ unread
    /\ pc = "reading" => Quiet /\ unread /\ packet_cache[1] = fifo
    /\ pc \in {"standby", "reset", "receive"} => Quiet
    /\ pc = "mark" => mode = "STANDBY" /\ interrupt_count # IGNORE_ONE
    /\ pc = "transmit" => mode = "STANDBY" /\ interrupt_count = IGNORE_ONE
    /\ pc = "wait" => Sending
    /\ pc = "handle" => Whole
    /\ pc \in {"standby", "reset", "receive"} /\ listen_then = "handle" => Whole

DriverInv == TypeOK /\ Agreement

\* The state after Init.
LEMMA DriverInit == Init => DriverInv
<1> SUFFICES ASSUME Init PROVE TypeOK /\ Agreement
    BY DEF DriverInv
<1>1. TypeOK
    BY DEF Init, TypeOK, Places, IGNORE_ONE, INT_NULL, TRIGGERED
<1>2. Agreement
    BY DEF Init, Agreement, Open, INT_NULL
<1> QED BY <1>1, <1>2

\* The definitions every step needs.
USE DEF DriverInv, TypeOK, Agreement, Places, IGNORE_ONE, INT_NULL, TRIGGERED

\* A packet comes in, or goes out, at any place of the main loop.
LEMMA ChipStep == DriverInv /\ (PacketArrives \/ PacketIsOut) => DriverInv'
<1> SUFFICES ASSUME DriverInv, PacketArrives \/ PacketIsOut
             PROVE  DriverInv'
    OBVIOUS
<1>1. CASE PacketArrives
    <2>1. pc \in {"poll", "update", "handle", "write"}
        BY <1>1 DEF PacketArrives, Quiet, Sending
    <2>2. Open'
        BY <1>1, <2>1 DEF PacketArrives, Open, Counted
    <2>3. TypeOK'
        BY <1>1 DEF PacketArrives, Counted
    <2> QED BY <1>1, <2>1, <2>2, <2>3 DEF PacketArrives, Whole
<1>2. CASE PacketIsOut
    <2>1. pc = "wait" /\ interrupt_count = IGNORE_ONE
        BY <1>2 DEF PacketIsOut, Open, Quiet, Sending
    <2>2. Sending'
        BY <1>2, <2>1 DEF PacketIsOut, Sending, Counted
    <2>3. TypeOK'
        BY <1>2 DEF PacketIsOut, Counted
    <2> QED BY <1>2, <2>1, <2>2, <2>3 DEF PacketIsOut
<1> QED BY <1>1, <1>2

\* Receiving, and the parts of the loop that leave the radio alone.
LEMMA ReceiveStep ==
    DriverInv /\ (Poll \/ BeginRead \/ EndRead \/ Handle \/ Update) => DriverInv'
<1> SUFFICES ASSUME DriverInv, Poll \/ BeginRead \/ EndRead \/ Handle \/ Update
             PROVE  DriverInv'
    OBVIOUS
<1>1. CASE Poll
    BY <1>1 DEF Poll, RXWaiting, Open, chipVars
<1>2. CASE BeginRead
    BY <1>2 DEF BeginRead, RXWaiting, Quiet, chipVars
<1>3. CASE EndRead
    <2>1. TypeOK'
        <3>1. packet_cache' \in (Payload \cup {0}) \X (Payload \cup {0})
            BY <1>3 DEF EndRead
        <3>2. unread' \in BOOLEAN
            BY <1>3, Zenon DEF EndRead
        <3>3. pc' = "standby" /\ listen_then' \in {"handle", "update"}
            BY <1>3 DEF EndRead, AfterRead
        <3> QED BY <1>3, <3>1, <3>2, <3>3 DEF EndRead
    <2>2. pc' = "standby" /\ Quiet'
        BY <1>3 DEF EndRead, AfterRead, Quiet
    <2>3. Whole'
        <3>1. packet_cache[1] = fifo /\ packet_cache' = [packet_cache EXCEPT ![2] = fifo]
            BY <1>3 DEF EndRead
        <3> QED BY <3>1 DEF Whole
    <2> QED BY <2>1, <2>2, <2>3
<1>4. CASE Handle
    <2>1. PICK cache \in {packet_cache} \cup {<<x, x>> : x \in Payload} :
              packet_cache' = cache /\ pc' \in {"update", "write"}
        BY <1>4 DEF Handle
    <2>2. Open /\ Open'
        BY <1>4 DEF Handle, Open, chipVars
    <2> QED BY <1>4, <2>1, <2>2 DEF Handle, chipVars
<1>5. CASE Update
    BY <1>5 DEF Update, Open, chipVars
<1> QED BY <1>1, <1>2, <1>3, <1>4, <1>5

\* A7105_Easy_Listen_For_Packets.
LEMMA ListenStep ==
    DriverInv /\ (ListenStandby \/ ListenReset \/ ListenReceive) => DriverInv'
<1> SUFFICES ASSUME DriverInv, ListenStandby \/ ListenReset \/ ListenReceive
             PROVE  DriverInv'
    OBVIOUS
<1>1. CASE ListenStandby
    BY <1>1 DEF ListenStandby, GoToStandby, Quiet, Whole
<1>2. CASE ListenReset
    BY <1>2 DEF ListenReset, Quiet, Whole, chipVars
<1>3. CASE ListenReceive
    BY <1>3 DEF ListenReceive, Quiet, Open, Whole
<1> QED BY <1>1, <1>2, <1>3

\* A7105_WriteData and the wait for its end.
LEMMA WriteStep ==
    /\ DriverInv
    /\ WriteStandby \/ WriteMark \/ WriteTransmit \/ StillSending \/ Sent
    => DriverInv'
<1> SUFFICES ASSUME DriverInv,
                    WriteStandby \/ WriteMark \/ WriteTransmit \/ StillSending \/ Sent
             PROVE  DriverInv'
    OBVIOUS
<1>1. CASE WriteStandby
    BY <1>1 DEF WriteStandby, GoToStandby, Counted, Open
<1>2. CASE WriteMark
    BY <1>2 DEF WriteMark, chipVars
<1>3. CASE WriteTransmit
    BY <1>3 DEF WriteTransmit, Sending
<1>4. CASE StillSending
    BY <1>4 DEF StillSending, vars, chipVars, Open, Quiet, Sending, Whole
<1>5. CASE Sent
    BY <1>5 DEF Sent, TXFinished, Sending, Quiet, chipVars
<1> QED BY <1>1, <1>2, <1>3, <1>4, <1>5

\* The counter and the chip agree, wherever the main loop is.
THEOREM DriverAgrees == Spec => []DriverInv
<1>1. DriverInv /\ [Next]_vars => DriverInv'
    <2>1. DriverInv /\ UNCHANGED vars => DriverInv'
        BY DEF vars, chipVars, Open, Quiet, Sending, Whole
    <2> QED BY <2>1, ChipStep, ReceiveStep, ListenStep, WriteStep
            DEF Next, MainLoop
<1> QED BY DriverInit, <1>1, PTL DEF Spec

HIDE DEF DriverInv, TypeOK, Agreement, Places, IGNORE_ONE, INT_NULL, TRIGGERED

\* TypeOK of the driver.
THEOREM TypeCorrect == Spec => []TypeOK
<1>1. DriverInv => TypeOK
    BY DEF DriverInv
<1> QED BY DriverAgrees, <1>1, PTL

\* Between two calls the node is listening, or knows of a packet.
THEOREM NeverDeafHolds == Spec => []NeverDeaf
<1>1. DriverInv => NeverDeaf
    BY DEF DriverInv, Agreement, NeverDeaf, Open
<1> QED BY DriverAgrees, <1>1, PTL

\* No handler sees a packet that the chip has overwritten halfway.
THEOREM PacketsWholeHolds == Spec => []PacketsWhole
<1>1. DriverInv => PacketsWhole
    BY DEF DriverInv, Agreement, PacketsWhole, Whole
<1> QED BY DriverAgrees, <1>1, PTL

\* No packet is read twice, and no read finds an old one.
THEOREM NothingReadTwiceHolds == Spec => []NothingReadTwice
<1>1. DriverInv => NothingReadTwice
    BY DEF DriverInv, Agreement, NothingReadTwice
<1> QED BY DriverAgrees, <1>1, PTL

\* No caller of A7105_WriteData is turned away with A7105_BUSY.
THEOREM NeverRefusedHolds == Spec => []NeverRefused
<1>1. DriverInv => NeverRefused
    BY DEF DriverInv, Agreement, NeverRefused
<1> QED BY DriverAgrees, <1>1, PTL

\* No step but the chip's own ends a transmission.
THEOREM TransmissionsCompleteHolds == Spec => TransmissionsComplete
<1>1. DriverInv /\ [Next]_vars => [mode = "TX" /\ mode' # "TX" => PacketIsOut]_vars
    <2> SUFFICES ASSUME DriverInv, Next, mode = "TX", mode' # "TX"
                 PROVE  PacketIsOut
        OBVIOUS
    <2>1. pc = "wait"
        BY DEF DriverInv, Agreement, TypeOK, Places, Open, Quiet
    <2> QED BY <2>1 DEF Next, MainLoop, PacketArrives, Poll, BeginRead, EndRead,
                       Handle, Update, ListenStandby, ListenReset, ListenReceive,
                       WriteStandby, WriteMark, WriteTransmit, StillSending, Sent,
                       chipVars, vars
<1> QED BY DriverAgrees, <1>1, PTL DEF Spec, TransmissionsComplete
=============================================================================
