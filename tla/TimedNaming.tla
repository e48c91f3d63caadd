---------------------------- MODULE TimedNaming -----------------------------
(***************************************************************************)
(* MeshNaming with the clocks of A7105_Mesh_Join and _A7105_Mesh_Update_   *)
(* Join, and with a medium that delivers: the setting in which node ids    *)
(* are meant to come out unique.                                           *)
(*                                                                         *)
(* One Tick stands for a stretch of time in which every node runs its main *)
(* loop and a packet, with the repeats that carry it through the mesh,     *)
(* reaches every node.  MaxLosses of these deliveries fail.  Besides, any  *)
(* packet may come again later: a repeater forwards it after a random      *)
(* delay.  A node that has joined runs no operation here: its requests     *)
(* carry its own id, and only another joined node of that id would react.  *)
(***************************************************************************)
EXTENDS MeshNaming

CONSTANTS
    JOIN_ACCEPT_DELAY,  \* in ticks, see A7105_MESH_JOIN_ACCEPT_DELAY
    RetransmitDelays,   \* in ticks: join_retransmit_delay is drawn from it
    MaxLosses           \* deliveries that fail, over a behaviour

ASSUME AcceptDelayNat == JOIN_ACCEPT_DELAY \in Nat
ASSUME RetransmitDelaysNat == RetransmitDelays \subseteq 0..JOIN_ACCEPT_DELAY
ASSUME MaxLossesNat == MaxLosses \in Nat

VARIABLES
    join_retransmit_delay,  \* node->join_retransmit_delay
    join_age,   \* millis() - join_first_tx_time, while joining
    tx_age,     \* millis() - request_sent_time, while joining
    due,        \* <<n, p>>: packet p is on its way to node n
    losses      \* deliveries that have failed

clockVars == <<join_age, tx_age>>
timedVars == <<namingVars, join_retransmit_delay, clockVars, due, losses>>

MaxAge == JOIN_ACCEPT_DELAY + 1

\* What is on its way once n has sent the packets ps.
Sending(n, ps) == {m \in Node \ {n} : state[m] # "LEFT"} \X ps

TimedInit ==
    /\ Init
    /\ join_retransmit_delay \in [Node -> RetransmitDelays]
    /\ join_age = [n \in Node |-> 0]
    /\ tx_age = [n \in Node |-> 0]
    /\ due = {}
    /\ losses = 0

\* join_first_tx_time = millis(), and Send_Request sets request_sent_time.
StartClocks(n) ==
    /\ join_age' = [join_age EXCEPT ![n] = 0]
    /\ tx_age' = [tx_age EXCEPT ![n] = 0]

TimedJoin(n) ==
    /\ Join(n)
    /\ StartClocks(n)
    /\ due' = due \cup Sending(n, {Header("JOIN", FirstId, n)})
    /\ UNCHANGED <<join_retransmit_delay, losses>>

\* Mutant: the accept delay is measured from the last JOIN sent.
AcceptDelayOver_SinceLastTx(n) == tx_age[n] > JOIN_ACCEPT_DELAY

\* Mutant: the join is accepted when its first JOIN is to be repeated.
AcceptDelayOver_WrongDelay(n) == join_age[n] > join_retransmit_delay[n]

AcceptDelayOver(n) == join_age[n] > JOIN_ACCEPT_DELAY

TimedAcceptJoin(n) ==
    /\ AcceptDelayOver(n)
    /\ AcceptJoin(n)
    /\ StartClocks(n)
    /\ due' = due \cup Sending(n, ether' \ ether)
    /\ UNCHANGED <<join_retransmit_delay, losses>>

\* Otherwise: send the next JOIN when the last one is old enough.
RetransmitJoin(n) ==
    /\ state[n] = "JOINING"
    /\ ~AcceptDelayOver(n)
    /\ tx_age[n] > join_retransmit_delay[n]
    /\ tx_age' = [tx_age EXCEPT ![n] = 0]
    /\ due' = due \cup Sending(n, {Header("JOIN", node_id[n], n)})
    /\ UNCHANGED <<namingVars, join_retransmit_delay, join_age, losses>>

\* Mutant: the CONFLICT_NAME goes out under the unique id of the offender.
Reply_OffendersUid(n, p) ==
    IF NodeIdConflict(n, p)
      THEN {[type |-> "CONFLICT_NAME", node_id |-> node_id[n], unique_id |-> p.unique_id]}
    ELSE IF NeedToRejoin(n, p) THEN {Header("JOIN", RejoinId(n), n)}
    ELSE IF Defers(n, p) THEN {Header("JOIN", Successor(node_id[n]), n)}
    ELSE {}

\* What n sends when it processes p.
Reply(n, p) ==
    IF NodeIdConflict(n, p) THEN {Header("CONFLICT_NAME", node_id[n], n)}
    ELSE IF NeedToRejoin(n, p) THEN {Header("JOIN", RejoinId(n), n)}
    ELSE IF Defers(n, p) THEN {Header("JOIN", Successor(node_id[n]), n)}
    ELSE {}

Process(n, p) ==
    \/ SendConflict(n, p) /\ UNCHANGED clockVars
    \/ HandleConflictName(n, p) /\ StartClocks(n)
    \/ HandleDeferredJoining(n, p) /\ StartClocks(n)
    \/ Reply(n, p) = {} /\ UNCHANGED <<namingVars, clockVars>>

Deliver(n) ==
    \E d \in due :
        /\ d[1] = n
        /\ state[n] # "LEFT"
        /\ Process(n, d[2])
        /\ due' = (due \ {d}) \cup Sending(n, Reply(n, d[2]))
        /\ UNCHANGED <<join_retransmit_delay, losses>>

\* A collision, or a radio that was transmitting: the packet does not arrive.
Lose ==
    /\ losses < MaxLosses
    /\ \E d \in due : due' = due \ {d}
    /\ losses' = losses + 1
    /\ UNCHANGED <<namingVars, join_retransmit_delay, clockVars>>

\* A packet sent at any time in the past comes (again) from a repeater.
LateRepeat(n) ==
    \E p \in ether :
        /\ <<n, p>> \notin due
        /\ Reply(n, p) # {}
        /\ Process(n, p)
        /\ due' = due \cup Sending(n, Reply(n, p))
        /\ UNCHANGED <<join_retransmit_delay, losses>>

TimedLeave(n) ==
    /\ Leave(n)
    /\ due' = {d \in due : d[1] # n}
    /\ UNCHANGED <<join_retransmit_delay, clockVars, losses>>

\* Time passes when every packet has arrived and every node has done what its
\* clocks tell it to.
Older(age) ==
    [n \in Node |-> IF state[n] = "JOINING" /\ age[n] < MaxAge
                    THEN age[n] + 1 ELSE age[n]]

Tick ==
    /\ due = {}
    /\ \A n \in Node : state[n] = "JOINING" =>
           ~AcceptDelayOver(n) /\ tx_age[n] <= join_retransmit_delay[n]
    /\ join_age' = Older(join_age)
    /\ tx_age' = Older(tx_age)
    /\ UNCHANGED <<namingVars, join_retransmit_delay, due, losses>>

TimedNext ==
    \/ \E n \in Node : \/ TimedJoin(n)
                       \/ TimedAcceptJoin(n)
                       \/ RetransmitJoin(n)
                       \/ Deliver(n)
                       \/ LateRepeat(n)
                       \/ TimedLeave(n)
    \/ Lose
    \/ Tick

TimedSpec == TimedInit /\ [][TimedNext]_timedVars

\* The main loops run and time goes on; however often an old packet comes
\* back, the clocks do not stop for it, hence the strong fairness of Tick.
TimedFairSpec ==
    /\ TimedSpec
    /\ SF_timedVars(Tick)
    /\ \A n \in Node : /\ WF_timedVars(TimedAcceptJoin(n))
                       /\ WF_timedVars(RetransmitJoin(n))
                       /\ WF_timedVars(Deliver(n))
-----------------------------------------------------------------------------
(* Properties.                                                             *)

TimedTypeOK ==
    /\ TypeOK
    /\ join_retransmit_delay \in [Node -> RetransmitDelays]
    /\ join_age \in [Node -> 0..MaxAge]
    /\ tx_age \in [Node -> 0..MaxAge]
    /\ due \subseteq Node \X ether
    /\ losses \in 0..MaxLosses

\* What joining is for: two nodes on the mesh have different ids, if their
\* unique ids differ, although both may have claimed the same id at once,
\* packets come back late, and MaxLosses of them never arrive.
UniqueNames ==
    \A n, m \in Node :
        Joined(n) /\ Joined(m) /\ unique_id[n] # unique_id[m]
            => node_id[n] # node_id[m]

\* A joining node gets onto the mesh: it is not sent from id to id forever.
JoinCompletes ==
    \A n \in Node : state[n] = "JOINING" ~> (Joined(n) \/ state[n] = "LEFT")
=============================================================================
