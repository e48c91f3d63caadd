--------------------------- MODULE RequestClocks ---------------------------
(***************************************************************************)
(* One node and the requests its application makes: the clocks that repeat *)
(* them, time them out and let a join be accepted.  MeshRequests has what  *)
(* the answers say and no clocks; this module has the clocks, and of a     *)
(* packet only its type.                                                   *)
(*                                                                         *)
(* The rest of the mesh is the environment: an answer may come whenever a  *)
(* request runs, and packets may be about the node's id, up to             *)
(* MaxConflicts of them or without end.  The other repeaters of the node   *)
(* only matter in that they draw random_delay anew.  A Tick is a stretch   *)
(* of time in which the main loop runs: it passes only when no clock of    *)
(* the node is due.  Clocks are ages and stop at MaxAge, where no          *)
(* comparison tells them from later ones.                                  *)
(*                                                                         *)
(* A joined node never joins again (JoinedIdPermanent in MeshNaming), so   *)
(* what the code does to put a running request aside for that is not here. *)
(***************************************************************************)
EXTENDS Integers

CONSTANTS
    JOIN_ACCEPT_DELAY,      \* A7105_MESH_JOIN_ACCEPT_DELAY: 5000 ms
    JOIN_RETRANSMIT_DELAY,  \* node->join_retransmit_delay: 100 to 599 ms
    PING_TIMEOUT,           \* A7105_MESH_PING_TIMEOUT: 4000 ms
    REQUEST_TIMEOUT,        \* A7105_MESH_REQUEST_TIMEOUT: 2000 ms
    REQUEST_MAX_REPEAT,     \* A7105_MESH_REQUEST_MAX_REPEAT: 4
    MaxDelay,               \* the longest random delay, 41 times that of a packet:
                            \* 163 ms at 250 kbps, 327 at 125, 409 at 100, 819 at 50,
                            \* 1639 at 25, 4099 at 10, 20253 at 2 kbps
    MaxAge,                 \* where the clocks stop (a bound of the model)
    MaxConflicts,           \* packets about the node's id (a bound of the model)
    ConflictsEnd            \* do they end?

ASSUME DelaysNat ==
    {JOIN_ACCEPT_DELAY, JOIN_RETRANSMIT_DELAY, PING_TIMEOUT, REQUEST_TIMEOUT,
     REQUEST_MAX_REPEAT, MaxDelay, MaxConflicts} \subseteq Nat

ASSUME EndBoolean == ConflictsEnd \in BOOLEAN

\* A stopped clock is beyond everything an age is compared with.
ASSUME AgesTell ==
    /\ MaxAge \in Nat
    /\ \A age \in {JOIN_ACCEPT_DELAY, JOIN_RETRANSMIT_DELAY, PING_TIMEOUT, REQUEST_TIMEOUT,
                   REQUEST_MAX_REPEAT * (MaxDelay + 1)} : age < MaxAge

VARIABLES
    state,                  \* node->state
    operation_callback,     \* node->operation_callback
    pending_request_cache,  \* type of the packet in node->pending_request_cache
    request_age,            \* millis() - node->request_sent_time
    repeat_age,             \* millis() - node->last_request_repeat_sent_time
    join_age,               \* millis() - node->join_first_tx_time
    request_repeat_count,   \* node->request_repeat_count
    random_delay,           \* node->random_delay
    conflicts,              \* packets about the node's id so far
    waiting,                \* history: the callback the application waits for
    unasked,                \* history: was a callback called nobody waited for?
    sent                    \* history: the last packet repeated, and the state it was for

requestVars == <<pending_request_cache, request_age, repeat_age,
                 request_repeat_count, sent>>
appVars == <<waiting, unasked>>
vars == <<state, operation_callback, random_delay, conflicts,
          join_age, requestVars, appVars>>

Operations == {"PING", "GET_NUM_REGISTERS", "GET_REGISTER_NAME",
               "GET_REGISTER", "SET_REGISTER"}

States == {"NOT_JOINED", "JOINING", "IDLE"} \cup Operations

Joined == state \notin {"NOT_JOINED", "JOINING"}

Delays == 0..MaxDelay

\* The application has a callback for its join and one for each operation.
Callbacks == {"join"} \cup Operations

Init ==
    /\ state = "NOT_JOINED"
    /\ operation_callback = "none"
    /\ pending_request_cache = "none"
    /\ request_age = 0
    /\ repeat_age = 0
    /\ join_age = 0
    /\ request_repeat_count = 0
    /\ random_delay \in Delays
    /\ conflicts = 0
    /\ waiting = "none"
    /\ unasked = FALSE
    /\ sent = [type |-> "none", for |-> "none"]
-----------------------------------------------------------------------------
\* _A7105_Mesh_Send_Request: the clocks of the request start; a copy of the
\* packet is kept, unless it is a JOIN.
SendRequest(type) ==
    /\ request_age' = 0
    /\ repeat_age' = 0
    /\ request_repeat_count' = 0
    /\ pending_request_cache' = IF type = "JOIN" THEN pending_request_cache ELSE type
    /\ UNCHANGED sent

\* The node calls one of the application's callbacks.
Call(callback) ==
    /\ unasked' = (unasked \/ waiting # callback)
    /\ waiting' = IF waiting = callback THEN "none" ELSE waiting

\* The application asks, when the node is idle (_A7105_Mesh_Is_Node_Idle).
Ask(type) ==
    /\ state = "IDLE"
    /\ state' = type
    /\ operation_callback' = type
    /\ SendRequest(type)
    /\ waiting' = type
    /\ UNCHANGED <<join_age, random_delay, conflicts, unasked>>

\* A register whose lengths do not fit: INVALID_REGISTER_LENGTH is returned
\* when the state and the callback have been set, and nothing is sent.
AskBadly(type) ==
    /\ state = "IDLE"
    /\ state' = type
    /\ operation_callback' = type
    /\ UNCHANGED <<join_age, requestVars, random_delay, conflicts, appVars>>

\* An answer that is accepted ends any request but a PING, which collects
\* answers until its time is over.
Answer ==
    /\ state \in Operations \ {"PING"}
    /\ state' = "IDLE"
    /\ Call(operation_callback)
    /\ UNCHANGED <<operation_callback, join_age, requestVars, random_delay, conflicts>>

\* Mutant: A7105_Mesh_Update does not check SET_REGISTER.
TimedOut_NotSet ==
    \/ state = "PING" /\ request_age > PING_TIMEOUT
    \/ /\ state \in Operations \ {"PING", "SET_REGISTER"}
       /\ request_age > REQUEST_TIMEOUT

TimedOut ==
    \/ state = "PING" /\ request_age > PING_TIMEOUT
    \/ state \in Operations \ {"PING"} /\ request_age > REQUEST_TIMEOUT

Timeout ==
    /\ TimedOut
    /\ state' = "IDLE"
    /\ Call(operation_callback)
    /\ UNCHANGED <<operation_callback, join_age, requestVars, random_delay, conflicts>>
-----------------------------------------------------------------------------
(* Joining.                                                                *)

\* The four-argument A7105_Mesh_Join.
JoinWith(callback) ==
    /\ operation_callback' = callback
    /\ state' = "JOINING"
    /\ join_age' = 0
    /\ SendRequest("JOIN")
    /\ UNCHANGED random_delay

Join ==
    /\ state = "NOT_JOINED"
    /\ JoinWith("join")
    /\ waiting' = "join"
    /\ UNCHANGED <<conflicts, unasked>>

\* A packet comes that is about the node's id.
ConflictComes ==
    /\ conflicts < MaxConflicts
    /\ conflicts' = IF ConflictsEnd THEN conflicts + 1 ELSE conflicts

\* While it joins, a CONFLICT_NAME, or a JOIN it defers to: it tries the next
\* id, for the same callback.
Rejoin ==
    /\ state = "JOINING"
    /\ ConflictComes
    /\ JoinWith(operation_callback)
    /\ UNCHANGED appVars

\* Another node sends under this node's id: _A7105_Mesh_Check_For_Node_ID_Conflicts
\* sends a CONFLICT_NAME as if it were a request, also while one runs.
SendConflict ==
    /\ Joined
    /\ ConflictComes
    /\ SendRequest("CONFLICT_NAME")
    /\ UNCHANGED <<state, operation_callback, join_age, random_delay, appVars>>

JoinAccepted == state = "JOINING" /\ join_age > JOIN_ACCEPT_DELAY

AcceptJoin ==
    /\ JoinAccepted
    /\ state' = "IDLE"
    /\ Call(operation_callback)
    /\ UNCHANGED <<operation_callback, join_age, random_delay, conflicts, requestVars>>

RetransmitDue ==
    state = "JOINING" /\ ~JoinAccepted /\ request_age > JOIN_RETRANSMIT_DELAY

RetransmitJoin ==
    /\ RetransmitDue
    /\ SendRequest("JOIN")
    /\ UNCHANGED <<state, operation_callback, join_age, random_delay, conflicts, appVars>>
-----------------------------------------------------------------------------
(* Repeating, and time.                                                    *)

\* Mutant: the last repeat is never sent.
RepeatDue_TooFew ==
    /\ state \in Operations
    /\ request_repeat_count < REQUEST_MAX_REPEAT - 1
    /\ repeat_age > random_delay

\* Mutant: one repeat too many.
RepeatDue_TooMany ==
    /\ state \in Operations
    /\ request_repeat_count <= REQUEST_MAX_REPEAT
    /\ repeat_age > random_delay

RepeatDue ==
    /\ state \in Operations
    /\ request_repeat_count < REQUEST_MAX_REPEAT
    /\ repeat_age > random_delay

\* _A7105_Mesh_Update_Request_Repeats.
RepeatRequest ==
    /\ RepeatDue
    /\ random_delay' \in Delays
    /\ repeat_age' = 0
    /\ request_repeat_count' = request_repeat_count + 1
    /\ sent' = [type |-> pending_request_cache, for |-> state]
    /\ UNCHANGED <<state, operation_callback, join_age, pending_request_cache,
                   request_age, conflicts, appVars>>

\* The packet repeater or the response repeater sends something.
OtherRepeats ==
    /\ state # "NOT_JOINED"
    /\ random_delay' \in Delays
    /\ UNCHANGED <<state, operation_callback, join_age, requestVars, conflicts, appVars>>

Older(age) == IF age < MaxAge THEN age + 1 ELSE age

Tick ==
    /\ ~TimedOut /\ ~JoinAccepted /\ ~RetransmitDue /\ ~RepeatDue
    /\ request_age' = Older(request_age)
    /\ repeat_age' = Older(repeat_age)
    /\ join_age' = Older(join_age)
    /\ UNCHANGED <<state, operation_callback, pending_request_cache, request_repeat_count,
                   random_delay, conflicts, appVars, sent>>

Next ==
    \/ Join
    \/ \E type \in Operations : Ask(type)
    \/ \E type \in {"GET_REGISTER", "SET_REGISTER"} : AskBadly(type)
    \/ Answer
    \/ Timeout
    \/ Rejoin
    \/ SendConflict
    \/ AcceptJoin
    \/ RetransmitJoin
    \/ RepeatRequest
    \/ OtherRepeats
    \/ Tick

Spec == Init /\ [][Next]_vars

\* The main loop runs, and time goes on however often the other repeaters draw
\* a new delay.  Nothing makes the application ask or the mesh answer.
FairSpec ==
    /\ Spec
    /\ SF_vars(Tick)
    /\ WF_vars(Timeout)
    /\ WF_vars(AcceptJoin)
    /\ WF_vars(RetransmitJoin)
    /\ WF_vars(RepeatRequest)
-----------------------------------------------------------------------------
(* Properties.                                                             *)

TypeOK ==
    /\ state \in States
    /\ operation_callback \in Callbacks \cup {"none"}
    /\ pending_request_cache \in Operations \cup {"none", "CONFLICT_NAME"}
    /\ request_age \in 0..MaxAge
    /\ repeat_age \in 0..MaxAge
    /\ join_age \in 0..MaxAge
    /\ request_repeat_count \in 0..REQUEST_MAX_REPEAT
    /\ random_delay \in Delays
    /\ conflicts \in 0..MaxConflicts
    /\ waiting \in Callbacks \cup {"none"}
    /\ unasked \in BOOLEAN
    /\ sent \in [type : Operations \cup {"none", "CONFLICT_NAME"},
                for : Operations \cup {"none"}]

\* Each repeat of a request is sent when the random delays so far have had their
\* time, whatever the data rate: nobody puts it off by more than MaxDelay, although
\* the three repeaters share one random_delay and each draws it anew for the others
\* (lines 1390, 1456, 1569).  At 100 kbps and more all four are sent before a timeout.
RepeatsAllSent ==
    (state \in Operations /\ state = waiting) =>
        \A c \in 1..REQUEST_MAX_REPEAT :
            request_age > c * (MaxDelay + 1) => request_repeat_count >= c

\* A request that times out has been repeated REQUEST_MAX_REPEAT times
\* (a7105_mesh.h:93-94; lines 1064-1075, 1558-1605): not at the slower data rates.
RepeatedBeforeTimeout ==
    (TimedOut /\ state = waiting) => request_repeat_count = REQUEST_MAX_REPEAT

\* Whatever the application waits for ends, if the conflicts do: a request by
\* an answer or a timeout, a join by being accepted (lines 480-491, 719-742,
\* 1064-1075).
RequestsEnd == waiting # "none" ~> waiting = "none"

\* The callback is called "when the GET_REGISTER operation completes or times
\* out" (a7105_mesh.h:525), also if the conflicts go on (lines 575-598, 1826-1850).
TimesOut == waiting = "GET_REGISTER" ~> waiting # "GET_REGISTER"

\* What is repeated while a request runs is that request: "Each node maintains a
\* pending request cache that saves the packet for any outgoing requests and
\* repeats them a few times" (README.md:547-548; lines 1558-1605, 1826-1850).
RepeatsItself == sent.type = sent.for

\* A callback is "called when the GET_REGISTER operation completes or times out"
\* (a7105_mesh.h:525), and not for one that was refused (lines 967-975).
CalledWhenAsked == ~unasked
=============================================================================
