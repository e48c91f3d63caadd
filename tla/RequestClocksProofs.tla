------------------------- MODULE RequestClocksProofs -------------------------
(***************************************************************************)
(* Proofs about RequestClocks for all delays and timeouts, and so for any  *)
(* data rate: the types, and that no repeat of a request is put off by     *)
(* more than the longest random delay.                                     *)
(*                                                                         *)
(* RepeatsAllSent speaks of the moment a request is old.  The invariant    *)
(* behind it, InTime, bounds the age of a request at any moment by the     *)
(* repeats sent so far: each waits MaxDelay + 1 ticks at most, whoever     *)
(* drew the random delay last.                                             *)
(***************************************************************************)
EXTENDS RequestClocks, TLAPS

\* How old a request can be when its c-th repeat is sent.
Allowed(c) == c * (MaxDelay + 1)

InTime ==
    (state \in Operations /\ state = waiting /\ request_repeat_count < REQUEST_MAX_REPEAT) =>
        /\ repeat_age <= MaxDelay + 1
        /\ request_age <= Allowed(request_repeat_count) + repeat_age

\* Whom a node calls, and whom the application waits for, depend on the state.
CallsFit ==
    /\ state \in {"NOT_JOINED", "IDLE"} => waiting = "none"
    /\ state = "JOINING" => operation_callback = "join" /\ waiting = "join"
    /\ state \in Operations => operation_callback = state /\ waiting \in {"none", state}

-----------------------------------------------------------------------------
(* The types of the constants.                                             *)
LEMMA ConstantTypes ==
    /\ JOIN_ACCEPT_DELAY \in Nat /\ PING_TIMEOUT \in Nat /\ REQUEST_MAX_REPEAT \in Nat
    /\ MaxDelay \in Nat /\ MaxConflicts \in Nat /\ MaxAge \in Nat
  BY DelaysNat, AgesTell

(* The only multiplications of the proof: more repeats allow more time,    *)
(* each of them MaxDelay + 1 ticks, and all of it is below MaxAge.         *)
LEMMA AllowedOrdered ==
    ASSUME NEW b \in Nat, NEW c \in Nat, b <= c
    PROVE  Allowed(b) \in Nat /\ Allowed(c) \in Nat /\ Allowed(b) <= Allowed(c)
<1>1. MaxDelay + 1 \in Nat
  BY ConstantTypes
<1>2. \A m \in Nat : b * m \in Nat /\ c * m \in Nat /\ b * m <= c * m
  OBVIOUS
<1> QED BY <1>1, <1>2 DEF Allowed

LEMMA AllowedGrows ==
    ASSUME NEW c \in Nat, c < REQUEST_MAX_REPEAT
    PROVE  /\ Allowed(c) \in Nat /\ Allowed(REQUEST_MAX_REPEAT) \in Nat
           /\ Allowed(c + 1) = Allowed(c) + MaxDelay + 1
           /\ Allowed(c + 1) <= Allowed(REQUEST_MAX_REPEAT)
           /\ Allowed(REQUEST_MAX_REPEAT) < MaxAge
<1>1. REQUEST_MAX_REPEAT \in Nat /\ MaxDelay + 1 \in Nat /\ MaxDelay + 1 >= 1
  BY ConstantTypes
<1>2. Allowed(c) \in Nat /\ Allowed(c + 1) = Allowed(c) + MaxDelay + 1
  BY <1>1, ConstantTypes DEF Allowed
<1>3. Allowed(c + 1) <= Allowed(REQUEST_MAX_REPEAT)
  BY <1>1, AllowedOrdered
<1>4. Allowed(REQUEST_MAX_REPEAT) \in Nat /\ Allowed(REQUEST_MAX_REPEAT) < MaxAge
  <2>1. Allowed(REQUEST_MAX_REPEAT) \in Nat
    BY <1>1, ConstantTypes DEF Allowed
  <2>2. Allowed(REQUEST_MAX_REPEAT) < MaxAge
    BY AgesTell DEF Allowed
  <2> QED BY <2>1, <2>2
<1> QED BY <1>2, <1>3, <1>4

(* TypeOK is an invariant: the clocks stop at MaxAge, and no repeat is     *)
(* counted beyond REQUEST_MAX_REPEAT.                                      *)
THEOREM TypeCorrect == Spec => []TypeOK
<1>1. ASSUME Init
      PROVE  TypeOK
  <2>1. 0 \in 0..MaxAge /\ 0 \in 0..REQUEST_MAX_REPEAT /\ 0 \in 0..MaxConflicts
    BY ConstantTypes
  <2>2. sent \in [type : Operations \cup {"none", "CONFLICT_NAME"},
                  for : Operations \cup {"none"}]
    BY <1>1 DEF Init
  <2> QED BY <1>1, <2>1, <2>2 DEF Init, TypeOK, States
<1>2. ASSUME TypeOK, [Next]_vars
      PROVE  TypeOK'
  <2> USE <1>2, ConstantTypes
  <2>0. 0 \in 0..MaxAge /\ 0 \in 0..REQUEST_MAX_REPEAT
    OBVIOUS
  <2>1. ASSUME NEW type \in Operations \cup {"JOIN", "CONFLICT_NAME"}, SendRequest(type)
        PROVE  /\ request_age' \in 0..MaxAge /\ repeat_age' \in 0..MaxAge
               /\ request_repeat_count' \in 0..REQUEST_MAX_REPEAT
               /\ pending_request_cache' \in Operations \cup {"none", "CONFLICT_NAME"}
               /\ sent' = sent
    BY <2>0, <2>1 DEF SendRequest, TypeOK
  <2>2. ASSUME NEW callback \in Callbacks \cup {"none"}, Call(callback)
        PROVE  unasked' \in BOOLEAN /\ waiting' \in Callbacks \cup {"none"}
    BY <2>2 DEF Call, TypeOK
  <2>3. CASE Join
    <3>1. SendRequest("JOIN")
      BY <2>3 DEF Join, JoinWith
    <3> QED BY <2>0, <2>1, <2>3, <3>1 DEF Join, JoinWith, TypeOK, States, Callbacks
  <2>4. CASE \E type \in Operations : Ask(type)
    BY <2>1, <2>4 DEF Ask, TypeOK, States, Callbacks
  <2>5. CASE \E type \in {"GET_REGISTER", "SET_REGISTER"} : AskBadly(type)
    BY <2>5 DEF AskBadly, TypeOK, States, Callbacks, Operations, requestVars, appVars
  <2>6. CASE Answer
    BY <2>2, <2>6 DEF Answer, TypeOK, States, requestVars
  <2>7. CASE Timeout
    BY <2>2, <2>7 DEF Timeout, TypeOK, States, requestVars
  <2>8. CASE Rejoin
    <3>1. SendRequest("JOIN")
      BY <2>8 DEF Rejoin, JoinWith
    <3>2. conflicts' \in 0..MaxConflicts
      BY <2>8 DEF Rejoin, ConflictComes, TypeOK
    <3> QED BY <2>0, <2>1, <2>8, <3>1, <3>2 DEF Rejoin, JoinWith, TypeOK, States, appVars
  <2>9. CASE SendConflict
    <3>1. conflicts' \in 0..MaxConflicts
      BY <2>9 DEF SendConflict, ConflictComes, TypeOK
    <3> QED BY <2>1, <2>9, <3>1 DEF SendConflict, TypeOK, appVars
  <2>10. CASE AcceptJoin
    BY <2>2, <2>10 DEF AcceptJoin, TypeOK, States, requestVars
  <2>11. CASE RetransmitJoin
    BY <2>1, <2>11 DEF RetransmitJoin, TypeOK, appVars
  <2>12. CASE RepeatRequest
    <3>1. request_repeat_count + 1 \in 0..REQUEST_MAX_REPEAT
      BY <2>12 DEF RepeatRequest, RepeatDue, TypeOK
    <3>2. sent' \in [type : Operations \cup {"none", "CONFLICT_NAME"},
                     for : Operations \cup {"none"}]
      BY <2>12 DEF RepeatRequest, RepeatDue, TypeOK
    <3> QED BY <2>0, <2>12, <3>1, <3>2 DEF RepeatRequest, TypeOK, appVars
  <2>13. CASE OtherRepeats
    BY <2>13 DEF OtherRepeats, TypeOK, requestVars, appVars
  <2>14. CASE Tick
    <3>1. \A age \in 0..MaxAge : Older(age) \in 0..MaxAge
      BY DEF Older
    <3> QED BY <2>14, <3>1 DEF Tick, TypeOK, appVars
  <2>15. CASE UNCHANGED vars
    BY <2>15 DEF vars, requestVars, appVars, TypeOK
  <2> QED BY <2>3, <2>4, <2>5, <2>6, <2>7, <2>8, <2>9, <2>10, <2>11, <2>12, <2>13,
             <2>14, <2>15 DEF Next
<1> QED BY <1>1, <1>2, PTL DEF Spec
-----------------------------------------------------------------------------
(* Who is called: the application waits for what the state says, and the   *)
(* callback the node will call is the one of its state.                    *)
LEMMA CallsFitStep ==
    ASSUME TypeOK, CallsFit, [Next]_vars
    PROVE  CallsFit'
<1>0. "NOT_JOINED" \notin Operations /\ "JOINING" \notin Operations /\ "IDLE" \notin Operations
  BY DEF Operations
<1> USE <1>0 DEF CallsFit
<1>1. CASE Join
  BY <1>1 DEF Join, JoinWith
<1>2. CASE \E type \in Operations : Ask(type)
  BY <1>2 DEF Ask
<1>3. CASE \E type \in {"GET_REGISTER", "SET_REGISTER"} : AskBadly(type)
  BY <1>3 DEF AskBadly, appVars, Operations
<1>4. CASE Answer
  BY <1>4 DEF Answer, Call
<1>5. CASE Timeout
  BY <1>5 DEF Timeout, TimedOut, Call, Operations
<1>6. CASE Rejoin
  BY <1>6 DEF Rejoin, JoinWith, appVars
<1>7. CASE SendConflict
  BY <1>7 DEF SendConflict, appVars
<1>8. CASE AcceptJoin
  BY <1>8 DEF AcceptJoin, JoinAccepted, Call
<1>9. CASE RetransmitJoin
  BY <1>9 DEF RetransmitJoin, appVars
<1>10. CASE RepeatRequest
  BY <1>10 DEF RepeatRequest, appVars
<1>11. CASE OtherRepeats
  BY <1>11 DEF OtherRepeats, appVars
<1>12. CASE Tick
  BY <1>12 DEF Tick, appVars
<1>13. CASE UNCHANGED vars
  BY <1>13 DEF vars, appVars
<1> QED BY <1>1, <1>2, <1>3, <1>4, <1>5, <1>6, <1>7, <1>8, <1>9, <1>10, <1>11, <1>12,
           <1>13 DEF Next

(* The age of a request stays within what its repeats allow.  Time passes  *)
(* only while the next repeat is not due, and a repeat raises the bound by *)
(* as much as it may have waited.                                          *)
LEMMA InTimeStep ==
    ASSUME TypeOK, CallsFit, InTime, [Next]_vars
    PROVE  InTime'
<1>0. /\ request_age \in Nat /\ repeat_age \in Nat /\ request_repeat_count \in Nat
      /\ random_delay \in Nat /\ random_delay <= MaxDelay
      /\ MaxDelay \in Nat /\ MaxAge \in Nat /\ REQUEST_MAX_REPEAT \in Nat
  BY ConstantTypes DEF TypeOK, Delays
<1>1. ASSUME NEW type, SendRequest(type)
      PROVE  InTime'
  <2> SUFFICES ASSUME request_repeat_count' < REQUEST_MAX_REPEAT
               PROVE  /\ repeat_age' <= MaxDelay + 1
                      /\ request_age' <= Allowed(request_repeat_count') + repeat_age'
    BY DEF InTime
  <2>1. request_age' = 0 /\ repeat_age' = 0 /\ request_repeat_count' = 0
    BY <1>1 DEF SendRequest
  <2>2. Allowed(0) \in Nat
    BY <1>0, <2>1, AllowedGrows
  <2> QED BY <1>0, <2>1, <2>2
<1>2. CASE Join \/ Rejoin \/ SendConflict \/ RetransmitJoin
           \/ \E type \in Operations : Ask(type)
  BY <1>1, <1>2 DEF Join, Rejoin, JoinWith, SendConflict, RetransmitJoin, Ask
<1>3. CASE \E type \in {"GET_REGISTER", "SET_REGISTER"} : AskBadly(type)
  <2>1. waiting' = "none" /\ "none" \notin Operations
    BY <1>3 DEF AskBadly, appVars, CallsFit, Operations
  <2> QED BY <2>1 DEF InTime
<1>4. CASE Answer \/ Timeout \/ AcceptJoin
  <2>1. state' = "IDLE" /\ "IDLE" \notin Operations
    BY <1>4 DEF Answer, Timeout, AcceptJoin, Operations
  <2> QED BY <2>1 DEF InTime
<1>5. CASE RepeatRequest
  <2> SUFFICES ASSUME state \in Operations, state = waiting,
                      request_repeat_count + 1 < REQUEST_MAX_REPEAT
               PROVE  /\ repeat_age' <= MaxDelay + 1
                      /\ request_age <= Allowed(request_repeat_count + 1) + repeat_age'
    BY <1>5 DEF InTime, RepeatRequest, appVars
  <2>1. repeat_age' = 0 /\ request_repeat_count < REQUEST_MAX_REPEAT
    BY <1>5 DEF RepeatRequest, RepeatDue
  <2>2. /\ repeat_age <= MaxDelay + 1
        /\ request_age <= Allowed(request_repeat_count) + repeat_age
    BY <2>1 DEF InTime
  <2>3. /\ Allowed(request_repeat_count) \in Nat
        /\ Allowed(request_repeat_count + 1) = Allowed(request_repeat_count) + MaxDelay + 1
    BY <1>0, <2>1, AllowedGrows
  <2> QED BY <1>0, <2>1, <2>2, <2>3
<1>6. CASE Tick
  <2> SUFFICES ASSUME state \in Operations, state = waiting,
                      request_repeat_count < REQUEST_MAX_REPEAT
               PROVE  /\ Older(repeat_age) <= MaxDelay + 1
                      /\ Older(request_age) <= Allowed(request_repeat_count) + Older(repeat_age)
    BY <1>6 DEF InTime, Tick, appVars
  <2>1. /\ repeat_age <= MaxDelay + 1
        /\ request_age <= Allowed(request_repeat_count) + repeat_age
    BY DEF InTime
  <2>2. ~(repeat_age > random_delay)
    BY <1>6 DEF Tick, RepeatDue
  <2>3. /\ Allowed(request_repeat_count) \in Nat
        /\ Allowed(request_repeat_count) + MaxDelay + 1 < MaxAge
    BY <1>0, <2>1, AllowedGrows
  <2> QED BY <1>0, <2>1, <2>2, <2>3 DEF Older
<1>7. CASE OtherRepeats
  BY <1>7 DEF OtherRepeats, requestVars, appVars, InTime
<1>8. CASE UNCHANGED vars
  BY <1>8 DEF vars, requestVars, appVars, InTime
<1> QED BY <1>2, <1>3, <1>4, <1>5, <1>6, <1>7, <1>8 DEF Next

(* RepeatsAllSent: a request that has waited long enough for its c-th      *)
(* repeat has had it, for each c, or it would be older than the repeats it *)
(* has had allow.                                                          *)
THEOREM RepeatsAllSentHolds == Spec => []RepeatsAllSent
<1>1. Init => CallsFit /\ InTime
  BY DEF Init, CallsFit, InTime, Operations
<1>2. TypeOK /\ CallsFit /\ InTime /\ [Next]_vars => CallsFit' /\ InTime'
  BY CallsFitStep, InTimeStep
<1>3. TypeOK /\ InTime => RepeatsAllSent
  <2> SUFFICES ASSUME TypeOK, InTime, state \in Operations, state = waiting,
                      NEW c \in 1..REQUEST_MAX_REPEAT,
                      request_age > Allowed(c), request_repeat_count < c
               PROVE  FALSE
    BY ConstantTypes DEF RepeatsAllSent, Allowed, TypeOK
  <2>1. /\ request_repeat_count \in Nat /\ request_repeat_count < REQUEST_MAX_REPEAT
        /\ request_age \in Nat /\ repeat_age \in Nat
        /\ c \in Nat /\ request_repeat_count + 1 \in Nat /\ request_repeat_count + 1 <= c
    BY ConstantTypes DEF TypeOK
  <2>2. /\ repeat_age <= MaxDelay + 1
        /\ request_age <= Allowed(request_repeat_count) + repeat_age
    BY <2>1 DEF InTime
  <2>3. /\ Allowed(request_repeat_count) \in Nat
        /\ Allowed(request_repeat_count + 1) = Allowed(request_repeat_count) + MaxDelay + 1
    BY <2>1, AllowedGrows
  <2>4. Allowed(c) \in Nat /\ Allowed(request_repeat_count + 1) <= Allowed(c)
    BY <2>1, AllowedOrdered
  <2> QED BY <2>1, <2>2, <2>3, <2>4, ConstantTypes
<1> QED BY <1>1, <1>2, <1>3, TypeCorrect, PTL DEF Spec
=============================================================================
