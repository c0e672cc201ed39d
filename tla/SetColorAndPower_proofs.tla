------------------------- MODULE SetColorAndPower_proofs -------------------------
(***************************************************************************)
(* Proofs about SetColorAndPower, for every set of brightness and power    *)
(* values, every number of retries, every width of the counter and every   *)
(* capacity of the network.                                                *)
(***************************************************************************)
EXTENDS SetColorAndPower, TLAPS

(***************************************************************************)
(* Packets and the counter.                                                *)
(***************************************************************************)

\* Both commands of a state, its report and every bare packet are packets.
LEMMA PacketTypes ==
    /\ Dark \in LightStates
    /\ \A st \in LightStates : SetPower(st) \in Requests /\ SetLightColorHSL(st) \in Requests
    /\ \A st \in LightStates : LightStatus(st) \in Replies
    /\ \A t \in {"GetService", "GetGroup", "GetLightState"} : Msg(t) \in Requests
    /\ \A t \in Acks \cup {"StateService", "StateGroup"} : Msg(t) \in Replies
<1>1. Dark \in LightStates
  BY ConstantsAssumption DEF Dark, LightStates
<1>2. ASSUME NEW st \in LightStates
      PROVE  SetPower(st) \in Requests /\ SetLightColorHSL(st) \in Requests
  <2>1. Level(st) \in PowerLevels /\ st.brightness \in Brightness
    BY ConstantsAssumption DEF Level, LightStates
  <2>2. SetPower(st) \in [type : {"SetPower"}, brightness : {0}, power : PowerLevels]
    BY <2>1 DEF SetPower
  <2>3. SetLightColorHSL(st)
          \in [type : {"SetLightColorHSL"}, brightness : Brightness, power : {0}]
    BY <2>1 DEF SetLightColorHSL
  <2> QED BY <2>2, <2>3 DEF Requests
<1>3. \A st \in LightStates : LightStatus(st) \in Replies
  BY DEF Replies
<1>4. \A t \in {"GetService", "GetGroup", "GetLightState"} : Msg(t) \in Requests
  BY DEF Requests
<1>5. \A t \in Acks \cup {"StateService", "StateGroup"} : Msg(t) \in Replies
  BY DEF Replies
<1> QED BY <1>1, <1>2, <1>3, <1>4, <1>5

\* What the fields of a packet range over.
LEMMA PacketFields ==
    ASSUME NEW p \in Packets
    PROVE  p.brightness \in Brightness /\ p.power \in PowerLevels
<1>1. CASE p \in Requests
  BY <1>1, ConstantsAssumption DEF Requests, Msg
<1>2. CASE p \in {LightStatus(st) : st \in LightStates}
  BY <1>2 DEF LightStatus, LightStates
<1>3. CASE p \in {Msg("StateService"), Msg("StateGroup")} \cup {Msg(a) : a \in Acks}
  BY <1>3, ConstantsAssumption DEF Msg
<1> QED BY <1>1, <1>2, <1>3 DEF Packets, Replies

\* The counter is unsigned: neither of its operations leaves its width, and
\* above zero the subtraction is the ordinary one.
LEMMA Counter ==
    /\ \A n : AddPendingAcks(ClearPendingAcks(n), 2) = 2
    /\ \A n \in 0..(AckModulus - 1) : SubtractPendingAck(n) \in 0..(AckModulus - 1)
    /\ \A n \in 1..(AckModulus - 1) : SubtractPendingAck(n) = n - 1
BY ConstantsAssumption DEF AddPendingAcks, ClearPendingAcks, SubtractPendingAck

\* Transmit never puts anything on the network but what is sent.
LEMMA TransmitBound ==
    ASSUME NEW gone, NEW sent, Transmit(gone, sent)
    PROVE  inflight' \subseteq (inflight \ gone) \cup sent
BY DEF Transmit

\* The bulb answers a request with replies.
LEMMA AnswersAreReplies ==
    ASSUME NEW p \in Requests, bulb \in LightStates
    PROVE  Answers(p) \subseteq Replies
<1>1. p.type \in {"GetService", "GetGroup", "GetLightState", "SetPower", "SetLightColorHSL"}
  BY DEF Requests, Msg
<1> QED BY <1>1, PacketTypes DEF Answers, Acks

------------------------------------------------------------------------------
(***************************************************************************)
(* Type correctness.                                                       *)
(***************************************************************************)

\* One packet handled keeps the types of what HandleNewPacket changes.
LEMMA HandleNewPacketTypes ==
    ASSUME TypeOK, NEW p \in Replies, HandleNewPacket(p)
    PROVE  /\ pending' \in 0..(AckModulus - 1)
           /\ heard' \in [Acks -> Nat]
           /\ state' \in LightStates
           /\ discovered' \in BOOLEAN
           /\ inflight' \in SUBSET Packets
<1> USE DEF TypeOK
<1>1. CASE p.type = "StateService" /\ Transmit({p}, {Msg("GetGroup")})
           /\ UNCHANGED <<pending, heard, state, discovered>>
  BY <1>1, TransmitBound, PacketTypes DEF Packets
<1>2. CASE p.type = "StateGroup" /\ Transmit({p}, {Msg("GetLightState")})
           /\ UNCHANGED <<pending, heard, state, discovered>>
  BY <1>2, TransmitBound, PacketTypes DEF Packets
<1>3. CASE /\ p.type = "LightStatus"
           /\ state' = [brightness |-> p.brightness, power |-> p.power]
           /\ discovered' = TRUE
           /\ Transmit({p}, {})
           /\ UNCHANGED <<pending, heard>>
  <2>1. state' \in LightStates
    BY <1>3, PacketFields DEF Packets, LightStates
  <2>2. inflight' \in SUBSET Packets
    BY <1>3, TransmitBound
  <2> QED BY <1>3, <2>1, <2>2
<1>4. CASE /\ p.type \in Acks
           /\ pending' = SubtractPendingAck(pending)
           /\ heard' = IF pc = "wait" THEN [heard EXCEPT ![p.type] = @ + 1] ELSE heard
           /\ Transmit({p}, {})
           /\ UNCHANGED <<state, discovered>>
  <2>1. pending' \in 0..(AckModulus - 1)
    BY <1>4, Counter
  <2>2. heard' \in [Acks -> Nat]
    BY <1>4
  <2>3. inflight' \in SUBSET Packets
    BY <1>4, TransmitBound
  <2> QED BY <1>4, <2>1, <2>2, <2>3
<1> QED BY <1>1, <1>2, <1>3, <1>4 DEF HandleNewPacket


\* A retry loop that is running has attempts left.
RetriesLeft == pc \in {"attempt", "wait"} => retries > 0

\* Every step keeps the types and the attempts.
LEMMA TypeStep == TypeOK /\ RetriesLeft /\ [Next]_vars => TypeOK' /\ RetriesLeft'
<1> SUFFICES ASSUME TypeOK, RetriesLeft, [Next]_vars PROVE TypeOK' /\ RetriesLeft'
  OBVIOUS
<1> USE ConstantsAssumption DEF TypeOK, RetriesLeft
<1>1. ASSUME NEW st \in Targets, NEW save \in BOOLEAN, Call(st, save)
      PROVE  TypeOK' /\ RetriesLeft'
  <2>1. call' \in [state : LightStates, save : BOOLEAN] /\ entry' \in LightStates
    BY <1>1, PacketTypes DEF Call
  <2>2. quiet' \in BOOLEAN
    BY <1>1 DEF Call
  <2> QED BY <1>1, <2>1, <2>2 DEF Call
<1>2. CASE Attempt
  <2>1. inflight' \in SUBSET Packets
    BY <1>2, TransmitBound, PacketTypes DEF Attempt, CommandsFor, Packets
  <2>2. heard' \in [Acks -> Nat] /\ pending' \in 0..(AckModulus - 1)
    BY <1>2, Counter DEF Attempt, CommandsFor, NotHeard
  <2> QED BY <1>2, <2>1, <2>2 DEF Attempt, CommandsFor
<1>3. ASSUME NEW p \in Replies, ReadPacket(p) PROVE TypeOK' /\ RetriesLeft'
  <2>1. HandleNewPacket(p)
    BY <1>3 DEF ReadPacket
  <2>2. pc' \in {"wait", "discover", "finish"} /\ (pc' = "wait" => pc = "wait")
    BY <1>3 DEF ReadPacket
  <2> QED BY <1>3, <2>1, <2>2, HandleNewPacketTypes DEF ReadPacket
<1>4. CASE WaitExpires
  <2>1. retries' \in 0..MaxRetries /\ (pc' = "attempt" => retries' > 0)
        /\ pc' \in {"attempt", "finish"}
    BY <1>4 DEF WaitExpires
  <2> QED BY <1>4, <2>1 DEF WaitExpires, history
<1>5. CASE Finish
  <2>1. call' \in [state : LightStates, save : BOOLEAN] /\ entry' \in LightStates
    BY <1>5, PacketTypes DEF Finish
  <2>2. heard' \in [Acks -> Nat] /\ saved' \in LightStates
    BY <1>5 DEF Finish, NotHeard
  <2>3. retries' \in 0..MaxRetries /\ applied' \in SUBSET Commands
    BY <1>5 DEF Finish
  <2>4. inflight' \in SUBSET Packets /\ pending' \in 0..(AckModulus - 1)
    BY <1>5 DEF Finish
  <2> QED BY <1>5, <2>1, <2>2, <2>3, <2>4 DEF Finish
<1>6. CASE Discover
  <2>1. inflight' \in SUBSET Packets
    BY <1>6, TransmitBound, PacketTypes DEF Discover, Packets
  <2> QED BY <1>6, <2>1 DEF Discover, history
<1>7. CASE DiscoverExpires
  BY <1>7 DEF DiscoverExpires, history
<1>8. CASE TimePasses
  BY <1>8 DEF TimePasses, history
<1>9. ASSUME NEW p \in Requests, BulbExecutes(p) PROVE TypeOK' /\ RetriesLeft'
  <2>1. p.brightness \in Brightness /\ p.power \in PowerLevels
    BY PacketFields DEF Packets
  <2>2. bulb' \in LightStates
    BY <1>9, <2>1 DEF BulbExecutes, CommandsFor, LightStates
  <2>3. applied' \in SUBSET Commands
    BY <1>9 DEF BulbExecutes, CommandsFor, Commands, SetPower, SetLightColorHSL
  <2>4. inflight' \in SUBSET Packets
    BY <1>9, TransmitBound, AnswersAreReplies DEF BulbExecutes, CommandsFor, Packets
  <2> QED BY <1>9, <2>2, <2>3, <2>4 DEF BulbExecutes, CommandsFor, manager
<1>10. CASE Restart
  <2>1. call' \in [state : LightStates, save : BOOLEAN] /\ entry' \in LightStates
        /\ state' \in LightStates
    BY <1>10, PacketTypes DEF Restart
  <2>2. heard' \in [Acks -> Nat] /\ saved' \in LightStates
    BY <1>10 DEF Restart, NotHeard
  <2>3. retries' \in 0..MaxRetries /\ pending' \in 0..(AckModulus - 1)
    BY <1>10 DEF Restart
  <2>4. applied' \in SUBSET Commands /\ inflight' \in SUBSET Packets /\ bulb' \in LightStates
    BY <1>10 DEF Restart
  <2> QED BY <1>10, <2>1, <2>2, <2>3, <2>4 DEF Restart
<1>11. CASE UNCHANGED vars
  BY <1>11 DEF vars, manager, history
<1> QED
  BY <1>1, <1>2, <1>3, <1>4, <1>5, <1>6, <1>7, <1>8, <1>9, <1>10, <1>11 DEF Next

\* Every variable keeps its type in every execution: in particular the
\* unsigned counter of acknowledgements and the number of retries stay in
\* their ranges, whatever the network delivers.
THEOREM TypeCorrect == Spec => [](TypeOK /\ RetriesLeft)
<1>1. ASSUME Init PROVE TypeOK /\ RetriesLeft
  <2>1. call \in [state : LightStates, save : BOOLEAN] /\ entry \in LightStates
        /\ state \in LightStates /\ saved \in LightStates /\ bulb \in LightStates
    BY <1>1, PacketTypes, ConstantsAssumption DEF Init
  <2>2. heard \in [Acks -> Nat]
    BY <1>1 DEF Init, NotHeard
  <2>3. retries \in 0..MaxRetries /\ pending \in 0..(AckModulus - 1)
    BY <1>1, ConstantsAssumption DEF Init
  <2>4. applied \in SUBSET Commands /\ inflight \in SUBSET Packets
    BY <1>1 DEF Init
  <2> QED BY <1>1, <2>1, <2>2, <2>3, <2>4 DEF Init, TypeOK, RetriesLeft
<1> QED BY <1>1, TypeStep, PTL DEF Spec

------------------------------------------------------------------------------
(***************************************************************************)
(* The acknowledgements of a call.                                         *)
(*                                                                         *)
(* AckWindow is almost inductive: it misses that a loop left with attempts *)
(* to spare has heard two acknowledgements.  For a quiet call, IInv says   *)
(* that the network holds nothing but the exchange of this call, that an   *)
(* acknowledgement on its way or heard proves its command was executed,    *)
(* and that in the first attempt a command, its acknowledgement and the    *)
(* count of it exist at most once in all.                                  *)
(***************************************************************************)

AckOf(k) == IF k = "SetPower" THEN "AckSetPower" ELSE "AckSetLightColorHSL"
CommandOf(k) == IF k = "SetPower" THEN SetPower(call.state) ELSE SetLightColorHSL(call.state)

Exchange == {CommandOf(k) : k \in Commands} \cup {Msg(AckOf(k)) : k \in Commands}

HeardInWait ==
    /\ pc \in {"idle", "discover"} => heard = NotHeard
    /\ AckWindow
    /\ pc = "finish" /\ retries > 0 => Heard = 2

AckProvesExecution(k) ==
    Msg(AckOf(k)) \in inflight \/ heard[AckOf(k)] > 0 => k \in applied

AtMostOnce(k) ==
    /\ heard[AckOf(k)] \in {0, 1}
    /\ heard[AckOf(k)] = 1 => CommandOf(k) \notin inflight /\ Msg(AckOf(k)) \notin inflight
    /\ Msg(AckOf(k)) \in inflight => CommandOf(k) \notin inflight

QuietCall ==
    quiet =>
        /\ InCall
        /\ inflight \subseteq Exchange
        /\ heard["AckGetGroup"] = 0 /\ heard["AckGetLightState"] = 0
        /\ call.save => state = entry
        /\ \A k \in Commands : AckProvesExecution(k)
        /\ retries = MaxRetries =>
               IF pc = "attempt" THEN inflight = {} ELSE \A k \in Commands : AtMostOnce(k)

IInv == TypeOK /\ RetriesLeft /\ HeardInWait /\ QuietCall

\* Reading an acknowledgement in the wait adds one to what was heard.
LEMMA HeardMore ==
    ASSUME TypeOK, NEW t \in Acks, heard' = [heard EXCEPT ![t] = @ + 1]
    PROVE  Heard' = Heard + 1
BY DEF TypeOK, Acks, Heard

\* The count of the acknowledgements is kept by every step.
LEMMA HeardStep == IInv /\ [Next]_vars => HeardInWait'
<1> SUFFICES ASSUME IInv, [Next]_vars PROVE HeardInWait'
  OBVIOUS
<1> USE ConstantsAssumption DEF IInv, HeardInWait, AckWindow, HasPendingAcks
<1>1. ASSUME NEW st \in Targets, NEW save \in BOOLEAN, Call(st, save) PROVE HeardInWait'
  BY <1>1 DEF Call
<1>2. CASE Attempt
  BY <1>2, Counter DEF Attempt, CommandsFor, Heard, NotHeard, Acks
<1>3. ASSUME NEW p \in Replies, ReadPacket(p) PROVE HeardInWait'
  <2>1. pc' = IF pc = "wait" /\ ~(pending' > 0) THEN "finish" ELSE pc
    BY <1>3 DEF ReadPacket
  <2>2. CASE UNCHANGED <<pending, heard>>
    BY <1>3, <2>1, <2>2 DEF ReadPacket, Heard
  <2>3. CASE p.type \in Acks /\ pending' = SubtractPendingAck(pending) /\ pc = "wait"
             /\ heard' = [heard EXCEPT ![p.type] = @ + 1]
    <3>1. Heard' = Heard + 1
      BY <2>3, HeardMore
    <3>2. pending' = pending - 1
      BY <2>3, Counter DEF TypeOK
    <3>3. pending' + Heard' = 2 /\ pending' \in Nat /\ Heard' \in Nat
      BY <2>3, <3>1, <3>2 DEF TypeOK, Heard, Acks
    <3> QED BY <2>1, <2>3, <3>3 DEF TypeOK
  <2>4. CASE pc # "wait" /\ UNCHANGED heard
    BY <1>3, <2>1, <2>4 DEF ReadPacket, Heard
  <2>5. HandleNewPacket(p)
    BY <1>3 DEF ReadPacket
  <2>6. \/ pending' = pending /\ heard' = heard
        \/ /\ p.type \in Acks
           /\ pending' = SubtractPendingAck(pending)
           /\ heard' = IF pc = "wait" THEN [heard EXCEPT ![p.type] = @ + 1] ELSE heard
    BY ONLY <2>5 DEF HandleNewPacket
  <2> QED BY <2>2, <2>3, <2>4, <2>6
<1>4. CASE WaitExpires
  BY <1>4 DEF WaitExpires, history
<1>5. CASE Finish
  BY <1>5 DEF Finish
<1>6. CASE Discover \/ DiscoverExpires \/ TimePasses
  BY <1>6 DEF Discover, DiscoverExpires, TimePasses, history, Heard
<1>7. ASSUME NEW p \in Requests, BulbExecutes(p) PROVE HeardInWait'
  BY <1>7 DEF BulbExecutes, CommandsFor, manager, Heard
<1>8. CASE Restart
  BY <1>8 DEF Restart
<1>9. CASE UNCHANGED vars
  BY <1>9 DEF vars, manager, history, Heard
<1> QED
  BY <1>1, <1>2, <1>3, <1>4, <1>5, <1>6, <1>7, <1>8, <1>9 DEF Next

\* The packets of an exchange are told apart by their types.
LEMMA ExchangeTypes ==
    /\ \A k \in Commands : CommandOf(k).type = k /\ Msg(AckOf(k)).type = AckOf(k)
    /\ \A k \in Commands : AckOf(k) \in Acks /\ AckOf(k) \notin Commands
    /\ AckOf("SetPower") # AckOf("SetLightColorHSL")
BY DEF Commands, CommandOf, AckOf, SetPower, SetLightColorHSL, Msg, Acks

LEMMA ReplyTypes ==
    ASSUME NEW p \in Replies
    PROVE  p.type \in Acks \cup {"StateService", "StateGroup", "LightStatus"}
<1>1. CASE p \in {LightStatus(st) : st \in LightStates}
  BY <1>1 DEF LightStatus
<1>2. CASE p \in {Msg("StateService"), Msg("StateGroup")} \cup {Msg(a) : a \in Acks}
  BY <1>2 DEF Msg
<1> QED BY <1>1, <1>2 DEF Replies

LEMMA RequestTypes ==
    ASSUME NEW p \in Requests
    PROVE  p.type \in Commands \cup {"GetService", "GetGroup", "GetLightState"}
BY DEF Requests, Msg, Commands

\* A quiet call reads nothing but the acknowledgements of its commands.
LEMMA QuietReads ==
    ASSUME IInv, quiet, NEW p \in Replies, ReadPacket(p)
    PROVE  \E k \in Commands :
             /\ p = Msg(AckOf(k))
             /\ pc = "wait"
             /\ heard' = [heard EXCEPT ![AckOf(k)] = @ + 1]
             /\ inflight' = inflight \ {p}
             /\ state' = state
<1>1. p.type \notin Commands
  BY ReplyTypes DEF Acks, Commands
<1>2. PICK k \in Commands : p = Msg(AckOf(k))
  BY <1>1, ExchangeTypes DEF ReadPacket, IInv, QuietCall, Exchange
<1>3. p.type = AckOf(k) /\ p.type \in Acks
  BY <1>2, ExchangeTypes
<1>4. pc = "wait"
  BY DEF ReadPacket, IInv, QuietCall, InCall
<1>5. /\ heard' = [heard EXCEPT ![p.type] = @ + 1]
      /\ state' = state
      /\ Transmit({p}, {})
  BY <1>3, <1>4 DEF ReadPacket, HandleNewPacket, Acks
<1>6. inflight' = inflight \ {p}
  BY <1>5 DEF Transmit
<1> QED BY <1>2, <1>3, <1>4, <1>5, <1>6

\* In a quiet call the bulb executes nothing but the commands of the call.
LEMMA QuietExecutes ==
    ASSUME IInv, quiet, NEW p \in Requests, BulbExecutes(p)
    PROVE  \E k \in Commands :
             /\ p = CommandOf(k)
             /\ CommandOf(k) \in inflight
             /\ applied' = applied \cup {k}
             /\ inflight' \subseteq (inflight \ {p}) \cup {Msg(AckOf(k))}
<1>1. p.type \notin Acks
  BY RequestTypes DEF Acks, Commands
<1>2. PICK k \in Commands : p = CommandOf(k)
  BY <1>1, ExchangeTypes DEF BulbExecutes, CommandsFor, IInv, QuietCall, Exchange
<1>3. p.type = k
  BY <1>2, ExchangeTypes
<1>4. Answers(p) = {Msg(AckOf(k))}
  BY <1>3 DEF Answers, AckOf, Commands
<1>5. applied' = applied \cup {k}
  BY <1>2, <1>3 DEF BulbExecutes, CommandsFor, CommandOf, Commands
<1>6. inflight' \subseteq (inflight \ {p}) \cup {Msg(AckOf(k))}
  BY <1>4, TransmitBound DEF BulbExecutes, CommandsFor
<1> QED BY <1>2, <1>5, <1>6 DEF BulbExecutes, CommandsFor

\* What a quiet call knows of its exchange is kept by every step.
LEMMA QuietStep == IInv /\ [Next]_vars => QuietCall'
<1> SUFFICES ASSUME IInv, [Next]_vars, quiet' PROVE QuietCall'
  BY DEF QuietCall
<1> USE DEF QuietCall, AckProvesExecution, AtMostOnce
<1>1. ASSUME NEW st \in Targets, NEW save \in BOOLEAN, Call(st, save) PROVE QuietCall'
  <2>1. inflight' = {} /\ heard' = NotHeard
    BY <1>1 DEF Call, IInv, HeardInWait
  <2>2. \A a \in Acks : heard'[a] = 0
    BY <2>1 DEF NotHeard
  <2>3. InCall' /\ (call'.save => state' = entry') /\ pc' = "attempt"
    BY <1>1 DEF Call, InCall
  <2> QED BY <2>1, <2>2, <2>3, ExchangeTypes DEF Acks
<1>2. CASE Attempt
  <2>1. inflight' \subseteq inflight \cup {CommandOf(k) : k \in Commands}
    BY <1>2, TransmitBound DEF Attempt, CommandsFor, CommandOf, Commands
  <2>2. \A a \in Acks : heard'[a] = 0
    BY <1>2 DEF Attempt, CommandsFor, NotHeard
  <2>3. quiet /\ InCall' /\ pc = "attempt" /\ pc' = "wait" /\ retries' = retries
        /\ UNCHANGED <<call, state, entry, applied>>
    BY <1>2 DEF Attempt, CommandsFor, InCall
  <2>4. \A k \in Commands : CommandOf(k)' = CommandOf(k)
    BY <2>3 DEF CommandOf, SetPower, SetLightColorHSL, Level
  <2>5. inflight' \subseteq Exchange'
    BY <2>1, <2>3, <2>4 DEF Exchange, IInv
  <2>6. \A k \in Commands : Msg(AckOf(k)) \in inflight' => Msg(AckOf(k)) \in inflight
    BY <2>1, ExchangeTypes
  <2>7. \A k \in Commands : AckProvesExecution(k)'
    BY <2>2, <2>3, <2>6, ExchangeTypes DEF IInv
  <2>8. retries' = MaxRetries => \A k \in Commands : AtMostOnce(k)'
    BY <2>2, <2>3, <2>6, ExchangeTypes DEF IInv
  <2> QED BY <2>2, <2>3, <2>5, <2>7, <2>8 DEF Acks, IInv
<1>3. ASSUME NEW p \in Replies, ReadPacket(p) PROVE QuietCall'
  <2>1. quiet /\ UNCHANGED <<call, retries, applied, entry>>
    BY <1>3 DEF ReadPacket
  <2>2. PICK j \in Commands :
            /\ p = Msg(AckOf(j))
            /\ pc = "wait"
            /\ heard' = [heard EXCEPT ![AckOf(j)] = @ + 1]
            /\ inflight' = inflight \ {p}
            /\ state' = state
    BY <1>3, <2>1, QuietReads
  <2>3. p \in inflight /\ InCall' /\ pc' # "attempt"
    BY <1>3, <2>2 DEF ReadPacket, InCall
  <2>4. \A k \in Commands : CommandOf(k)' = CommandOf(k)
    BY <2>1 DEF CommandOf, SetPower, SetLightColorHSL, Level
  <2>5. inflight' \subseteq Exchange'
    BY <2>1, <2>2, <2>4 DEF Exchange, IInv
  <2>6. /\ heard'[AckOf(j)] = heard[AckOf(j)] + 1
        /\ \A a \in Acks \ {AckOf(j)} : heard'[a] = heard[a]
    BY <2>2, ExchangeTypes DEF IInv, TypeOK
  <2>7. heard'["AckGetGroup"] = 0 /\ heard'["AckGetLightState"] = 0
    BY <2>1, <2>6 DEF IInv, AckOf, Acks
  <2>8. ASSUME NEW k \in Commands PROVE AckProvesExecution(k)'
    BY <2>1, <2>2, <2>3, <2>6, ExchangeTypes DEF IInv
  <2>9. ASSUME NEW k \in Commands, retries' = MaxRetries PROVE AtMostOnce(k)'
    <3>1. AtMostOnce(k)
      BY <2>1, <2>2, <2>9 DEF IInv
    <3>2. CASE k = j
      BY <2>2, <2>3, <2>4, <2>6, <3>1, <3>2 DEF IInv
    <3>3. CASE k # j
      <4>1. heard'[AckOf(k)] = heard[AckOf(k)]
        BY <2>6, <3>3 DEF AckOf, Commands, Acks
      <4> QED BY <2>2, <2>4, <3>1, <4>1
    <3> QED BY <3>2, <3>3
  <2> QED BY <2>1, <2>2, <2>3, <2>5, <2>7, <2>8, <2>9 DEF IInv
<1>4. CASE WaitExpires
  <2>1. retries' # MaxRetries /\ InCall' /\ quiet
        /\ UNCHANGED <<call, state, entry, inflight, heard, applied>>
    BY <1>4, ConstantsAssumption DEF WaitExpires, history, InCall, IInv, TypeOK, RetriesLeft
  <2> QED BY <2>1 DEF IInv, Exchange, CommandOf, SetPower, SetLightColorHSL, Level
<1>5. CASE Finish
  BY <1>5 DEF Finish
<1>6. CASE Discover \/ DiscoverExpires
  BY <1>6 DEF Discover, DiscoverExpires, history, IInv, InCall
<1>7. CASE TimePasses
  BY <1>7 DEF TimePasses, history, IInv, InCall, Exchange, CommandOf, SetPower,
              SetLightColorHSL, Level
<1>8. ASSUME NEW p \in Requests, BulbExecutes(p) PROVE QuietCall'
  <2>1. quiet /\ UNCHANGED <<pc, call, retries, state, entry, heard>>
    BY <1>8 DEF BulbExecutes, CommandsFor, manager
  <2>2. PICK j \in Commands :
            /\ p = CommandOf(j)
            /\ CommandOf(j) \in inflight
            /\ applied' = applied \cup {j}
            /\ inflight' \subseteq (inflight \ {p}) \cup {Msg(AckOf(j))}
    BY <1>8, <2>1, QuietExecutes
  <2>3. \A k \in Commands : CommandOf(k)' = CommandOf(k)
    BY <2>1 DEF CommandOf, SetPower, SetLightColorHSL, Level
  <2>4. inflight' \subseteq Exchange'
    BY <2>1, <2>2, <2>3 DEF Exchange, IInv
  <2>5. ASSUME NEW k \in Commands PROVE AckProvesExecution(k)'
    <3>1. Msg(AckOf(k)) \in inflight' => Msg(AckOf(k)) \in inflight \/ k = j
      BY <2>2, ExchangeTypes DEF AckOf, Commands
    <3> QED BY <2>1, <2>2, <3>1 DEF IInv
  <2>6. ASSUME NEW k \in Commands, retries' = MaxRetries, pc # "attempt"
        PROVE  AtMostOnce(k)'
    <3>1. AtMostOnce(k)
      BY <2>1, <2>6 DEF IInv
    <3>2. CASE k = j
      BY <2>1, <2>2, <2>3, <3>1, <3>2, ExchangeTypes
    <3>3. CASE k # j
      <4>1. Msg(AckOf(k)) # Msg(AckOf(j)) /\ CommandOf(k) # Msg(AckOf(j))
        BY <3>3, ExchangeTypes DEF AckOf, Commands
      <4> QED BY <2>1, <2>2, <2>3, <3>1, <4>1
    <3> QED BY <3>2, <3>3
  <2>7. retries = MaxRetries => pc # "attempt"
    BY <2>1, <2>2 DEF IInv
  <2> QED BY <2>1, <2>4, <2>5, <2>6, <2>7 DEF IInv, InCall
<1>9. CASE Restart
  BY <1>9 DEF Restart
<1>10. CASE UNCHANGED vars
  BY <1>10 DEF vars, manager, history, IInv, InCall, Exchange, CommandOf, SetPower,
               SetLightColorHSL, Level
<1> QED
  BY <1>1, <1>2, <1>3, <1>4, <1>5, <1>6, <1>7, <1>8, <1>9, <1>10 DEF Next

LEMMA Inductive == Spec => []IInv
<1>1. ASSUME Init PROVE HeardInWait /\ QuietCall
  BY <1>1 DEF Init, HeardInWait, AckWindow, QuietCall
<1>2. IInv /\ [Next]_vars => IInv'
  BY TypeStep, HeardStep, QuietStep DEF IInv
<1>3. Init => HeardInWait /\ QuietCall
  BY <1>1
<1>4. TypeOK /\ RetriesLeft /\ HeardInWait /\ QuietCall => IInv
  BY DEF IInv
<1>5. Init /\ TypeOK /\ RetriesLeft => IInv
  BY <1>3, <1>4
<1> QED BY TypeCorrect, <1>2, <1>5, PTL DEF Spec

------------------------------------------------------------------------------
(***************************************************************************)
(* The theorems.                                                           *)
(***************************************************************************)

\* During the wait of SetColorAndPower the unsigned counter is the two
\* commands minus the acknowledgements read since the attempt began, and has
\* not passed zero, whatever late acknowledgements the network delivers and
\* however narrow the counter is.
THEOREM AckWindowHolds == Spec => []AckWindow
<1>1. IInv => AckWindow
  BY DEF IInv, HeardInWait
<1> QED BY Inductive, <1>1, PTL

\* An acknowledged call that found the network empty has reached the bulb,
\* with both commands when the first attempt was acknowledged.
THEOREM QuietCallReaches == Spec => []QuietCallReachesBulb
<1>1. IInv => QuietCallReachesBulb
  <2> SUFFICES ASSUME IInv, pc = "finish", retries > 0, quiet
               PROVE  applied # {} /\ (retries = MaxRetries => applied = Commands)
    BY DEF QuietCallReachesBulb
  <2>1. heard[AckOf("SetPower")] + heard[AckOf("SetLightColorHSL")] = 2
    BY DEF IInv, TypeOK, HeardInWait, QuietCall, Heard, AckOf, Acks
  <2>2. heard[AckOf("SetPower")] \in Nat /\ heard[AckOf("SetLightColorHSL")] \in Nat
    BY DEF IInv, TypeOK, AckOf, Acks
  <2>3. \A k \in Commands : heard[AckOf(k)] > 0 => k \in applied
    BY DEF IInv, QuietCall, AckProvesExecution
  <2>4. applied # {}
    BY <2>1, <2>2, <2>3 DEF Commands
  <2>5. CASE retries = MaxRetries
    <3>1. \A k \in Commands : heard[AckOf(k)] \in {0, 1}
      BY <2>5 DEF IInv, QuietCall, AtMostOnce
    <3>2. \A k \in Commands : k \in applied
      BY <2>1, <2>2, <2>3, <3>1 DEF Commands
    <3> QED BY <2>4, <3>2 DEF IInv, TypeOK
  <2> QED BY <2>4, <2>5
<1> QED BY Inductive, <1>1, PTL

\* An acknowledged call that found the network empty saves the state that
\* was known when it began.
THEOREM QuietCallSaves == Spec => []QuietCallSavesEntryState
<1>1. IInv => QuietCallSavesEntryState
  BY DEF IInv, QuietCall, QuietCallSavesEntryState, Saves
<1> QED BY Inductive, <1>1, PTL

------------------------------------------------------------------------------
(***************************************************************************)
(* The refinement.                                                         *)
(***************************************************************************)

\* The commands a call may bring to the bulb.
LEMMA CommandsOfCall ==
    \A st : BulbCall!Commands(st) = {[set |-> "power", to |-> Level(st)],
                                     [set |-> "brightness", to |-> st.brightness]}
BY DEF BulbCall!Commands, BulbCall!Level, Level

\* A step that puts neither a command nor a report on the network, and that
\* starts no call, leaves fewer of both on their way.
LEMMA NothingNew ==
    ASSUME NEW new,
           inflight' \subseteq inflight \cup new,
           \A p \in new : p.type \notin Commands \cup {"LightStatus"},
           pc' \in {"attempt", "wait"} => pc \in {"attempt", "wait"} /\ call' = call
    PROVE  BulbCall!Network({})
<1>1. ASSUME NEW p \in inflight', p.type \in Commands \cup {"LightStatus"}
      PROVE  p \in inflight
  BY <1>1
<1>2. CommandsLeft' \subseteq CommandsLeft
  BY <1>1 DEF CommandsLeft, Commands, Level
<1>3. ReportsLeft' \subseteq ReportsLeft \cup {bulb'}
  BY <1>1 DEF ReportsLeft
<1> QED BY <1>2, <1>3 DEF BulbCall!Network

\* A step that changes nothing the caller sees is one in which the bulb
\* executes nothing; commands and reports may get lost in it.
LEMMA ShowsNothing ==
    ASSUME TypeOK,
           InCall' = InCall, bulb' = bulb,
           call'.state = call.state, call'.save = call.save,
           UNCHANGED <<state, saved, settled, discovered>>,
           BulbCall!Network({})
    PROVE  BulbCall!Executes
BY DEF BulbCall!Executes, BulbCall!record, TypeOK

\* Every step of the exchange is a step of the abstract call or changes
\* nothing that it shows.
LEMMA RefinementStep ==
    TypeOK /\ TypeOK' /\ [Next]_vars => [BulbCall!Next]_(BulbCall!vars)
<1> SUFFICES ASSUME TypeOK, TypeOK', [Next]_vars
             PROVE  BulbCall!Next \/ UNCHANGED BulbCall!vars
  OBVIOUS
<1> USE DEF BulbCall!Next, BulbCall!record
<1>1. ASSUME NEW st \in Targets, NEW save \in BOOLEAN, Call(st, save)
      PROVE  BulbCall!Begins
  <2>1. CommandsLeft' \subseteq CommandsLeft \cup BulbCall!Commands(st)
    BY <1>1, CommandsOfCall DEF Call, CommandsLeft, Level
  <2>2. ReportsLeft' = ReportsLeft
    BY <1>1 DEF Call, ReportsLeft
  <2>3. call'.state = st /\ (call'.save => discovered)
    BY <1>1 DEF Call
  <2>4. ~InCall /\ InCall'
    BY <1>1 DEF Call, InCall
  <2>5. UNCHANGED <<state, saved, settled, discovered, bulb>>
    BY <1>1 DEF Call
  <2> QED BY <2>1, <2>2, <2>3, <2>4, <2>5 DEF BulbCall!Begins, BulbCall!Network
<1>2. CASE Attempt
  <2>1. inflight' \subseteq inflight \cup CommandsFor(call.state)
    BY <1>2, TransmitBound DEF Attempt
  <2>2. ASSUME NEW p \in inflight', p \notin inflight
        PROVE  \/ p.type = "SetPower" /\ p.power = Level(call.state)
               \/ p.type = "SetLightColorHSL" /\ p.brightness = call.state.brightness
    BY <2>1, <2>2 DEF CommandsFor, SetPower, SetLightColorHSL
  <2>3. pc = "attempt" /\ pc' = "wait" /\ call' = call /\ bulb' = bulb
    BY <1>2 DEF Attempt
  <2>4. CommandsLeft' \subseteq CommandsLeft
    <3>1. \A p \in inflight' : p.type = "SetPower" =>
              p \in inflight \/ p.power = Level(call.state)
      BY <2>2
    <3>2. \A p \in inflight' : p.type = "SetLightColorHSL" =>
              p \in inflight \/ p.brightness = call.state.brightness
      BY <2>2
    <3> QED BY <2>3, <3>1, <3>2 DEF CommandsLeft, Level
  <2>5. ReportsLeft' \subseteq ReportsLeft \cup {bulb'}
    BY <2>2, <2>3 DEF ReportsLeft
  <2>6. UNCHANGED <<InCall, call.state, call.save, state, saved, settled, discovered>>
    BY <1>2, <2>3 DEF Attempt, InCall
  <2> QED BY <2>3, <2>4, <2>5, <2>6, ShowsNothing DEF BulbCall!Network
<1>3. ASSUME NEW p \in Replies, ReadPacket(p) PROVE BulbCall!Next
  <2>1. HandleNewPacket(p) /\ UNCHANGED <<call, saved, settled, bulb>> /\ p \in inflight
    BY <1>3 DEF ReadPacket
  <2>2. /\ pc \in {"wait", "discover"}
        /\ pc' \in {"attempt", "wait"} => pc \in {"attempt", "wait"}
        /\ InCall' = InCall
    BY <1>3 DEF ReadPacket, InCall
  <2>3. inflight' \subseteq inflight \cup {Msg("GetGroup"), Msg("GetLightState")}
    BY <2>1, TransmitBound DEF HandleNewPacket
  <2>4. BulbCall!Network({})
    <3>1. \A q \in {Msg("GetGroup"), Msg("GetLightState")} :
              q.type \notin Commands \cup {"LightStatus"}
      BY DEF Msg, Commands
    <3> QED BY <2>1, <2>2, <2>3, <3>1, NothingNew
  <2>5. CASE p.type = "LightStatus"
    <3>1. state' = [brightness |-> p.brightness, power |-> p.power] /\ discovered' = TRUE
      BY <2>1, <2>5 DEF HandleNewPacket, Acks
    <3>2. state' \in ReportsLeft
      BY <2>1, <2>5, <3>1 DEF ReportsLeft
    <3> QED BY <2>1, <2>2, <2>4, <3>1, <3>2 DEF BulbCall!Reports
  <2>6. CASE p.type # "LightStatus"
    <3>1. UNCHANGED <<state, discovered>>
      BY <2>1, <2>6 DEF HandleNewPacket
    <3> QED BY <2>1, <2>2, <2>4, <3>1, ShowsNothing
  <2> QED BY <2>5, <2>6
<1>4. CASE WaitExpires
  <2>1. /\ InCall' = InCall
        /\ pc' \in {"attempt", "wait"} => pc \in {"attempt", "wait"}
        /\ UNCHANGED <<call, state, saved, settled, discovered, bulb, inflight>>
    BY <1>4 DEF WaitExpires, InCall
  <2>2. BulbCall!Network({})
    BY <2>1, NothingNew
  <2> QED BY <2>1, <2>2, ShowsNothing
<1>5. CASE Finish
  <2>1. /\ InCall /\ ~InCall' /\ settled' = FALSE
        /\ pc' \notin {"attempt", "wait"}
        /\ UNCHANGED <<state, discovered, bulb, inflight>>
    BY <1>5 DEF Finish, InCall
  <2>2. BulbCall!Network({})
    BY <2>1, NothingNew
  <2>3. saved' \in {saved} \cup (IF call.save /\ settled THEN {state} ELSE {})
    BY <1>5 DEF Finish, Saves
  <2> QED BY <2>1, <2>2, <2>3 DEF BulbCall!Returns
<1>6. CASE Discover \/ DiscoverExpires
  <2>1. /\ InCall' = InCall /\ pc' \notin {"attempt", "wait"}
        /\ inflight' \subseteq inflight \cup {Msg("GetService")}
        /\ UNCHANGED <<call, state, saved, settled, discovered, bulb>>
    BY <1>6, TransmitBound DEF Discover, DiscoverExpires, InCall
  <2>2. BulbCall!Network({})
    <3>1. \A q \in {Msg("GetService")} : q.type \notin Commands \cup {"LightStatus"}
      BY DEF Msg, Commands
    <3> QED BY <2>1, <3>1, NothingNew
  <2> QED BY <2>1, <2>2, ShowsNothing
<1>7. CASE TimePasses
  <2>1. /\ settled' = TRUE
        /\ UNCHANGED <<pc, call, state, saved, discovered, bulb, inflight>>
    BY <1>7 DEF TimePasses
  <2>2. BulbCall!Network({}) /\ InCall' = InCall
    BY <2>1, NothingNew DEF InCall
  <2> QED BY <2>1, <2>2 DEF BulbCall!TimePasses
<1>8. CASE Restart
  <2>1. /\ ~InCall' /\ pc' \notin {"attempt", "wait"}
        /\ state' = Dark /\ settled' /\ ~discovered'
        /\ UNCHANGED <<bulb, inflight>>
        /\ saved' \in {saved} \cup UserStates
    BY <1>8 DEF Restart, InCall
  <2>2. BulbCall!Network({})
    BY <2>1, NothingNew
  <2> QED BY <2>1, <2>2 DEF BulbCall!Restarts
<1>9. ASSUME NEW p \in Requests, BulbExecutes(p) PROVE BulbCall!Next
  <2>1. p \in inflight /\ InCall' = InCall
        /\ UNCHANGED <<pc, call, state, saved, settled, discovered>>
    BY <1>9 DEF BulbExecutes, manager, InCall
  <2>2. inflight' \subseteq inflight \cup Answers(p)
    BY <1>9, TransmitBound DEF BulbExecutes
  <2>3. ASSUME NEW q \in Answers(p)
        PROVE  q.type \notin Commands /\ (q.type = "LightStatus" => q = LightStatus(bulb) /\ bulb' = bulb)
    <3>1. p.type \in Commands \cup {"GetService", "GetGroup", "GetLightState"}
      BY RequestTypes
    <3> QED BY <1>9, <3>1 DEF BulbExecutes, Answers, Msg, LightStatus, Commands
  <2>4. CommandsLeft' \subseteq CommandsLeft
    <3>1. \A q \in inflight' : q.type \in Commands => q \in inflight
      BY <2>2, <2>3
    <3> QED BY <2>1, <3>1 DEF CommandsLeft, Commands, Level
  <2>5. ReportsLeft' \subseteq ReportsLeft \cup {bulb'}
    <3>1. ASSUME NEW q \in inflight', q.type = "LightStatus", q \notin inflight
          PROVE  [brightness |-> q.brightness, power |-> q.power] = bulb'
      BY <2>2, <2>3, <3>1 DEF LightStatus, TypeOK, LightStates
    <3> QED BY <3>1 DEF ReportsLeft
  <2>6. CASE p.type = "SetPower"
    <3>1. bulb' = [bulb EXCEPT !.power = p.power]
      BY <1>9, <2>6 DEF BulbExecutes
    <3>2. p.power \in BulbCall!Brings("power")
      <4>1. [set |-> "power", to |-> p.power] \in CommandsLeft
        BY <2>1, <2>6 DEF CommandsLeft
      <4> QED BY <4>1 DEF BulbCall!Brings
    <3>3. bulb'.power = p.power /\ bulb'.brightness = bulb.brightness
      BY <3>1 DEF TypeOK, LightStates
    <3> QED BY <2>1, <2>4, <2>5, <3>2, <3>3 DEF BulbCall!Executes, BulbCall!Network, TypeOK
  <2>7. CASE p.type = "SetLightColorHSL"
    <3>1. bulb' = [bulb EXCEPT !.brightness = p.brightness]
      BY <1>9, <2>7 DEF BulbExecutes
    <3>2. p.brightness \in BulbCall!Brings("brightness")
      <4>1. [set |-> "brightness", to |-> p.brightness] \in CommandsLeft
        BY <2>1, <2>7 DEF CommandsLeft
      <4> QED BY <4>1 DEF BulbCall!Brings
    <3>3. bulb'.power = bulb.power /\ bulb'.brightness = p.brightness
      BY <3>1 DEF TypeOK, LightStates
    <3> QED BY <2>1, <2>4, <2>5, <3>2, <3>3 DEF BulbCall!Executes, BulbCall!Network, TypeOK
  <2>8. CASE p.type \notin Commands
    <3>1. bulb' = bulb
      BY <1>9, <2>8 DEF BulbExecutes, Commands
    <3> QED BY <2>1, <2>4, <2>5, <3>1, ShowsNothing DEF BulbCall!Network
  <2> QED BY <2>6, <2>7, <2>8 DEF Commands
<1>10. CASE UNCHANGED vars
  BY <1>10 DEF vars, manager, BulbCall!vars, InCall, CommandsLeft, ReportsLeft, Level
<1> QED
  BY <1>1, <1>2, <1>3, <1>4, <1>5, <1>6, <1>7, <1>8, <1>9, <1>10 DEF Next

\* For its callers SetColorAndPower sends, the bulb may execute, and it
\* returns: whatever is retried, lost or late, the bulb takes over nothing
\* but what some call asked for, and only a state reported in this session,
\* of a device that has settled, becomes the state to restore.
THEOREM Implements == Spec => ImplementsBulbCall
<1>1. Init => BulbCall!Init
  BY DEF Init, BulbCall!Init, InCall, CommandsLeft, ReportsLeft
<1>2. TypeOK /\ TypeOK' /\ [Next]_vars => [BulbCall!Next]_(BulbCall!vars)
  BY RefinementStep
<1>3. Spec => []TypeOK
  BY TypeCorrect, PTL
<1> QED BY <1>1, <1>2, <1>3, PTL DEF Spec, ImplementsBulbCall, BulbCall!Spec
=============================================================================
