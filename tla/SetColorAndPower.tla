---------------------------- MODULE SetColorAndPower ----------------------------
(***************************************************************************)
(* Manager::SetColorAndPower: the command exchange with one bulb over UDP. *)
(*                                                                         *)
(* The call sends a SetPower and a SetLightColorHSL packet, waits for two  *)
(* acknowledgements, and sends the pair again when they do not arrive in   *)
(* time.  Everything the socket delivers during the wait goes through      *)
(* HandleNewPacket, so replies to an earlier Discover are served there     *)
(* too.  The acknowledgements carry no number: whatever acknowledgement    *)
(* the bulb sends lowers the one counter pending_acks.                     *)
(*                                                                         *)
(* The target is a bulb the cache file listed, which reports its group and *)
(* a non-empty name: AddGroupDevice leaves the table as it is and the      *)
(* savePending branch of Discover is not taken (module Discovery models    *)
(* both).  hue, saturation and kelvin travel with brightness and are not   *)
(* told apart from it.                                                     *)
(***************************************************************************)
EXTENDS Integers, FiniteSets

CONSTANTS
    Brightness,   \* brightness values, 0 is dark
    PowerLevels,  \* power values, 0 is off
    Targets,      \* the states the callers ask for
    UserStates,   \* the states the user gave the bulb: it is in one of them at first,
                  \* and the cache file holds one
    MaxRetries,   \* number of attempts (15 in the code)
    AckModulus,   \* pending_acks is a uint32_t: 2^32 in the code
    MaxInFlight   \* bound: packets the network holds, the others are lost

LightStates == [brightness : Brightness, power : PowerLevels]

ASSUME ConstantsAssumption ==
    /\ Brightness \subseteq Nat /\ 0 \in Brightness
    /\ PowerLevels \subseteq Nat /\ 0 \in PowerLevels
    /\ Targets \subseteq LightStates
    /\ UserStates \subseteq LightStates
    /\ MaxRetries \in Nat \ {0}
    /\ AckModulus \in Nat /\ AckModulus > 2
    /\ MaxInFlight \in Nat

VARIABLES
    pc,          \* what the manager is doing under manager_mutex
    call,        \* the arguments of the running call
    retries,     \* attempts left
    pending,     \* target->pending_acks
    state,       \* target->state, the last reported state
    saved,       \* target->savedState
    settled,     \* target->SavedTime() < socket->GetTicks()
    discovered,  \* target->discovered
    bulb,        \* the physical bulb
    inflight,    \* the packets on the network
    heard,       \* history: the acknowledgements read in this attempt
    quiet,       \* history: the network was empty when the call began
    applied,     \* history: the commands of a quiet call the bulb has executed
    entry        \* history: target->state when a saving call began

manager == <<pc, call, retries, pending, state, saved, settled, discovered>>
history == <<heard, applied, quiet, entry>>
vars == <<manager, bulb, inflight, history>>

------------------------------------------------------------------------------
(* Packets.  The fields a packet does not use are 0.                       *)

Dark == [brightness |-> 0, power |-> 0]

Msg(type) == [type |-> type, brightness |-> 0, power |-> 0]

\* A target without brightness is switched off, whatever its power says.
Level(st) == IF st.brightness = 0 THEN 0 ELSE st.power

SetPower(st) == [type |-> "SetPower", brightness |-> 0, power |-> Level(st)]
SetLightColorHSL(st) ==
    [type |-> "SetLightColorHSL", brightness |-> st.brightness, power |-> 0]
CommandsAndQuery(st) == {SetPower(st), SetLightColorHSL(st), Msg("GetLightState")}  \* mutant
CommandsFor(st) == {SetPower(st), SetLightColorHSL(st)}
LightStatus(st) ==
    [type |-> "LightStatus", brightness |-> st.brightness, power |-> st.power]

Commands == {"SetPower", "SetLightColorHSL"}
Acks == {"AckSetPower", "AckSetLightColorHSL", "AckGetGroup", "AckGetLightState"}

Requests == {Msg("GetService"), Msg("GetGroup"), Msg("GetLightState")}
    \cup [type : {"SetPower"}, brightness : {0}, power : PowerLevels]
    \cup [type : {"SetLightColorHSL"}, brightness : Brightness, power : {0}]
Replies == {Msg("StateService"), Msg("StateGroup")}
    \cup {Msg(a) : a \in Acks}
    \cup {LightStatus(st) : st \in LightStates}
Packets == Requests \cup Replies

\* UDP: the packets in gone leave the network, and of the packets sent only
\* those in some set kept get onto it, at most MaxInFlight in all.  A packet
\* on the network may be read at any later time, in any order, or never.  A
\* second copy of a packet that is still on the network is lost.
Transmit(gone, sent) ==
    \E kept \in SUBSET sent :
        /\ kept = {} \/ Cardinality((inflight \ gone) \cup kept) <= MaxInFlight
        /\ inflight' = (inflight \ gone) \cup kept

------------------------------------------------------------------------------
(* LIFXDevice's counter of acknowledgements, unsigned.                     *)

KeepPendingAcks(n) == n                          \* mutant
ClearPendingAcks(n) == 0
AddOneAck(n, num) == (n + 1) % AckModulus        \* mutant
AddPendingAcks(n, num) == (n + num) % AckModulus
SubtractBelowZero(n) == n - 1                    \* mutant
SubtractPendingAck(n) == (n + AckModulus - 1) % AckModulus
HasPendingAcks(n) == n > 0

NotHeard == [a \in Acks |-> 0]
Heard == heard["AckSetPower"] + heard["AckSetLightColorHSL"]
         + heard["AckGetGroup"] + heard["AckGetLightState"]

------------------------------------------------------------------------------
InCall == pc \in {"attempt", "wait", "finish"}

Init ==
    /\ pc = "idle"
    /\ call = [state |-> Dark, save |-> FALSE]
    /\ retries = 0
    /\ pending = 0
    /\ state = Dark
    /\ saved \in UserStates
    /\ settled = TRUE
    /\ discovered = FALSE
    /\ bulb \in UserStates
    /\ inflight = {}
    /\ heard = NotHeard
    /\ applied = {}
    /\ quiet = FALSE
    /\ entry = Dark

\* A caller enters SetColorAndPower.  The restore and start-up callers pass
\* save = false; LightsDown passes true at will, but only once its group has
\* been discovered.
Call(st, save) ==
    /\ pc = "idle"
    /\ save => discovered
    /\ pc' = "attempt"
    /\ call' = [state |-> st, save |-> save]
    /\ retries' = MaxRetries
    /\ applied' = {}
    /\ quiet' = (inflight = {})
    /\ entry' = IF save THEN state ELSE Dark
    /\ UNCHANGED <<pending, state, saved, settled, discovered, bulb, inflight, heard>>

\* One turn of the retry loop up to WaitForPackets.  The two packets are
\* sent in an order that depends on the power level; UDP keeps none.
Attempt ==
    /\ pc = "attempt"
    /\ pc' = "wait"
    /\ pending' = AddPendingAcks(ClearPendingAcks(pending), 2)
    /\ Transmit({}, CommandsFor(call.state))
    /\ heard' = NotHeard
    /\ UNCHANGED <<call, retries, state, saved, settled, discovered, bulb,
                   applied, quiet, entry>>

\* HandleNewPacket.  A StateService stands for the UDP service (others are
\* ignored); every request it answers with asks for an acknowledgement.
HandleNewPacket(p) ==
    \/ /\ p.type = "StateService"
       /\ Transmit({p}, {Msg("GetGroup")})
       /\ UNCHANGED <<pending, heard, state, discovered>>
    \/ /\ p.type = "StateGroup"
       /\ Transmit({p}, {Msg("GetLightState")})
       /\ UNCHANGED <<pending, heard, state, discovered>>
    \/ /\ p.type = "LightStatus"
       /\ state' = [brightness |-> p.brightness, power |-> p.power]
       /\ discovered' = TRUE
       /\ Transmit({p}, {})
       /\ UNCHANGED <<pending, heard>>
    \/ /\ p.type \in Acks
       /\ pending' = SubtractPendingAck(pending)
       /\ heard' = IF pc = "wait" THEN [heard EXCEPT ![p.type] = @ + 1] ELSE heard
       /\ Transmit({p}, {})
       /\ UNCHANGED <<state, discovered>>

\* One turn of the loop of WaitForPackets that reads a packet.  The wait for
\* acknowledgements ends as soon as none is pending; Discover's wait has no
\* such terminator.
ReadPacket(p) ==
    /\ pc \in {"wait", "discover"}
    /\ p \in inflight
    /\ HandleNewPacket(p)
    /\ pc' = IF pc = "wait" /\ ~HasPendingAcks(pending') THEN "finish" ELSE pc
    /\ UNCHANGED <<call, retries, saved, settled, bulb, applied, quiet, entry>>

\* Mutant of WaitExpires: the attempts are not counted.
WaitExpiresUncounted ==
    /\ pc = "wait"
    /\ pc' = "attempt"
    /\ UNCHANGED <<call, retries, pending, state, saved, settled, discovered, bulb,
                   inflight, history>>

\* The deadline of WaitForPackets passes, which no traffic postpones, with
\* acknowledgements still pending: the attempt has failed.
WaitExpires ==
    /\ pc = "wait"
    /\ retries' = retries - 1
    /\ pc' = IF retries' = 0 THEN "finish" ELSE "attempt"
    /\ UNCHANGED <<call, pending, state, saved, settled, discovered, bulb, inflight, history>>

\* The loop has ended: with attempts left it was acknowledged.  The reported
\* state is saved if the caller wants it and the last change has settled;
\* the time of the save is set in any case.
SavesAtOnce == retries > 0 /\ call.save           \* mutant
Saves == retries > 0 /\ call.save /\ settled

Finish ==
    /\ pc = "finish"
    /\ pc' = "idle"
    /\ saved' = IF Saves THEN state ELSE saved
    /\ settled' = FALSE
    /\ call' = [state |-> Dark, save |-> FALSE]
    /\ retries' = 0
    /\ heard' = NotHeard
    /\ applied' = {}
    /\ quiet' = FALSE
    /\ entry' = Dark
    /\ UNCHANGED <<pending, state, discovered, bulb, inflight>>

\* Discover broadcasts GetService and reads packets until its deadline.
Discover ==
    /\ pc = "idle"
    /\ pc' = "discover"
    /\ Transmit({}, {Msg("GetService")})
    /\ UNCHANGED <<call, retries, pending, state, saved, settled, discovered, bulb, history>>

DiscoverExpires ==
    /\ pc = "discover"
    /\ pc' = "idle"
    /\ UNCHANGED <<call, retries, pending, state, saved, settled, discovered, bulb,
                   inflight, history>>

\* The clock passes the saved time: fade time plus five seconds after a call.
TimePasses ==
    /\ ~settled
    /\ settled' = TRUE
    /\ UNCHANGED <<pc, call, retries, pending, state, saved, discovered, bulb,
                   inflight, history>>

\* The program ends, in a call or not, and starts again from the cache: the
\* one the control handler wrote, or an older one if the process was killed.
\* What was sent stays on the network, and its answers reach the new process.
Restart ==
    /\ pc' = "idle"
    /\ call' = [state |-> Dark, save |-> FALSE]
    /\ retries' = 0
    /\ pending' = 0
    /\ state' = Dark
    /\ saved' \in {saved} \cup UserStates
    /\ settled' = TRUE
    /\ discovered' = FALSE
    /\ heard' = NotHeard
    /\ applied' = {}
    /\ quiet' = FALSE
    /\ entry' = Dark
    /\ UNCHANGED <<bulb, inflight>>

------------------------------------------------------------------------------
(* The bulb: it executes a request and answers it.                         *)

Answers(p) ==
    CASE p.type = "GetService"       -> {Msg("StateService")}
      [] p.type = "GetGroup"         -> {Msg("StateGroup"), Msg("AckGetGroup")}
      [] p.type = "GetLightState"    -> {LightStatus(bulb), Msg("AckGetLightState")}
      [] p.type = "SetPower"         -> {Msg("AckSetPower")}
      [] p.type = "SetLightColorHSL" -> {Msg("AckSetLightColorHSL")}

BulbExecutes(p) ==
    /\ p \in inflight
    /\ bulb' = CASE p.type = "SetPower"         -> [bulb EXCEPT !.power = p.power]
                 [] p.type = "SetLightColorHSL" -> [bulb EXCEPT !.brightness = p.brightness]
                 [] OTHER                       -> bulb
    /\ applied' = IF quiet /\ p \in CommandsFor(call.state)
                  THEN applied \cup {p.type} ELSE applied
    /\ Transmit({p}, Answers(p))
    /\ UNCHANGED <<manager, heard, quiet, entry>>

Next ==
    \/ \E st \in Targets, save \in BOOLEAN : Call(st, save)
    \/ Attempt
    \/ \E p \in Replies : ReadPacket(p)
    \/ WaitExpires
    \/ Finish
    \/ Discover
    \/ DiscoverExpires
    \/ TimePasses
    \/ Restart
    \/ \E p \in Requests : BulbExecutes(p)

Spec == Init /\ [][Next]_vars

\* The manager's own steps go on, and a clock that runs makes every deadline
\* pass.  Nothing is assumed of the network, of the bulb or of the callers.
Fairness ==
    /\ WF_vars(Attempt)
    /\ WF_vars(WaitExpires)
    /\ WF_vars(Finish)
    /\ WF_vars(DiscoverExpires)

FairSpec == Spec /\ Fairness

------------------------------------------------------------------------------
(* Properties                                                              *)

\* Every variable has its type; the counter stays within its width.
TypeOK ==
    /\ pc \in {"idle", "attempt", "wait", "finish", "discover"}
    /\ call \in [state : LightStates, save : BOOLEAN]
    /\ retries \in 0..MaxRetries
    /\ pending \in 0..(AckModulus - 1)
    /\ state \in LightStates
    /\ saved \in LightStates
    /\ settled \in BOOLEAN
    /\ discovered \in BOOLEAN
    /\ bulb \in LightStates
    /\ inflight \in SUBSET Packets
    /\ heard \in [Acks -> Nat]
    /\ applied \in SUBSET Commands
    /\ quiet \in BOOLEAN
    /\ entry \in LightStates

\* During the wait of SetColorAndPower the unsigned counter is exactly the
\* two commands minus the acknowledgements read since the attempt began, and
\* it has not passed zero.  Late acknowledgements do wrap it around between
\* the waits; what keeps that harmless is that the wait stops at zero and
\* that each attempt clears the counter first.
AckWindow ==
    pc = "wait" => /\ HasPendingAcks(pending)
                   /\ pending + Heard = 2

\* A call that finds the network empty and is acknowledged has reached the
\* bulb: with at least one of its commands, and with both when its first
\* attempt was acknowledged.  (A retry counts a late acknowledgement of the
\* attempt before it, so two acknowledgements of one command look like one
\* of each.)
QuietCallReachesBulb ==
    pc = "finish" /\ retries > 0 /\ quiet =>
        /\ applied # {}
        /\ retries = MaxRetries => applied = Commands

\* A call that finds the network empty saves, if it does, the state that was
\* known when it began, not one reported after its own commands.
QuietCallSavesEntryState ==
    pc = "finish" /\ Saves /\ quiet => state = entry

\* The comment at Manager.cpp:154-156: when the call saves, discovery has not
\* run since the new state was sent, because it waits for the manager lock;
\* the state saved is the one known before the call.
SavesEntryState ==
    pc = "finish" /\ Saves => state = entry

\* A call returns, whatever the network does: the retries are bounded and no
\* traffic postpones the deadline of an attempt.
CallReturns == InCall ~> pc = "idle"

\* The commands the bulb may still receive: those on the network, and those
\* of a call that may send them again.
CommandsLeft ==
    {[set |-> "power", to |-> p.power] :
        p \in {q \in inflight : q.type = "SetPower"}}
    \cup {[set |-> "brightness", to |-> p.brightness] :
        p \in {q \in inflight : q.type = "SetLightColorHSL"}}
    \cup (IF pc \in {"attempt", "wait"}
          THEN {[set |-> "power", to |-> Level(call.state)],
                [set |-> "brightness", to |-> call.state.brightness]}
          ELSE {})

\* The states the bulb may still be reported in.
ReportsLeft ==
    {bulb} \cup {[brightness |-> p.brightness, power |-> p.power] :
                    p \in {q \in inflight : q.type = "LightStatus"}}

BulbCall == INSTANCE BulbCall WITH
    Cached <- UserStates,
    ByHand <- {},
    calling <- InCall,
    target <- call.state,
    save <- call.save,
    sent <- CommandsLeft,
    past <- ReportsLeft

\* For its callers SetColorAndPower is three events: it sends, the bulb may
\* execute, it returns.  Retries, acknowledgements and answers to others add
\* nothing the bulb could do and nothing that could become the saved state.
ImplementsBulbCall == BulbCall!Spec
==============================================================================
