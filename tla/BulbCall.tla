--------------------------------- MODULE BulbCall ---------------------------------
(***************************************************************************)
(* What the rest of the program may expect of SetColorAndPower for one     *)
(* device: no packets, no acknowledgements, no retries.                    *)
(*                                                                         *)
(* A call asks for a state.  From then on the bulb may take over the power *)
(* or the brightness of that state, at any time, once, twice or never; a   *)
(* report may be one of an earlier moment; and when the call returns, the  *)
(* reported state may have become the one to restore, if the caller wanted *)
(* that and the change before had settled.  Modules SetColorAndPower and   *)
(* LightControl both implement this one.                                   *)
(***************************************************************************)
CONSTANTS
    LightStates,  \* brightness and power of a bulb
    Targets,      \* the states a caller may ask for
    Cached,       \* the states the cache file may hold
    ByHand,       \* the states the user may give the bulb
    Dark          \* the state of a device that has not reported

VARIABLES
    calling,      \* a call is running
    target,       \* the state it asks for
    save,         \* it may save
    state,        \* the last reported state
    saved,        \* the state to restore
    settled,      \* the last change counts as complete
    discovered,   \* a report has been read
    bulb,         \* the physical bulb
    sent,         \* the commands the bulb may still receive
    past          \* the states the bulb may still be reported in

record == <<state, saved, settled, discovered>>
vars == <<calling, target, save, record, bulb, sent, past>>

------------------------------------------------------------------------------
\* A target without brightness is switched off, whatever its power says.
Level(st) == IF st.brightness = 0 THEN 0 ELSE st.power

Commands(st) == {[set |-> "power", to |-> Level(st)],
                 [set |-> "brightness", to |-> st.brightness]}

\* The values of one setting that commands may bring.
Brings(setting) == {c.to : c \in {k \in sent : k.set = setting}}

\* Commands and reports may be lost at any time; none appears from nowhere.
Network(new) ==
    /\ sent' \subseteq sent \cup new
    /\ past' \subseteq past \cup {bulb'}

Init ==
    /\ calling = FALSE
    /\ save = FALSE
    /\ state = Dark
    /\ saved \in Cached
    /\ settled \in BOOLEAN
    /\ discovered = FALSE
    /\ sent = {}
    /\ past \subseteq {bulb}

\* A call may save only a state that has been reported in this session.
Begins ==
    /\ ~calling /\ calling'
    /\ UNCHANGED <<record, bulb>>
    /\ target' \in Targets
    /\ save' => discovered
    /\ Network(Commands(target'))

\* The bulb changes only to what some call has asked for.
Executes ==
    /\ UNCHANGED <<calling, target, save, record>>
    /\ bulb' \in LightStates
    /\ bulb'.brightness \in {bulb.brightness} \cup Brings("brightness")
    /\ bulb'.power \in {bulb.power} \cup Brings("power")
    /\ Network({})

\* A report tells of a state that the bulb has been in.
Reports ==
    /\ discovered'
    /\ UNCHANGED <<calling, target, save, saved, settled, bulb>>
    /\ state' \in past
    /\ Network({})

Returns ==
    /\ calling /\ ~calling'
    /\ ~settled'
    /\ UNCHANGED <<state, discovered, bulb>>
    /\ saved' \in {saved} \cup (IF save /\ settled THEN {state} ELSE {})
    /\ Network({})

TimePasses ==
    /\ settled'
    /\ UNCHANGED <<calling, target, save, state, saved, discovered, bulb>>
    /\ Network({})

UserSets ==
    /\ UNCHANGED <<calling, target, save, record>>
    /\ bulb' \in ByHand
    /\ Network({})

\* The program ends, whatever it was doing, and starts again.  What it has
\* sent stays on its way.
Restarts ==
    /\ ~calling'
    /\ state' = Dark
    /\ settled'
    /\ ~discovered'
    /\ UNCHANGED bulb
    /\ saved' \in {saved} \cup Cached
    /\ Network({})

Next ==
    \/ Begins
    \/ Executes
    \/ Reports
    \/ Returns
    \/ TimePasses
    \/ UserSets
    \/ Restarts

Spec == Init /\ [][Next]_vars
==============================================================================
