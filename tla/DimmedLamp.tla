-------------------------------- MODULE DimmedLamp --------------------------------
(***************************************************************************)
(* What the program promises one lamp on a reliable network: no threads,   *)
(* no other lamps, no player, and neither lightState nor prevLightState.   *)
(*                                                                         *)
(* The program knows the lamp as it last reported, and a state that is to  *)
(* be restored.  It takes over the known state as the one to restore only  *)
(* with the call that dims the lamp, and none until the call that gives    *)
(* that state back; it dims a lamp never twice unless a hotkey asks for    *)
(* it, and a film asks for no more light than the program knows the lamp   *)
(* to give.  Module LightControl implements this one for every device of   *)
(* the control group.                                                      *)
(***************************************************************************)
EXTENDS Integers

CONSTANTS
    Dims,         \* the states the configurations ask for
    Welcome,      \* what main switches the lights to
    Cached,       \* the states the cache file may hold
    ByHand,       \* the states the user may give the lamp
    Dark          \* the state of a lamp that has not reported

VARIABLES
    doing,        \* the call to the lamp that runs, "nothing" if none does
    orders,       \* the states that the lamp has been asked for and has not seen
    bulb,         \* the lamp
    state,        \* what it last reported
    discovered,   \* it has reported in this session
    saved,        \* the state to restore
    cache,        \* the same in the cache file
    settled,      \* the last change counts as complete
    dimmed,       \* it has been dimmed and not restored since
    keys          \* hotkeys since its last call, two standing for more

memory == <<saved, cache, dimmed, keys>>
vars == <<doing, orders, bulb, state, discovered, settled, memory>>

------------------------------------------------------------------------------
\* A target without brightness is switched off, whatever its power says.
Level(st) == IF st.brightness = 0 THEN 0 ELSE st.power

Init ==
    /\ doing = "nothing"
    /\ orders = {}
    /\ bulb \in ByHand
    /\ state = Dark
    /\ discovered = FALSE
    /\ saved \in Cached
    /\ cache = saved
    /\ settled = TRUE
    /\ dimmed = FALSE
    /\ keys = 0

\* While no call runs the lamp is asked, and answers.
Reports ==
    /\ doing = "nothing"
    /\ state' = bulb
    /\ discovered'
    /\ UNCHANGED <<doing, orders, bulb, settled, memory>>

Begins(call, order) ==
    /\ doing = "nothing" /\ orders = {}
    /\ doing' = call
    /\ orders' = {order}
    /\ UNCHANGED <<bulb, state, discovered, settled, memory>>

\* What a film must not outshine: the lamp as it is, or, if a hotkey has come
\* since the last call, the state to restore.
Reference == IF keys = 0 THEN state ELSE saved

Darker(a, b) == IF a < b THEN a ELSE b

\* A lamp with less power than the configuration is left alone, and so is one
\* that is off if the configuration is; a darker one keeps its brightness.
BeginsToDim ==
    /\ discovered
    /\ dimmed => keys > 0
    /\ \E dim \in Dims :
          /\ Reference.power # 0 \/ dim.power # 0
          /\ dim.power <= Reference.power
          /\ Begins("dim", [dim EXCEPT !.brightness = Darker(@, Reference.brightness)])

BeginsToRestore == Begins("restore", saved)

\* main switches the lights on before anything has been heard.
BeginsToWelcome ==
    /\ ~discovered /\ ~dimmed /\ keys = 0
    /\ Begins("welcome", Welcome)

\* The lamp takes over what it has been asked for, in full.
Obeys ==
    /\ \E st \in orders :
          bulb' = [brightness |-> st.brightness, power |-> Level(st)]
    /\ orders' = {}
    /\ UNCHANGED <<doing, state, discovered, settled, memory>>

\* A call returns when the lamp has obeyed.
Returns(call) ==
    /\ doing = call /\ orders = {}
    /\ doing' = "nothing"
    /\ ~settled'
    /\ UNCHANGED <<orders, bulb, state, discovered, cache>>

\* The call that dims a lamp takes over the known state, with two exceptions:
\* the change before has not settled, or more hotkeys have come than one.
IsDimmed ==
    /\ Returns("dim")
    /\ saved' = IF ~dimmed /\ settled /\ keys < 2 THEN state ELSE saved
    /\ dimmed'
    /\ keys' = 0

IsRestored ==
    /\ Returns("restore")
    /\ ~dimmed'
    /\ keys' = 0
    /\ UNCHANGED saved

IsWelcome ==
    /\ Returns("welcome")
    /\ UNCHANGED memory

Hotkey ==
    /\ doing = "nothing"
    /\ keys' = IF keys = 0 THEN 1 ELSE 2
    /\ UNCHANGED <<doing, orders, bulb, state, discovered, settled, saved, cache, dimmed>>

TimePasses ==
    /\ settled'
    /\ UNCHANGED <<doing, orders, bulb, state, discovered, memory>>

UserSets ==
    /\ bulb' \in ByHand
    /\ UNCHANGED <<doing, orders, state, discovered, settled, memory>>

\* The program ends, whatever it was doing, and starts again: it forgets that
\* the lamp was dimmed.  An order on its way stays on its way.
Restarts ==
    /\ doing' = "nothing"
    /\ state' = Dark
    /\ ~discovered'
    /\ saved' \in {saved, cache}
    /\ cache' = saved'
    /\ settled'
    /\ ~dimmed'
    /\ keys' = 0
    /\ UNCHANGED <<orders, bulb>>

Next ==
    \/ Reports
    \/ BeginsToDim
    \/ BeginsToRestore
    \/ BeginsToWelcome
    \/ Obeys
    \/ IsDimmed
    \/ IsRestored
    \/ IsWelcome
    \/ Hotkey
    \/ TimePasses
    \/ UserSets
    \/ Restarts

Spec == Init /\ [][Next]_vars
==============================================================================
