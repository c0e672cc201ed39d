------------------------------- MODULE LightControl -------------------------------
(***************************************************************************)
(* The light control of the program: the discovery, VLC and hotkey threads *)
(* under manager_mutex, the loops of LightsDown and LightsRestore over the *)
(* control group, and the bulbs.                                           *)
(*                                                                         *)
(* SetColorAndPower, whose packets module SetColorAndPower models, is      *)
(* three steps here: it sends, the bulb may execute, it returns.  Unless   *)
(* Reliable, it returns success or failure whatever the bulb did, as that  *)
(* module shows it can.                                                    *)
(*                                                                         *)
(* The program may end at any step, in a call or not, and start again from *)
(* the cache; main then may switch all lights on before the threads start. *)
(*                                                                         *)
(* The control group is not empty and its devices do not change; devices   *)
(* that join, move or disappear belong to the table that AddGroupDevice    *)
(* keeps.  hue, saturation and kelvin travel with brightness.              *)
(***************************************************************************)
EXTENDS Integers, FiniteSets

CONSTANTS
    Devices,      \* the devices of the control group, in the order of their keys
    Specimen,     \* one of them, whose calls are compared with module BulbCall
    Brightness,   \* brightness values, 0 is dark
    PowerLevels,  \* power values, 0 is off
    UserStates,   \* for each bulb, brightness and power the user gives it
    Configs,      \* configs[1 ..]: the brightness and power to dim to
    StartConfig,  \* the configuration the config file makes active
    LightsStartOn,  \* what the config file may say of switching the lights on
    StartState,   \* what main switches the lights to
    Reliable,     \* every packet arrives within the wait that expects it
    Sessions      \* bound: the program ends and starts again, or it does not

Values == [brightness : Brightness, power : PowerLevels]

ASSUME ControlAssumption ==
    /\ Devices \subseteq Nat /\ IsFiniteSet(Devices) /\ Specimen \in Devices
    /\ Brightness \subseteq Nat /\ 0 \in Brightness
    /\ PowerLevels \subseteq Nat /\ 0 \in PowerLevels
    /\ UserStates \in [Devices -> SUBSET Values]
    /\ DOMAIN Configs \subseteq Nat \ {0} /\ Configs \in [DOMAIN Configs -> Values]
    /\ StartConfig \in DOMAIN Configs \cup {0}
    /\ LightsStartOn \subseteq BOOLEAN /\ LightsStartOn # {}
    /\ StartState \in Values
    /\ Reliable \in BOOLEAN /\ Sessions \in BOOLEAN

VARIABLES
    holder,           \* what the thread that holds manager_mutex does
    todo,             \* the devices its loop has yet to visit or to hear of
    calling,          \* the loop is inside SetColorAndPower
    target,           \* the state that call asks for
    save,             \* the save argument of that call
    success,          \* the local success of the loop
    activeConfigNum,  \* Manager::activeConfigNum
    lightState,       \* Manager::lightState
    devLightState,    \* LIFXDevice::lightState
    prevLightState,   \* LIFXDevice::prevLightState
    state,            \* LIFXDevice::state
    savedState,       \* LIFXDevice::savedState
    settled,          \* the devices with SavedTime() < GetTicks()
    discovered,       \* the devices with discovered set
    bulb,             \* the physical bulbs
    sent,             \* the commands each bulb may still receive
    past,             \* the states each bulb may still be reported in
    cache,            \* the saved states in the cache file
    watching,         \* VLC is playing in full screen
    outdated,         \* history: the devices last reported dimmed, and restored
                      \* since; kept only if Reliable
    episode,          \* history: the devices dimmed and not restored since
    mistaken,         \* history: the devices whose dimming the program has taken
                      \* for the user's will, until a call to them finds a state
                      \* of the user's to restore; kept only if Reliable
    keys              \* history: hotkeys since each device's last successful
                      \* call, two standing for more

loop == <<holder, todo, calling, target, save, success>>
flags == <<activeConfigNum, lightState, devLightState, prevLightState>>
records == <<state, savedState, settled, discovered>>
world == <<bulb, sent, past, cache, watching>>
history == <<outdated, episode, mistaken, keys>>
vars == <<loop, flags, records, world, history>>

------------------------------------------------------------------------------
LightModes == {"DOWN", "RESTORED", "CONFIG_CHANGED"}

\* A light state, with a mark of where it comes from: the program's dimming or
\* the user, who gives it by hand or has the config file switch the lights on.
\* The mark travels with the state and guides no action.
States == [brightness : Brightness, power : PowerLevels, origin : {"user", "dimmed"}]

Mark(v, origin) == [brightness |-> v.brightness, power |-> v.power, origin |-> origin]
Dark == [brightness |-> 0, power |-> 0, origin |-> "user"]

\* A target without brightness is switched off, whatever its power says.
Level(st) == IF st.brightness = 0 THEN 0 ELSE st.power

DiscoveryDone == discovered = Devices

First(d) == d \in todo /\ \A e \in todo : d <= e

\* The states of all devices that a cache file may hold or the bulbs be in.
UserGiven ==
    {[d \in Devices |-> Mark(given[d], "user")] :
        given \in {g \in [Devices -> UNION {UserStates[d] : d \in Devices}] :
                      \A d \in Devices : g[d] \in UserStates[d]}}

\* main, before it starts the threads: it has read the cache and the config
\* file, and goes on to switch all lights on, or not.
Init ==
    /\ \E on \in LightsStartOn : holder = IF on THEN "start" ELSE "free"
    /\ todo = (IF holder = "start" THEN Devices ELSE {})
    /\ calling = FALSE
    /\ target = Dark
    /\ save = FALSE
    /\ success = TRUE
    /\ activeConfigNum = StartConfig
    /\ lightState = "RESTORED"
    /\ devLightState = [d \in Devices |-> "RESTORED"]
    /\ prevLightState = [d \in Devices |-> "RESTORED"]
    /\ state = [d \in Devices |-> Dark]
    /\ savedState \in UserGiven
    /\ settled = Devices
    /\ discovered = {}
    /\ bulb \in UserGiven
    /\ sent = [d \in Devices |-> {}]
    /\ past = [d \in Devices |-> {bulb[d]}]
    /\ cache = savedState
    /\ watching = FALSE
    /\ outdated = {}
    /\ episode = {}
    /\ mistaken = {}
    /\ keys = [d \in Devices |-> 0]

------------------------------------------------------------------------------
(* The discovery thread                                                    *)

\* Discover takes the lock and asks every bulb for its state.
Discover ==
    /\ holder = "free"
    /\ holder' = "discovery"
    /\ todo' = Devices
    /\ UNCHANGED <<calling, target, save, success, flags, records, world, history>>

\* A LightStatus is read: by Discover that asked for it and as the bulb is,
\* if the network is reliable; else in any wait, and as the bulb was.
ReadLightStatus(d) ==
    /\ IF Reliable THEN holder = "discovery" /\ d \in todo
                   ELSE holder = "discovery" \/ calling
    /\ \E st \in past[d] :
          /\ Reliable => st = bulb[d]
          /\ state' = [state EXCEPT ![d] = st]
    /\ todo' = IF holder = "discovery" THEN todo \ {d} ELSE todo
    /\ discovered' = discovered \cup {d}
    /\ outdated' = outdated \ {d}
    /\ UNCHANGED <<holder, calling, target, save, success, flags, savedState, settled,
                   world, episode, mistaken, keys>>

\* The deadline of Discover passes.
DiscoverExpires ==
    /\ holder = "discovery"
    /\ Reliable => todo = {}
    /\ holder' = "free"
    /\ todo' = {}
    /\ UNCHANGED <<calling, target, save, success, flags, records, world, history>>

------------------------------------------------------------------------------
(* The VLC thread                                                          *)

StartLoop(what) ==
    /\ holder' = what
    /\ todo' = Devices
    /\ success' = TRUE
    /\ UNCHANGED <<calling, target, save, flags, records, world, history>>

\* What GetState may answer: the truth, or, when a late response is taken
\* for the answer to this request, an earlier one.
Answers == IF Reliable THEN {watching} ELSE BOOLEAN

WantsDownRestored == activeConfigNum # 0 /\ TRUE \in Answers
                     /\ lightState = "RESTORED"                     \* mutant
WantsDown == activeConfigNum # 0 /\ TRUE \in Answers /\ lightState # "DOWN"

\* A poll that starts LightsDown, which does nothing until every device of
\* the group has been discovered.
PollDown ==
    /\ holder = "free"
    /\ WantsDown
    /\ DiscoveryDone
    /\ StartLoop("down")

\* The film has stopped, or the user has chosen configuration 0.
FilmOver == activeConfigNum # 0 /\ FALSE \in Answers /\ lightState = "DOWN"  \* mutant
ZeroChosen == activeConfigNum = 0 /\ lightState # "RESTORED"                     \* mutant
WantsRestore == IF activeConfigNum # 0 THEN FALSE \in Answers /\ lightState = "DOWN"
                                       ELSE lightState # "RESTORED"

\* A poll that starts LightsRestore.
PollRestore ==
    /\ holder = "free"
    /\ WantsRestore
    /\ StartLoop("restore")

\* The state LightsDown compares the configuration with.
CompareState(d) ==
    IF devLightState[d] = "CONFIG_CHANGED" THEN savedState[d] ELSE state[d]

DownSavesAlways(d) == TRUE                       \* mutant
DownSavesRestored(d) == prevLightState[d] = "RESTORED"   \* mutant
DownSaves(d) == devLightState[d] = "CONFIG_CHANGED" => prevLightState[d] = "RESTORED"

\* A bulb with less power than the configuration is left alone.
Dimmable(d) == LET compare == CompareState(d)
                   dim == Configs[activeConfigNum]
               IN  /\ compare.power # 0 \/ dim.power # 0
                   /\ compare.power >= dim.power

DimState(d) == LET compare == CompareState(d)
                   dim == Configs[activeConfigNum]
               IN  [dim EXCEPT !.brightness =
                       IF compare.brightness < @ THEN compare.brightness ELSE @]

\* LightsDown passes over a device that is down or not to be dimmed.
DownSkips(d) ==
    /\ holder = "down" /\ ~calling /\ First(d)
    /\ devLightState[d] = "DOWN" \/ ~Dimmable(d)
    /\ todo' = todo \ {d}
    /\ UNCHANGED <<holder, calling, target, save, success, flags, records, world, history>>

\* SetColorAndPower sends its commands.  On a reliable network what an earlier
\* process has sent arrives before.
Send(d, st, saves) ==
    /\ Reliable => sent[d] = {}
    /\ calling' = TRUE
    /\ target' = st
    /\ save' = saves
    /\ sent' = [sent EXCEPT ![d] = @ \cup {st}]
    /\ UNCHANGED <<holder, todo, success, flags, records, bulb, past, cache, watching,
                   history>>

DownSends(d) ==
    /\ holder = "down" /\ ~calling /\ First(d)
    /\ devLightState[d] # "DOWN" /\ Dimmable(d)
    /\ Send(d, Mark(DimState(d), "dimmed"), DownSaves(d))

RestoredReported(d) == state[d]                  \* mutant
RestoredState(d) == savedState[d]

RestoreSends(d) ==
    /\ holder = "restore" /\ ~calling /\ First(d)
    /\ Send(d, RestoredState(d), FALSE)

\* main's loop over the lights it has read from the cache, if the config file
\* says lightsStartOn.
StartSends(d) ==
    /\ holder = "start" /\ ~calling /\ First(d)
    /\ Send(d, Mark(StartState, "user"), FALSE)

\* The state is saved if the caller wants it and the last change has settled.
SavesAtOnce(d) == save                           \* mutant
Saves(d) == save /\ d \in settled

\* History: the report is of an earlier film, for none has come in since.
SavesOldReport(d) == Saves(d) /\ d \in outdated

\* SetColorAndPower returns, and the loop goes on to the next device.
CallReturns(d, ok) ==
    /\ calling /\ First(d)
    /\ Reliable => ok /\ sent[d] = {}
    /\ calling' = FALSE
    /\ target' = Dark
    /\ save' = FALSE
    /\ todo' = todo \ {d}
    /\ savedState' = IF ok /\ Saves(d)
                     THEN [savedState EXCEPT ![d] = state[d]] ELSE savedState
    /\ settled' = settled \ {d}
    /\ outdated' = IF Reliable /\ holder = "restore" /\ state[d].origin = "dimmed"
                   THEN outdated \cup {d} ELSE outdated \ {d}
    /\ \/ /\ ok /\ holder # "start"
          /\ LET mode == IF holder = "down" THEN "DOWN" ELSE "RESTORED"
             IN  /\ prevLightState' = [prevLightState EXCEPT ![d] = devLightState[d]]
                 /\ devLightState' = [devLightState EXCEPT ![d] = mode]
                 /\ episode' = IF mode = "DOWN" THEN episode \cup {d} ELSE episode \ {d}
          /\ mistaken' = IF savedState'[d].origin = "user" THEN mistaken \ {d}
                         ELSE mistaken \cup {e \in {d} : SavesOldReport(e)}
          /\ keys' = [keys EXCEPT ![d] = 0]
          /\ UNCHANGED success
       \/ /\ ~ok \/ holder = "start"          \* main ignores the result
          /\ success' = (success /\ holder = "start")
          /\ UNCHANGED <<devLightState, prevLightState, episode, mistaken, keys>>
    /\ UNCHANGED <<holder, activeConfigNum, lightState, state, discovered, world>>

\* The global light state changes if no call failed.
DespiteFailure == IF holder = "down" THEN "DOWN" ELSE "RESTORED"   \* mutant
AfterLoop ==
    IF ~success \/ holder = "start" THEN lightState
    ELSE IF holder = "down" THEN "DOWN" ELSE "RESTORED"

\* The loop is over.
LoopEnds ==
    /\ holder \in {"start", "down", "restore"} /\ todo = {}
    /\ holder' = "free"
    /\ success' = TRUE
    /\ lightState' = AfterLoop
    /\ UNCHANGED <<todo, calling, target, save, activeConfigNum, devLightState,
                   prevLightState, records, world, history>>

------------------------------------------------------------------------------
(* The hotkey thread: Manager::SetLightState on the whole control group.   *)

\* A key counts if its number is below num_configs.
KeysAndOneMore == 0..(Cardinality(DOMAIN Configs) + 1)   \* mutant
Keys == DOMAIN Configs \cup {0}

Hotkey(n) ==
    /\ holder = "free"
    /\ activeConfigNum' = n
    /\ lightState' = "CONFIG_CHANGED"
    /\ prevLightState' = devLightState
    /\ devLightState' = [d \in Devices |-> "CONFIG_CHANGED"]
    /\ keys' = [d \in Devices |-> IF keys[d] = 0 THEN 1 ELSE 2]
    /\ UNCHANGED <<loop, records, world, outdated, episode, mistaken>>

------------------------------------------------------------------------------
(* The world: the bulbs, the user, the player and the clock.               *)

\* Unless the network is reliable, a report of an earlier state may be late.
Remember(d) == [past EXCEPT ![d] = (IF Reliable THEN {} ELSE @) \cup {bulb'[d]}]

\* A bulb executes commands.  A reliable network delivers them once and in
\* the call that sent them; else there are copies of them, the retries among
\* them, that may come late, and of the two packets one may be lost.
BulbExecutes(d) ==
    \E st \in sent[d], color \in BOOLEAN, power \in BOOLEAN :
        /\ IF Reliable THEN color /\ power ELSE color \/ power
        /\ bulb' = [bulb EXCEPT ![d] =
               [brightness |-> IF color THEN st.brightness ELSE @.brightness,
                power      |-> IF power THEN Level(st) ELSE @.power,
                origin     |-> IF color THEN st.origin ELSE @.origin]]
        /\ sent' = IF Reliable THEN [sent EXCEPT ![d] = {}] ELSE sent
        /\ past' = Remember(d)
        /\ UNCHANGED <<loop, flags, records, cache, watching, history>>

\* The program ends, whatever it is doing, and starts again: from the cache the
\* control handler has written, or, if it was killed, from the one of an
\* earlier session.  What was sent stays on the network.
Restart ==
    /\ Sessions
    /\ \E on \in LightsStartOn : holder' = IF on THEN "start" ELSE "free"
    /\ todo' = (IF holder' = "start" THEN Devices ELSE {})
    /\ calling' = FALSE
    /\ target' = Dark
    /\ save' = FALSE
    /\ success' = TRUE
    /\ activeConfigNum' = StartConfig
    /\ lightState' = "RESTORED"
    /\ devLightState' = [d \in Devices |-> "RESTORED"]
    /\ prevLightState' = [d \in Devices |-> "RESTORED"]
    /\ state' = [d \in Devices |-> Dark]
    /\ savedState' \in {savedState, cache}
    /\ cache' = savedState'
    /\ settled' = Devices
    /\ discovered' = {}
    /\ outdated' = {}
    /\ episode' = {}
    /\ mistaken' = mistaken \cup
           {d \in Devices : Reliable /\ \E st \in {bulb[d], savedState'[d]} \cup sent[d] :
                                             st.origin = "dimmed"}
    /\ keys' = [d \in Devices |-> 0]
    /\ UNCHANGED <<bulb, sent, past, watching>>

UserSets(d, v) ==
    /\ bulb' = [bulb EXCEPT ![d] = Mark(v, "user")]
    /\ past' = Remember(d)
    /\ UNCHANGED <<loop, flags, records, sent, cache, watching, history>>

\* Only a reliable answer depends on what the player does.
PlayerChanges ==
    /\ Reliable
    /\ watching' = ~watching
    /\ UNCHANGED <<loop, flags, records, bulb, sent, past, cache, history>>

\* The clock passes the saved time of a device.
TimePasses(d) ==
    /\ d \notin settled
    /\ settled' = settled \cup {d}
    /\ UNCHANGED <<loop, flags, state, savedState, discovered, world, history>>

------------------------------------------------------------------------------
Next ==
    \/ Discover
    \/ DiscoverExpires
    \/ PollDown
    \/ PollRestore
    \/ LoopEnds
    \/ \E n \in Keys : Hotkey(n)
    \/ PlayerChanges
    \/ Restart
    \/ \E d \in Devices :
          \/ ReadLightStatus(d)
          \/ DownSkips(d)
          \/ DownSends(d)
          \/ RestoreSends(d)
          \/ StartSends(d)
          \/ \E ok \in BOOLEAN : CallReturns(d, ok)
          \/ BulbExecutes(d)
          \/ \E v \in UserStates[d] : UserSets(d, v)
          \/ TimePasses(d)

Spec == Init /\ [][Next]_vars

\* What a thread does while it holds the lock, but for waiting.
LockHolder ==
    \/ DiscoverExpires
    \/ LoopEnds
    \/ \E d \in Devices :
          \/ DownSkips(d)
          \/ DownSends(d)
          \/ RestoreSends(d)
          \/ StartSends(d)
          \/ \E ok \in BOOLEAN : CallReturns(d, ok)

\* A thread that holds the lock goes on, and what a reliable network carries
\* arrives.  Every thread sleeps after it has released the lock, one second
\* at least but for the hotkey thread, which waits for the next key: the
\* discovery and VLC threads get the lock if it is free again and again.
\* The program is not ended again and again for ever.
Fairness ==
    /\ <>[][~Restart]_vars
    /\ SF_vars(Discover) /\ SF_vars(PollDown) /\ SF_vars(PollRestore)
    /\ WF_vars(LockHolder)
    /\ WF_vars(\E d \in Devices : ReadLightStatus(d))
    /\ WF_vars(\E d \in Devices : BulbExecutes(d))

FairSpec == Spec /\ Fairness

------------------------------------------------------------------------------
(* Properties                                                              *)

\* Every variable has its type.
TypeOK ==
    /\ holder \in {"free", "start", "discovery", "down", "restore"}
    /\ todo \in SUBSET Devices
    /\ calling \in BOOLEAN
    /\ target \in States
    /\ save \in BOOLEAN
    /\ success \in BOOLEAN
    /\ activeConfigNum \in DOMAIN Configs \cup {0}
    /\ lightState \in LightModes
    /\ devLightState \in [Devices -> LightModes]
    /\ prevLightState \in [Devices -> LightModes]
    /\ state \in [Devices -> States]
    /\ savedState \in [Devices -> States]
    /\ settled \in SUBSET Devices
    /\ discovered \in SUBSET Devices
    /\ bulb \in [Devices -> States]
    /\ sent \in [Devices -> SUBSET States]
    /\ past \in [Devices -> SUBSET States]
    /\ cache \in [Devices -> States]
    /\ watching \in BOOLEAN
    /\ outdated \in SUBSET Devices
    /\ episode \in SUBSET Devices
    /\ mistaken \in SUBSET Devices
    /\ keys \in [Devices -> 0..2]

\* From the call that dims a device until the call that restores it, the
\* state to restore does not change, through whatever configuration changes,
\* failed calls and late reports come in between: prevLightState is enough to
\* tell a dimmed device apart.
SnapshotKept ==
    [][\A d \in episode \cap episode' : savedState'[d] = savedState[d]]_vars

\* A device that goes down has its reported state saved, and that is what the
\* end of the film restores, with two exceptions: its last change has not
\* settled, or two hotkeys have come since its last call.  The second key makes
\* prevLightState CONFIG_CHANGED, and what the user has set since then is lost.
SnapshotTaken ==
    [][\A d \in episode' \ episode :
          savedState'[d] = state[d] \/ d \notin settled \/ keys[d] = 2]_vars

\* Lights that count as restored have no change of configuration waiting: a
\* device then is restored, or down because a LightsDown has failed for
\* another one.
NoChangeForgotten ==
    lightState = "RESTORED" =>
        \A d \in Devices : devLightState[d] \in {"RESTORED", "DOWN"}

\* On a reliable network there are two ways, and no third, to a dimmed state
\* as the one to restore.  A device is dimmed when the program ends: the next
\* one takes it for restored, and saves what it finds.  Or it is dimmed again
\* once its saved time has passed, and nothing has been heard of it since
\* LightsRestore: what is saved is the last report, of the film before.
\* Neither hotkeys in any number nor failed loops are a way.
NeverSavesDimmed ==
    Reliable => \A d \in Devices \ mistaken : savedState[d].origin = "user"

\* On a reliable network, lights that count as restored are: no device is
\* down, and no bulb is as the program has dimmed it, but for the devices the
\* program has mistaken, in one of the two ways of NeverSavesDimmed.
RestoredMeansRestored ==
    Reliable /\ lightState = "RESTORED" /\ holder # "down" =>
        \A d \in Devices :
            devLightState[d] = "RESTORED" /\ (d \in mistaken \/ bulb[d].origin = "user")

\* A film watched with a configuration chosen gets the lights down, however
\* late the devices are discovered and whatever keys are pressed.
DimsForFilm ==
    (watching /\ activeConfigNum # 0)
        ~> (lightState = "DOWN" \/ ~watching \/ activeConfigNum = 0)

\* A bulb dimmed for a film that is over is restored to a state the user gave
\* it.  There are three exceptions: the program ends, or saves the report of an
\* earlier film because it has heard of the bulb no more since (mistaken), or a
\* hotkey comes between: the VLC thread restores from DOWN only, so a
\* configuration changed after the film leaves the lights as they are until
\* the next one.
NoBulbLeftDim ==
    \A d \in Devices :
        (bulb[d].origin = "dimmed" /\ ~watching)
            ~> \/ bulb[d].origin = "user"
               \/ watching
               \/ d \in mistaken
               \/ lightState = "CONFIG_CHANGED" /\ activeConfigNum # 0

\* Configuration 0 brings the lights back, film or not.
ConfigZeroRestores ==
    activeConfigNum = 0 ~> (lightState = "RESTORED" \/ activeConfigNum # 0)

\* What the specimen shows to the abstract call: the marks do not count, and a
\* call to another device is none to this one.
Plain(st) == [brightness |-> st.brightness, power |-> st.power]

InCall == calling /\ First(Specimen)
Asked == IF InCall THEN Plain(target) ELSE Plain(Dark)
MaySave == InCall /\ save
Reported == Plain(state[Specimen])
ToRestore == Plain(savedState[Specimen])
Settled == Specimen \in settled
Heard == Specimen \in discovered
Bulb == Plain(bulb[Specimen])
CommandsLeft ==
    {[set |-> "power", to |-> Level(st)] : st \in sent[Specimen]} \cup
    {[set |-> "brightness", to |-> st.brightness] : st \in sent[Specimen]}
ReportsLeft == {Plain(st) : st \in past[Specimen]}

BulbCall == INSTANCE BulbCall WITH
    LightStates <- Values,
    Targets <- Values,
    Cached <- Values,
    ByHand <- UserStates[Specimen],
    Dark <- Plain(Dark),
    calling <- InCall,
    target <- Asked,
    save <- MaySave,
    state <- Reported,
    saved <- ToRestore,
    settled <- Settled,
    discovered <- Heard,
    bulb <- Bulb,
    sent <- CommandsLeft,
    past <- ReportsLeft

\* The three steps that stand for SetColorAndPower in this module are those
\* that module SetColorAndPower is shown to implement: for every device, the
\* saved state becomes a reported one only by a call that may save, and a bulb
\* takes over only what a call has asked for, in this session or before.
ImplementsBulbCall == BulbCall!Spec

\* What the specimen shows to the abstract lamp.
Doing ==
    IF ~InCall THEN "nothing"
    ELSE IF holder = "down" THEN "dim"
    ELSE IF holder = "restore" THEN "restore" ELSE "welcome"
Orders == {Plain(st) : st \in sent[Specimen]}
InCache == Plain(cache[Specimen])
IsDown == Specimen \in episode
KeysSince == keys[Specimen]

Lamp == INSTANCE DimmedLamp WITH
    Dims <- {Configs[n] : n \in DOMAIN Configs},
    Welcome <- StartState,
    Cached <- UserStates[Specimen],
    ByHand <- UserStates[Specimen],
    Dark <- Plain(Dark),
    doing <- Doing,
    orders <- Orders,
    bulb <- Bulb,
    state <- Reported,
    discovered <- Heard,
    saved <- ToRestore,
    cache <- InCache,
    settled <- Settled,
    dimmed <- IsDown,
    keys <- KeysSince

\* On a reliable network, however long no report comes, the threads, the
\* loops, the flags and the hotkeys of this module are to each lamp what module
\* DimmedLamp says: it is dimmed once, never made brighter by a film, and given
\* back what was known of it when it was dimmed, with no other exceptions than
\* those of IsDimmed and Restarts.
ImplementsLamp == Lamp!Spec
==============================================================================
