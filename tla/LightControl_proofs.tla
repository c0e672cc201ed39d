--------------------------- MODULE LightControl_proofs ---------------------------
(***************************************************************************)
(* Proofs about LightControl, for every control group, every set of        *)
(* brightness and power values and every list of configurations.           *)
(***************************************************************************)
EXTENDS LightControl, TLAPS

\* What holds between the steps of the loops.
LoopInv ==
    /\ calling => holder \in {"start", "down", "restore"} /\ todo # {}
    /\ holder = "down" => activeConfigNum # 0 /\ DiscoveryDone
    /\ calling /\ save => holder = "down"
    /\ holder \in {"free", "discovery", "start"} => success
    /\ holder = "restore" /\ success =>
           \A d \in Devices \ todo : devLightState[d] = "RESTORED"
    /\ holder = "restore" => lightState # "RESTORED"

\* What a dimmed device looks like to LightsDown, and that a call that saves
\* is not about one.
EpisodeInv ==
    /\ \A d \in episode : \/ devLightState[d] = "DOWN"
                          \/ devLightState[d] = "CONFIG_CHANGED"
                             /\ prevLightState[d] # "RESTORED"
    /\ calling /\ save => \A d \in todo : First(d) => d \notin episode

\* Where the marks are on a reliable network, for the devices the program has
\* not mistaken: outside an episode the bulb is as the user has it, unless it
\* is being dimmed right now, and only that brings a bulb what is not; so is
\* the reported state, once it is newer than the last restoration.
Dimming(d) == calling /\ First(d) /\ holder = "down"

MarkInv ==
    /\ \A d \in Devices \ mistaken : savedState[d].origin = "user"
    /\ \A d \in Devices \ mistaken :
          ~Dimming(d) => \A st \in sent[d] : st.origin = "user"
    /\ \A d \in Devices \ (episode \cup mistaken) :
          /\ d \notin outdated => state[d].origin = "user"
          /\ ~Dimming(d) => bulb[d].origin = "user"
    /\ \A d \in Devices : calling /\ First(d) =>
          /\ sent[d] \subseteq {target}
          /\ target.origin = "user" /\ sent[d] = {} => bulb[d].origin = "user"
          /\ holder = "restore" => target = savedState[d]
    /\ lightState = "RESTORED" /\ holder # "down" =>
          \A d \in Devices : devLightState[d] = "RESTORED"
    /\ success
    /\ holder = "start" => outdated = {}

RInv == TypeOK /\ LoopInv /\ EpisodeInv /\ MarkInv

------------------------------------------------------------------------------
(***************************************************************************)
(* Type correctness.                                                       *)
(***************************************************************************)

\* A loop visits one device at a time.
LEMMA OneFirst ==
    ASSUME TypeOK, NEW d \in Devices, NEW e \in Devices, First(d), First(e)
    PROVE  d = e
BY ControlAssumption DEF First

\* What LightsDown dims a device to is a state.
LEMMA DimStateType ==
    ASSUME TypeOK, NEW d \in Devices, activeConfigNum # 0
    PROVE  Mark(DimState(d), "dimmed") \in States
<1>1. CompareState(d) \in States
  BY DEF TypeOK, CompareState
<1>2. Configs[activeConfigNum] \in Values
  BY ControlAssumption DEF TypeOK
<1>3. CompareState(d).brightness \in Brightness
  BY <1>1 DEF States
<1>4. DimState(d).brightness \in Brightness /\ DimState(d).power \in PowerLevels
  BY <1>2, <1>3 DEF DimState, Values
<1> QED BY <1>4 DEF Mark, States

LEMMA MarkType ==
    /\ Dark \in States
    /\ \A d \in Devices : \A v \in UserStates[d] : Mark(v, "user") \in States
    /\ Mark(StartState, "user") \in States
    /\ \A given \in UserGiven :
           /\ given \in [Devices -> States]
           /\ \A d \in Devices : given[d].origin = "user"
<1>1. Dark \in States
  BY ControlAssumption DEF Dark, States
<1>2. \A v \in Values : Mark(v, "user") \in States /\ Mark(v, "user").origin = "user"
  BY DEF Mark, States, Values
<1>3. \A d \in Devices : UserStates[d] \subseteq Values
  BY ControlAssumption
<1>4. ASSUME NEW given \in UserGiven
      PROVE  /\ given \in [Devices -> States]
             /\ \A d \in Devices : given[d].origin = "user"
  <2>1. PICK g \in [Devices -> UNION {UserStates[d] : d \in Devices}] :
            /\ \A d \in Devices : g[d] \in UserStates[d]
            /\ given = [d \in Devices |-> Mark(g[d], "user")]
    BY DEF UserGiven
  <2>2. \A d \in Devices : g[d] \in Values
    BY <1>3, <2>1
  <2> QED BY <1>2, <2>1, <2>2
<1> QED BY <1>1, <1>2, <1>3, <1>4, ControlAssumption

\* What a returned call does to the devices mistaken, and to the flags.
Corrects(d) ==
    mistaken' = IF savedState'[d].origin = "user" THEN mistaken \ {d}
                ELSE mistaken \cup {e \in {d} : SavesOldReport(e)}

Returned(d, mode) ==
    /\ prevLightState' = [prevLightState EXCEPT ![d] = devLightState[d]]
    /\ devLightState' = [devLightState EXCEPT ![d] = mode]
    /\ success' = success

LEMMA CallFlags ==
    ASSUME NEW d \in Devices, NEW ok \in BOOLEAN, CallReturns(d, ok)
    PROVE  \/ /\ Returned(d, "DOWN") /\ holder = "down" /\ ok
              /\ episode' = episode \cup {d} /\ Corrects(d)
              /\ keys' = [keys EXCEPT ![d] = 0]
           \/ /\ Returned(d, "RESTORED") /\ holder \notin {"down", "start"} /\ ok
              /\ episode' = episode \ {d} /\ Corrects(d)
              /\ keys' = [keys EXCEPT ![d] = 0]
           \/ /\ ~ok \/ holder = "start"
              /\ success' = (success /\ holder = "start")
              /\ UNCHANGED <<devLightState, prevLightState, episode, mistaken, keys>>
<1>1. CASE ok /\ holder = "down"
  BY <1>1 DEF CallReturns, Returned, Corrects
<1>2. CASE ok /\ holder \notin {"down", "start"}
  BY <1>2 DEF CallReturns, Returned, Corrects
<1>3. CASE ~ok \/ holder = "start"
  BY <1>3 DEF CallReturns
<1> QED BY <1>1, <1>2, <1>3

\* Every step keeps the types and the bookkeeping of the loops.
LEMMA TypeStep == TypeOK /\ LoopInv /\ [Next]_vars => TypeOK'
<1> SUFFICES ASSUME TypeOK, LoopInv, [Next]_vars PROVE TypeOK'
  OBVIOUS
<1> USE ControlAssumption DEF TypeOK
<1>1. CASE Discover \/ DiscoverExpires
  BY <1>1 DEF Discover, DiscoverExpires, flags, records, world, history
<1>2. CASE PollDown \/ PollRestore
  BY <1>2 DEF PollDown, PollRestore, StartLoop, flags, records, world, history
<1>3. CASE LoopEnds
  <2>1. lightState' \in LightModes
    BY <1>3 DEF LoopEnds, AfterLoop, LightModes
  <2> QED BY <1>3, <2>1 DEF LoopEnds, AfterLoop, records, world, history
<1>4. ASSUME NEW n \in Keys, Hotkey(n) PROVE TypeOK'
  BY <1>4 DEF Hotkey, Keys, loop, records, world, history, LightModes
<1>5. CASE PlayerChanges
  BY <1>5 DEF PlayerChanges, loop, flags, records, history
<1>6. ASSUME NEW d \in Devices, ReadLightStatus(d) PROVE TypeOK'
  <2>1. state' \in [Devices -> States]
    BY <1>6 DEF ReadLightStatus
  <2> QED BY <1>6, <2>1 DEF ReadLightStatus, flags, world
<1>7. ASSUME NEW d \in Devices, DownSkips(d) PROVE TypeOK'
  BY <1>7 DEF DownSkips, flags, records, world, history
<1>8. ASSUME NEW d \in Devices, NEW st \in States, NEW saves \in BOOLEAN, Send(d, st, saves)
      PROVE  TypeOK'
  BY <1>8 DEF Send, flags, records, history
<1>9. ASSUME NEW d \in Devices, DownSends(d) PROVE TypeOK'
  <2>1. Mark(DimState(d), "dimmed") \in States
    BY <1>9, DimStateType DEF DownSends, LoopInv
  <2>2. DownSaves(d) \in BOOLEAN
    BY DEF DownSaves
  <2> QED BY <1>8, <1>9, <2>1, <2>2 DEF DownSends
<1>10. ASSUME NEW d \in Devices, RestoreSends(d) \/ StartSends(d) PROVE TypeOK'
  BY <1>8, <1>10, MarkType DEF RestoreSends, StartSends, RestoredState
<1>11. ASSUME NEW d \in Devices, NEW ok \in BOOLEAN, CallReturns(d, ok) PROVE TypeOK'
  <2>1. savedState' \in [Devices -> States] /\ settled' \in SUBSET Devices
    BY <1>11 DEF CallReturns, Saves
  <2>2. /\ devLightState' \in [Devices -> LightModes]
        /\ prevLightState' \in [Devices -> LightModes]
        /\ episode' \in SUBSET Devices
        /\ success' \in BOOLEAN
    BY <1>11, CallFlags DEF Returned, LightModes
  <2>3. mistaken' \in SUBSET Devices /\ keys' \in [Devices -> 0..2]
    BY <1>11, CallFlags DEF Corrects
  <2>4. outdated' \in SUBSET Devices
    BY <1>11 DEF CallReturns
  <2> QED BY <1>11, <2>1, <2>2, <2>3, <2>4, MarkType DEF CallReturns, world
<1>12. ASSUME NEW d \in Devices, bulb' \in [Devices -> States], past' = Remember(d)
       PROVE  past' \in [Devices -> SUBSET States]
  BY <1>12 DEF Remember
<1>13. ASSUME NEW d \in Devices, BulbExecutes(d) PROVE TypeOK'
  <2>1. bulb' \in [Devices -> States]
    BY <1>13 DEF BulbExecutes, States, Level
  <2>2. sent' \in [Devices -> SUBSET States]
    BY <1>13 DEF BulbExecutes
  <2>3. past' \in [Devices -> SUBSET States]
    BY <1>12, <1>13, <2>1 DEF BulbExecutes
  <2> QED BY <1>13, <2>1, <2>2, <2>3 DEF BulbExecutes, loop, flags, records, history
<1>14. ASSUME NEW d \in Devices, NEW v \in UserStates[d], UserSets(d, v) PROVE TypeOK'
  <2>1. bulb' \in [Devices -> States]
    BY <1>14, MarkType DEF UserSets
  <2>2. past' \in [Devices -> SUBSET States]
    BY <1>12, <1>14, <2>1 DEF UserSets
  <2> QED BY <1>14, <2>1, <2>2 DEF UserSets, loop, flags, records, history
<1>15. ASSUME NEW d \in Devices, TimePasses(d) PROVE TypeOK'
  BY <1>15 DEF TimePasses, loop, flags, world, history
<1>16. CASE Restart
  <2>1. holder' \in {"free", "start"} /\ todo' \in SUBSET Devices
    BY <1>16 DEF Restart
  <2>2. savedState' \in [Devices -> States] /\ cache' \in [Devices -> States]
    BY <1>16 DEF Restart
  <2>3. mistaken' \in SUBSET Devices
    BY <1>16 DEF Restart
  <2>4. state' \in [Devices -> States] /\ target' \in States
    BY <1>16, MarkType DEF Restart
  <2>5. /\ devLightState' \in [Devices -> LightModes]
        /\ prevLightState' \in [Devices -> LightModes]
        /\ lightState' \in LightModes
    BY <1>16 DEF Restart, LightModes
  <2>6. keys' \in [Devices -> 0..2] /\ activeConfigNum' \in DOMAIN Configs \cup {0}
    BY <1>16 DEF Restart
  <2>7. UNCHANGED <<bulb, sent, past, watching>>
    BY <1>16 DEF Restart
  <2>8. /\ calling' = FALSE /\ save' = FALSE /\ success' = TRUE
        /\ settled' = Devices /\ discovered' = {} /\ outdated' = {} /\ episode' = {}
    BY <1>16 DEF Restart
  <2> QED BY <2>1, <2>2, <2>3, <2>4, <2>5, <2>6, <2>7, <2>8
<1>17. CASE UNCHANGED vars
  BY <1>17 DEF vars, loop, flags, records, world, history
<1> QED
  BY <1>1, <1>2, <1>3, <1>4, <1>5, <1>6, <1>7, <1>9, <1>10, <1>11, <1>13, <1>14,
     <1>15, <1>16, <1>17 DEF Next

\* Every step keeps the bookkeeping of the loops.
LEMMA LoopStep == TypeOK /\ LoopInv /\ [Next]_vars => LoopInv'
<1> SUFFICES ASSUME TypeOK, LoopInv, [Next]_vars PROVE LoopInv'
  OBVIOUS
<1> USE DEF LoopInv
<1>1. CASE Discover \/ DiscoverExpires
  BY <1>1 DEF Discover, DiscoverExpires, flags, records, DiscoveryDone
<1>2. CASE PollDown
  BY <1>2 DEF PollDown, WantsDown, StartLoop, flags, records, DiscoveryDone
<1>3. CASE PollRestore
  BY <1>3 DEF PollRestore, WantsRestore, StartLoop, flags
<1>4. CASE LoopEnds
  BY <1>4 DEF LoopEnds, AfterLoop
<1>5. ASSUME NEW n \in Keys, Hotkey(n) PROVE LoopInv'
  BY <1>5 DEF Hotkey, Keys, loop, records, DiscoveryDone
<1>6. CASE PlayerChanges
  BY <1>6 DEF PlayerChanges, loop, flags, records, DiscoveryDone
<1>7. ASSUME NEW d \in Devices, ReadLightStatus(d) PROVE LoopInv'
  BY <1>7 DEF ReadLightStatus, flags, DiscoveryDone, TypeOK
<1>8. ASSUME NEW d \in Devices, DownSkips(d) PROVE LoopInv'
  BY <1>8 DEF DownSkips, flags, records, DiscoveryDone
<1>9. ASSUME NEW d \in Devices, DownSends(d) \/ RestoreSends(d) \/ StartSends(d)
      PROVE  LoopInv'
  BY <1>9 DEF DownSends, RestoreSends, StartSends, RestoredState, Send, flags, records, First,
     DiscoveryDone
<1>10. ASSUME NEW d \in Devices, NEW ok \in BOOLEAN, CallReturns(d, ok) PROVE LoopInv'
  <2>1. /\ ~calling' /\ todo' = todo \ {d} /\ holder \in {"start", "down", "restore"}
        /\ UNCHANGED <<holder, activeConfigNum, lightState, discovered>>
    BY <1>10 DEF CallReturns
  <2> USE DEF DiscoveryDone
  <2>2. CASE Returned(d, "DOWN") /\ holder = "down"
    BY <2>1, <2>2 DEF Returned
  <2>3. CASE Returned(d, "RESTORED") /\ holder \notin {"down", "start"}
    BY <2>1, <2>3 DEF Returned, TypeOK
  <2>4. CASE success' = (success /\ holder = "start") /\ UNCHANGED devLightState
    BY <2>1, <2>4
  <2> QED BY <1>10, <2>2, <2>3, <2>4, CallFlags
<1>11. ASSUME NEW d \in Devices, BulbExecutes(d) PROVE LoopInv'
  BY <1>11 DEF BulbExecutes, loop, flags, records, DiscoveryDone
<1>12. ASSUME NEW d \in Devices, NEW v \in UserStates[d], UserSets(d, v) PROVE LoopInv'
  BY <1>12 DEF UserSets, loop, flags, records, DiscoveryDone
<1>13. ASSUME NEW d \in Devices, TimePasses(d) PROVE LoopInv'
  BY <1>13 DEF TimePasses, loop, flags, DiscoveryDone
<1>14. CASE Restart
  BY <1>14 DEF Restart
<1>15. CASE UNCHANGED vars
  BY <1>15 DEF vars, loop, flags, records, DiscoveryDone
<1> QED
  BY <1>1, <1>2, <1>3, <1>4, <1>5, <1>6, <1>7, <1>8, <1>9, <1>10, <1>11, <1>12, <1>13,
     <1>14, <1>15 DEF Next

\* Every variable keeps its type in every execution.
THEOREM TypeCorrect == Spec => [](TypeOK /\ LoopInv)
<1>1. ASSUME Init PROVE TypeOK /\ LoopInv
  <2>1. /\ target \in States
        /\ state \in [Devices -> States]
        /\ savedState \in [Devices -> States]
        /\ bulb \in [Devices -> States]
        /\ cache \in [Devices -> States]
    BY <1>1, MarkType DEF Init
  <2>2. /\ sent \in [Devices -> SUBSET States]
        /\ past \in [Devices -> SUBSET States]
    BY <1>1, <2>1 DEF Init
  <2>3. devLightState \in [Devices -> LightModes] /\ prevLightState \in [Devices -> LightModes]
    BY <1>1 DEF Init, LightModes
  <2>4. LoopInv
    BY <1>1 DEF Init, LoopInv
  <2>5. keys \in [Devices -> 0..2] /\ activeConfigNum \in DOMAIN Configs \cup {0}
    BY <1>1, ControlAssumption DEF Init
  <2>6. holder \in {"free", "start"} /\ todo \in SUBSET Devices
    BY <1>1 DEF Init
  <2> QED BY <1>1, <2>1, <2>2, <2>3, <2>4, <2>5, <2>6 DEF Init, TypeOK, LightModes
<1>2. TypeOK /\ LoopInv /\ [Next]_vars => TypeOK' /\ LoopInv'
  BY TypeStep, LoopStep
<1> QED BY <1>1, <1>2, PTL DEF Spec

------------------------------------------------------------------------------
(***************************************************************************)
(* The state to restore, through a whole episode.                          *)
(***************************************************************************)

\* Every step keeps what LightsDown relies on to tell a dimmed device apart.
LEMMA EpisodeStep == TypeOK /\ LoopInv /\ EpisodeInv /\ [Next]_vars => EpisodeInv'
<1> SUFFICES ASSUME TypeOK, LoopInv, EpisodeInv, [Next]_vars PROVE EpisodeInv'
  OBVIOUS
<1> USE DEF EpisodeInv
<1>1. CASE Discover \/ DiscoverExpires
  BY <1>1 DEF Discover, DiscoverExpires, flags, history, LoopInv
<1>2. CASE PollDown \/ PollRestore
  <2>1. ~calling
    BY <1>2 DEF PollDown, PollRestore, LoopInv
  <2>2. UNCHANGED <<calling, episode, devLightState, prevLightState>>
    BY <1>2 DEF PollDown, PollRestore, StartLoop, flags, history
  <2> QED BY <2>1, <2>2
<1>3. CASE LoopEnds
  BY <1>3 DEF LoopEnds, AfterLoop, history, LoopInv
<1>4. ASSUME NEW n \in Keys, Hotkey(n) PROVE EpisodeInv'
  BY <1>4 DEF Hotkey, Keys, loop, history, LoopInv, TypeOK
<1>5. CASE PlayerChanges
  BY <1>5 DEF PlayerChanges, loop, flags, history, First
<1>6. ASSUME NEW d \in Devices, ReadLightStatus(d) PROVE EpisodeInv'
  BY <1>6 DEF ReadLightStatus, flags, First, LoopInv
<1>7. ASSUME NEW d \in Devices, DownSkips(d) PROVE EpisodeInv'
  BY <1>7 DEF DownSkips, flags, history
<1>8. ASSUME NEW d \in Devices, DownSends(d) PROVE EpisodeInv'
  <2>1. d \in episode => ~DownSaves(d)
    BY <1>8 DEF DownSends, DownSaves
  <2>2. save' = DownSaves(d) /\ todo' = todo /\ First(d)
        /\ UNCHANGED <<devLightState, prevLightState, episode>>
    BY <1>8 DEF DownSends, Send, flags, history
  <2>3. \A e \in todo' : First(e)' => e = d
    BY <2>2, OneFirst DEF First, TypeOK
  <2> QED BY <2>1, <2>2, <2>3
<1>9. ASSUME NEW d \in Devices, RestoreSends(d) \/ StartSends(d) PROVE EpisodeInv'
  BY <1>9 DEF RestoreSends, StartSends, RestoredState, Send, flags, history
<1>10. ASSUME NEW d \in Devices, NEW ok \in BOOLEAN, CallReturns(d, ok) PROVE EpisodeInv'
  <2>1. ~calling'
    BY <1>10 DEF CallReturns, Saves
  <2>2. CASE Returned(d, "DOWN") /\ episode' = episode \cup {d}
    BY <2>1, <2>2 DEF Returned, TypeOK
  <2>3. CASE Returned(d, "RESTORED") /\ episode' = episode \ {d}
    BY <2>1, <2>3 DEF Returned, TypeOK
  <2>4. CASE UNCHANGED <<devLightState, prevLightState, episode>>
    BY <2>1, <2>4
  <2> QED BY <1>10, <2>2, <2>3, <2>4, CallFlags
<1>11. ASSUME NEW d \in Devices, BulbExecutes(d) PROVE EpisodeInv'
  BY <1>11 DEF BulbExecutes, loop, flags, history, First
<1>12. ASSUME NEW d \in Devices, NEW v \in UserStates[d], UserSets(d, v) PROVE EpisodeInv'
  BY <1>12 DEF UserSets, loop, flags, history, First
<1>13. ASSUME NEW d \in Devices, TimePasses(d) PROVE EpisodeInv'
  BY <1>13 DEF TimePasses, loop, flags, First, history
<1>14. CASE Restart
  BY <1>14 DEF Restart
<1>15. CASE UNCHANGED vars
  BY <1>15 DEF vars, loop, flags, history, First
<1> QED
  BY <1>1, <1>2, <1>3, <1>4, <1>5, <1>6, <1>7, <1>8, <1>9, <1>10, <1>11, <1>12, <1>13,
     <1>14, <1>15 DEF Next

\* Only a returning call saves, and none that saves is about a dimmed device.
LEMMA SavesOutsideEpisodes ==
    ASSUME TypeOK, EpisodeInv, [Next]_vars, NEW d \in episode \cap episode'
    PROVE  savedState'[d] = savedState[d]
<1>1. ASSUME NEW e \in Devices, NEW ok \in BOOLEAN, CallReturns(e, ok)
      PROVE  savedState'[d] = savedState[d]
  <2>1. CASE save
    <3>1. e # d
      BY <1>1, <2>1 DEF CallReturns, Saves, EpisodeInv, First
    <3> QED BY <1>1, <3>1 DEF CallReturns, Saves, TypeOK
  <2>2. CASE ~save
    BY <1>1, <2>2 DEF CallReturns, Saves
  <2> QED BY <2>1, <2>2
<1>2. CASE Restart
  BY <1>2 DEF Restart
<1>3. ASSUME ~Restart, \A e \in Devices, ok \in BOOLEAN : ~CallReturns(e, ok)
      PROVE  savedState' = savedState
  BY <1>3 DEF Next, vars, records, Discover, DiscoverExpires, PollDown, PollRestore,
     StartLoop, LoopEnds, AfterLoop, Hotkey, Keys, PlayerChanges, ReadLightStatus, DownSkips,
     DownSends, RestoreSends, RestoredState, StartSends, Send, BulbExecutes, UserSets,
     TimePasses
<1> QED BY <1>1, <1>2, <1>3

\* From the call that dims a device until the call that restores it, the
\* state to restore does not change: not through changes of configuration,
\* failed calls or reports that come late.
THEOREM SnapshotIsKept == Spec => SnapshotKept
<1>1. Init => EpisodeInv
  BY DEF Init, EpisodeInv
<1>2. TypeOK /\ LoopInv /\ EpisodeInv /\ [Next]_vars => EpisodeInv'
  BY EpisodeStep
<1>3. TypeOK /\ EpisodeInv /\ [Next]_vars =>
          [\A d \in episode \cap episode' : savedState'[d] = savedState[d]]_vars
  BY SavesOutsideEpisodes
<1> QED BY <1>1, <1>2, <1>3, TypeCorrect, PTL DEF Spec, SnapshotKept

\* The flags of a device tell how many hotkeys have come since its last call,
\* one, or more than one, and a call of LightsDown saves as it found the flags:
\* no hotkey comes while the lock is held.
KeyInv ==
    /\ \A d \in Devices : devLightState[d] = "CONFIG_CHANGED" <=> keys[d] # 0
    /\ \A d \in Devices \ episode :
          /\ devLightState[d] # "DOWN"
          /\ keys[d] = 1 => prevLightState[d] = "RESTORED"
    /\ calling /\ holder = "down" =>
           \A d \in todo : First(d) => (save <=> DownSaves(d))

\* Every step keeps the count and the flags together.
LEMMA KeyStep == TypeOK /\ LoopInv /\ KeyInv /\ [Next]_vars => KeyInv'
<1> SUFFICES ASSUME TypeOK, LoopInv, KeyInv, [Next]_vars PROVE KeyInv'
  OBVIOUS
<1> USE DEF KeyInv
<1>1. CASE Discover \/ DiscoverExpires \/ PollDown \/ PollRestore \/ LoopEnds
  <2>1. ~calling /\ ~calling'
    BY <1>1 DEF Discover, DiscoverExpires, PollDown, PollRestore, StartLoop, LoopEnds, LoopInv
  <2>2. UNCHANGED <<devLightState, prevLightState, episode, keys>>
    BY <1>1 DEF Discover, DiscoverExpires, PollDown, PollRestore, StartLoop, LoopEnds, flags,
       history
  <2> QED BY <2>1, <2>2
<1>2. ASSUME NEW n \in Keys, Hotkey(n) PROVE KeyInv'
  <2>1. ~calling'
    BY <1>2 DEF Hotkey, loop, LoopInv
  <2>2. \A d \in Devices :
            /\ devLightState'[d] = "CONFIG_CHANGED"
            /\ prevLightState'[d] = devLightState[d]
            /\ keys'[d] = IF keys[d] = 0 THEN 1 ELSE 2
    BY <1>2 DEF Hotkey, TypeOK
  <2>3. episode' = episode
    BY <1>2 DEF Hotkey
  <2>4. \A d \in Devices : devLightState[d] \in {"DOWN", "RESTORED", "CONFIG_CHANGED"}
    BY DEF TypeOK, LightModes
  <2>5. ASSUME NEW d \in Devices \ episode', keys'[d] = 1
        PROVE  prevLightState'[d] = "RESTORED"
    <3>1. keys[d] = 0
      BY <2>2, <2>5
    <3> QED BY <2>2, <2>3, <2>4, <3>1
  <2>6. \A d \in Devices : keys'[d] # 0 /\ devLightState'[d] # "DOWN"
    BY <2>2
  <2> QED BY <2>1, <2>2, <2>5, <2>6
<1>3. ASSUME NEW d \in Devices, DownSends(d) PROVE KeyInv'
  <2>1. save' = DownSaves(d) /\ todo' = todo /\ First(d)
        /\ UNCHANGED <<devLightState, prevLightState, episode, keys>>
    BY <1>3 DEF DownSends, Send, flags, history
  <2>2. \A e \in todo' : First(e)' => e = d
    BY <2>1, OneFirst DEF First, TypeOK
  <2> QED BY <2>1, <2>2 DEF DownSaves
<1>4. ASSUME NEW d \in Devices, DownSkips(d) PROVE KeyInv'
  BY <1>4 DEF DownSkips, flags, history
<1>5. ASSUME NEW d \in Devices, RestoreSends(d) \/ StartSends(d) PROVE KeyInv'
  BY <1>5 DEF RestoreSends, StartSends, Send, flags, history
<1>6. ASSUME NEW d \in Devices, NEW ok \in BOOLEAN, CallReturns(d, ok) PROVE KeyInv'
  <2>1. ~calling'
    BY <1>6 DEF CallReturns
  <2>2. ASSUME NEW mode \in {"DOWN", "RESTORED"}, Returned(d, mode),
               keys' = [keys EXCEPT ![d] = 0],
               episode' = IF mode = "DOWN" THEN episode \cup {d} ELSE episode \ {d}
        PROVE  KeyInv'
    <3>1. \A e \in Devices \ {d} :
              /\ devLightState'[e] = devLightState[e] /\ prevLightState'[e] = prevLightState[e]
              /\ keys'[e] = keys[e] /\ (e \in episode' <=> e \in episode)
      BY <2>2 DEF Returned, TypeOK
    <3>2. devLightState'[d] = mode /\ keys'[d] = 0 /\ (mode = "DOWN" => d \in episode')
      BY <2>2 DEF Returned, TypeOK
    <3> QED BY <2>1, <2>2, <3>1, <3>2
  <2>3. CASE UNCHANGED <<devLightState, prevLightState, episode, keys>>
    BY <2>1, <2>3
  <2> QED BY <1>6, <2>2, <2>3, CallFlags
<1>7. CASE Restart
  BY <1>7 DEF Restart
<1>8. ASSUME NEW d \in Devices, ReadLightStatus(d) PROVE KeyInv'
  BY <1>8 DEF ReadLightStatus, flags, First, DownSaves
<1>9. ASSUME UNCHANGED <<loop, flags, episode, keys>> PROVE KeyInv'
  BY <1>9 DEF loop, flags, First, DownSaves
<1>10. CASE PlayerChanges
  BY <1>9, <1>10 DEF PlayerChanges, history
<1>11. ASSUME NEW d \in Devices, BulbExecutes(d) PROVE KeyInv'
  BY <1>9, <1>11 DEF BulbExecutes, history
<1>12. ASSUME NEW d \in Devices, NEW v \in UserStates[d], UserSets(d, v) PROVE KeyInv'
  BY <1>9, <1>12 DEF UserSets, history
<1>13. ASSUME NEW d \in Devices, TimePasses(d) PROVE KeyInv'
  BY <1>9, <1>13 DEF TimePasses, history
<1>14. CASE UNCHANGED vars
  BY <1>9, <1>14 DEF vars, history
<1> QED
  BY <1>1, <1>2, <1>3, <1>4, <1>5, <1>6, <1>7, <1>8, <1>10, <1>11, <1>12, <1>13, <1>14
  DEF Next

\* Only a successful call of LightsDown takes a device down.
LEMMA SavesWhatItDims ==
    ASSUME TypeOK, KeyInv, [Next]_vars, NEW d \in episode' \ episode
    PROVE  savedState'[d] = state[d] \/ d \notin settled \/ keys[d] = 2
<1>1. ASSUME NEW e \in Devices, NEW ok \in BOOLEAN, CallReturns(e, ok)
      PROVE  savedState'[d] = state[d] \/ d \notin settled \/ keys[d] = 2
  <2>1. holder = "down" /\ ok /\ e = d
    BY <1>1, CallFlags
  <2>2. calling /\ First(d) /\ d \in todo
    BY <1>1, <2>1 DEF CallReturns, First
  <2>3. SUFFICES ASSUME d \in settled, keys[d] # 2 PROVE savedState'[d] = state[d]
    OBVIOUS
  <2>4. DownSaves(d)
    <3>1. CASE keys[d] = 0
      BY <1>1, <2>1, <3>1 DEF KeyInv, DownSaves
    <3>2. CASE keys[d] = 1
      BY <1>1, <2>1, <3>2 DEF KeyInv, DownSaves
    <3> QED BY <1>1, <2>1, <2>3, <3>1, <3>2 DEF TypeOK
  <2>5. save
    BY <2>1, <2>2, <2>4 DEF KeyInv
  <2> QED BY <1>1, <2>1, <2>3, <2>5 DEF CallReturns, Saves, TypeOK
<1>2. ASSUME \A e \in Devices, ok \in BOOLEAN : ~CallReturns(e, ok)
      PROVE  episode' \subseteq episode
  BY <1>2 DEF Next, vars, history, Discover, DiscoverExpires, PollDown, PollRestore,
     StartLoop, LoopEnds, Hotkey, PlayerChanges, ReadLightStatus, DownSkips, DownSends,
     RestoreSends, StartSends, Send, BulbExecutes, UserSets, TimePasses, Restart
<1> QED BY <1>1, <1>2

\* A device that goes down has its reported state saved, unless its last change
\* has not settled or two hotkeys have come since its last call.
THEOREM SnapshotIsTaken == Spec => SnapshotTaken
<1>1. Init => KeyInv
  BY DEF Init, KeyInv
<1>2. TypeOK /\ LoopInv /\ KeyInv /\ [Next]_vars => KeyInv'
  BY KeyStep
<1>3. TypeOK /\ KeyInv /\ [Next]_vars =>
          [\A d \in episode' \ episode :
               savedState'[d] = state[d] \/ d \notin settled \/ keys[d] = 2]_vars
  BY SavesWhatItDims
<1> QED BY <1>1, <1>2, <1>3, TypeCorrect, PTL DEF Spec, SnapshotTaken

------------------------------------------------------------------------------
(***************************************************************************)
(* The global light state and those of the devices.                        *)
(***************************************************************************)

\* Lights that count as restored have no change of configuration waiting.
LEMMA ForgottenStep ==
    TypeOK /\ LoopInv /\ NoChangeForgotten /\ [Next]_vars => NoChangeForgotten'
<1> SUFFICES ASSUME TypeOK, LoopInv, NoChangeForgotten, [Next]_vars, lightState' = "RESTORED"
             PROVE  \A d \in Devices : devLightState'[d] \in {"RESTORED", "DOWN"}
  BY DEF NoChangeForgotten
<1>1. CASE LoopEnds
  <2>1. UNCHANGED devLightState
    BY <1>1 DEF LoopEnds, AfterLoop
  <2>2. CASE holder = "restore" /\ success
    BY <1>1, <2>1, <2>2 DEF LoopEnds, AfterLoop, LoopInv
  <2>3. CASE ~success \/ holder # "restore"
    BY <1>1, <2>1, <2>3 DEF LoopEnds, AfterLoop, NoChangeForgotten
  <2> QED BY <2>2, <2>3
<1>2. ASSUME NEW n \in Keys, Hotkey(n) PROVE FALSE
  BY <1>2 DEF Hotkey, Keys
<1>3. ASSUME NEW d \in Devices, NEW ok \in BOOLEAN, CallReturns(d, ok)
      PROVE  \A e \in Devices : devLightState'[e] \in {"RESTORED", "DOWN"}
  <2>1. lightState = "RESTORED"
    BY <1>3 DEF CallReturns, Saves
  <2> QED BY <1>3, <2>1, CallFlags DEF Returned, TypeOK, NoChangeForgotten
<1>4. ASSUME UNCHANGED <<lightState, devLightState>>
      PROVE  \A d \in Devices : devLightState'[d] \in {"RESTORED", "DOWN"}
  BY <1>4 DEF NoChangeForgotten
<1>5. CASE Restart
  BY <1>5 DEF Restart
<1>6. \/ LoopEnds
      \/ Restart
      \/ \E n \in Keys : Hotkey(n)
      \/ \E d \in Devices, ok \in BOOLEAN : CallReturns(d, ok)
      \/ UNCHANGED <<lightState, devLightState>>
  BY DEF Next, vars, flags, Discover, DiscoverExpires, PollDown, PollRestore, StartLoop,
     PlayerChanges, ReadLightStatus, DownSkips, DownSends, RestoreSends, RestoredState,
     StartSends, Send, BulbExecutes, UserSets, TimePasses
<1> QED BY <1>1, <1>2, <1>3, <1>4, <1>5, <1>6

\* While the lights count as restored every device is restored, or down
\* because a LightsDown has failed for another one; no change of
\* configuration is left waiting.
THEOREM NoChangeIsForgotten == Spec => []NoChangeForgotten
<1>1. Init => NoChangeForgotten
  BY DEF Init, NoChangeForgotten
<1> QED BY <1>1, ForgottenStep, TypeCorrect, PTL DEF Spec

------------------------------------------------------------------------------
(***************************************************************************)
(* The marks, on a reliable network.                                       *)
(***************************************************************************)

\* Lights count as restored after LightsRestore, or as they did before main's loop.
LEMMA RestoresAfter ==
    ASSUME LoopEnds, success, lightState' = "RESTORED"
    PROVE  holder = "restore" \/ (holder = "start" /\ lightState = "RESTORED")
<1>1. lightState' = AfterLoop
  BY DEF LoopEnds
<1>2. holder # "down"
  BY <1>1 DEF AfterLoop
<1>3. holder = "start" => lightState = "RESTORED"
  BY <1>1 DEF AfterLoop
<1>4. holder = "start" \/ holder = "down" \/ holder = "restore"
  BY DEF LoopEnds
<1> QED BY <1>2, <1>3, <1>4

\* Every step keeps the marks where MarkInv says they are.
LEMMA MarkStep == Reliable /\ RInv /\ [Next]_vars => MarkInv'
<1> SUFFICES ASSUME Reliable, RInv, [Next]_vars PROVE MarkInv'
  OBVIOUS
<1> USE DEF RInv, MarkInv, Dimming
<1>1. CASE Discover \/ DiscoverExpires
  <2>1. /\ holder \in {"free", "discovery"} /\ holder' \in {"free", "discovery"}
        /\ UNCHANGED <<calling, success, lightState, devLightState, savedState, state,
                       outdated, bulb, sent, episode, mistaken>>
    BY <1>1 DEF Discover, DiscoverExpires, flags, records, world, history
  <2>2. ~calling
    BY <2>1 DEF LoopInv
  <2> QED BY <2>1, <2>2
<1>2. CASE PollDown \/ PollRestore
  <2>1. ~calling
    BY <1>2 DEF PollDown, PollRestore, LoopInv
  <2>2. /\ holder = "free" /\ holder' \in {"down", "restore"} /\ success'
        /\ UNCHANGED <<calling, lightState, devLightState, savedState, state,
                       outdated, bulb, sent, episode, mistaken>>
    BY <1>2 DEF PollDown, PollRestore, StartLoop, flags, records, world, history
  <2> QED BY <2>1, <2>2
<1>3. CASE LoopEnds
  <2>1. ~calling
    BY <1>3 DEF LoopEnds, LoopInv
  <2>2. /\ success' /\ holder' = "free"
        /\ UNCHANGED <<calling, devLightState, savedState, state, outdated, bulb,
                       sent, episode, mistaken>>
    BY <1>3 DEF LoopEnds, records, world, history
  <2>3. lightState' = "RESTORED" =>
            holder = "restore" \/ (holder = "start" /\ lightState = "RESTORED")
    BY <1>3, RestoresAfter
  <2>4. holder = "restore" => \A d \in Devices : devLightState[d] = "RESTORED"
    BY <1>3 DEF LoopEnds, LoopInv
  <2> QED BY <2>1, <2>2, <2>3, <2>4
<1>4. ASSUME NEW n \in Keys, Hotkey(n) PROVE MarkInv'
  BY <1>4 DEF Hotkey, Keys, loop, records, world, history, LoopInv
<1>5. CASE PlayerChanges
  BY <1>5 DEF PlayerChanges, loop, flags, records, history, First
<1>6. ASSUME NEW d \in Devices, ReadLightStatus(d) PROVE MarkInv'
  <2>1. /\ holder = "discovery" /\ state' = [state EXCEPT ![d] = bulb[d]]
        /\ outdated' = outdated \ {d}
        /\ UNCHANGED <<holder, calling, success, lightState, devLightState, savedState,
                       bulb, sent, episode, mistaken>>
    BY <1>6 DEF ReadLightStatus, flags, world
  <2>2. ~calling
    BY <2>1 DEF LoopInv
  <2> QED BY <2>1, <2>2 DEF TypeOK
<1>7. ASSUME NEW d \in Devices, DownSkips(d) PROVE MarkInv'
  BY <1>7 DEF DownSkips, flags, records, world, history
<1>8. ASSUME NEW d \in Devices, NEW st, NEW saves, Send(d, st, saves), First(d), ~calling,
             d \in mistaken \/ holder = "down" \/ st.origin = "user",
             holder = "restore" => st = savedState[d]
      PROVE  MarkInv'
  <2>1. /\ UNCHANGED <<todo, holder, success, lightState, devLightState, savedState, state,
                       outdated, bulb, episode, mistaken>>
        /\ calling' /\ sent[d] = {} /\ target' = st
        /\ sent' = [sent EXCEPT ![d] = @ \cup {st}]
    BY <1>8 DEF Send, flags, records, history
  <2>2. \A e \in Devices : First(e)' <=> e = d
    BY <1>8, <2>1, OneFirst DEF First
  <2>3. sent'[d] = {st} /\ \A e \in Devices \ {d} : sent'[e] = sent[e]
    BY <2>1 DEF TypeOK
  <2>4. \A e \in Devices \ mistaken' : ~Dimming(e)' => \A m \in sent'[e] : m.origin = "user"
    BY <1>8, <2>1, <2>2, <2>3
  <2>5. sent'[d] \subseteq {target'} /\ sent'[d] # {}
    BY <2>1, <2>3
  <2> QED BY <1>8, <2>1, <2>2, <2>4, <2>5
<1>9. ASSUME NEW d \in Devices, DownSends(d) PROVE MarkInv'
  BY <1>8, <1>9 DEF DownSends
<1>10. ASSUME NEW d \in Devices, RestoreSends(d) PROVE MarkInv'
  BY <1>8, <1>10 DEF RestoreSends, RestoredState
<1>11. ASSUME NEW d \in Devices, StartSends(d) PROVE MarkInv'
  <2>1. Mark(StartState, "user").origin = "user"
    BY DEF Mark
  <2> QED BY <1>8, <1>11, <2>1 DEF StartSends
<1>12. ASSUME NEW d \in Devices, NEW ok \in BOOLEAN, CallReturns(d, ok) PROVE MarkInv'
  <2>1. /\ calling /\ First(d) /\ ok /\ sent[d] = {} /\ ~calling'
        /\ UNCHANGED <<holder, lightState, state, bulb, sent>>
        /\ outdated' = IF holder = "restore" /\ state[d].origin = "dimmed"
                       THEN outdated \cup {d} ELSE outdated \ {d}
    BY <1>12 DEF CallReturns, world
  <2>2. \A e \in Devices \ {d} : ~First(e)
    BY <2>1, OneFirst
  <2>3. \/ savedState' = savedState
        \/ save /\ Saves(d) /\ savedState' = [savedState EXCEPT ![d] = state[d]]
    BY <1>12 DEF CallReturns, Saves
  <2>4. \A e \in Devices \ {d} : savedState'[e] = savedState[e]
    BY <2>3 DEF TypeOK
  <2>5. \A e \in Devices : state[e].origin = "user" \/ state[e].origin = "dimmed"
    BY DEF TypeOK, States
  <2>6. ASSUME d \notin mistaken PROVE savedState'[d].origin = "user" \/ SavesOldReport(d)
    <3>1. CASE savedState' = savedState
      BY <2>6, <3>1
    <3>2. CASE save /\ Saves(d) /\ savedState'[d] = state[d]
      <4>1. d \notin episode
        BY <2>1, <3>2 DEF EpisodeInv, First
      <4> QED BY <2>6, <3>2, <4>1 DEF SavesOldReport
    <3> QED BY <2>3, <3>1, <3>2 DEF TypeOK
  <2>7. ASSUME Corrects(d)
        PROVE  /\ \A e \in Devices \ {d} : e \in mistaken' <=> e \in mistaken
               /\ d \notin mistaken' => savedState'[d].origin = "user"
    <3>1. CASE savedState'[d].origin = "user"
      BY <2>7, <3>1 DEF Corrects
    <3>2. CASE savedState'[d].origin # "user"
      <4>1. mistaken' = mistaken \cup {e \in {d} : SavesOldReport(e)}
        BY <2>7, <3>2 DEF Corrects
      <4> QED BY <2>6, <3>2, <4>1
    <3> QED BY <3>1, <3>2
  <2>8. \A e \in Devices \ {d} :
            /\ e \notin mistaken => savedState'[e].origin = "user"
            /\ e \notin mistaken => \A st \in sent'[e] : st.origin = "user"
            /\ e \notin episode \cup mistaken =>
                  /\ e \notin outdated' => state'[e].origin = "user"
                  /\ bulb'[e].origin = "user"
    BY <2>1, <2>2, <2>4
  <2>9. CASE /\ Returned(d, "DOWN") /\ holder = "down" /\ episode' = episode \cup {d}
              /\ Corrects(d)
    <3>1. \A e \in Devices : e # d => (e \in episode' <=> e \in episode)
      BY <2>9
    <3> QED BY <2>1, <2>7, <2>8, <2>9, <3>1 DEF Returned
  <2>10. CASE /\ Returned(d, "RESTORED") /\ holder \notin {"down", "start"}
              /\ episode' = episode \ {d} /\ Corrects(d)
    <3>1. holder = "restore" /\ lightState # "RESTORED"
      BY <2>1, <2>10 DEF LoopInv
    <3>2. savedState' = savedState /\ target = savedState[d]
      BY <2>1, <2>3, <3>1 DEF LoopInv
    <3>3. d \notin mistaken' => bulb[d].origin = "user"
      BY <2>1, <2>7, <2>10, <3>2
    <3>4. d \notin outdated' => state[d].origin = "user"
      BY <2>1, <2>5, <3>1
    <3>5. \A e \in Devices : e # d => (e \in episode' <=> e \in episode)
      BY <2>10
    <3> QED BY <2>1, <2>7, <2>8, <2>10, <3>1, <3>3, <3>4, <3>5 DEF Returned
  <2>11. CASE /\ holder = "start" /\ success' = (success /\ holder = "start")
              /\ UNCHANGED <<devLightState, prevLightState, episode, mistaken>>
    <3>1. savedState' = savedState /\ ~Dimming(d)
      BY <2>1, <2>3, <2>11 DEF LoopInv
    <3>2. outdated' = outdated \ {d}
      BY <2>1, <2>11
    <3> QED BY <2>1, <2>8, <2>11, <3>1, <3>2
  <2> QED BY <1>12, <2>1, <2>9, <2>10, <2>11, CallFlags
<1>13. ASSUME NEW d \in Devices, BulbExecutes(d) PROVE MarkInv'
  <2>1. PICK st \in sent[d] :
            /\ bulb'[d].origin = st.origin /\ sent'[d] = {}
            /\ \A e \in Devices \ {d} : bulb'[e] = bulb[e] /\ sent'[e] = sent[e]
    BY <1>13 DEF BulbExecutes, TypeOK
  <2>2. UNCHANGED <<holder, todo, calling, target, success, lightState, devLightState,
                    savedState, state, outdated, episode, mistaken>>
    BY <1>13 DEF BulbExecutes, loop, flags, records, history
  <2>3. \A e \in Devices : First(e)' <=> First(e)
    BY <2>2 DEF First
  <2>4. calling /\ First(d) => bulb'[d].origin = target.origin
    BY <2>1
  <2>5. d \notin mistaken /\ ~Dimming(d) => bulb'[d].origin = "user"
    BY <2>1
  <2> QED BY <2>1, <2>2, <2>3, <2>4, <2>5
<1>14. ASSUME NEW d \in Devices, NEW v \in UserStates[d], UserSets(d, v) PROVE MarkInv'
  <2>1. \A e \in Devices : bulb'[e] = bulb[e] \/ bulb'[e].origin = "user"
    BY <1>14 DEF UserSets, Mark, TypeOK
  <2>2. UNCHANGED <<holder, todo, calling, target, success, lightState, devLightState,
                    savedState, state, outdated, sent, episode, mistaken>>
    BY <1>14 DEF UserSets, loop, flags, records, history
  <2> QED BY <2>1, <2>2 DEF First
<1>15. ASSUME NEW d \in Devices, TimePasses(d) PROVE MarkInv'
  <2>1. UNCHANGED <<holder, todo, calling, target, success, lightState, devLightState,
                    savedState, state, bulb, sent, history>>
    BY <1>15 DEF TimePasses, loop, flags, world
  <2> QED BY <2>1 DEF First, history
<1>16. CASE Restart
  <2>1. /\ ~calling' /\ success' /\ outdated' = {} /\ lightState' = "RESTORED"
        /\ \A d \in Devices : devLightState'[d] = "RESTORED" /\ state'[d].origin = "user"
        /\ UNCHANGED <<bulb, sent>>
    BY <1>16 DEF Restart, Dark
  <2>2. \A d \in Devices \ mistaken' :
            /\ bulb[d].origin # "dimmed" /\ savedState'[d].origin # "dimmed"
            /\ \A st \in sent[d] : st.origin # "dimmed"
    BY <1>16 DEF Restart
  <2>3. \A st \in States : st.origin # "dimmed" => st.origin = "user"
    BY DEF States
  <2>4. savedState' \in [Devices -> States]
    BY <1>16 DEF Restart, TypeOK
  <2>5. \A d \in Devices \ mistaken' :
            /\ bulb[d].origin = "user" /\ savedState'[d].origin = "user"
            /\ \A st \in sent[d] : st.origin = "user"
    BY <2>2, <2>3, <2>4 DEF TypeOK
  <2> QED BY <2>1, <2>5
<1>17. CASE UNCHANGED vars
  BY <1>17 DEF vars, loop, flags, records, world, history, First
<1> QED
  BY <1>1, <1>2, <1>3, <1>4, <1>5, <1>6, <1>7, <1>9, <1>10, <1>11, <1>12, <1>13, <1>14,
     <1>15, <1>16, <1>17 DEF Next

LEMMA Marks == ASSUME Reliable PROVE Spec => []RInv
<1>1. ASSUME Init PROVE EpisodeInv /\ MarkInv
  <2>1. \A d \in Devices : savedState[d].origin = "user" /\ bulb[d].origin = "user"
    BY <1>1, MarkType DEF Init
  <2> QED BY <1>1, <2>1 DEF Init, EpisodeInv, MarkInv, Dimming, Dark
<1>2. Init => EpisodeInv /\ MarkInv
  BY <1>1
<1>3. RInv /\ [Next]_vars => EpisodeInv' /\ MarkInv'
  BY EpisodeStep, MarkStep DEF RInv
<1>4. TypeOK /\ LoopInv /\ EpisodeInv /\ MarkInv <=> RInv
  BY DEF RInv
<1> QED BY <1>2, <1>3, <1>4, TypeCorrect, PTL DEF Spec

\* On a reliable network, with however many hotkeys and restarts and however
\* seldom a report comes, there are exactly two ways to a dimmed state as the
\* one to restore: the device was dimmed when an earlier process ended, or it
\* is dimmed again while the last report is of the film before.
THEOREM NeverDimmedSaved == Spec => []NeverSavesDimmed
<1>1. RInv => NeverSavesDimmed
  BY DEF RInv, MarkInv, NeverSavesDimmed
<1>2. CASE Reliable
  BY <1>1, <1>2, Marks, PTL
<1>3. CASE ~Reliable
  <2>1. NeverSavesDimmed
    BY <1>3 DEF NeverSavesDimmed
  <2> QED BY <2>1, PTL
<1> QED BY <1>2, <1>3

\* On a reliable network, lights that count as restored carry no dimming: no
\* device is down, and no bulb is as the program has dimmed it, but for the
\* devices the program has mistaken in one of those two ways.
THEOREM RestoredIsRestored == Spec => []RestoredMeansRestored
<1>1. RInv => RestoredMeansRestored
  <2> SUFFICES ASSUME RInv, lightState = "RESTORED", holder # "down", NEW d \in Devices
               PROVE  devLightState[d] = "RESTORED" /\ (d \in mistaken \/ bulb[d].origin = "user")
    BY DEF RestoredMeansRestored
  <2>1. devLightState[d] = "RESTORED"
    BY DEF RInv, MarkInv
  <2>2. d \notin episode
    BY <2>1 DEF RInv, EpisodeInv
  <2> QED BY <2>1, <2>2 DEF RInv, MarkInv, Dimming
<1>2. CASE Reliable
  BY <1>1, <1>2, Marks, PTL
<1>3. CASE ~Reliable
  <2>1. RestoredMeansRestored
    BY <1>3 DEF RestoredMeansRestored
  <2> QED BY <2>1, PTL
<1> QED BY <1>2, <1>3
------------------------------------------------------------------------------
(***************************************************************************)
(* The abstract call.                                                      *)
(***************************************************************************)

\* What is shown of a state is one of Values, and hides no command.
LEMMA PlainType ==
    ASSUME NEW st \in States
    PROVE  /\ Plain(st) \in Values
           /\ Plain(st).brightness = st.brightness /\ Plain(st).power = st.power
           /\ BulbCall!Commands(Plain(st)) =
                  {[set |-> "power", to |-> Level(st)],
                   [set |-> "brightness", to |-> st.brightness]}
BY DEF Plain, States, Values, Level, BulbCall!Commands, BulbCall!Level

\* A step shows nothing if what it shows does not change, and an idle specimen
\* shows nothing if its records, its bulb and its packets do not change.
LEMMA ShowsNothing ==
    ASSUME UNCHANGED <<InCall, Asked, MaySave, Reported, ToRestore, Settled, Heard, Bulb,
                       CommandsLeft, ReportsLeft>>
    PROVE  UNCHANGED BulbCall!vars
BY DEF BulbCall!vars, BulbCall!record

LEMMA SameRecord ==
    /\ state'[Specimen] = state[Specimen] => Reported' = Reported
    /\ savedState'[Specimen] = savedState[Specimen] => ToRestore' = ToRestore
    /\ bulb'[Specimen] = bulb[Specimen] => Bulb' = Bulb
    /\ sent'[Specimen] = sent[Specimen] => CommandsLeft' = CommandsLeft
    /\ past'[Specimen] = past[Specimen] => ReportsLeft' = ReportsLeft
    /\ settled' = settled => Settled' = Settled
    /\ discovered' = discovered => Heard' = Heard
    /\ UNCHANGED <<InCall, target, save>> => UNCHANGED <<Asked, MaySave>>
BY DEF Reported, ToRestore, Bulb, CommandsLeft, ReportsLeft, Settled, Heard, Asked, MaySave

LEMMA IdleShowsNothing ==
    ASSUME ~InCall, ~InCall',
           UNCHANGED <<state, savedState, settled, discovered, bulb, sent, past>>
    PROVE  UNCHANGED BulbCall!vars
<1>1. UNCHANGED <<InCall, Asked, MaySave>>
  BY DEF InCall, Asked, MaySave
<1> QED BY <1>1, SameRecord, ShowsNothing

\* What a call sends to the specimen is what it may receive from then on.
LEMMA CommandsOfCall ==
    ASSUME NEW st \in States, sent'[Specimen] \subseteq sent[Specimen] \cup {st}
    PROVE  CommandsLeft' \subseteq CommandsLeft \cup BulbCall!Commands(Plain(st))
<1>1. SUFFICES ASSUME NEW m \in sent'[Specimen]
               PROVE  {[set |-> "power", to |-> Level(m)],
                       [set |-> "brightness", to |-> m.brightness]}
                          \subseteq CommandsLeft \cup BulbCall!Commands(Plain(st))
  BY DEF CommandsLeft
<1>2. CASE m \in sent[Specimen]
  BY <1>2 DEF CommandsLeft
<1>3. CASE m = st
  BY <1>3, PlainType
<1> QED BY <1>2, <1>3

\* A call sends the commands of its target.
LEMMA SendBegins ==
    ASSUME TypeOK, NEW st \in States, NEW saves \in BOOLEAN, Send(Specimen, st, saves),
           First(Specimen), ~calling, saves => discovered = Devices
    PROVE  BulbCall!Begins
<1>1. ~InCall /\ InCall' /\ target' = st /\ save' = saves
  BY DEF Send, InCall, First
<1>2. Asked' = Plain(st) /\ (MaySave' => Heard)
  BY <1>1, ControlAssumption DEF Asked, MaySave, Heard
<1>3. CommandsLeft' \subseteq CommandsLeft \cup BulbCall!Commands(Plain(st))
  <2>1. sent'[Specimen] = sent[Specimen] \cup {st}
    BY ControlAssumption DEF Send, TypeOK
  <2> QED BY <2>1, CommandsOfCall
<1>4. UNCHANGED <<Reported, ToRestore, Settled, Heard, Bulb, ReportsLeft>>
  BY SameRecord DEF Send, records
<1>5. Plain(st) \in Values
  BY PlainType
<1> QED BY <1>1, <1>2, <1>3, <1>4, <1>5 DEF BulbCall!Begins, BulbCall!Network, BulbCall!record

\* A call to another device is none to the specimen.
LEMMA SendToOther ==
    ASSUME TypeOK, NEW d \in Devices \ {Specimen}, NEW st, NEW saves, Send(d, st, saves),
           First(d), ~calling
    PROVE  UNCHANGED BulbCall!vars
<1>1. ~InCall /\ ~InCall'
  <2>1. ~First(Specimen)
    BY OneFirst, ControlAssumption
  <2> QED BY <2>1 DEF Send, InCall, First
<1>2. UNCHANGED <<InCall, Asked, MaySave>>
  BY <1>1 DEF InCall, Asked, MaySave
<1>3. sent'[Specimen] = sent[Specimen]
  BY ControlAssumption DEF Send, TypeOK
<1>4. UNCHANGED <<Reported, ToRestore, Settled, Heard, Bulb, CommandsLeft, ReportsLeft>>
  BY <1>3, SameRecord DEF Send, records
<1> QED BY <1>2, <1>4, ShowsNothing

\* What is remembered of the specimen is what has been remembered, and the bulb.
LEMMA Remembered ==
    ASSUME TypeOK, NEW d \in Devices, past' = Remember(d)
    PROVE  /\ d # Specimen => past'[Specimen] = past[Specimen]
           /\ ReportsLeft' \subseteq ReportsLeft \cup {Bulb'}
<1>1. d # Specimen => past'[Specimen] = past[Specimen]
  BY ControlAssumption DEF Remember, TypeOK
<1>2. past'[Specimen] \subseteq past[Specimen] \cup {bulb'[Specimen]}
  BY ControlAssumption DEF Remember, TypeOK
<1> QED BY <1>1, <1>2 DEF ReportsLeft, Bulb

\* Every step of the light control is a step of the abstract call to the
\* specimen or changes nothing that it shows.
LEMMA RefinementStep ==
    TypeOK /\ TypeOK' /\ LoopInv /\ [Next]_vars => [BulbCall!Next]_(BulbCall!vars)
<1> SUFFICES ASSUME TypeOK, TypeOK', LoopInv, [Next]_vars
             PROVE  BulbCall!Next \/ UNCHANGED BulbCall!vars
  OBVIOUS
<1> USE ControlAssumption DEF BulbCall!Next, BulbCall!record
<1>1. CASE Discover \/ DiscoverExpires \/ PollDown \/ PollRestore \/ LoopEnds
           \/ \E n \in Keys : Hotkey(n)
  <2>1. ~calling /\ ~calling'
    BY <1>1 DEF Discover, DiscoverExpires, PollDown, PollRestore, StartLoop, LoopEnds,
       Hotkey, loop, LoopInv
  <2>2. UNCHANGED <<state, savedState, settled, discovered, bulb, sent, past>>
    BY <1>1 DEF Discover, DiscoverExpires, PollDown, PollRestore, StartLoop, LoopEnds,
       Hotkey, records, world
  <2>3. ~InCall /\ ~InCall'
    BY <2>1 DEF InCall
  <2> QED BY <2>2, <2>3, IdleShowsNothing
<1>2. ASSUME NEW d \in Devices, DownSkips(d) PROVE UNCHANGED BulbCall!vars
  <2>1. ~InCall /\ ~InCall'
    BY <1>2 DEF DownSkips, InCall
  <2> QED BY <1>2, <2>1, IdleShowsNothing DEF DownSkips, records, world
<1>3. ASSUME UNCHANGED <<loop, state, savedState, settled, discovered, bulb, sent, past>>
      PROVE  UNCHANGED BulbCall!vars
  <2>1. UNCHANGED <<InCall, target, save>>
    BY <1>3 DEF loop, InCall, First
  <2> QED BY <1>3, <2>1, SameRecord, ShowsNothing
<1>4. CASE PlayerChanges
  BY <1>3, <1>4 DEF PlayerChanges, records
<1>5. ASSUME NEW d \in Devices, ReadLightStatus(d)
      PROVE  BulbCall!Next \/ UNCHANGED BulbCall!vars
  <2>1. /\ UNCHANGED <<calling, target, save, savedState, settled, bulb, sent, past>>
        /\ state'[d] \in past[d] /\ discovered' = discovered \cup {d}
        /\ \A e \in Devices \ {d} : state'[e] = state[e]
    BY <1>5 DEF ReadLightStatus, world, TypeOK
  <2>2. InCall' = InCall
    BY <1>5 DEF ReadLightStatus, InCall, First, LoopInv
  <2>3. UNCHANGED <<InCall, Asked, MaySave, ToRestore, Settled, Bulb, CommandsLeft, ReportsLeft>>
    BY <2>1, <2>2, SameRecord
  <2>4. CASE d = Specimen
    <3>1. Reported' \in ReportsLeft /\ Heard'
      BY <2>1, <2>4 DEF Reported, ReportsLeft, Heard
    <3> QED BY <2>3, <3>1 DEF BulbCall!Reports, BulbCall!Network
  <2>5. CASE d # Specimen
    <3>1. Reported' = Reported /\ Heard' = Heard
      BY <2>1, <2>5 DEF Reported, Heard
    <3> QED BY <2>3, <3>1, ShowsNothing
  <2> QED BY <2>4, <2>5
<1>6. ASSUME NEW d \in Devices, NEW st \in States, NEW saves \in BOOLEAN, Send(d, st, saves),
             First(d), ~calling, saves => discovered = Devices
      PROVE  BulbCall!Next \/ UNCHANGED BulbCall!vars
  BY <1>6, SendBegins, SendToOther
<1>7. ASSUME NEW d \in Devices, DownSends(d) PROVE BulbCall!Next \/ UNCHANGED BulbCall!vars
  <2>1. Mark(DimState(d), "dimmed") \in States
    BY <1>7, DimStateType DEF DownSends, LoopInv
  <2>2. DownSaves(d) \in BOOLEAN
    BY DEF DownSaves
  <2>3. discovered = Devices
    BY <1>7 DEF DownSends, LoopInv, DiscoveryDone
  <2> QED BY <1>6, <1>7, <2>1, <2>2, <2>3 DEF DownSends
<1>8. ASSUME NEW d \in Devices, RestoreSends(d) \/ StartSends(d)
      PROVE  BulbCall!Next \/ UNCHANGED BulbCall!vars
  <2>1. RestoredState(d) \in States
    BY DEF RestoredState, TypeOK
  <2> QED BY <1>6, <1>8, <2>1, MarkType DEF RestoreSends, StartSends
<1>9. ASSUME NEW d \in Devices, NEW ok \in BOOLEAN, CallReturns(d, ok)
      PROVE  BulbCall!Next \/ UNCHANGED BulbCall!vars
  <2>1. /\ calling /\ First(d) /\ ~calling'
        /\ UNCHANGED <<state, discovered, bulb, sent, past>>
        /\ settled' = settled \ {d}
        /\ \/ savedState' = savedState
           \/ save /\ d \in settled /\ savedState' = [savedState EXCEPT ![d] = state[d]]
    BY <1>9 DEF CallReturns, Saves, world
  <2>2. UNCHANGED <<Reported, Heard, Bulb, CommandsLeft, ReportsLeft>>
    BY <2>1, SameRecord
  <2>3. CASE d = Specimen
    <3>1. InCall /\ ~InCall' /\ ~Settled'
      BY <2>1, <2>3 DEF InCall, Settled
    <3>2. ToRestore' \in {ToRestore} \cup (IF MaySave /\ Settled THEN {Reported} ELSE {})
      BY <2>1, <2>3, <3>1 DEF ToRestore, MaySave, Settled, Reported, TypeOK
    <3> QED BY <2>2, <3>1, <3>2 DEF BulbCall!Returns, BulbCall!Network
  <2>4. CASE d # Specimen
    <3>1. ~InCall /\ ~InCall'
      BY <2>1, <2>4, OneFirst DEF InCall
    <3>2. UNCHANGED <<InCall, Asked, MaySave>>
      BY <3>1 DEF InCall, Asked, MaySave
    <3>3. UNCHANGED <<ToRestore, Settled>>
      BY <2>1, <2>4 DEF ToRestore, Settled, TypeOK
    <3> QED BY <2>2, <3>2, <3>3, ShowsNothing
  <2> QED BY <2>3, <2>4
<1>10. ASSUME NEW d \in Devices, BulbExecutes(d)
       PROVE  BulbCall!Next \/ UNCHANGED BulbCall!vars
  <2>1. UNCHANGED <<loop, state, savedState, settled, discovered>> /\ past' = Remember(d)
    BY <1>10 DEF BulbExecutes, records
  <2>2. UNCHANGED <<InCall, target, save>>
    BY <2>1 DEF loop, InCall, First
  <2>3. UNCHANGED <<InCall, Asked, MaySave, Reported, ToRestore, Settled, Heard>>
    BY <2>1, <2>2, SameRecord
  <2>4. CASE d = Specimen
    <3>1. PICK st \in sent[Specimen] :
              /\ bulb'[Specimen].brightness \in {bulb[Specimen].brightness, st.brightness}
              /\ bulb'[Specimen].power \in {bulb[Specimen].power, Level(st)}
              /\ sent'[Specimen] \subseteq sent[Specimen]
      BY <1>10, <2>4 DEF BulbExecutes, TypeOK
    <3>2. /\ [set |-> "power", to |-> Level(st)] \in CommandsLeft
          /\ [set |-> "brightness", to |-> st.brightness] \in CommandsLeft
      BY DEF CommandsLeft
    <3>3. Level(st) \in BulbCall!Brings("power")
          /\ st.brightness \in BulbCall!Brings("brightness")
      BY <3>2 DEF BulbCall!Brings
    <3>4. /\ Bulb' \in Values
          /\ Bulb'.brightness = bulb'[Specimen].brightness
          /\ Bulb'.power = bulb'[Specimen].power
          /\ Bulb.brightness = bulb[Specimen].brightness
          /\ Bulb.power = bulb[Specimen].power
      BY PlainType DEF Bulb, TypeOK
    <3>5. BulbCall!Network({})
      <4>1. CommandsLeft' \subseteq CommandsLeft
        BY <3>1 DEF CommandsLeft
      <4> QED BY <2>1, <4>1, Remembered DEF BulbCall!Network
    <3> QED BY <2>3, <3>1, <3>3, <3>4, <3>5 DEF BulbCall!Executes
  <2>5. CASE d # Specimen
    <3>1. bulb'[Specimen] = bulb[Specimen] /\ sent'[Specimen] = sent[Specimen]
      BY <1>10, <2>5 DEF BulbExecutes, TypeOK
    <3> QED BY <2>1, <2>3, <2>5, <3>1, Remembered, SameRecord, ShowsNothing
  <2> QED BY <2>4, <2>5
<1>11. ASSUME NEW d \in Devices, NEW v \in UserStates[d], UserSets(d, v)
       PROVE  BulbCall!Next \/ UNCHANGED BulbCall!vars
  <2>1. /\ UNCHANGED <<loop, state, savedState, settled, discovered, sent>>
        /\ past' = Remember(d)
    BY <1>11 DEF UserSets, records
  <2>2. UNCHANGED <<InCall, target, save>>
    BY <2>1 DEF loop, InCall, First
  <2>3. UNCHANGED <<InCall, Asked, MaySave, Reported, ToRestore, Settled, Heard, CommandsLeft>>
    BY <2>1, <2>2, SameRecord
  <2>4. CASE d = Specimen
    <3>1. bulb'[Specimen] = Mark(v, "user") /\ v \in Values
      BY <1>11, <2>4 DEF UserSets, TypeOK
    <3>2. Bulb' = v
      BY <3>1 DEF Bulb, Plain, Mark, Values
    <3>3. BulbCall!Network({})
      BY <2>1, <2>3, Remembered DEF BulbCall!Network
    <3> QED BY <1>11, <2>3, <2>4, <3>2, <3>3 DEF BulbCall!UserSets
  <2>5. CASE d # Specimen
    <3>1. bulb'[Specimen] = bulb[Specimen]
      BY <1>11, <2>5 DEF UserSets, TypeOK
    <3> QED BY <2>1, <2>3, <2>5, <3>1, Remembered, SameRecord, ShowsNothing
  <2> QED BY <2>4, <2>5
<1>12. ASSUME NEW d \in Devices, TimePasses(d) PROVE BulbCall!Next \/ UNCHANGED BulbCall!vars
  <2>1. /\ UNCHANGED <<loop, state, savedState, discovered, bulb, sent, past>>
        /\ settled' = settled \cup {d}
    BY <1>12 DEF TimePasses, world
  <2>2. UNCHANGED <<InCall, target, save>>
    BY <2>1 DEF loop, InCall, First
  <2>3. UNCHANGED <<InCall, Asked, MaySave, Reported, ToRestore, Heard, Bulb, CommandsLeft,
                    ReportsLeft>>
    BY <2>1, <2>2, SameRecord
  <2>4. CASE d = Specimen
    <3>1. Settled'
      BY <2>1, <2>4 DEF Settled
    <3> QED BY <2>3, <3>1 DEF BulbCall!TimePasses, BulbCall!Network
  <2>5. CASE d # Specimen
    <3>1. Settled' = Settled
      BY <2>1, <2>5 DEF Settled
    <3> QED BY <2>3, <3>1, ShowsNothing
  <2> QED BY <2>4, <2>5
<1>13. CASE Restart
  <2>1. ~InCall' /\ Settled' /\ ~Heard'
    BY <1>13 DEF Restart, InCall, Settled, Heard
  <2>2. Reported' = Plain(Dark) /\ UNCHANGED <<Bulb, CommandsLeft, ReportsLeft>>
    BY <1>13, SameRecord DEF Restart, Reported
  <2>3. ToRestore' \in Values
    BY PlainType DEF ToRestore, TypeOK
  <2> QED BY <2>1, <2>2, <2>3 DEF BulbCall!Restarts, BulbCall!Network
<1>14. CASE UNCHANGED vars
  BY <1>3, <1>14 DEF vars, records, world
<1> QED
  BY <1>1, <1>2, <1>4, <1>5, <1>7, <1>8, <1>9, <1>10, <1>11, <1>12, <1>13, <1>14 DEF Next

\* For every device the three steps of a call here, and all that happens
\* between them, are steps of the abstract call, which SetColorAndPower with
\* its packets implements as well.
THEOREM Implements == Spec => ImplementsBulbCall
<1>1. Init => BulbCall!Init
  <2> SUFFICES ASSUME Init PROVE BulbCall!Init
    OBVIOUS
  <2>1. savedState[Specimen] \in States
    BY MarkType, ControlAssumption DEF Init
  <2>2. ~InCall /\ ~MaySave /\ Settled /\ ~Heard /\ Reported = Plain(Dark)
    BY ControlAssumption DEF Init, InCall, MaySave, Settled, Heard, Reported
  <2>3. ToRestore \in Values
    BY <2>1, PlainType DEF ToRestore
  <2>4. CommandsLeft = {} /\ ReportsLeft \subseteq {Bulb}
    BY ControlAssumption DEF Init, CommandsLeft, ReportsLeft, Bulb
  <2> QED BY <2>2, <2>3, <2>4 DEF BulbCall!Init
<1>2. TypeOK /\ TypeOK' /\ LoopInv /\ [Next]_vars => [BulbCall!Next]_(BulbCall!vars)
  BY RefinementStep
<1> QED BY <1>1, <1>2, TypeCorrect, PTL DEF Spec, ImplementsBulbCall, BulbCall!Spec
------------------------------------------------------------------------------
(***************************************************************************)
(* The abstract lamp.                                                      *)
(***************************************************************************)

\* On a reliable network the only report of a bulb is the true one, and no
\* device is heard, dimmed or keyed while main switches the lights on.  The
\* second hotkey since a call leaves its trace in prevLightState.
LampInv ==
    /\ \A d \in Devices : past[d] = {bulb[d]}
    /\ \A d \in Devices : keys[d] = 2 => prevLightState[d] = "CONFIG_CHANGED"
    /\ holder = "start" =>
          discovered = {} /\ episode = {} /\ \A d \in Devices : keys[d] = 0

\* Every step of a reliable network keeps it.
LEMMA LampInvStep ==
    ASSUME Reliable
    PROVE  TypeOK /\ LoopInv /\ KeyInv /\ LampInv /\ [Next]_vars => LampInv'
<1> SUFFICES ASSUME TypeOK, LoopInv, KeyInv, LampInv, [Next]_vars PROVE LampInv'
  OBVIOUS
<1> USE DEF LampInv
<1>1. ASSUME UNCHANGED <<past, bulb, keys, prevLightState, discovered, episode>>,
             holder' = "start" => holder = "start"
      PROVE  LampInv'
  BY <1>1
<1>2. CASE Discover \/ DiscoverExpires \/ PollDown \/ PollRestore \/ LoopEnds
  BY <1>1, <1>2 DEF Discover, DiscoverExpires, PollDown, PollRestore, StartLoop, LoopEnds,
     flags, records, world, history
<1>3. ASSUME NEW n \in Keys, Hotkey(n) PROVE LampInv'
  <2>1. \A d \in Devices :
            /\ prevLightState'[d] = devLightState[d]
            /\ keys'[d] = IF keys[d] = 0 THEN 1 ELSE 2
    BY <1>3 DEF Hotkey, TypeOK
  <2>2. holder' # "start" /\ UNCHANGED <<past, bulb>>
    BY <1>3 DEF Hotkey, loop, world
  <2> QED BY <2>1, <2>2 DEF KeyInv
<1>4. CASE PlayerChanges
  BY <1>1, <1>4 DEF PlayerChanges, loop, flags, records, history
<1>5. ASSUME NEW d \in Devices, ReadLightStatus(d) PROVE LampInv'
  BY <1>5 DEF ReadLightStatus, flags, world
<1>6. ASSUME NEW d \in Devices, DownSkips(d) PROVE LampInv'
  BY <1>1, <1>6 DEF DownSkips, flags, records, world, history
<1>7. ASSUME NEW d \in Devices, DownSends(d) \/ RestoreSends(d) \/ StartSends(d) PROVE LampInv'
  BY <1>1, <1>7 DEF DownSends, RestoreSends, StartSends, Send, flags, records, history
<1>8. ASSUME NEW d \in Devices, NEW ok \in BOOLEAN, CallReturns(d, ok) PROVE LampInv'
  <2>1. UNCHANGED <<past, bulb, holder, discovered>> /\ (ok \/ holder = "start")
    BY <1>8 DEF CallReturns, world
  <2>2. CASE holder = "start"
    BY <1>1, <1>8, <2>1, <2>2, CallFlags
  <2>3. CASE holder # "start"
    <3>1. \A e \in Devices : keys'[e] = 2 => keys[e] = 2 /\ prevLightState'[e] = prevLightState[e]
      BY <1>8, <2>1, <2>3, CallFlags DEF Returned, TypeOK
    <3> QED BY <2>1, <2>3, <3>1
  <2> QED BY <2>2, <2>3
<1>9. ASSUME NEW d \in Devices, past' = Remember(d), bulb' \in [Devices -> States],
             \A e \in Devices \ {d} : bulb'[e] = bulb[e],
             UNCHANGED <<keys, prevLightState, discovered, episode, holder>>
      PROVE  LampInv'
  BY <1>9 DEF Remember, TypeOK
<1>10. ASSUME NEW d \in Devices, BulbExecutes(d) PROVE LampInv'
  <2>1. bulb' \in [Devices -> States] /\ \A e \in Devices \ {d} : bulb'[e] = bulb[e]
    BY <1>10, ControlAssumption DEF BulbExecutes, TypeOK, States, Level
  <2> QED BY <1>9, <1>10, <2>1 DEF BulbExecutes, loop, flags, records, history
<1>11. ASSUME NEW d \in Devices, NEW v \in UserStates[d], UserSets(d, v) PROVE LampInv'
  <2>1. bulb' \in [Devices -> States] /\ \A e \in Devices \ {d} : bulb'[e] = bulb[e]
    BY <1>11, MarkType DEF UserSets, TypeOK
  <2> QED BY <1>9, <1>11, <2>1 DEF UserSets, loop, flags, records, history
<1>12. ASSUME NEW d \in Devices, TimePasses(d) PROVE LampInv'
  BY <1>1, <1>12 DEF TimePasses, loop, flags, world, history
<1>13. CASE Restart
  BY <1>13 DEF Restart
<1>14. CASE UNCHANGED vars
  BY <1>1, <1>14 DEF vars, loop, flags, records, world, history
<1> QED
  BY <1>2, <1>3, <1>4, <1>5, <1>6, <1>7, <1>8, <1>10, <1>11, <1>12, <1>13, <1>14 DEF Next

\* What the specimen shows to the abstract lamp is made of these.
Kept(dev) ==
    /\ UNCHANGED <<state[dev], savedState[dev], cache[dev], keys[dev], discovered>>
    /\ dev \in settled' <=> dev \in settled
    /\ dev \in episode' <=> dev \in episode

LEMMA KeptShows ==
    /\ Kept(Specimen) => UNCHANGED <<Reported, Heard, ToRestore, InCache, Settled, IsDown,
                                     KeysSince>>
    /\ UNCHANGED bulb[Specimen] => UNCHANGED Bulb
    /\ UNCHANGED sent[Specimen] => UNCHANGED Orders
    /\ ~InCall /\ ~InCall' => Doing = "nothing" /\ Doing' = "nothing"
    /\ UNCHANGED <<InCall, holder>> => UNCHANGED Doing
BY DEF Kept, Reported, Heard, ToRestore, InCache, Settled, IsDown, KeysSince, Bulb, Orders,
   Doing

LEMMA LampRests ==
    ASSUME Kept(Specimen), UNCHANGED <<bulb[Specimen], sent[Specimen], Doing>>
    PROVE  UNCHANGED Lamp!vars
BY KeptShows DEF Lamp!vars, Lamp!memory

\* A call to the specimen begins with an order for its target.
LEMMA SendOrders ==
    ASSUME Reliable, TypeOK, NEW st \in States, NEW saves \in BOOLEAN,
           Send(Specimen, st, saves), First(Specimen), ~calling
    PROVE  /\ Doing = "nothing" /\ Orders = {} /\ Orders' = {Plain(st)}
           /\ InCall' /\ holder' = holder
           /\ UNCHANGED <<Bulb, Reported, Heard, ToRestore, InCache, Settled, IsDown, KeysSince>>
<1>1. ~InCall /\ InCall' /\ holder' = holder
  BY DEF Send, InCall, First
<1>2. sent[Specimen] = {} /\ sent'[Specimen] = {st}
  BY ControlAssumption DEF Send, TypeOK
<1>3. Orders = {} /\ Orders' = {Plain(st)}
  BY <1>2 DEF Orders
<1>4. Kept(Specimen) /\ UNCHANGED bulb[Specimen]
  BY DEF Send, Kept, records, history
<1> QED BY <1>1, <1>3, <1>4, KeptShows DEF Doing

\* A call to another device changes nothing of the specimen.
LEMMA SendElsewhere ==
    ASSUME TypeOK, NEW d \in Devices \ {Specimen}, NEW st, NEW saves, Send(d, st, saves),
           First(d), ~calling
    PROVE  UNCHANGED Lamp!vars
<1>1. ~InCall /\ ~InCall'
  <2>1. ~First(Specimen)
    BY OneFirst, ControlAssumption
  <2> QED BY <2>1 DEF Send, InCall, First
<1>2. Kept(Specimen) /\ UNCHANGED <<bulb[Specimen], sent[Specimen]>>
  BY ControlAssumption DEF Send, Kept, records, TypeOK, history
<1> QED BY <1>1, <1>2, KeptShows, LampRests

\* LightsDown asks for the configuration, but for no more brightness than it
\* has read of the state it compares with.
LEMMA DimOrder ==
    ASSUME TypeOK, KeyInv, activeConfigNum # 0, Dimmable(Specimen)
    PROVE  \E dim \in {Configs[n] : n \in DOMAIN Configs} :
              /\ Lamp!Reference.power # 0 \/ dim.power # 0
              /\ dim.power <= Lamp!Reference.power
              /\ Plain(Mark(DimState(Specimen), "dimmed")) =
                    [dim EXCEPT !.brightness =
                        Lamp!Darker(@, Lamp!Reference.brightness)]
<1> DEFINE dim == Configs[activeConfigNum]
           compare == CompareState(Specimen)
<1>1. dim \in {Configs[n] : n \in DOMAIN Configs} /\ dim \in Values
  BY ControlAssumption DEF TypeOK
<1>2. compare \in States /\ Lamp!Reference = Plain(compare)
  <2>1. keys[Specimen] = 0 <=> devLightState[Specimen] # "CONFIG_CHANGED"
    BY ControlAssumption DEF KeyInv
  <2> QED BY <2>1, ControlAssumption DEF CompareState, TypeOK, Lamp!Reference, KeysSince,
            Reported, ToRestore
<1>3. Lamp!Reference.power = compare.power /\ Lamp!Reference.brightness = compare.brightness
  BY <1>2, PlainType
<1>4. dim.power <= compare.power /\ (compare.power # 0 \/ dim.power # 0)
  BY <1>1, <1>2, ControlAssumption DEF Dimmable, Values, States
<1>5. compare.brightness \in Nat /\ dim.brightness \in Nat
  BY <1>1, <1>2, ControlAssumption DEF States, Values
<1>6. Lamp!Darker(dim.brightness, compare.brightness) =
          IF compare.brightness < dim.brightness THEN compare.brightness ELSE dim.brightness
  BY <1>5 DEF Lamp!Darker
<1>7. Plain(Mark(DimState(Specimen), "dimmed")) =
          [dim EXCEPT !.brightness = Lamp!Darker(@, compare.brightness)]
  BY <1>1, <1>6 DEF Plain, Mark, DimState, Values
<1> QED BY <1>1, <1>3, <1>4, <1>7

\* A call to the specimen returns as the abstract lamp has it: LightsDown saves
\* if the device is not dimmed, has settled and has had one hotkey at most.
LEMMA ReturnShows ==
    ASSUME Reliable, TypeOK, LoopInv, EpisodeInv, KeyInv, LampInv,
           NEW ok \in BOOLEAN, CallReturns(Specimen, ok)
    PROVE  Lamp!Next
<1> USE ControlAssumption DEF Lamp!memory
<1>1. /\ InCall /\ ~InCall' /\ ok /\ sent[Specimen] = {}
      /\ UNCHANGED <<state, discovered, bulb, sent, cache>>
      /\ settled' = settled \ {Specimen}
      /\ savedState' = IF Saves(Specimen) THEN [savedState EXCEPT ![Specimen] = state[Specimen]]
                       ELSE savedState
      /\ holder \in {"start", "down", "restore"}
  BY DEF CallReturns, InCall, world, LoopInv
<1>2. /\ Orders = {} /\ Doing' = "nothing" /\ ~Settled'
      /\ UNCHANGED <<Orders, Bulb, Reported, Heard, InCache>>
  BY <1>1 DEF Orders, Doing, Settled, Bulb, Reported, Heard, InCache
<1>3. CASE holder = "down"
  <2>1. keys'[Specimen] = 0 /\ Specimen \in episode'
    BY <1>1, <1>3, CallFlags DEF TypeOK
  <2>2. save <=> DownSaves(Specimen)
    BY <1>1, <1>3 DEF KeyInv, InCall, First
  <2>3. save => Specimen \notin episode
    BY <1>1 DEF EpisodeInv, InCall, First
  <2>4. Saves(Specimen) <=> ~IsDown /\ Settled /\ KeysSince < 2
    <3>1. keys[Specimen] \in {0, 1, 2}
      BY DEF TypeOK
    <3>2. CASE keys[Specimen] = 2
      <4>1. ~DownSaves(Specimen)
        BY <3>2 DEF KeyInv, LampInv, DownSaves
      <4> QED BY <2>2, <3>2, <4>1 DEF Saves, KeysSince
    <3>3. CASE keys[Specimen] \in {0, 1} /\ Specimen \notin episode
      <4>1. DownSaves(Specimen)
        BY <3>3 DEF KeyInv, DownSaves
      <4> QED BY <2>2, <3>3, <4>1 DEF Saves, KeysSince, IsDown, Settled
    <3>4. CASE Specimen \in episode
      BY <2>3, <3>4 DEF Saves, IsDown
    <3> QED BY <3>1, <3>2, <3>3, <3>4
  <2>5. ToRestore' = IF ~IsDown /\ Settled /\ KeysSince < 2 THEN Reported ELSE ToRestore
    BY <1>1, <2>4 DEF ToRestore, Reported, TypeOK
  <2>6. Doing = "dim" /\ KeysSince' = 0 /\ IsDown'
    BY <1>1, <1>3, <2>1 DEF Doing, KeysSince, IsDown
  <2> QED BY <1>2, <2>5, <2>6 DEF Lamp!Next, Lamp!IsDimmed, Lamp!Returns
<1>4. ASSUME holder # "down"
      PROVE  ToRestore' = ToRestore
  BY <1>1, <1>4 DEF LoopInv, InCall, Saves, ToRestore
<1>5. CASE holder = "restore"
  <2>1. keys'[Specimen] = 0 /\ Specimen \notin episode'
    BY <1>1, <1>5, CallFlags DEF TypeOK
  <2>2. Doing = "restore" /\ KeysSince' = 0 /\ ~IsDown'
    BY <1>1, <1>5, <2>1 DEF Doing, KeysSince, IsDown
  <2> QED BY <1>2, <1>4, <1>5, <2>2 DEF Lamp!Next, Lamp!IsRestored, Lamp!Returns
<1>6. CASE holder = "start"
  <2>1. UNCHANGED <<keys, episode>>
    BY <1>6, CallFlags
  <2>2. Doing = "welcome" /\ UNCHANGED <<KeysSince, IsDown>>
    BY <1>1, <1>6, <2>1 DEF Doing, KeysSince, IsDown
  <2> QED BY <1>2, <1>4, <1>6, <2>2 DEF Lamp!Next, Lamp!IsWelcome, Lamp!Returns
<1> QED BY <1>1, <1>3, <1>5, <1>6

\* Every step of the light control is a step of the abstract lamp or changes
\* nothing that the specimen shows of it.
LEMMA LampStep ==
    ASSUME Reliable
    PROVE  TypeOK /\ LoopInv /\ EpisodeInv /\ KeyInv /\ LampInv /\ [Next]_vars
               => [Lamp!Next]_(Lamp!vars)
<1> SUFFICES ASSUME TypeOK, LoopInv, EpisodeInv, KeyInv, LampInv, [Next]_vars
             PROVE  Lamp!Next \/ UNCHANGED Lamp!vars
  OBVIOUS
<1> USE ControlAssumption DEF Lamp!Next, Lamp!memory
<1>1. CASE Discover \/ DiscoverExpires \/ PollDown \/ PollRestore \/ LoopEnds
  <2>1. ~InCall /\ ~InCall'
    BY <1>1 DEF Discover, DiscoverExpires, PollDown, PollRestore, StartLoop, LoopEnds, LoopInv,
       InCall
  <2>2. Kept(Specimen) /\ UNCHANGED <<bulb[Specimen], sent[Specimen]>>
    BY <1>1 DEF Discover, DiscoverExpires, PollDown, PollRestore, StartLoop, LoopEnds, Kept,
       records, world, history
  <2> QED BY <2>1, <2>2, KeptShows, LampRests
<1>2. ASSUME NEW n \in Keys, Hotkey(n) PROVE Lamp!Next
  <2>1. ~InCall /\ ~InCall'
    BY <1>2 DEF Hotkey, loop, LoopInv, InCall
  <2>2. /\ KeysSince' = IF KeysSince = 0 THEN 1 ELSE 2
        /\ UNCHANGED <<Bulb, Orders, Reported, Heard, ToRestore, InCache, Settled, IsDown>>
    BY <1>2 DEF Hotkey, records, world, KeysSince, Bulb, Orders, Reported, Heard, ToRestore,
       InCache, Settled, IsDown
  <2>3. Lamp!Hotkey
    BY <2>1, <2>2, KeptShows DEF Lamp!Hotkey
  <2> QED BY <2>3
<1>3. CASE PlayerChanges
  BY <1>3, LampRests DEF PlayerChanges, loop, records, history, Kept, Doing, InCall, First
<1>4. ASSUME NEW d \in Devices, DownSkips(d) PROVE UNCHANGED Lamp!vars
  <2>1. ~InCall /\ ~InCall'
    BY <1>4 DEF DownSkips, InCall
  <2>2. Kept(Specimen) /\ UNCHANGED <<bulb[Specimen], sent[Specimen]>>
    BY <1>4 DEF DownSkips, Kept, records, world, history
  <2> QED BY <2>1, <2>2, KeptShows, LampRests
<1>5. ASSUME NEW d \in Devices, ReadLightStatus(d)
      PROVE  Lamp!Next \/ UNCHANGED Lamp!vars
  <2>1. /\ holder = "discovery" /\ ~InCall /\ ~InCall'
        /\ state' = [state EXCEPT ![d] = bulb[d]] /\ discovered' = discovered \cup {d}
        /\ UNCHANGED <<savedState, settled, bulb, sent, cache, episode, keys>>
    BY <1>5 DEF ReadLightStatus, LoopInv, InCall, world
  <2>2. CASE d = Specimen
    <3>1. /\ Reported' = Bulb /\ Heard'
          /\ UNCHANGED <<Bulb, Orders, ToRestore, InCache, Settled, IsDown, KeysSince>>
      BY <2>1, <2>2 DEF Reported, Heard, Bulb, Orders, ToRestore, InCache, Settled, IsDown,
         KeysSince, TypeOK
    <3>2. Lamp!Reports
      BY <2>1, <3>1, KeptShows DEF Lamp!Reports
    <3> QED BY <3>2
  <2>3. CASE d # Specimen
    <3>1. UNCHANGED <<Bulb, Orders, Reported, Heard, ToRestore, InCache, Settled, IsDown,
                      KeysSince>>
      BY <2>1, <2>3 DEF Reported, Heard, Bulb, Orders, ToRestore, InCache, Settled, IsDown,
         KeysSince, TypeOK
    <3> QED BY <2>1, <3>1, KeptShows DEF Lamp!vars
  <2> QED BY <2>2, <2>3
<1>6. ASSUME DownSends(Specimen) PROVE Lamp!Next
  <2>1. Mark(DimState(Specimen), "dimmed") \in States /\ DownSaves(Specimen) \in BOOLEAN
    BY <1>6, DimStateType DEF DownSends, LoopInv, DownSaves
  <2>2. /\ holder = "down" /\ activeConfigNum # 0 /\ Dimmable(Specimen) /\ Heard
        /\ devLightState[Specimen] # "DOWN"
    BY <1>6 DEF DownSends, LoopInv, DiscoveryDone, Heard
  <2>3. IsDown => KeysSince > 0
    BY <2>2 DEF IsDown, KeysSince, EpisodeInv, KeyInv, TypeOK
  <2>4. PICK dim \in {Configs[n] : n \in DOMAIN Configs} :
            /\ Lamp!Reference.power # 0 \/ dim.power # 0
            /\ dim.power <= Lamp!Reference.power
            /\ Plain(Mark(DimState(Specimen), "dimmed")) =
                  [dim EXCEPT !.brightness =
                      Lamp!Darker(@, Lamp!Reference.brightness)]
    BY <2>2, DimOrder
  <2>5. Lamp!Begins("dim", Plain(Mark(DimState(Specimen), "dimmed")))
    BY <1>6, <2>1, SendOrders DEF DownSends, Doing, Lamp!Begins
  <2>6. Lamp!BeginsToDim
    BY <2>2, <2>3, <2>4, <2>5 DEF Lamp!BeginsToDim
  <2> QED BY <2>6
<1>7. ASSUME RestoreSends(Specimen) PROVE Lamp!Next
  <2>1. savedState[Specimen] \in States /\ RestoredState(Specimen) = savedState[Specimen]
    BY DEF TypeOK, RestoredState
  <2>2. Lamp!BeginsToRestore
    BY <1>7, <2>1, SendOrders DEF RestoreSends, Doing, ToRestore, Lamp!Begins,
       Lamp!BeginsToRestore
  <2> QED BY <2>2
<1>8. ASSUME StartSends(Specimen) PROVE Lamp!Next
  <2>1. Mark(StartState, "user") \in States /\ Plain(Mark(StartState, "user")) = StartState
    BY MarkType DEF Mark, Plain, Values
  <2>2. ~Heard /\ ~IsDown /\ KeysSince = 0
    BY <1>8 DEF StartSends, LampInv, Heard, IsDown, KeysSince
  <2>3. Lamp!BeginsToWelcome
    BY <1>8, <2>1, <2>2, SendOrders DEF StartSends, Doing, Lamp!Begins, Lamp!BeginsToWelcome
  <2> QED BY <2>3
<1>9. ASSUME NEW d \in Devices \ {Specimen}, DownSends(d) \/ RestoreSends(d) \/ StartSends(d)
      PROVE  UNCHANGED Lamp!vars
  BY <1>9, SendElsewhere DEF DownSends, RestoreSends, StartSends
<1>10. ASSUME NEW d \in Devices, NEW ok \in BOOLEAN, CallReturns(d, ok)
       PROVE  Lamp!Next \/ UNCHANGED Lamp!vars
  <2>1. CASE d = Specimen
    BY <1>10, <2>1, ReturnShows
  <2>2. CASE d # Specimen
    <3>1. ~InCall /\ ~InCall'
      BY <1>10, <2>2, OneFirst DEF CallReturns, InCall
    <3>2. UNCHANGED keys[Specimen] /\ (Specimen \in episode' <=> Specimen \in episode)
      BY <1>10, <2>2, CallFlags DEF TypeOK
    <3>3. Kept(Specimen) /\ UNCHANGED <<bulb[Specimen], sent[Specimen]>>
      BY <1>10, <2>2, <3>2 DEF CallReturns, Kept, world, TypeOK
    <3> QED BY <3>1, <3>3, KeptShows, LampRests
  <2> QED BY <2>1, <2>2
<1>11. ASSUME NEW d \in Devices, BulbExecutes(d)
       PROVE  Lamp!Next \/ UNCHANGED Lamp!vars
  <2>1. Kept(Specimen) /\ UNCHANGED Doing
    BY <1>11 DEF BulbExecutes, Kept, loop, records, history, Doing, InCall, First
  <2>2. CASE d = Specimen
    <3>1. PICK st \in sent[Specimen] :
              /\ bulb'[Specimen].brightness = st.brightness
              /\ bulb'[Specimen].power = Level(st)
              /\ sent'[Specimen] = {}
      BY <1>11, <2>2 DEF BulbExecutes, TypeOK
    <3>2. Plain(st) \in Orders /\ Orders' = {}
      BY <3>1 DEF Orders
    <3>3. Bulb' = [brightness |-> Plain(st).brightness, power |-> Lamp!Level(Plain(st))]
      BY <3>1 DEF Bulb, Plain, Level, Lamp!Level
    <3>4. Lamp!Obeys
      BY <2>1, <3>2, <3>3, KeptShows DEF Lamp!Obeys
    <3> QED BY <3>4
  <2>3. CASE d # Specimen
    <3>1. UNCHANGED <<bulb[Specimen], sent[Specimen]>>
      BY <1>11, <2>3 DEF BulbExecutes, TypeOK
    <3> QED BY <2>1, <3>1, LampRests
  <2> QED BY <2>2, <2>3
<1>12. ASSUME NEW d \in Devices, NEW v \in UserStates[d], UserSets(d, v)
       PROVE  Lamp!Next \/ UNCHANGED Lamp!vars
  <2>1. Kept(Specimen) /\ UNCHANGED <<Doing, sent[Specimen]>>
    BY <1>12 DEF UserSets, Kept, loop, records, history, Doing, InCall, First
  <2>2. CASE d = Specimen
    <3>1. bulb'[Specimen] = Mark(v, "user") /\ v \in Values
      BY <1>12, <2>2 DEF UserSets, TypeOK
    <3>2. Bulb' = v
      BY <3>1 DEF Bulb, Plain, Mark, Values
    <3>3. Lamp!UserSets
      BY <1>12, <2>1, <2>2, <3>2, KeptShows DEF Lamp!UserSets
    <3> QED BY <3>3
  <2>3. CASE d # Specimen
    <3>1. UNCHANGED bulb[Specimen]
      BY <1>12, <2>3 DEF UserSets, TypeOK
    <3> QED BY <2>1, <3>1, LampRests
  <2> QED BY <2>2, <2>3
<1>13. ASSUME NEW d \in Devices, TimePasses(d) PROVE Lamp!Next \/ UNCHANGED Lamp!vars
  <2>1. /\ UNCHANGED <<loop, state, savedState, discovered, bulb, sent, cache, episode, keys>>
        /\ settled' = settled \cup {d}
    BY <1>13 DEF TimePasses, world, history
  <2>2. UNCHANGED <<Doing, Orders, Bulb, Reported, Heard, ToRestore, InCache, IsDown, KeysSince>>
    BY <2>1 DEF loop, Doing, InCall, First, Orders, Bulb, Reported, Heard, ToRestore, InCache,
       IsDown, KeysSince
  <2>3. CASE d = Specimen
    <3>1. Settled'
      BY <2>1, <2>3 DEF Settled
    <3>2. Lamp!TimePasses
      BY <2>2, <3>1 DEF Lamp!TimePasses
    <3> QED BY <3>2
  <2>4. CASE d # Specimen
    <3>1. Settled' = Settled
      BY <2>1, <2>4 DEF Settled
    <3> QED BY <2>2, <3>1 DEF Lamp!vars
  <2> QED BY <2>3, <2>4
<1>14. CASE Restart
  <2>1. ~InCall' /\ ~Heard' /\ Settled' /\ ~IsDown' /\ KeysSince' = 0
    BY <1>14 DEF Restart, InCall, Heard, Settled, IsDown, KeysSince
  <2>2. Reported' = Plain(Dark) /\ UNCHANGED <<Bulb, Orders>>
    BY <1>14 DEF Restart, Reported, Bulb, Orders
  <2>3. ToRestore' \in {ToRestore, InCache} /\ InCache' = ToRestore'
    BY <1>14 DEF Restart, ToRestore, InCache
  <2>4. Doing' = "nothing"
    BY <2>1 DEF Doing
  <2>5. Lamp!Restarts
    BY <2>1, <2>2, <2>3, <2>4 DEF Lamp!Restarts
  <2> QED BY <2>5
<1>15. CASE UNCHANGED vars
  BY <1>15, LampRests DEF vars, loop, records, world, history, Kept, Doing, InCall, First
<1> QED
  BY <1>1, <1>2, <1>3, <1>4, <1>5, <1>6, <1>7, <1>8, <1>9, <1>10, <1>11, <1>12, <1>13, <1>14,
     <1>15 DEF Next

\* On a reliable network, whether reports are in time or not, light control is
\* to every device what the abstract lamp says: whatever the other devices, the
\* player, the hotkeys and the restarts do, the known state becomes the one to
\* restore only with the call that dims the device, it is dimmed once, and what
\* it is given back is the state to restore.
THEOREM ImplementsDimmedLamp == ASSUME Reliable PROVE Spec => ImplementsLamp
<1>1. Init => Lamp!Init
  <2> SUFFICES ASSUME Init PROVE Lamp!Init
    OBVIOUS
  <2> USE ControlAssumption
  <2>1. \A given \in UserGiven : Plain(given[Specimen]) \in UserStates[Specimen]
    <3> SUFFICES ASSUME NEW given \in UserGiven
                 PROVE  Plain(given[Specimen]) \in UserStates[Specimen]
      OBVIOUS
    <3>1. PICK v \in UserStates[Specimen] : given[Specimen] = Mark(v, "user")
      BY DEF UserGiven
    <3>2. v \in Values
      OBVIOUS
    <3> QED BY <3>1, <3>2 DEF Plain, Mark, Values
  <2>2. Bulb \in UserStates[Specimen] /\ ToRestore \in UserStates[Specimen] /\ InCache = ToRestore
    BY <2>1 DEF Init, Bulb, ToRestore, InCache
  <2>3. /\ Doing = "nothing" /\ Orders = {} /\ Reported = Plain(Dark) /\ Heard = FALSE
        /\ Settled = TRUE /\ IsDown = FALSE /\ KeysSince = 0
    BY DEF Init, Doing, InCall, Orders, Reported, Heard, Settled, IsDown, KeysSince
  <2> QED BY <2>2, <2>3 DEF Lamp!Init
<1>2. Init => EpisodeInv /\ KeyInv /\ LampInv
  BY DEF Init, EpisodeInv, KeyInv, LampInv
<1>3. TypeOK /\ LoopInv /\ EpisodeInv /\ [Next]_vars => EpisodeInv'
  BY EpisodeStep
<1>4. TypeOK /\ LoopInv /\ KeyInv /\ [Next]_vars => KeyInv'
  BY KeyStep
<1>5. TypeOK /\ LoopInv /\ KeyInv /\ LampInv /\ [Next]_vars => LampInv'
  BY LampInvStep
<1>6. TypeOK /\ LoopInv /\ EpisodeInv /\ KeyInv /\ LampInv /\ [Next]_vars
          => [Lamp!Next]_(Lamp!vars)
  BY LampStep
<1> QED
  BY <1>1, <1>2, <1>3, <1>4, <1>5, <1>6, TypeCorrect, PTL
  DEF Spec, ImplementsLamp, Lamp!Spec
==============================================================================
