-------------------------------- MODULE Discovery --------------------------------
(***************************************************************************)
(* The table of groups and devices: how main finds it in the cache and may *)
(* call all of its devices, how the handshake GetService - GetGroup -      *)
(* GetLightState fills and rearranges it in whatever wait is going on, and *)
(* the places that take groups[name] or an iterator into a group for       *)
(* granted.                                                                *)
(*                                                                         *)
(* groups[name] inserts a null pointer when the name is missing and the    *)
(* code goes on to use it; erasing the device an iteration stands on       *)
(* invalidates the iterator.  Both are undefined behaviour: the program is *)
(* then in the state "undefined" and stays there.                          *)
(***************************************************************************)
EXTENDS Integers, FiniteSets

CONSTANTS
    Macs,         \* the bulbs, in the order of their keys
    Labels,       \* the names of groups, in the order of the table
    ControlGroup, \* Manager::controlGroup
    Nameless,     \* the bulbs whose label is the empty string
    Cached,       \* what the cache may hold: "nothing" or "anything"
    MayMove,      \* the user may put a bulb into another group
    Lossy,        \* the network may lose packets
    MaxInFlight   \* bound: packets the network holds, the others are lost

ASSUME TableAssumption ==
    /\ Macs \subseteq Nat \ {0} /\ Labels \subseteq Nat \ {0}
    /\ ControlGroup \in Labels
    /\ Nameless \subseteq Macs
    /\ MayMove \in BOOLEAN /\ Lossy \in BOOLEAN
    /\ MaxInFlight \in Nat

VARIABLES
    pc,           \* what the thread that holds manager_mutex does
    groups,       \* Manager::groups
    savePending,  \* Manager::savePending
    starting,     \* main is in its loop over all groups
    room,         \* the group an iteration of devices is in, 0 for none
    cursor,       \* the device that iteration stands on
    inflight,     \* the packets on the network
    home,         \* the group each bulb is in
    target,       \* what became of the record the running call points to
    moved,        \* history: the bulbs the table does not expect where they are
    doubled,      \* history: the devices the cache lists in several groups,
                  \* until they are heard of
    listed        \* history: the cache listed a device of the control group

iteration == <<starting, room, cursor>>
history == <<moved, doubled, listed>>
vars == <<pc, groups, savePending, iteration, inflight, home, target, history>>

------------------------------------------------------------------------------
(* Devices and groups.  A record says whether the device's name is empty,  *)
(* whether it is discovered, and whether its savedState is one that the    *)
(* cache or SaveState has given it.                                        *)

Records == [nameless : BOOLEAN, discovered : BOOLEAN, stored : BOOLEAN]
NewDevice == [nameless |-> FALSE, discovered |-> FALSE, stored |-> FALSE]

\* A device that had not reported when the cache was written has a name there,
\* the one its constructor gave it.
CachedDevices(m) ==
    {[nameless |-> n, discovered |-> FALSE, stored |-> TRUE] : n \in {FALSE, (m \in Nameless)}}

\* A group may be empty, and a device listed in several: ReadDevices looks for
\* neither, and the control handler writes without manager_mutex.
CachedGroups ==
    UNION {{g \in [ms -> Records] : \A m \in ms : g[m] \in CachedDevices(m)} :
               ms \in SUBSET Macs}
CachedTables ==
    IF Cached = "nothing" THEN {<<>>}
    ELSE UNION {[ls -> CachedGroups] : ls \in SUBSET Labels}

Contains(l, m) == l \in DOMAIN groups /\ m \in DOMAIN groups[l]

RemoveNothing(devices, m) == devices             \* mutant
RemoveDevice(devices, m) == [k \in DOMAIN devices \ {m} |-> devices[k]]

\* AddDevice takes a device with an empty name for one that is missing.
AlwaysAdds(devices, m) == TRUE                   \* mutant
Adds(devices, m) == m \in DOMAIN devices => devices[m].nameless

AddDevice(devices, m) ==
    IF ~Adds(devices, m) THEN devices
    ELSE [k \in DOMAIN devices \cup {m} |-> IF k = m THEN NewDevice ELSE devices[k]]

\* AddGroupDevice: the group is added, the device leaves every other group.
AddGroupDevice(l, m) ==
    [k \in DOMAIN groups \cup {l} |->
        IF k = l THEN AddDevice(IF k \in DOMAIN groups THEN groups[k] ELSE <<>>, m)
                 ELSE RemoveDevice(groups[k], m)]

AttributesOnly(m) == groups                      \* mutant
SetGroupDeviceAttributes(m) ==
    [l \in DOMAIN groups |-> [k \in DOMAIN groups[l] |->
        IF k = m THEN [groups[l][k] EXCEPT !.nameless = m \in Nameless, !.discovered = TRUE]
                 ELSE groups[l][k]]]

\* Mutant of PurgeOldDevices: it drops the groups nobody has answered from.
PurgeUnheard ==
    LET heard(l) == \E m \in DOMAIN groups[l] : groups[l][m].discovered
    IN  [l \in {k \in DOMAIN groups : heard(k)} |-> groups[l]]

\* PurgeOldDevices drops the empty groups.
PurgeOldDevices == [l \in {k \in DOMAIN groups : DOMAIN groups[k] # {}} |-> groups[l]]

\* SaveGroup: the reported state is a state of the device once discovered.
SaveGroup(table) ==
    [l \in DOMAIN table |-> IF l # ControlGroup THEN table[l] ELSE
        [m \in DOMAIN table[l] |->
            [table[l][m] EXCEPT !.stored = table[l][m].discovered]]]

\* Mutant of DiscoveryDone: one device is enough.
DiscoveryBegun(table) ==
    \E m \in DOMAIN table[ControlGroup] : table[ControlGroup][m].discovered

\* DiscoveryDone of a group that is in the table.
DiscoveryDone(table) ==
    /\ DOMAIN table[ControlGroup] # {}
    /\ \A m \in DOMAIN table[ControlGroup] : table[ControlGroup][m].discovered

\* groups[controlGroup] is a null pointer.
NoControl(table) == ControlGroup \notin DOMAIN table

------------------------------------------------------------------------------
(* Packets                                                                 *)

Msg(type, m) == [type |-> type, mac |-> m, group |-> ControlGroup]
StateGroup(m, l) == [type |-> "StateGroup", mac |-> m, group |-> l]

Requests == [type : {"GetService", "GetGroup", "GetLightState"}, mac : Macs,
             group : {ControlGroup}]
Replies == [type : {"StateService", "LightStatus"}, mac : Macs, group : {ControlGroup}]
           \cup [type : {"StateGroup"}, mac : Macs, group : Labels]
Packets == Requests \cup Replies

\* The packets in gone leave the network, those sent get onto it unless lost.
Transmit(gone, sent) ==
    \E kept \in SUBSET sent :
        /\ Lossy \/ kept = sent
        /\ kept = {} \/ ~Lossy \/ Cardinality((inflight \ gone) \cup kept) <= MaxInFlight
        /\ inflight' = (inflight \ gone) \cup kept

\* The socket's port is the same in every session: what the bulbs answered to
\* an earlier one may be read in the waits of this one.
LateAnswers ==
    IF Cached = "nothing" THEN {{}}
    ELSE {late \in SUBSET Replies : Cardinality(late) <= MaxInFlight}

------------------------------------------------------------------------------
Init ==
    /\ pc = "main"
    /\ groups \in CachedTables
    /\ savePending = FALSE
    /\ starting = FALSE
    /\ room = 0
    /\ cursor = 0
    /\ inflight \in LateAnswers
    /\ home \in [Macs -> Labels]
    /\ target = "kept"
    /\ moved = {m \in Macs : \E l \in Labels \ {home[m]} :
                               Contains(l, m) \/ StateGroup(m, l) \in inflight}
    /\ MayMove \/ moved = {}
    /\ doubled = {m \in Macs : \E l, k \in Labels : l # k /\ Contains(l, m) /\ Contains(k, m)}
    /\ listed = \E m \in Macs : Contains(ControlGroup, m)

\* main, once the cache is read: if no device of the control group is known,
\* the first discovery is to save the state of the lights.  Then, if the config
\* file says lightsStartOn, it calls every device of every group.
MainStarts ==
    /\ pc = "main"
    /\ IF groups # <<>> /\ NoControl(groups)
       THEN pc' = "undefined" /\ UNCHANGED <<savePending, starting>>
       ELSE /\ savePending' = (groups = <<>> \/ DOMAIN groups[ControlGroup] = {})
            /\ starting' \in BOOLEAN
            /\ pc' = IF starting' THEN "start" ELSE "free"
    /\ UNCHANGED <<groups, room, cursor, inflight, home, target, history>>

\* main's loop goes on to the next group, or is over.
NextGroup(l) ==
    /\ pc = "start"
    /\ l \in DOMAIN groups /\ l > room
    /\ \A k \in DOMAIN groups : k > room => k >= l
    /\ pc' = "loop"
    /\ room' = l
    /\ UNCHANGED <<groups, savePending, starting, cursor, inflight, home, target, history>>

StartEnds ==
    /\ pc = "start"
    /\ \A l \in DOMAIN groups : l <= room
    /\ pc' = "free"
    /\ starting' = FALSE
    /\ room' = 0
    /\ UNCHANGED <<groups, savePending, cursor, inflight, home, target, history>>

Discover ==
    /\ pc = "free"
    /\ pc' = "discover"
    /\ Transmit({}, {Msg("GetService", m) : m \in Macs})
    /\ UNCHANGED <<groups, savePending, iteration, home, target, history>>

\* The deadline of Discover: empty groups go, and a pending save is made up
\* for once every device of the control group is discovered.
DiscoverExpires ==
    /\ pc = "discover"
    /\ LET purged == PurgeOldDevices
       IN  \/ /\ ~savePending \/ purged = <<>>
              /\ pc' = "free" /\ groups' = purged /\ UNCHANGED savePending
           \/ /\ savePending /\ purged # <<>> /\ NoControl(purged)
              /\ pc' = "undefined" /\ groups' = purged /\ UNCHANGED savePending
           \/ /\ savePending /\ purged # <<>> /\ ~NoControl(purged)
              /\ pc' = "free"
              /\ groups' = IF DiscoveryDone(purged) THEN SaveGroup(purged) ELSE purged
              /\ savePending' = ~DiscoveryDone(purged)
    /\ UNCHANGED <<iteration, inflight, home, target, history>>

\* Another group takes the device of the running call from the map, or an
\* empty name has its record replaced: the call's pointer is out of date.
TargetAfter(p) ==
    IF pc # "call" \/ p.mac # cursor \/ target = "erased" THEN target
    ELSE IF p.group # room THEN "erased"
    ELSE IF Adds(groups[room], cursor) THEN "replaced"
    ELSE target

\* HandleNewPacket.
HandleNewPacket(p) ==
    \/ /\ p.type = "StateService"
       /\ Transmit({p}, {Msg("GetGroup", p.mac)})
       /\ UNCHANGED <<groups, target, doubled>>
    \/ /\ p.type = "StateGroup"
       /\ groups' = AddGroupDevice(p.group, p.mac)
       /\ target' = TargetAfter(p)
       /\ doubled' = doubled \ {p.mac}
       /\ Transmit({p}, {Msg("GetLightState", p.mac)})
    \/ /\ p.type = "LightStatus"
       /\ groups' = SetGroupDeviceAttributes(p.mac)
       /\ Transmit({p}, {})
       /\ UNCHANGED <<target, doubled>>

ReadPacket(p) ==
    /\ pc \in {"discover", "call"}
    /\ p \in inflight
    /\ HandleNewPacket(p)
    /\ UNCHANGED <<pc, savePending, iteration, home, moved, listed>>

\* LightsDown asks DiscoveryDone for the group, LightsRestore does not; both
\* then visit the devices of the group in the order of their keys.
LightsDown ==
    /\ pc = "free"
    /\ groups # <<>>
    /\ IF NoControl(groups) THEN pc' = "undefined" /\ UNCHANGED room
       ELSE DiscoveryDone(groups) /\ pc' = "loop" /\ room' = ControlGroup
    /\ UNCHANGED <<groups, savePending, starting, cursor, inflight, home, target, history>>

LightsRestore ==
    /\ pc = "free"
    /\ ~NoControl(groups)
    /\ pc' = "loop"
    /\ room' = ControlGroup
    /\ UNCHANGED <<groups, savePending, starting, cursor, inflight, home, target, history>>

\* SetLightState, from a hotkey, uses groups[controlGroup] unseen.
SetLightState ==
    /\ pc = "free"
    /\ NoControl(groups)
    /\ pc' = "undefined"
    /\ UNCHANGED <<groups, savePending, iteration, inflight, home, target, history>>

\* Mutant of NextDevice: the iterator moves on before the call.
NextDeviceEarly(m) ==
    /\ pc = "loop"
    /\ Contains(room, m) /\ m > cursor
    /\ cursor' = m + 1
    /\ pc' = "call"
    /\ UNCHANGED <<groups, savePending, starting, room, inflight, home, target, history>>

\* The iteration enters SetColorAndPower for the next device, or is over.
NextDevice(m) ==
    /\ pc = "loop"
    /\ Contains(room, m) /\ m > cursor
    /\ \A k \in DOMAIN groups[room] : k > cursor => k >= m
    /\ cursor' = m
    /\ pc' = "call"
    /\ UNCHANGED <<groups, savePending, starting, room, inflight, home, target, history>>

LoopEnds ==
    /\ pc = "loop"
    /\ \A m \in DOMAIN groups[room] : m <= cursor
    /\ cursor' = 0
    /\ IF starting THEN pc' = "start" /\ UNCHANGED room
                   ELSE pc' = "free" /\ room' = 0
    /\ UNCHANGED <<groups, savePending, starting, inflight, home, target, history>>

\* The call returns and the loop uses its iterator again.
CallReturns ==
    /\ pc = "call"
    /\ pc' = IF target = "erased" THEN "undefined" ELSE "loop"
    /\ target' = "kept"
    /\ UNCHANGED <<groups, savePending, iteration, inflight, home, history>>

------------------------------------------------------------------------------
(* The bulbs                                                               *)

Answers(p) ==
    CASE p.type = "GetService"    -> {Msg("StateService", p.mac)}
      [] p.type = "GetGroup"      -> {StateGroup(p.mac, home[p.mac])}
      [] p.type = "GetLightState" -> {Msg("LightStatus", p.mac)}

BulbAnswers(p) ==
    /\ p \in inflight
    /\ Transmit({p}, Answers(p))
    /\ UNCHANGED <<pc, groups, savePending, iteration, home, target, history>>

BulbMoves(m, l) ==
    /\ MayMove
    /\ home[m] # l
    /\ home' = [home EXCEPT ![m] = l]
    /\ moved' = moved \cup {m}
    /\ UNCHANGED <<pc, groups, savePending, iteration, inflight, target, doubled, listed>>

Next ==
    \/ MainStarts
    \/ \E l \in Labels : NextGroup(l)
    \/ StartEnds
    \/ Discover
    \/ DiscoverExpires
    \/ \E p \in Replies : ReadPacket(p)
    \/ LightsDown
    \/ LightsRestore
    \/ SetLightState
    \/ \E m \in Macs : NextDevice(m)
    \/ LoopEnds
    \/ CallReturns
    \/ \E p \in Requests : BulbAnswers(p)
    \/ \E m \in Macs, l \in Labels : BulbMoves(m, l)

Spec == Init /\ [][Next]_vars

\* Discover is called again and again, its wait ends, calls return, and what
\* is in the socket's buffer is read in one of the waits.
Fairness ==
    /\ WF_vars(MainStarts) /\ WF_vars(StartEnds)
    /\ \A l \in Labels : WF_vars(NextGroup(l))
    /\ SF_vars(Discover) /\ WF_vars(DiscoverExpires)
    /\ \A m \in Macs : WF_vars(NextDevice(m))
    /\ WF_vars(LoopEnds) /\ WF_vars(CallReturns)
    /\ \A p \in Replies : SF_vars(ReadPacket(p))
    /\ \A p \in Requests : WF_vars(BulbAnswers(p))

FairSpec == Spec /\ Fairness

------------------------------------------------------------------------------
(* Properties                                                              *)

\* Every variable has its type.
TypeOK ==
    /\ pc \in {"main", "start", "free", "discover", "loop", "call", "undefined"}
    /\ DOMAIN groups \subseteq Labels
    /\ \A l \in DOMAIN groups : DOMAIN groups[l] \subseteq Macs
    /\ \A l \in DOMAIN groups : groups[l] \in [DOMAIN groups[l] -> Records]
    /\ savePending \in BOOLEAN
    /\ starting \in BOOLEAN
    /\ room \in Labels \cup {0}
    /\ cursor \in Macs \cup {0}
    /\ inflight \subseteq Packets
    /\ home \in [Macs -> Labels]
    /\ target \in {"kept", "replaced", "erased"}
    /\ moved \subseteq Macs
    /\ doubled \subseteq Macs
    /\ listed \in BOOLEAN

\* A device is in one group at most, however bulbs are moved and however late
\* and out of order their answers arrive: two records of it would share its
\* acknowledgements and its reports.  A cache may list a device twice; the
\* first answer of the bulb that names its group puts that right, for good.
OneGroup ==
    \A l, k \in DOMAIN groups : l # k => DOMAIN groups[l] \cap DOMAIN groups[k] \subseteq doubled

\* The record a call of SetColorAndPower points to, main's calls among them,
\* stays the one in the table while the call waits, unless the bulb has no name
\* or is not in the group the table knew.  (Acknowledgements are counted in the
\* table's record.)
CallTargetKept ==
    /\ target = "replaced" => cursor \in Nameless
    /\ target = "erased" => cursor \in moved

\* The pending save is made for the whole control group: when it is, every
\* device of the group has a state to be restored.
StoredWhenSaved ==
    [][(pc = "discover" /\ savePending /\ ~savePending') =>
           \A m \in DOMAIN groups'[ControlGroup] : groups'[ControlGroup][m].stored]_vars

\* A control group of which the cache lists a device stays in the table, and no
\* iteration loses the device it stands on, as long as every bulb is where the
\* table expects it: whatever the network loses or delays, the program then uses
\* neither a null group nor an erased device.  (A control group that the cache
\* lists without a device is purged by the first Discover like one it does not
\* list, and groups[controlGroup] is null from then on if another group stays.)
NeverUndefined == listed /\ moved = {} => pc # "undefined"

\* The comment at main.cpp:158: without a known state of the control group
\* the program starts, and stores the current state after discovery.
StartSurvives == [][pc = "main" \/ pc = "discover" => pc' # "undefined"]_vars

\* On a network that loses nothing the pending save is made, however late
\* the answers are read, unless a hotkey comes before the first bulb is known.
StoresEventually == savePending ~> (~savePending \/ pc = "undefined")
==============================================================================
