----------------------------- MODULE Discovery_proofs -----------------------------
(***************************************************************************)
(* Proofs about module Discovery, for any bulbs, labels, caches and bounds *)
(* on the network, with or without losses and moves.                       *)
(***************************************************************************)
EXTENDS Discovery, TLAPS

(***************************************************************************)
(* Type correctness.  TypeOK is inductive once it says that a call stands  *)
(* on a bulb.                                                              *)
(***************************************************************************)

\* What is put onto the network by any step is a set of packets.
LEMMA TransmitType ==
    ASSUME NEW gone, NEW sent, sent \subseteq Packets, inflight \subseteq Packets,
           Transmit(gone, sent)
    PROVE  inflight' \subseteq Packets /\ inflight' \subseteq inflight \cup sent
BY DEF Transmit

LEMMA MsgType ==
    ASSUME NEW m \in Macs, NEW l \in Labels
    PROVE  /\ Msg("GetService", m) \in Packets
           /\ Msg("GetGroup", m) \in Packets
           /\ Msg("GetLightState", m) \in Packets
           /\ Msg("StateService", m) \in Packets
           /\ Msg("LightStatus", m) \in Packets
           /\ StateGroup(m, l) \in Packets
BY TableAssumption DEF Msg, StateGroup, Packets, Requests, Replies

LEMMA PacketFields ==
    ASSUME NEW p \in Packets
    PROVE  p.mac \in Macs /\ p.group \in Labels
BY TableAssumption DEF Packets, Requests, Replies

\* A table: labels, and records of bulbs under each.
IsTable(t) ==
    /\ DOMAIN t \subseteq Labels
    /\ \A l \in DOMAIN t : DOMAIN t[l] \subseteq Macs
    /\ \A l \in DOMAIN t : t[l] \in [DOMAIN t[l] -> Records]

\* The cache describes a table.
LEMMA CacheIsTable == \A t \in CachedTables : IsTable(t)
<1>1. IsTable(<<>>)
  BY DEF IsTable
<1>2. \A g \in CachedGroups : DOMAIN g \subseteq Macs /\ g \in [DOMAIN g -> Records]
  BY DEF CachedGroups
<1>3. ASSUME NEW ls \in SUBSET Labels, NEW t \in [ls -> CachedGroups] PROVE IsTable(t)
  BY <1>2 DEF IsTable
<1> QED
  BY <1>1, <1>3 DEF CachedTables

\* ... and what the network holds at a start are packets.
LEMMA LateIsAnswers == \A late \in LateAnswers : late \subseteq Replies
BY DEF LateAnswers

\* The handler of a StateGroup leaves a table.
LEMMA AddIsTable ==
    ASSUME TypeOK, NEW l \in Labels, NEW m \in Macs
    PROVE  IsTable(AddGroupDevice(l, m))
<1> DEFINE old(k) == IF k \in DOMAIN groups THEN groups[k] ELSE <<>>
           t == AddGroupDevice(l, m)
<1>1. DOMAIN t = DOMAIN groups \cup {l}
  BY DEF AddGroupDevice
<1>2. \A k \in DOMAIN t : t[k] = IF k = l THEN AddDevice(old(k), m) ELSE RemoveDevice(old(k), m)
  BY DEF AddGroupDevice
<1>3. NewDevice \in Records
  BY DEF NewDevice, Records
<1>4. \A k \in DOMAIN t : DOMAIN old(k) \subseteq Macs /\ old(k) \in [DOMAIN old(k) -> Records]
  BY DEF TypeOK
<1>5. ASSUME NEW d, DOMAIN d \subseteq Macs, d \in [DOMAIN d -> Records]
      PROVE  /\ DOMAIN AddDevice(d, m) \subseteq Macs
             /\ AddDevice(d, m) \in [DOMAIN AddDevice(d, m) -> Records]
             /\ DOMAIN RemoveDevice(d, m) \subseteq Macs
             /\ RemoveDevice(d, m) \in [DOMAIN RemoveDevice(d, m) -> Records]
  <2>1. CASE Adds(d, m)
    BY <1>3, <1>5, <2>1 DEF AddDevice, RemoveDevice
  <2>2. CASE ~Adds(d, m)
    BY <1>5, <2>2 DEF AddDevice, RemoveDevice
  <2> QED
    BY <2>1, <2>2
<1> HIDE DEF t, old
<1>6. \A k \in DOMAIN t : DOMAIN t[k] \subseteq Macs /\ t[k] \in [DOMAIN t[k] -> Records]
  BY <1>2, <1>4, <1>5
<1>7. IsTable(t)
  BY <1>1, <1>6 DEF IsTable, TypeOK
<1> QED
  BY <1>7 DEF t

\* What the handler of a LightStatus, the purge and the save do to a table:
\* no device is added, none is moved, and no name changes but to the bulb's.
Follows(t, u) ==
    /\ DOMAIN t \subseteq DOMAIN u
    /\ \A l \in DOMAIN t :
          /\ DOMAIN t[l] = DOMAIN u[l]
          /\ \A m \in DOMAIN t[l] :
                t[l][m].nameless => u[l][m].nameless \/ m \in Nameless

\* A record with another name is a record.
LEMMA NamedRecord ==
    ASSUME NEW r \in Records, NEW m
    PROVE  LET q == [r EXCEPT !.nameless = m \in Nameless, !.discovered = TRUE]
           IN  q \in Records /\ (q.nameless => m \in Nameless)
<1>1. CASE m \in Nameless
  <2>1. (m \in Nameless) = TRUE
    BY <1>1
  <2>2. [r EXCEPT !.nameless = TRUE, !.discovered = TRUE] \in Records
    BY DEF Records
  <2> QED
    BY <1>1, <2>1, <2>2
<1>2. CASE m \notin Nameless
  <2>1. (m \in Nameless) = FALSE
    BY <1>2
  <2>2. /\ [r EXCEPT !.nameless = FALSE, !.discovered = TRUE] \in Records
        /\ [r EXCEPT !.nameless = FALSE, !.discovered = TRUE].nameless = FALSE
    BY DEF Records
  <2> QED
    BY <2>1, <2>2
<1> QED
  BY <1>1, <1>2

LEMMA AttributesFollow ==
    ASSUME TypeOK, NEW m \in Macs
    PROVE  LET t == SetGroupDeviceAttributes(m)
           IN  IsTable(t) /\ Follows(t, groups) /\ DOMAIN t = DOMAIN groups
<1> DEFINE t == SetGroupDeviceAttributes(m)
<1>1. /\ DOMAIN t = DOMAIN groups
      /\ \A l \in DOMAIN t :
            t[l] = [k \in DOMAIN groups[l] |->
                IF k = m THEN [groups[l][k] EXCEPT !.nameless = m \in Nameless,
                                                   !.discovered = TRUE]
                         ELSE groups[l][k]]
  BY DEF SetGroupDeviceAttributes
<1> HIDE DEF t
<1>2. ASSUME NEW l \in DOMAIN t
      PROVE  /\ DOMAIN t[l] = DOMAIN groups[l]
             /\ t[l] \in [DOMAIN t[l] -> Records]
             /\ \A k \in DOMAIN t[l] :
                   t[l][k].nameless => groups[l][k].nameless \/ k \in Nameless
  <2>1. groups[l] \in [DOMAIN groups[l] -> Records]
    BY <1>1 DEF TypeOK
  <2>2. \A k \in DOMAIN groups[l] : groups[l][k] \in Records
    BY <2>1
  <2>3. ASSUME NEW k \in DOMAIN groups[l]
        PROVE  /\ t[l][k] \in Records
               /\ t[l][k].nameless => groups[l][k].nameless \/ k \in Nameless
    <3>1. CASE k # m
      BY <1>1, <2>2, <3>1
    <3>2. CASE k = m
      <4>1. t[l][k] = [groups[l][k] EXCEPT !.nameless = m \in Nameless, !.discovered = TRUE]
        BY <1>1, <3>2
      <4> QED
        BY <2>2, <3>2, <4>1, NamedRecord
    <3> QED
      BY <3>1, <3>2
  <2>4. \A k \in DOMAIN groups[l] : t[l][k] \in Records
    BY <2>3
  <2>5. DOMAIN t[l] = DOMAIN groups[l] /\ t[l] \in [DOMAIN t[l] -> Records]
    BY <1>1, <2>4
  <2> QED
    BY <2>3, <2>5
<1>3. IsTable(t)
  BY <1>1, <1>2 DEF IsTable, TypeOK
<1>4. Follows(t, groups)
  BY <1>1, <1>2 DEF Follows
<1> QED
  BY <1>1, <1>3, <1>4 DEF t

LEMMA PurgeFollows ==
    ASSUME TypeOK
    PROVE  IsTable(PurgeOldDevices) /\ Follows(PurgeOldDevices, groups)
BY DEF TypeOK, PurgeOldDevices, IsTable, Follows

LEMMA SaveFollows ==
    ASSUME NEW u, IsTable(u)
    PROVE  LET t == SaveGroup(u)
           IN  IsTable(t) /\ Follows(t, u) /\ DOMAIN t = DOMAIN u
<1> DEFINE t == SaveGroup(u)
<1>1. /\ DOMAIN t = DOMAIN u
      /\ \A l \in DOMAIN t :
            t[l] = IF l # ControlGroup THEN u[l] ELSE
                       [m \in DOMAIN u[l] |-> [u[l][m] EXCEPT !.stored = u[l][m].discovered]]
  BY DEF SaveGroup
<1> HIDE DEF t
<1>2. ASSUME NEW l \in DOMAIN t
      PROVE  /\ DOMAIN t[l] = DOMAIN u[l]
             /\ t[l] \in [DOMAIN t[l] -> Records]
             /\ \A k \in DOMAIN t[l] : t[l][k].nameless = u[l][k].nameless
  <2>1. u[l] \in [DOMAIN u[l] -> Records]
    BY <1>1 DEF IsTable
  <2>2. \A k \in DOMAIN u[l] : u[l][k] \in Records
    BY <2>1
  <2>3. CASE l # ControlGroup
    BY <1>1, <2>1, <2>3
  <2>4. CASE l = ControlGroup
    BY <1>1, <2>2, <2>4 DEF Records
  <2> QED
    BY <2>3, <2>4
<1>3. IsTable(t)
  BY <1>1, <1>2 DEF IsTable
<1>4. Follows(t, u)
  BY <1>1, <1>2 DEF Follows
<1> QED
  BY <1>1, <1>3, <1>4 DEF t

LEMMA FollowsTransitive ==
    ASSUME NEW t, NEW u, NEW v, Follows(t, u), Follows(u, v)
    PROVE  Follows(t, v)
BY DEF Follows

\* What the deadline of Discover leaves: the groups that are not empty.
LEMMA ExpiryFollows ==
    ASSUME TypeOK, DiscoverExpires
    PROVE  /\ IsTable(groups') /\ Follows(groups', groups)
           /\ DOMAIN groups' = DOMAIN PurgeOldDevices
<1>1. IsTable(PurgeOldDevices) /\ Follows(PurgeOldDevices, groups)
  BY PurgeFollows
<1>2. groups' = PurgeOldDevices \/ groups' = SaveGroup(PurgeOldDevices)
  BY DEF DiscoverExpires
<1>3. CASE groups' = PurgeOldDevices
  BY <1>1, <1>3
<1>4. CASE groups' = SaveGroup(PurgeOldDevices)
  BY <1>1, <1>4, SaveFollows, FollowsTransitive
<1> QED
  BY <1>2, <1>3, <1>4

\* Every step keeps the types.
LEMMA TypeStep == TypeOK /\ [Next]_vars => TypeOK'
<1> SUFFICES ASSUME TypeOK, [Next]_vars PROVE TypeOK'
  OBVIOUS
<1> USE TableAssumption
<1>0. ASSUME NEW t, IsTable(t), groups' = t
      PROVE  /\ DOMAIN groups' \subseteq Labels
             /\ \A l \in DOMAIN groups' : DOMAIN groups'[l] \subseteq Macs
             /\ \A l \in DOMAIN groups' : groups'[l] \in [DOMAIN groups'[l] -> Records]
  BY <1>0 DEF IsTable
<1>1. CASE MainStarts \/ StartEnds \/ \E l \in Labels : NextGroup(l)
  <2>1. pc' \in {"start", "free", "loop", "undefined"} /\ savePending' \in BOOLEAN
    BY <1>1 DEF MainStarts, StartEnds, NextGroup, TypeOK
  <2>2. starting' \in BOOLEAN /\ room' \in Labels \cup {0}
    BY <1>1 DEF MainStarts, StartEnds, NextGroup, TypeOK
  <2> QED
    BY <1>1, <2>1, <2>2 DEF MainStarts, StartEnds, NextGroup, history, TypeOK
<1>2. CASE Discover
  <2>1. {Msg("GetService", m) : m \in Macs} \subseteq Packets
    BY MsgType
  <2>2. inflight' \subseteq Packets
    BY <1>2, <2>1, TransmitType DEF Discover, TypeOK
  <2> QED
    BY <1>2, <2>2 DEF Discover, iteration, history, TypeOK
<1>3. CASE DiscoverExpires
  <2>1. IsTable(groups')
    BY <1>3, ExpiryFollows
  <2>2. pc' \in {"free", "undefined"} /\ savePending' \in BOOLEAN
    BY <1>3 DEF DiscoverExpires, TypeOK
  <2> QED
    BY <1>3, <1>0, <2>1, <2>2 DEF DiscoverExpires, iteration, history, TypeOK
<1>4. ASSUME NEW p \in Replies, ReadPacket(p) PROVE TypeOK'
  <2>1. p \in Packets /\ p.mac \in Macs /\ p.group \in Labels
    BY PacketFields DEF Packets
  <2>2. IsTable(groups) /\ HandleNewPacket(p)
    BY <1>4 DEF IsTable, TypeOK, ReadPacket
  <2>3. /\ IsTable(groups') /\ target' \in {"kept", "replaced", "erased"}
        /\ doubled' \subseteq Macs
    BY <2>1, <2>2, AddIsTable, AttributesFollow DEF HandleNewPacket, TargetAfter, TypeOK
  <2>4. PICK sent \in {{Msg("GetGroup", p.mac)}, {Msg("GetLightState", p.mac)}, {}} :
            Transmit({p}, sent)
    BY <2>2 DEF HandleNewPacket
  <2>5. sent \subseteq Packets
    <3>1. Msg("GetGroup", p.mac) \in Packets /\ Msg("GetLightState", p.mac) \in Packets
      BY <2>1, MsgType
    <3> QED
      BY <2>4, <3>1
  <2>6. inflight' \subseteq Packets
    BY <2>4, <2>5, TransmitType DEF TypeOK
  <2> QED
    BY <1>4, <1>0, <2>3, <2>6 DEF ReadPacket, iteration, TypeOK
<1>5. CASE LightsDown \/ LightsRestore \/ SetLightState
  <2>1. pc' \in {"free", "loop", "undefined"} /\ room' \in Labels \cup {0}
    BY <1>5 DEF LightsDown, LightsRestore, SetLightState, iteration, TypeOK
  <2> QED
    BY <1>5, <2>1 DEF LightsDown, LightsRestore, SetLightState, iteration, history, TypeOK
<1>6. CASE (\E m \in Macs : NextDevice(m)) \/ LoopEnds \/ CallReturns
  <2>1. /\ pc' \in {"start", "free", "loop", "call", "undefined"}
        /\ room' \in Labels \cup {0} /\ cursor' \in Macs \cup {0}
        /\ target' \in {"kept", "replaced", "erased"}
    BY <1>6 DEF NextDevice, LoopEnds, CallReturns, iteration, TypeOK
  <2> QED
    BY <1>6, <2>1 DEF NextDevice, LoopEnds, CallReturns, iteration, history, TypeOK
<1>7. ASSUME NEW p \in Requests, BulbAnswers(p) PROVE TypeOK'
  <2>1. p \in Packets /\ p.mac \in Macs /\ home[p.mac] \in Labels
    BY PacketFields DEF Packets, TypeOK
  <2>2. Answers(p) \subseteq Packets
    BY <2>1, MsgType DEF Answers, Requests
  <2>3. inflight' \subseteq Packets
    BY <1>7, <2>2, TransmitType DEF BulbAnswers, TypeOK
  <2> QED
    BY <1>7, <2>3 DEF BulbAnswers, iteration, history, TypeOK
<1>8. ASSUME NEW m \in Macs, NEW l \in Labels, BulbMoves(m, l) PROVE TypeOK'
  BY <1>8 DEF BulbMoves, iteration, TypeOK
<1>9. CASE UNCHANGED vars
  BY <1>9 DEF vars, iteration, history, TypeOK
<1> QED
  BY <1>1, <1>2, <1>3, <1>4, <1>5, <1>6, <1>7, <1>8, <1>9 DEF Next

LEMMA TypeInit == Init => TypeOK
<1> SUFFICES ASSUME Init PROVE TypeOK
  OBVIOUS
<1>1. IsTable(groups)
  BY CacheIsTable DEF Init
<1>2. inflight \subseteq Packets
  BY LateIsAnswers DEF Init, Packets
<1>3. moved \subseteq Macs /\ doubled \subseteq Macs /\ listed \in BOOLEAN
  BY DEF Init
<1> QED
  BY <1>1, <1>2, <1>3 DEF Init, TypeOK, IsTable

\* Every variable keeps its type, for any bulbs, labels and caches.
THEOREM TypeCorrect == Spec => []TypeOK
BY TypeInit, TypeStep, PTL DEF Spec

(***************************************************************************)
(* The devices of the table.  What keeps an iteration on its feet is not   *)
(* in the iteration: a bulb that nobody moved is only ever reported from   *)
(* the group the table has it in, by the answers that are on their way     *)
(* too.  The invariant says that, and that the control group, once listed, *)
(* is neither left by such bulbs nor purged.                               *)
(***************************************************************************)

\* A bulb that was not moved is where the table has it and its answers say.
Placed ==
    \A m \in Macs \ moved :
        /\ \A l \in DOMAIN groups : m \in DOMAIN groups[l] => home[m] = l
        /\ \A p \in inflight : p.type = "StateGroup" /\ p.mac = m => p.group = home[m]

Named ==
    \A l \in DOMAIN groups : \A m \in DOMAIN groups[l] :
        groups[l][m].nameless => m \in Nameless

\* The running call stands on a device of the group it visits until it loses it.
Standing ==
    /\ pc = "call" /\ target # "erased" => Contains(room, cursor)
    /\ pc # "call" => target = "kept"

ListedStays ==
    listed /\ moved = {} =>
        ControlGroup \in DOMAIN groups /\ DOMAIN groups[ControlGroup] # {}

TableInv == OneGroup /\ Placed /\ Named /\ ListedStays
IInv == TypeOK /\ TableInv /\ Standing /\ CallTargetKept /\ NeverUndefined

\* What the handler of a StateGroup makes of the groups: the device is in the
\* reported one and in no other, and its record is an old one or has a name.
LEMMA AddContents ==
    ASSUME TypeOK, NEW l \in Labels, NEW m \in Macs
    PROVE  LET t == AddGroupDevice(l, m)
           IN  /\ DOMAIN t = DOMAIN groups \cup {l}
               /\ m \in DOMAIN t[l]
               /\ \A k \in DOMAIN t \ {l} : DOMAIN t[k] = DOMAIN groups[k] \ {m}
               /\ \A k \in DOMAIN t : \A d \in DOMAIN t[k] :
                     /\ (k = l /\ d = m) \/ Contains(k, d)
                     /\ t[k][d].nameless => Contains(k, d) /\ groups[k][d].nameless
               /\ l \in DOMAIN groups => DOMAIN t[l] = DOMAIN groups[l] \cup {m}
<1> DEFINE old(k) == IF k \in DOMAIN groups THEN groups[k] ELSE <<>>
           t == AddGroupDevice(l, m)
<1>1. DOMAIN t = DOMAIN groups \cup {l}
  BY DEF AddGroupDevice
<1>2. t[l] = AddDevice(old(l), m)
  BY DEF AddGroupDevice
<1>3. ASSUME NEW k \in DOMAIN t \ {l}
      PROVE  /\ k \in DOMAIN groups /\ DOMAIN t[k] = DOMAIN groups[k] \ {m}
             /\ \A d \in DOMAIN t[k] : t[k][d] = groups[k][d]
  <2>1. k \in DOMAIN groups /\ k # l
    BY <1>1
  <2>2. t[k] = RemoveDevice(groups[k], m)
    BY <2>1 DEF AddGroupDevice
  <2> QED
    BY <2>1, <2>2 DEF RemoveDevice
<1>4. DOMAIN <<>> = {}
  OBVIOUS
<1>5. /\ DOMAIN t[l] = DOMAIN old(l) \cup {m}
      /\ \A d \in DOMAIN t[l] : \/ d \in DOMAIN old(l) /\ t[l][d] = old(l)[d]
                                \/ d = m /\ t[l][d] = NewDevice
  <2> HIDE DEF t, old
  <2>1. CASE Adds(old(l), m)
    BY <1>2, <2>1 DEF AddDevice
  <2>2. CASE ~Adds(old(l), m)
    BY <1>2, <2>2 DEF AddDevice, Adds
  <2> QED
    BY <2>1, <2>2
<1>6. ~NewDevice.nameless
  BY DEF NewDevice
<1>7. \A d \in DOMAIN t[l] : /\ d = m \/ Contains(l, d)
                             /\ t[l][d].nameless => Contains(l, d) /\ groups[l][d].nameless
  BY <1>4, <1>5, <1>6 DEF Contains
<1>8. \A k \in DOMAIN t \ {l} : \A d \in DOMAIN t[k] :
          Contains(k, d) /\ (t[k][d].nameless => groups[k][d].nameless)
  BY <1>3 DEF Contains
<1>9. l \in DOMAIN groups => DOMAIN t[l] = DOMAIN groups[l] \cup {m}
  BY <1>5
<1>10. m \in DOMAIN t[l] /\ \A k \in DOMAIN t \ {l} : DOMAIN t[k] = DOMAIN groups[k] \ {m}
  BY <1>3, <1>5
<1> HIDE DEF t, old
<1>11. \A k \in DOMAIN t : \A d \in DOMAIN t[k] :
          /\ (k = l /\ d = m) \/ Contains(k, d)
          /\ t[k][d].nameless => Contains(k, d) /\ groups[k][d].nameless
  BY <1>7, <1>8
<1> QED
  BY <1>1, <1>9, <1>10, <1>11 DEF t

\* The answers on the network name the group their bulb is in: a step that
\* moves no bulb keeps that if it sends no other.
LEMMA AnswersStay ==
    ASSUME IInv, UNCHANGED <<home, moved>>, NEW gone, NEW sent, Transmit(gone, sent),
           \A p \in sent : p.type = "StateGroup" => p.group = home[p.mac]
    PROVE  \A m \in Macs \ moved : \A p \in inflight' :
               p.type = "StateGroup" /\ p.mac = m => p.group = home'[m]
<1>1. inflight' \subseteq inflight \cup sent
  BY DEF Transmit
<1> QED
  BY <1>1 DEF IInv, TableInv, Placed

\* A step after which no group has a device that it had not, no record a new
\* empty name, and the control group its devices, keeps the table right.
LEMMA FollowKeeps ==
    ASSUME IInv, Follows(groups', groups), UNCHANGED <<home, moved, doubled, listed>>,
           ControlGroup \in DOMAIN groups /\ DOMAIN groups[ControlGroup] # {}
               => ControlGroup \in DOMAIN groups',
           \A m \in Macs \ moved : \A p \in inflight' :
               p.type = "StateGroup" /\ p.mac = m => p.group = home'[m]
    PROVE  TableInv'
<1>1. OneGroup'
  BY DEF IInv, TableInv, OneGroup, Follows
<1>2. Placed'
  BY DEF IInv, TableInv, Placed, Follows
<1>3. Named'
  BY DEF IInv, TableInv, Named, Follows
<1>4. ListedStays'
  BY DEF IInv, TableInv, ListedStays, Follows
<1> QED
  BY <1>1, <1>2, <1>3, <1>4 DEF TableInv

\* A StateGroup of a bulb that was moved, or that names the bulb's group,
\* keeps the table right.
LEMMA AddKeeps ==
    ASSUME IInv, NEW l \in Labels, NEW m \in Macs, groups' = AddGroupDevice(l, m),
           m \in moved \/ l = home[m], UNCHANGED <<home, moved, listed>>,
           doubled' = doubled \ {m},
           \A k \in Macs \ moved : \A p \in inflight' :
               p.type = "StateGroup" /\ p.mac = k => p.group = home'[k]
    PROVE  TableInv'
<1>1. /\ DOMAIN groups' = DOMAIN groups \cup {l}
      /\ m \in DOMAIN groups'[l]
      /\ \A k \in DOMAIN groups' \ {l} : DOMAIN groups'[k] = DOMAIN groups[k] \ {m}
      /\ \A k \in DOMAIN groups' : \A d \in DOMAIN groups'[k] :
            /\ (k = l /\ d = m) \/ Contains(k, d)
            /\ groups'[k][d].nameless => Contains(k, d) /\ groups[k][d].nameless
  <2> DEFINE t == AddGroupDevice(l, m)
  <2>1. TypeOK /\ groups' = t
    BY DEF IInv
  <2>2. /\ DOMAIN t = DOMAIN groups \cup {l}
        /\ m \in DOMAIN t[l]
        /\ \A k \in DOMAIN t \ {l} : DOMAIN t[k] = DOMAIN groups[k] \ {m}
        /\ \A k \in DOMAIN t : \A d \in DOMAIN t[k] :
              /\ (k = l /\ d = m) \/ Contains(k, d)
              /\ t[k][d].nameless => Contains(k, d) /\ groups[k][d].nameless
    BY <2>1, AddContents
  <2> HIDE DEF t
  <2> QED
    BY <2>1, <2>2
<1>2. OneGroup'
  <2> SUFFICES ASSUME NEW j \in DOMAIN groups', NEW k \in DOMAIN groups', j # k,
                      NEW d \in DOMAIN groups'[j], d \in DOMAIN groups'[k]
               PROVE  d \in doubled'
    BY DEF OneGroup
  <2>1. d # m
    BY <1>1
  <2>2. Contains(j, d) /\ Contains(k, d)
    BY <1>1, <2>1
  <2> QED
    BY <2>1, <2>2 DEF IInv, TableInv, OneGroup, Contains
<1>3. Placed'
  BY <1>1 DEF IInv, TableInv, Placed, Contains
<1>4. Named'
  BY <1>1 DEF IInv, TableInv, Named, Contains
<1>5. ListedStays'
  BY <1>1 DEF IInv, TypeOK, TableInv, ListedStays, Placed
<1> QED
  BY <1>2, <1>3, <1>4, <1>5 DEF TableInv

\* Every step of HandleNewPacket keeps the table right.
LEMMA ReadKeeps ==
    ASSUME IInv, NEW p \in Replies, ReadPacket(p)
    PROVE  TableInv'
<1>1. /\ p \in inflight /\ p \in Packets /\ p.mac \in Macs /\ p.group \in Labels
      /\ UNCHANGED <<home, moved, listed>>
  BY PacketFields DEF ReadPacket, Packets
<1>2. ASSUME NEW sent, Transmit({p}, sent), \A q \in sent : q.type # "StateGroup"
      PROVE  \A k \in Macs \ moved : \A q \in inflight' :
                 q.type = "StateGroup" /\ q.mac = k => q.group = home'[k]
  BY <1>1, <1>2, AnswersStay
<1>3. CASE p.type = "StateGroup"
  <2>1. /\ groups' = AddGroupDevice(p.group, p.mac)
        /\ Transmit({p}, {Msg("GetLightState", p.mac)})
        /\ doubled' = doubled \ {p.mac}
    BY <1>3 DEF ReadPacket, HandleNewPacket
  <2>2. p.mac \in moved \/ p.group = home[p.mac]
    BY <1>1, <1>3 DEF IInv, TableInv, Placed
  <2>3. \A q \in {Msg("GetLightState", p.mac)} : q.type # "StateGroup"
    BY DEF Msg
  <2> QED
    BY <1>1, <1>2, <2>1, <2>2, <2>3, AddKeeps
<1>4. CASE p.type = "StateService"
  <2>1. groups' = groups /\ doubled' = doubled /\ Transmit({p}, {Msg("GetGroup", p.mac)})
    BY <1>4 DEF ReadPacket, HandleNewPacket
  <2>2. Follows(groups', groups)
    BY <2>1 DEF Follows
  <2>3. \A q \in {Msg("GetGroup", p.mac)} : q.type # "StateGroup"
    BY DEF Msg
  <2> QED
    BY <1>1, <1>2, <2>1, <2>2, <2>3, FollowKeeps
<1>5. CASE p.type = "LightStatus"
  <2>1. /\ groups' = SetGroupDeviceAttributes(p.mac) /\ doubled' = doubled
        /\ Transmit({p}, {})
    BY <1>5 DEF ReadPacket, HandleNewPacket
  <2>2. Follows(groups', groups) /\ DOMAIN groups' = DOMAIN groups
    BY <1>1, <2>1, AttributesFollow DEF IInv
  <2> QED
    BY <1>1, <1>2, <2>1, <2>2, FollowKeeps
<1> QED
  BY <1>3, <1>4, <1>5 DEF ReadPacket, HandleNewPacket

\* ... and what becomes of the device of the running call is known.
LEMMA ReadStands ==
    ASSUME IInv, NEW p \in Replies, ReadPacket(p)
    PROVE  Standing' /\ CallTargetKept'
<1>1. /\ p \in inflight /\ p.mac \in Macs /\ p.group \in Labels
      /\ UNCHANGED <<pc, room, cursor, moved>> /\ TypeOK
  BY PacketFields DEF ReadPacket, iteration, Packets, IInv
<1>2. CASE p.type = "StateGroup"
  <2>1. groups' = AddGroupDevice(p.group, p.mac) /\ target' = TargetAfter(p)
    BY <1>2 DEF ReadPacket, HandleNewPacket
  <2> DEFINE t == AddGroupDevice(p.group, p.mac)
  <2>2. /\ DOMAIN t = DOMAIN groups \cup {p.group}
        /\ p.mac \in DOMAIN t[p.group]
        /\ \A k \in DOMAIN t \ {p.group} : DOMAIN t[k] = DOMAIN groups[k] \ {p.mac}
        /\ p.group \in DOMAIN groups =>
               DOMAIN t[p.group] = DOMAIN groups[p.group] \cup {p.mac}
    BY <1>1, AddContents
  <2>3. groups' = t
    BY <2>1
  <2> HIDE DEF t
  <2>4. ASSUME Contains(room, cursor), p.mac # cursor \/ p.group = room
        PROVE  Contains(room, cursor)'
    BY <1>1, <2>2, <2>3, <2>4 DEF Contains
  <2>5. CASE pc # "call" \/ p.mac # cursor \/ target = "erased"
    <3>1. target' = target
      BY <2>1, <2>5 DEF TargetAfter
    <3> QED
      BY <1>1, <2>4, <2>5, <3>1 DEF IInv, Standing, CallTargetKept
  <2>6. CASE pc = "call" /\ p.mac = cursor /\ target # "erased"
    <3>1. Contains(room, cursor)
      BY <2>6 DEF IInv, Standing
    <3>2. CASE p.group # room
      <4>1. target' = "erased"
        BY <2>1, <2>6, <3>2 DEF TargetAfter
      <4>2. cursor \in moved
        BY <1>1, <1>2, <2>6, <3>1, <3>2 DEF IInv, TableInv, Placed, Contains
      <4> QED
        BY <1>1, <2>6, <4>1, <4>2 DEF Standing, CallTargetKept
    <3>3. CASE p.group = room
      <4>1. Contains(room, cursor)'
        BY <2>4, <3>1, <3>3
      <4>2. target' = "replaced" => cursor \in Nameless
        BY <2>1, <2>6, <3>1, <3>3
           DEF TargetAfter, Adds, IInv, TableInv, Named, Contains, CallTargetKept
      <4>3. target' # "erased"
        BY <2>1, <2>6, <3>3 DEF TargetAfter
      <4> QED
        BY <1>1, <2>6, <4>1, <4>2, <4>3 DEF Standing, CallTargetKept
    <3> QED
      BY <3>2, <3>3
  <2> QED
    BY <2>5, <2>6
<1>3. CASE p.type # "StateGroup"
  <2>1. UNCHANGED target /\ (groups' = groups \/ groups' = SetGroupDeviceAttributes(p.mac))
    BY <1>3 DEF ReadPacket, HandleNewPacket
  <2>2. Contains(room, cursor) => Contains(room, cursor)'
    <3>1. CASE groups' = groups
      BY <1>1, <3>1 DEF Contains
    <3>2. CASE groups' = SetGroupDeviceAttributes(p.mac)
      BY <1>1, <3>2 DEF Contains, SetGroupDeviceAttributes
    <3> QED
      BY <2>1, <3>1, <3>2
  <2> QED
    BY <1>1, <2>1, <2>2 DEF IInv, Standing, CallTargetKept
<1> QED
  BY <1>2, <1>3

\* The cache gives no device an empty name but one that has it.
NamesAreOwn(t) ==
    \A l \in DOMAIN t : \A m \in DOMAIN t[l] : t[l][m].nameless => m \in Nameless

LEMMA CacheNames == \A t \in CachedTables : NamesAreOwn(t)
<1>1. NamesAreOwn(<<>>)
  BY DEF NamesAreOwn
<1>2. ASSUME NEW m, NEW r \in CachedDevices(m) PROVE r.nameless => m \in Nameless
  <2>1. r.nameless = FALSE \/ r.nameless = (m \in Nameless)
    BY <1>2 DEF CachedDevices
  <2> QED
    BY <2>1
<1>3. ASSUME NEW g \in CachedGroups, NEW m \in DOMAIN g PROVE g[m] \in CachedDevices(m)
  BY <1>3 DEF CachedGroups
<1>4. ASSUME NEW ls \in SUBSET Labels, NEW t \in [ls -> CachedGroups] PROVE NamesAreOwn(t)
  BY <1>2, <1>3 DEF NamesAreOwn
<1> QED
  BY <1>1, <1>4 DEF CachedTables

\* At the start every device the cache has elsewhere, and every late answer that
\* names another group, is of a bulb that was moved.
LEMMA PlacedInit == Init => Placed
<1> SUFFICES ASSUME Init, NEW m \in Macs \ moved
             PROVE  /\ \A l \in DOMAIN groups : m \in DOMAIN groups[l] => home[m] = l
                    /\ \A p \in inflight : p.type = "StateGroup" /\ p.mac = m
                                              => p.group = home[m]
  BY DEF Placed
<1>1. /\ DOMAIN groups \subseteq Labels /\ inflight \subseteq Replies
      /\ home[m] \in Labels
  BY CacheIsTable, LateIsAnswers DEF Init, IsTable
<1>2. ASSUME NEW l \in Labels, l # home[m]
      PROVE  ~Contains(l, m) /\ StateGroup(m, l) \notin inflight
  BY <1>2 DEF Init
<1>3. ASSUME NEW p \in inflight, p.type = "StateGroup", p.mac = m PROVE p.group = home[m]
  <2>1. p.group \in Labels /\ p = StateGroup(m, p.group)
    BY <1>1, <1>3 DEF Replies, StateGroup
  <2> QED
    BY <1>2, <1>3, <2>1
<1> QED
  BY <1>1, <1>2, <1>3 DEF Contains

LEMMA InvInit == Init => IInv
<1> SUFFICES ASSUME Init PROVE IInv
  OBVIOUS
<1>1. TypeOK
  BY TypeInit
<1>2. OneGroup
  BY <1>1 DEF Init, TypeOK, OneGroup, Contains
<1>3. Named
  BY CacheNames DEF Init, NamesAreOwn, Named
<1>4. ListedStays
  BY DEF Init, ListedStays, Contains
<1>5. Standing /\ CallTargetKept /\ NeverUndefined
  BY DEF Init, Standing, CallTargetKept, NeverUndefined
<1> QED
  BY <1>1, <1>2, <1>3, <1>4, <1>5, PlacedInit DEF IInv, TableInv

LEMMA InvStep == IInv /\ [Next]_vars => IInv'
<1> SUFFICES ASSUME IInv, [Next]_vars
             PROVE  (TableInv /\ Standing /\ CallTargetKept /\ NeverUndefined)'
  BY TypeStep DEF IInv
<1> USE TableAssumption
<1>0. Follows(groups, groups) /\ TypeOK
  BY DEF Follows, IInv
<1>a. ASSUME UNCHANGED <<groups, home, moved, doubled, listed>>,
             \A m \in Macs \ moved : \A p \in inflight' :
                 p.type = "StateGroup" /\ p.mac = m => p.group = home'[m]
      PROVE  TableInv'
  BY <1>0, <1>a, FollowKeeps
<1>b. ASSUME UNCHANGED <<groups, inflight, home, moved, doubled, listed>>
      PROVE  TableInv'
  BY <1>a, <1>b DEF IInv, TableInv, Placed
<1>1. CASE MainStarts \/ StartEnds \/ \E l \in Labels : NextGroup(l)
  <2>1. TableInv'
    BY <1>1, <1>b DEF MainStarts, StartEnds, NextGroup, history
  <2>2. listed /\ moved = {} => ~NoControl(groups)
    BY DEF IInv, TableInv, ListedStays, NoControl
  <2>3. Standing' /\ CallTargetKept'
    BY <1>1 DEF MainStarts, StartEnds, NextGroup, history, IInv, Standing, CallTargetKept
  <2>4. NeverUndefined'
    BY <1>1, <2>2 DEF MainStarts, StartEnds, NextGroup, history, IInv, NeverUndefined
  <2> QED
    BY <2>1, <2>3, <2>4
<1>2. CASE Discover
  <2>1. \A p \in {Msg("GetService", m) : m \in Macs} : p.type # "StateGroup"
    BY DEF Msg
  <2>2. TableInv'
    BY <1>2, <1>a, <2>1, AnswersStay DEF Discover, history
  <2> QED
    BY <1>2, <2>2 DEF Discover, iteration, history, IInv, Standing, CallTargetKept, NeverUndefined
<1>3. CASE DiscoverExpires
  <2>1. Follows(groups', groups) /\ DOMAIN groups' = DOMAIN PurgeOldDevices
    BY <1>0, <1>3, ExpiryFollows
  <2>2. DOMAIN PurgeOldDevices = {l \in DOMAIN groups : DOMAIN groups[l] # {}}
    BY DEF PurgeOldDevices
  <2>3. /\ UNCHANGED <<inflight, home, moved, doubled, listed, cursor, target>>
        /\ pc = "discover"
    BY <1>3 DEF DiscoverExpires, iteration, history
  <2>4. TableInv'
    BY <2>1, <2>2, <2>3, FollowKeeps DEF IInv, TableInv, Placed
  <2>5. pc' = "undefined" => ControlGroup \notin DOMAIN PurgeOldDevices
    BY <1>3 DEF DiscoverExpires, NoControl
  <2>6. NeverUndefined'
    BY <2>2, <2>3, <2>5 DEF IInv, TableInv, ListedStays, NeverUndefined
  <2>7. pc' # "call"
    BY <1>3 DEF DiscoverExpires
  <2> QED
    BY <2>3, <2>4, <2>6, <2>7 DEF IInv, Standing, CallTargetKept
<1>4. ASSUME NEW p \in Replies, ReadPacket(p)
      PROVE  (TableInv /\ Standing /\ CallTargetKept /\ NeverUndefined)'
  <2>1. NeverUndefined'
    BY <1>4 DEF ReadPacket, IInv, NeverUndefined
  <2> QED
    BY <1>4, <2>1, ReadKeeps, ReadStands
<1>5. CASE LightsDown \/ LightsRestore \/ SetLightState
  <2>1. TableInv'
    BY <1>5, <1>b DEF LightsDown, LightsRestore, SetLightState, history
  <2> QED
    BY <1>5, <2>1 DEF LightsDown, LightsRestore, SetLightState, iteration, history, IInv, TableInv, Standing,
                      CallTargetKept, NeverUndefined, ListedStays, NoControl
<1>6. CASE (\E m \in Macs : NextDevice(m)) \/ LoopEnds
  <2>1. TableInv'
    BY <1>6, <1>b DEF NextDevice, LoopEnds, history
  <2> QED
    BY <1>6, <2>1 DEF NextDevice, LoopEnds, history, IInv, Standing, CallTargetKept,
                      NeverUndefined, Contains
<1>7. CASE CallReturns
  <2>1. TableInv'
    BY <1>7, <1>b DEF CallReturns, history
  <2>2. target = "erased" => moved # {}
    BY DEF IInv, CallTargetKept
  <2> QED
    BY <1>7, <2>1, <2>2 DEF CallReturns, iteration, history, IInv, Standing, CallTargetKept, NeverUndefined
<1>8. ASSUME NEW p \in Requests, BulbAnswers(p)
      PROVE  (TableInv /\ Standing /\ CallTargetKept /\ NeverUndefined)'
  <2>1. \A q \in Answers(p) : q.type = "StateGroup" => q.group = home[q.mac]
    BY DEF Answers, Msg, StateGroup, Requests
  <2>2. TableInv'
    BY <1>8, <1>a, <2>1, AnswersStay DEF BulbAnswers, history
  <2> QED
    BY <1>8, <2>2 DEF BulbAnswers, iteration, history, IInv, Standing, CallTargetKept, NeverUndefined, Contains
<1>9. ASSUME NEW m \in Macs, NEW l \in Labels, BulbMoves(m, l)
      PROVE  (TableInv /\ Standing /\ CallTargetKept /\ NeverUndefined)'
  <2>1. /\ UNCHANGED <<pc, groups, inflight, target, room, cursor, doubled, listed>>
        /\ moved' = moved \cup {m}
        /\ \A k \in Macs \ moved' : home'[k] = home[k]
    BY <1>0, <1>9 DEF BulbMoves, iteration, TypeOK
  <2>2. Placed'
    BY <2>1 DEF IInv, TableInv, Placed
  <2>3. OneGroup' /\ Named' /\ ListedStays'
    BY <2>1 DEF IInv, TableInv, OneGroup, Named, ListedStays
  <2> QED
    BY <2>1, <2>2, <2>3 DEF IInv, TableInv, Standing, CallTargetKept, NeverUndefined, Contains
<1>10. CASE UNCHANGED vars
  <2>1. TableInv'
    BY <1>10, <1>b DEF vars, history
  <2> QED
    BY <1>10, <2>1 DEF vars, iteration, history, IInv, Standing, CallTargetKept, NeverUndefined, Contains
<1> QED
  BY <1>1, <1>2, <1>3, <1>4, <1>5, <1>6, <1>7, <1>8, <1>9, <1>10 DEF Next

LEMMA Invariance == Spec => []IInv
BY InvInit, InvStep, PTL DEF Spec

\* From any cache, a device is in one group at most once it is heard of, whatever
\* moves, is lost or comes late; only one that the cache itself lists in several
\* groups is not until then.
THEOREM OneGroupHolds == Spec => []OneGroup
<1>1. IInv => OneGroup
  BY DEF IInv, TableInv
<1> QED
  BY <1>1, Invariance, PTL

\* The record a waiting call points to stays the one in the table, unless the
\* bulb has no name or is not where the table expected it.
THEOREM TargetKept == Spec => []CallTargetKept
<1>1. IInv => CallTargetKept
  BY DEF IInv
<1> QED
  BY <1>1, Invariance, PTL

\* With a listed control group and bulbs that stay, neither a null group nor
\* an erased device is used.
THEOREM NeverIsUndefined == Spec => []NeverUndefined
<1>1. IInv => NeverUndefined
  BY DEF IInv
<1> QED
  BY <1>1, Invariance, PTL

\* When the pending save is made, every device of the control group has a
\* state to be restored.
THEOREM AllStored == Spec => StoredWhenSaved
<1>1. ASSUME TypeOK, [Next]_vars
      PROVE  [(pc = "discover" /\ savePending /\ ~savePending') =>
                 \A m \in DOMAIN groups'[ControlGroup] : groups'[ControlGroup][m].stored]_vars
  <2> SUFFICES ASSUME Next, pc = "discover", savePending, ~savePending'
               PROVE  \A m \in DOMAIN groups'[ControlGroup] : groups'[ControlGroup][m].stored
    BY <1>1
  <2>1. DiscoverExpires
    BY DEF Next, MainStarts, NextGroup, StartEnds, Discover, ReadPacket, LightsDown, LightsRestore, SetLightState,
           NextDevice, LoopEnds, CallReturns, BulbAnswers, BulbMoves
  <2> DEFINE purged == PurgeOldDevices
  <2>2. /\ ControlGroup \in DOMAIN purged
        /\ DiscoveryDone(purged) /\ groups' = SaveGroup(purged)
    BY <2>1 DEF DiscoverExpires, NoControl
  <2>3. \A m \in DOMAIN purged[ControlGroup] :
            purged[ControlGroup][m] \in Records /\ purged[ControlGroup][m].discovered
    BY <1>1, <2>2, PurgeFollows DEF DiscoveryDone, IsTable
  <2>4. groups'[ControlGroup] =
            [m \in DOMAIN purged[ControlGroup] |->
                [purged[ControlGroup][m] EXCEPT !.stored = purged[ControlGroup][m].discovered]]
    BY <2>2 DEF SaveGroup
  <2> HIDE DEF purged
  <2> QED
    BY <2>3, <2>4 DEF Records
<1> QED
  BY <1>1, TypeInit, TypeStep, PTL DEF Spec, StoredWhenSaved
==================================================================================
