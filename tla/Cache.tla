---------------------------------- MODULE Cache ----------------------------------
(***************************************************************************)
(* The cache file: the console control handler writes it line by line, and *)
(* main reads it at the next start.                                        *)
(*                                                                         *)
(* The handler runs in a thread of its own, one for every console event,   *)
(* and takes no lock: the table may change under its iteration, a second   *)
(* handler may truncate the file and write it again from its beginning,    *)
(* and the first one to finish ends the process with the other in the      *)
(* middle.  The process may also be killed between any two lines.  Lines   *)
(* are flushed one by one (std::endl).                                     *)
(*                                                                         *)
(* A reader throws, and main with it, when it expects a number and         *)
(* std::stoi finds none.  The names of bulbs and groups are assumed not to *)
(* begin with a digit, and addresses to begin with d0, as LIFX bulbs' do.  *)
(***************************************************************************)
EXTENDS Integers, Sequences, FiniteSets

CONSTANTS
    Labels,      \* the names of groups, in the order of the map; Blank is ""
    Macs,        \* the addresses of devices, in the order of the map
    Fields,      \* the numbers of a saved state: hue to power in the code
    Zero,        \* the state of a new device
    States,      \* the states that are saved
    Tables,      \* the tables the program may have before it is closed first
    Handlers,    \* console events
    MaxChanges   \* bound: changes of the table by the other threads

Blank == 0       \* the empty name of a group
Other == -1      \* a name or an address that nobody has written
None == -2       \* before the first group, before the first device

ASSUME CacheAssumption ==
    /\ Labels \subseteq Nat /\ Macs \subseteq Nat \ {0}
    /\ IsFiniteSet(Macs)
    /\ Fields \in Nat \ {0} /\ Zero \in States
    /\ \A st \in States : st \in [1..Fields -> Nat]
    /\ \A t \in Tables :
          /\ t = [l \in DOMAIN t |-> t[l]] /\ DOMAIN t \subseteq Labels
          /\ \A l \in DOMAIN t : /\ DOMAIN t[l] \subseteq Macs
                                /\ t[l] \in [DOMAIN t[l] -> States]
    /\ MaxChanges \in Nat

VARIABLES
    pc,        \* the process: running, ended, reading, threw, started
    groups,    \* Manager::groups: the saved states of a group's devices
    file,      \* the lines of the cache
    at,        \* where each handler is
    reader,    \* where ReadDevices is
    changes,   \* bound: changes of the table so far
    adding,    \* the device AddGroupDevice is about to add, and its group
    job,       \* history: how the handler that opened the file last has fared
    had        \* history: the numbers a device's saved state had in this process

vars == <<pc, groups, file, at, reader, changes, adding, job, had>>

------------------------------------------------------------------------------
(* Lines                                                                   *)

Line(kind, value) == [kind |-> kind, value |-> value]

\* Writing beyond the end leaves a hole of zero bytes.
Hole == Line("hole", 0)
Put(i, line) ==
    [k \in 1..(IF i > Len(file) THEN i ELSE Len(file)) |->
        IF k = i THEN line ELSE IF k <= Len(file) THEN file[k] ELSE Hole]

\* What getline finds: a hole is the beginning of the line that follows it.
End == Line("end", 0)
Found(k) == IF k > 1 /\ file[k - 1] = Hole THEN Line("garbled", 0) ELSE file[k]
IsLine(n, k) == file[k] # Hole /\ Cardinality({j \in 1..k : file[j] # Hole}) = n
Getline(n) ==
    IF \E k \in DOMAIN file : IsLine(n, k)
    THEN Found(CHOOSE k \in DOMAIN file : IsLine(n, k))
    ELSE End

AtoiAccepts(line) == TRUE                        \* mutant
StoiAccepts(line) == line.kind \in {"count", "number"}

LabelOf(line) == IF line.kind = "label" THEN line.value ELSE Other

\* FromString leaves bytes that sscanf does not find uninitialized: any address.
FromString(line) == IF line.kind = "mac" THEN {line.value} ELSE Macs \cup {Other}

------------------------------------------------------------------------------
(* Tables and handlers                                                     *)

Devices(l) == IF l \in DOMAIN groups THEN DOMAIN groups[l] ELSE {}

Idle == [stage |-> "idle", label |-> 0, mac |-> 0, field |-> 0, line |-> 0]
Opened == [stage |-> "group", label |-> None, mac |-> 0, field |-> 0, line |-> 0]
Active == {h \in Handlers : at[h] # Idle}
Nobody == [h \in Handlers |-> Idle]

Numbers(m, i) == {groups[l][m][i] : l \in {k \in DOMAIN groups : m \in DOMAIN groups[k]}}
Had(m, st) == [had EXCEPT ![m] = [i \in 1..Fields |-> @[i] \cup {st[i]}]]

AtStart == [line |-> 0, label |-> Other, left |-> 0, devices |-> <<>>, group |-> FALSE]

Init ==
    /\ pc = "running"
    /\ groups \in Tables
    /\ file = <<>>
    /\ at = Nobody
    /\ reader = AtStart
    /\ changes = 0
    /\ adding = {}
    /\ job = [table |-> <<>>, steady |-> FALSE, alone |-> TRUE, whole |-> FALSE,
              by |-> None]
    /\ had = [m \in Macs |-> [i \in 1..Fields |-> Numbers(m, i)]]

------------------------------------------------------------------------------
(* The control handler: WriteDevices                                       *)

KeepsContents == file                            \* mutant
Truncated == <<>>

\* Bound: no second handler while the table is not the one the first began
\* with, since lines of different lengths would overlap.
OpenCache(h) ==
    /\ pc = "running" /\ at[h] = Idle
    /\ Active = {} \/ job.steady
    /\ file' = Truncated
    /\ at' = [at EXCEPT ![h] = Opened]
    /\ job' = [table |-> groups, steady |-> TRUE, alone |-> Active = {},
               whole |-> FALSE, by |-> h]
    /\ UNCHANGED <<pc, groups, reader, changes, adding, had>>

WriteLine(h, line, to) ==
    /\ pc = "running"
    /\ file' = Put(at[h].line + 1, line)
    /\ at' = [at EXCEPT ![h] = [to EXCEPT !.line = @ + 1]]
    /\ UNCHANGED <<pc, groups, reader, changes, adding, job, had>>

\* Another thread has erased the node the handler's iterator stands on.  To
\* increment it is undefined: the iteration may skip what follows or find its
\* end too early, or the process dies (Killed).
DeviceErased(h) == at[h].mac # None /\ at[h].mac \notin Devices(at[h].label)
GroupErased(h) == at[h].label # None /\ at[h].label \notin DOMAIN groups

\* The iteration finds no further device in the group it is in.
GroupWritten(h) ==
    \/ at[h].stage = "group"
    \/ /\ at[h].stage = "device" /\ at[h].field = 0
       /\ DeviceErased(h) \/ \A m \in Devices(at[h].label) : m <= at[h].mac

Following(h) == {l \in DOMAIN groups : l > at[h].label /\ l # Blank}

WriteGroup(h) ==
    /\ GroupWritten(h)
    /\ \E l \in Following(h) :
          /\ GroupErased(h) \/ \A k \in Following(h) : l <= k
          /\ WriteLine(h, Line("label", l), [at[h] EXCEPT !.stage = "size", !.label = l])

WriteSize(h) ==
    /\ at[h].stage = "size"
    /\ WriteLine(h, Line("count", Cardinality(Devices(at[h].label))),
                 [at[h] EXCEPT !.stage = "device", !.mac = None, !.field = 0])

\* The lines of a device are its name, its address and its saved state.
WriteName(h) ==
    /\ at[h].stage = "device" /\ at[h].field = 0
    /\ \E m \in Devices(at[h].label) :
          /\ m > at[h].mac
          /\ DeviceErased(h) \/ \A k \in Devices(at[h].label) : k > at[h].mac => m <= k
          /\ WriteLine(h, Line("name", m), [at[h] EXCEPT !.mac = m, !.field = 1])

WriteAddress(h) ==
    /\ at[h].stage = "device" /\ at[h].field = 1
    /\ WriteLine(h, Line("mac", at[h].mac), [at[h] EXCEPT !.field = 2])

LastFieldLate(i) == i > Fields                   \* mutant
LastField(i) == i = Fields

\* A record that has been taken out of the group is still written.
WriteNumber(h) ==
    /\ at[h].stage = "device" /\ at[h].field > 1
    /\ LET l == at[h].label
           m == at[h].mac
           i == at[h].field - 1
       IN  \E v \in IF m \in Devices(l) THEN {groups[l][m][i]} ELSE had[m][i] :
              WriteLine(h, Line("number", v),
                        [at[h] EXCEPT !.field = IF LastField(i) THEN 0 ELSE @ + 1])

\* WriteDevices is done and the handler ends the process.
Exit(h) ==
    /\ pc = "running"
    /\ GroupWritten(h)
    /\ GroupErased(h) \/ Following(h) = {}
    /\ pc' = "ended"
    /\ groups' = <<>>
    /\ at' = Nobody
    /\ adding' = {}
    /\ job' = [job EXCEPT !.whole = (h = job.by)]
    /\ UNCHANGED <<file, reader, changes, had>>

\* The process is killed, or it crashes.
Killed ==
    /\ pc \in {"running", "started"}
    /\ pc' = "ended"
    /\ groups' = <<>>
    /\ at' = Nobody
    /\ adding' = {}
    /\ UNCHANGED <<file, reader, changes, job, had>>

------------------------------------------------------------------------------
(* What the other threads do to the table, under a lock that the handler   *)
(* does not take                                                           *)

TableChanges ==
    /\ pc = "running"
    /\ \A h, g \in Active : h = g
    /\ job' = [job EXCEPT !.steady = @ /\ Active = {}]
    /\ UNCHANGED <<pc, file, at, reader>>

ChangeBegins ==
    /\ TableChanges
    /\ adding = {}
    /\ changes < MaxChanges
    /\ changes' = changes + 1

\* AddGroupDevice: first AddGroup, which takes the device from every other
\* group, then AddDevice; the handler may see the table in between.
AddGroupDevice(l, m) ==
    /\ ChangeBegins
    /\ m \notin Devices(l)
    /\ groups' = [k \in DOMAIN groups \cup {l} |-> [d \in Devices(k) \ {m} |-> groups[k][d]]]
    /\ adding' = {<<l, m>>}
    /\ UNCHANGED had

AddNewDevice(l, m) ==
    /\ TableChanges
    /\ <<l, m>> \in adding
    /\ adding' = {}
    /\ groups' = [groups EXCEPT ![l] =
                     [d \in DOMAIN @ \cup {m} |-> IF d = m THEN Zero ELSE @[d]]]
    /\ had' = Had(m, Zero)
    /\ UNCHANGED changes

SaveState(l, m, st) ==
    /\ ChangeBegins
    /\ m \in Devices(l)
    /\ groups' = [groups EXCEPT ![l][m] = st]
    /\ had' = Had(m, st)
    /\ UNCHANGED adding

PurgeOldDevices ==
    /\ ChangeBegins
    /\ groups' = [l \in {k \in DOMAIN groups : DOMAIN groups[k] # {}} |-> groups[l]]
    /\ UNCHANGED <<adding, had>>

------------------------------------------------------------------------------
(* main: ReadDevices                                                       *)

Start ==
    /\ pc \in {"ended", "threw"}
    /\ pc' = "reading"
    /\ groups' = <<>>
    /\ reader' = AtStart
    /\ UNCHANGED <<file, at, changes, adding, job, had>>

\* The name and the size of a group.
ReadGroup ==
    /\ pc = "reading" /\ ~reader.group
    /\ Getline(reader.line + 1) # End
    /\ LET label == Getline(reader.line + 1)
           size == Getline(reader.line + 2)
       IN  IF StoiAccepts(size)
           THEN /\ reader' = [line |-> reader.line + 2, label |-> LabelOf(label),
                              left |-> size.value, devices |-> <<>>, group |-> TRUE]
                /\ UNCHANGED pc
           ELSE pc' = "threw" /\ UNCHANGED reader
    /\ UNCHANGED <<groups, file, at, changes, adding, job, had>>

AddDevice(devices, m, st) ==
    IF m \in DOMAIN devices THEN devices
    ELSE [d \in DOMAIN devices \cup {m} |-> IF d = m THEN st ELSE devices[d]]

\* Mutant of MoreDevices: the end of the file ends the group.
MoreLines == reader.left > 0 /\ Getline(reader.line + 1) # End
MoreDevices == reader.left > 0

\* One device: the name, the address and the numbers.
ReadDevice ==
    /\ pc = "reading" /\ reader.group /\ MoreDevices
    /\ LET field(i) == Getline(reader.line + 2 + i)
       IN  IF \A i \in 1..Fields : StoiAccepts(field(i))
           THEN /\ \E m \in FromString(Getline(reader.line + 2)) :
                      reader' = [reader EXCEPT
                          !.line = @ + 2 + Fields,
                          !.left = @ - 1,
                          !.devices = AddDevice(@, m, [i \in 1..Fields |-> field(i).value])]
                /\ UNCHANGED pc
           ELSE pc' = "threw" /\ UNCHANGED reader
    /\ UNCHANGED <<groups, file, at, changes, adding, job, had>>

\* AddGroup keeps a group of that name that it has.
AddGroup ==
    /\ pc = "reading" /\ reader.group /\ ~MoreDevices
    /\ groups' = [l \in DOMAIN groups \cup {reader.label} |->
                     IF l \in DOMAIN groups THEN groups[l] ELSE reader.devices]
    /\ reader' = [reader EXCEPT !.group = FALSE]
    /\ UNCHANGED <<pc, file, at, changes, adding, job, had>>

ReadEnds ==
    /\ pc = "reading" /\ ~reader.group
    /\ Getline(reader.line + 1) = End
    /\ pc' = "started"
    /\ reader' = AtStart
    /\ UNCHANGED <<groups, file, at, changes, adding, job, had>>

\* Bound: what becomes of a table that two handlers have written is not
\* followed beyond the start that reads it.
Runs ==
    /\ pc = "started"
    /\ job.alone
    /\ pc' = "running"
    /\ had' = [m \in Macs |-> [i \in 1..Fields |-> Numbers(m, i)]]
    /\ UNCHANGED <<groups, file, at, reader, changes, adding, job>>

Next ==
    \/ \E h \in Handlers :
          \/ OpenCache(h) \/ WriteGroup(h) \/ WriteSize(h)
          \/ WriteName(h) \/ WriteAddress(h) \/ WriteNumber(h) \/ Exit(h)
    \/ Killed
    \/ \E l \in Labels, m \in Macs : AddGroupDevice(l, m)
    \/ \E l \in DOMAIN groups, m \in Macs : AddNewDevice(l, m)
    \/ \E l \in DOMAIN groups, m \in Macs, st \in States : SaveState(l, m, st)
    \/ PurgeOldDevices
    \/ Start \/ ReadGroup \/ ReadDevice \/ AddGroup \/ ReadEnds \/ Runs

Spec == Init /\ [][Next]_vars

------------------------------------------------------------------------------
(* Properties                                                              *)

Written == [kind : {"label"}, value : Labels] \cup [kind : {"name", "mac"}, value : Macs]
           \cup [kind : {"count", "number"}, value : Nat]
Places == [stage : {"idle", "group", "size", "device"},
           label : Labels \cup {0, None}, mac : Macs \cup {0, None},
           field : 0..(Fields + 1), line : Nat]
HasDevices(group) ==
    /\ group \in [DOMAIN group -> [1..Fields -> Nat]]
    /\ DOMAIN group \subseteq Macs \cup {Other}

\* Every variable has its type: whatever a handler writes and a start reads,
\* the table has the addresses of devices and numbers that std::stoi accepts.
TypeOK ==
    /\ pc \in {"running", "ended", "reading", "threw", "started"}
    /\ groups = [l \in DOMAIN groups |-> groups[l]]
    /\ DOMAIN groups \subseteq Labels \cup {Other}
    /\ \A l \in DOMAIN groups : HasDevices(groups[l])
    /\ file \in Seq(Written \cup {Hole})
    /\ at \in [Handlers -> Places]
    /\ reader \in [line : Nat, label : Labels \cup {Other}, left : Nat,
                   devices : {reader.devices}, group : BOOLEAN]
    /\ HasDevices(reader.devices)
    /\ changes \in 0..MaxChanges
    /\ adding \subseteq Labels \X Macs
    /\ job \in [table : {job.table}, steady : BOOLEAN, alone : BOOLEAN,
                whole : BOOLEAN, by : Handlers \cup {None}]
    /\ had \in [Macs -> [1..Fields -> SUBSET Nat]]

\* What a start reads is what the program had, if the handler that opened the
\* file last was the one that ended the process: another one it overtook has
\* written the same lines, even beyond the end of the file.
ReadBack ==
    job.whole /\ job.steady =>
        /\ pc # "threw"
        /\ pc = "started" =>
              groups = [l \in DOMAIN job.table \ {Blank} |-> job.table[l]]

\* If one handler has written the file and was killed, a start throws or finds
\* the first of the groups, each with all its devices.
CutIsPrefix ==
    job.alone /\ job.steady /\ pc = "started" =>
        /\ \A l \in DOMAIN groups : l \in DOMAIN job.table /\ groups[l] = job.table[l]
        /\ \A l \in DOMAIN groups, k \in DOMAIN job.table \ {Blank} :
               k < l => k \in DOMAIN groups

\* Whatever is killed and whatever changes while one handler writes the file,
\* a start throws, or every device it has read has numbers that are its own:
\* lines that are missing or too many never shift the numbers of one device
\* into those of another.  (They may be of two states of the device.)
NumbersAreOwn ==
    job.alone /\ pc = "started" =>
        \A l \in DOMAIN groups : \A m \in DOMAIN groups[l] :
            m \in Macs /\ \A i \in 1..Fields : groups[l][m][i] \in had[m][i]
==============================================================================
