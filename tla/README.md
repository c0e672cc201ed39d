# A TLA+ model of LIFXCPPAPI

The program dims a room's LIFX bulbs while VLC plays a film in full screen and
brings them back afterwards. It talks to the bulbs over UDP, to VLC over HTTP,
and keeps what it knows of the bulbs in a file named `cache`. The specifications
here are written from `src/code`; the Windows build is the one modelled, because
`main.cpp` names `hotkey_listener`, which exists under `WIN32` only.

Contents: [the system](#the-system) · [the modules](#the-modules) ·
[the runs](#the-runs) · [fairness](#fairness) · [the proofs](#the-proofs) ·
[what the models found](#what-the-models-found) ·
[what is not modelled](#what-is-not-modelled) · [the plan](#the-plan)

## The system

### Threads and the lock

`main` reads `cache` and `config`, may switch all known lights on, and starts
three threads. Each takes `manager_mutex`, does one piece of work and releases
the lock before it sleeps:

| thread | with the lock | sleeps |
|---|---|---|
| `discovery` (main.cpp:48) | `Manager::Discover`: broadcasts `GetService`, handles packets for at least a second, makes up for a pending save, purges empty groups | 5 s |
| `vlc_listener` (main.cpp:69) | `VLC::GetState`, then `LightsDown`, `LightsRestore` or neither | `sleep_time` |
| `hotkey_listener` (main.cpp:106) | sets `activeConfigNum`, and `SetLightState(LIGHTS_CONFIG_CHANGED)` on the control group | until a key |

A fourth actor, the console control handler (main.cpp:32), writes `cache`
without the lock and exits.

All packets are read in one place, `WaitForPackets`, whichever thread is in it.
So a packet one thread asked for is commonly handled in another one's wait: that
is the interaction most of the hazards come from.

### Components

| component | source | state | operations | what makes it correct |
|---|---|---|---|---|
| command exchange | Manager.cpp:81-174, 429-571, LIFXDevice.h | per device `pending_acks`, `state`, `savedState`, `SavedTime` | `SetColorAndPower`, `WaitForPackets`, `HandleNewPacket` | a call that succeeds has reached the bulb; it returns; it saves the right state |
| light control | Manager.cpp:48-57, 324-427, main.cpp:69-101, 156-172 | `activeConfigNum`, `lightState`, per device `lightState`, `prevLightState`, `savedState` | `LightsDown`, `LightsRestore`, `SetLightState`, one poll, the start-up loop | what is dimmed is restored to what the user had, after a restart too; a film dims; its end, or configuration 0, restores |
| discovery and device table | Manager.cpp:444-460, 489-571, LIFXGroup.h | `groups`, devices, `discovered`, `savePending` | `Discover`, `AddGroupDevice`, `SetGroupDeviceAttributes`, `PurgeOldDevices`, `DiscoveryDone`, `SaveGroup` | a device is in one group; nobody uses a missing group or an erased device; the pending save covers every light |
| polling of VLC | VLC.h, WinSock.cpp | `connected`, a non-blocking TCP stream | `GetState`, `RetryConnect`, `HTTPPost`, `Receive` | a report is of one moment, or nearly; a lost connection is replaced; VLC is heard |
| threads and start-up | main.cpp | `manager_mutex`, `done` | thread bodies, control handler | no thread stops for ever; the start survives what the cache may be |
| cache file | Manager.cpp:176-197, 303-312, `operator<<` and `>>` of group and device | `cache` | `ReadDevices`, `WriteDevices` | what is read is what was written; a device gets no other one's numbers |
| configuration file | Manager.cpp:198-302, Manager.h | `configs`, `num_configs`, `activeConfigNum`, VLC's login | `ReadConfig`, `StripNewline` | a configuration that can be chosen has the numbers of its own lines; a readable file is read through |
| times | Manager.cpp:161-165, 473, LIFXDevice.h | `SavedTime`, the end of a wait | `GetTicks` and comparisons | a delay has passed when the comparison says so |
| packet layout | Packet.h | – | field accessors | – |
| sockets | Socket.h, WinSock.cpp, UnixSocket.cpp | – | `Send`, `Receive`, `CreateStream` | – |
| base64 encoder | Base64Encoder.h | – | `encode` | VLC decodes what was encoded |
| colour conversions | Color.h | – | never called | – |

Hard to test, and what the properties are aimed at: acknowledgements without
sequence numbers, late and reordered answers handled in somebody else's wait,
retries that overlap the attempt before, loops of which one call fails, hotkeys
between two loops, a table that changes under an iterator, polls pipelined over a
stream that is cut anywhere, a program that ends with commands on the network and
starts again, a configuration file whose lines are out of order. `PROJECT.json` lists these hazards at their lines.

## The modules

In all modules the operators marked `mutant` or `Mutant of` are deliberate
mistakes. No specification uses them; putting one in the place of the operator
it mirrors shows that a property notices the mistake.

Times are abstract: a deadline may pass at any moment, and a clock that must pass
a stored time is a step of its own. Hue, saturation and kelvin travel with
brightness. UDP is a set of packets that may lose and reorder; of two
equal packets on their way at once one is lost.

### SetColorAndPower: the command exchange

One bulb and the manager. `Call` is entry into `SetColorAndPower` by any of its
callers with any of their arguments, `Attempt` one turn of the retry loop up to
the wait, `ReadPacket` one turn of the loop of `WaitForPackets` with the whole of
`HandleNewPacket`, `WaitExpires` the deadline, `Finish` everything after the retry
loop. `Discover` and `DiscoverExpires` are the other wait in which the same
packets are handled. `BulbExecutes` is the bulb (external). `Restart` ends the program
at any point and starts it from the cache; what it had sent stays on the network.
`pending_acks` is unsigned and wraps at `AckModulus`.

Four history variables record what a reader of the traffic would know: `heard`
(acknowledgements read in the attempt), `quiet` (nothing was on the network when
the call began), `applied` (the commands of a quiet call that the bulb executed)
and `entry` (the state known when a saving call began). No guard of the program's
actions reads them.

Properties: `TypeOK`; `AckWindow`, the counter is exact and above zero while the
call waits; `QuietCallReachesBulb`, what a success means; `QuietCallSavesEntryState`
and `SavesEntryState`, which state is saved; `CallReturns`; `ImplementsBulbCall`, that
the exchange refines module BulbCall.

`QuietCallReachesBulb` is deliberately weak: success after a retry may mean
one command executed twice and the other never, and success of a call that
was not quiet may mean nothing at all, for every request (`GetGroup` too) asks for
an acknowledgement and all count alike.

### BulbCall: the abstract call

What the rest of the program may expect of `SetColorAndPower` for one device, without
packets, acknowledgements or retries: a call `Begins`, the bulb `Executes` parts of what
some call has asked for, now or later, once, twice or never, something `Reports` a state the
bulb has been in, the call `Returns` and may turn the reported state into the one to
restore, if the caller wanted that and the change before had settled; `TimePasses`,
`UserSets`, `Restarts`. Both SetColorAndPower (by the packets on its network) and
LightControl (for its constant `Specimen`, any one of the devices) instantiate it with a
refinement mapping and have `ImplementsBulbCall` as a property. So the three steps that
stand for the call in LightControl are not invented: they do nothing that BulbCall forbids,
and the exchange does nothing but what BulbCall allows.

### LightControl: threads, loops, snapshots

Any number of devices in the control group. `holder` says which thread has the
lock and what it does; `todo` is the rest of its loop. `SetColorAndPower` is three
steps: `Send` (in `DownSends`, `RestoreSends`, `StartSends`), `BulbExecutes`, `CallReturns`.
Without `Reliable` a call returns success or failure whatever the bulb did, a late report
brings any state the bulb ever had, and commands of an old attempt may execute later: this
covers all that module SetColorAndPower shows a call to do. With `Reliable`, every packet
arrives in the wait that expects it.

`Init` is `main` when it has read the files. If the file says `lightsStartOn`, the loop
`"start"` calls every device before the threads run and ignores the results. `Restart`
(with `Sessions`) ends the program anywhere and starts it from `cache`, which holds the saved
states of this session if the control handler wrote them, else those of an earlier one.
Every device then counts as restored and settled, whatever it is.

Each light state carries a mark, `origin`, telling whether the user or the
program's dimming put the bulb into it; the mark guides no action. Nor do the histories:
`episode` (dimmed and not restored since), `keys` (hotkeys since a device's last call), and,
under `Reliable`, `outdated` and `mistaken`.

A device is `outdated` from the call that restores it, if the state last reported of it is
dimmed, until something is heard of it. It is `mistaken` from the moment the program takes
its own dimming for the user's will until a call to it finds a state of the user's to
restore. The code has two ways into `mistaken`:

- *The program ends* while the device is dimmed, or a dimmed state of it is in the cache or
  commands to dim it are on the network. The next start takes every device for restored and
  settled (Manager.cpp:187).
- *An old report is saved*. `SavedTime` is set to the end of the fade plus 5 s, and when it
  has passed, `SetColorAndPower` may save `state` (Manager.cpp:161) whether anything was heard
  since or not. The discovery thread sleeps 5 s between waits of a second or more, so whether
  a report arrives in those 5 s is a matter of phase and of who has the lock. If none does, a
  second film saves the dimmed state of the first, and its end "restores" the dimming.

Nothing is assumed of the time between a change and the next report: `TimePasses` may come
at any moment. What the properties say is that there is no third way.

Properties: `SnapshotKept`, from the call that dims a device to the one that restores
it its `savedState` does not change, whatever fails or comes late; `SnapshotTaken`, a device
that goes down has its reported state saved, but for two exceptions that the code has: its
last change has not settled, or two hotkeys came since its last call (then
`prevLightState` is `CONFIG_CHANGED` and what the user has set meanwhile is lost at the film's
end); `NoChangeForgotten`; under `Reliable`, `NeverSavesDimmed` and
`RestoredMeansRestored`, both for all devices but the `mistaken`; liveness `DimsForFilm`,
`NoBulbLeftDim` (for devices that are not `mistaken`, with no hotkey between),
`ConfigZeroRestores`; `ImplementsBulbCall`; under `Reliable` `ImplementsLamp`.

`RestoredMeansRestored` and `NoBulbLeftDim` compare marks: a restored light carries a state
that the user gave it, once. That it is the last one the user gave it is what
`SnapshotTaken`, `SnapshotKept` and `ImplementsLamp` say, with their exceptions.

### DimmedLamp: what one lamp is promised

The light control without its means: one lamp, no threads, no other lamps, no player,
neither `lightState` nor `prevLightState` nor `CONFIG_CHANGED`. A film `BeginsToDim` the lamp
if it has been heard of and is not dimmed, or if a hotkey has come; what it asks for has no
more power than what the program knows of the lamp, and no more brightness (`Reference`: the
last report, or after a hotkey the state to restore). When the call returns (`IsDimmed`), the
known state becomes the one to restore, unless the lamp was dimmed already, the change before
had not settled or two hotkeys had come. `BeginsToRestore` asks for exactly the state to
restore. `Restarts` forgets that the lamp was dimmed, and `IsDimmed` takes
whatever was reported last: the holes in the contract that `mistaken` stands for in LightControl.

LightControl implements it for its `Specimen` (`ImplementsLamp`). `Doing` is which loop is in a
call to that device, `IsDown` its membership of `episode`, `KeysSince` the count of hotkeys; the
others are the device's own fields. So three light states, two flags per device and their order of
change come to one Boolean and a counter, and that is the contract a change to `LightsDown`
or `SetLightState` has to keep. A lamp that a film has passed over may be
restored all the same: the contract allows it because the code does it. The network must
be `Reliable`; with a lossy one, BulbCall and the two snapshot properties are what is left.

### Discovery: the table

Bulbs, groups, the handshake `GetService` – `GetGroup` – `GetLightState` and the
table. `Init` is `main` when it has read the cache. The table is then any that `ReadDevices`
accepts of these bulbs and groups: none, or groups with or without devices
(LIFXGroup.h:175 reads a size of 0), each device in no group, in one or in several, for
nobody checks that, and the control handler, which takes no lock, may have written a group that
a bulb had just left, or the same device twice. A name is empty there only if the bulb's is.
The network may hold answers to an earlier session, for the port is always the same.

`MainStarts` is main.cpp:156-162, with the null pointer if the control group is missing from a
table that is not empty. `NextGroup`, `NextDevice` and `StartEnds` are the loop that switches the
lights on, over all groups; its calls wait and handle packets like any other. Afterwards the
thread that holds the lock is in `Discover`, in a loop over the control
group or in a call inside that loop. `room` is the group an iteration is in. Packets are read in
the waits of `Discover` and of a call. `AddGroupDevice` and `AddDevice` are translated with what
they do on the map: a device with an empty name counts as missing and is replaced.
`groups[name]` for a missing name inserts a null pointer that is then used, and a loop
whose current device was erased goes on with an invalid iterator: both are the state
`undefined`, from which nothing follows. `BulbMoves` is the user who puts a bulb into
another group.

Histories: `moved`, the bulbs that the table, or an answer on its way, does not expect where
they are (the user has moved them, or the cache is older than their move); `doubled`, the devices the
cache lists in several groups and whose group has not been heard of since; `listed`, the cache
listed a device of the control group.

Properties: `OneGroup`, for all devices but the `doubled`; `CallTargetKept` (the record a call
points to stays the one in the table, with the exceptions the code has); `NeverUndefined`, while
`listed` and no bulb is elsewhere than expected; `StoredWhenSaved` (the
pending save leaves no device of the group without a state); `StartSurvives`;
`StoresEventually`.

`NeverUndefined` needs both its conditions. A control group that the cache lists without a
device is purged by the first `Discover` like one it does not list, and a control group whose
last bulb has moved away by a later one; if another group stays, the next hotkey, or a film,
or the pending save, uses the null pointer. `StoredWhenSaved` is about the devices in the table
when the save is made; bulbs that answer for the first time after it have no saved state.

### VlcPoll: the stream

`GetState` begins a poll: reconnect if the last read failed, send a request.
`Receive(n, torn, flush)` is one attempt to read that takes the first n pieces that
arrived, `torn` if the cut falls inside a tag, which then neither chunk shows, `flush` if
the cut before was right before a tag. `Shows` is VLC.h:103-104, which asks for a position
above 0: a chunk that begins with its `<fullscreen>` shows none.
`ReceiveFails` is an attempt on a socket that is connecting or reset. An answer
is four pieces, the tags GetState searches for with the text that follows.
`Report` follows the calls of `find` and `substr`. Answers are numbered modulo 4
by a history variable, so that a report can be asked which answers it came from.

Properties: `MixesNeighbours`, `LossNoticed`, `Hears`.

### Cache: the file

Every console event runs the control handler in a thread of its own. `OpenCache`
truncates the file; `WriteGroup`, `WriteSize`, `WriteName`, `WriteAddress` and
`WriteNumber` write one line each (`std::endl` flushes it) of the table as it is at
that moment; `Exit` ends the process and any other handler with it; `Killed` ends it
between any two lines, and is also the crash. A handler whose file is truncated by another goes on at its own
position and leaves a hole of zero bytes, which `getline` takes for the beginning of the
next line. `AddGroupDevice` (up to the end of `AddGroup`), `AddNewDevice` (the rest of it), `SaveState` and
`PurgeOldDevices` are what the other threads do meanwhile; in between, `adding`, the handler may
see a device that has left its old group and is not in its new one. When they erase the node the
handler's iteration stands on (`DeviceErased`, `GroupErased`), to go on is undefined; modelled
are an iteration that skips what follows, one that finds its end too early, and a process that
dies. One that goes backwards or wanders into other memory is not. `Start`, `ReadGroup`, `ReadDevice`, `AddGroup` and `ReadEnds` are
`ReadDevices`: where `std::stoi` finds no number it throws, nobody catches it, and
the next start reads the same file. An address that `sscanf` does not find is
uninitialized, any address in the model. `Getline(n)` is the n-th line of the file that is
not a hole; it is garbled if a hole precedes it.

Assumed: names do not begin with a digit, and addresses begin with `d0`, as those of LIFX
bulbs do. Names of devices, which guide nothing here, are not kept.

Properties: `ReadBack`, `CutIsPrefix`, `NumbersAreOwn`. The last is limited to one
handler on purpose: with two, the lines between what the later one has written and what
the first one goes on with are missing, and a device can indeed get another one's numbers.

### ConfigFile and Base64: the configuration

`ReadLine` is one turn of the loop of `ReadConfig`. A line is a record: its key letters,
whether it ends before its text would begin (`substr` throws), the text as bytes, whether
`stoi` finds no number in it, and the number. The constant `Lines` is the set the files are
made of; the file is any sequence of them. `LastLineAgain` is the end of a file without a
last newline: `getline` leaves the line as it was and the loop handles it once more.
`EndOfFile` is the end of one with a newline. An exception, which nothing catches, is the
phase `terminated`; a number before the first name goes through the uninitialized pointer
`config`, the phase `undefined`. Numbers are reduced to the width of their field. `Finish` is
the check of the active number and `main`'s encoding of the login by
`Encode` of Base64 (what `main` does in between, with the table of groups, is in Discovery, and
may end the program by itself); a negative active number passes the check, and what `LightsDown` then reads
is not followed.

Properties: `AsWritten`, each configuration has the numbers of its own lines, however names,
comments and settings are mixed; `LastIsDark`, the configuration that fills the table is
created by its N line, and all its lines come too late, so that it has power and brightness
zero and can be chosen; `ReadIfReadable`, what keeps `ReadConfig` from reading the file through is a line
that counts and cannot be read, or a number before any name; `VlcDecodesLogin`, VLC's
decoder, defined on bits, finds the last user name and password of the file.

### Ticks: times

The other modules let a deadline pass at any moment. `Ticks` has the arithmetic, a
counter modulo W and the two comparisons, and theorems about it: a comparison is right while
the counter does not wrap; a delay that would end beyond the wrap has passed at once; one
that ends before the wrap and is looked at behind it is a round (49.7 days) late; one that
ends on the last tick never passes. No run has the module, for there is no state to explore.
The fairness of deadlines elsewhere (`CallReturns`) assumes that the counter does not wrap
during the wait.

### MC modules

`MCSetColorAndPower`, `MCLightControl`, `MCDiscovery`, `MCCache` and `MCConfigFile` extend a
module with values for constants that a .cfg cannot write (records, sequences, strings with
blanks).

## The runs

| run | question | bounds, and why they are enough |
|---|---|---|
| `set_color_and_power` | safety of the exchange; does a call return; is it a BulbCall? | two brightness and power values tell commands from states; 3 attempts make a retry overlap the attempt before, with a first, a middle and a last one; 2 packets let a late acknowledgement meet a command; modulus 4 lets the counter wrap; restarts; for `CallReturns` nothing is assumed of network, bulb or callers. 173,581 states |
| `saves_entry_state` | is the comment at Manager.cpp:154-156 true? (no) | 2 attempts, 3 packets |
| `light_control` | snapshots and configurations, unreliable network | 2 devices: one call fails, one does not; 3 brightness levels: user's, configured, dark; one configuration. 734,895 states |
| `light_control_reliable` | are restored lights restored, what may a restart spoil, and is every lamp treated as DimmedLamp says? | 2 devices; one configuration; start-up with and without switching on; restarts anywhere; the clock passes a saved time at any moment. 260,162 states |
| `light_control_live` | do films dim and ends restore? | 2 devices, one of which the user wants off, so that it is on only if the start has switched it on; one configuration; no restarts, and so of the two ways into `mistaken` only the old report. 144,160 states |
| `discovery` | consistency of the table | 2 bulbs, one nameless; 2 groups; every table of them that `ReadDevices` accepts, with empty groups, devices listed twice and bulbs that never answer; with and without the start-up loop; bulbs move; 2 packets on the network, answers to an earlier session among them. 1,472,824 states |
| `discovery_first_start` | does a first start survive? (not always) | no cache, 2 groups |
| `discovery_live` | is the pending save made? | 1 bulb, 1 group, nothing lost; with one bulb a save that leaves others out does not occur here (`StoredWhenSaved` of `discovery` is about that). 925 states |
| `vlc_poll` | reports, reconnection and hearing, VLC on this host | 3 attempts as in the code; one answer and a piece ahead of the reader, so that a chunk may end and begin in two answers; VLC may end and start. 103,160 states |
| `vlc_remote` | the same where connecting takes time (not heard) | as above |
| `start_up` | what does `ReadConfig` make of the configuration file? | a table of 4 (3 to choose, one of them the last) and files of up to 5 lines out of 14: enough for a full table with lines behind it, a neighbour's numbers, a last line that counts twice, a login of every length modulo 3. 512,607 states |
| `cache` | what does a start read? | 2 devices in one group, in two, or one in the group without a name; 2 handlers; 1 change of the table; all seven lines of a device, because fewer let a shifted reader succeed where the code's throws; handlers are symmetric. 1,421,438 states |

`CHECK_DEADLOCK FALSE` is given for the discovery runs, where `undefined` has no
successor, because after undefined behaviour nothing is known, and for `start_up`, where
reading a file ends. In all other runs deadlock is checked.

In `start_up` a 16-bit field gets 65537, and the range of a 32-bit field is taken as 2^20,
for TLC's integers end at 2^31. The theorems of ConfigFile hold for any widths.

The bounds `MaxInFlight`, `MaxRequests` and `MaxUnread` limit the network; what
exceeds them is lost, which UDP may do anyway, and in VlcPoll delayed. In
`discovery_live` nothing is lost and the network holds what the one bulb's
handshake puts there.

## Fairness

- *SetColorAndPower*: weak fairness of the manager's own steps and of deadlines
  (`Attempt`, `WaitExpires`, `Finish`, `DiscoverExpires`). A clock that runs justifies them;
  `WaitForPackets` computes its end from the local `lastRecvTime`, so no
  packet moves it. Nothing is assumed of the network.
- *LightControl*: `<>[][~Restart]_vars`, the program is not ended again and again for ever.
  Weak fairness of what the thread that has the lock does next (`LockHolder`) and of a reliable
  network. Strong fairness of `Discover`,
  `PollDown`, `PollRestore`: `std::mutex` promises no order, but each thread sleeps
  after releasing the lock, for seconds, so the lock is free again and
  again while another thread waits for it. The user, the player and the keys are
  not fair.
- *Discovery*: the same for `Discover`, weak fairness of the loops and of `main`; strong fairness of `ReadPacket`, because
  what has reached the socket's buffer stays there until some wait reads it.
- *VlcPoll*: weak fairness of the thread and the network; strong fairness of
  reading a chunk with a `<fullscreen>` tag in it: not every such tag arrives only
  after the poll's last attempt or meets a cut, inside it or right before it.

## The proofs

`SetColorAndPower_proofs`, `LightControl_proofs`, `Discovery_proofs`, `Cache_proofs`,
`Base64_proofs`, `ConfigFile_proofs`, `VlcPoll_proofs` and `Ticks` hold the theorems; each is for every value of the constants that
satisfies the module's named assumption (`ConstantsAssumption`, `ControlAssumption`,
`TableAssumption`, `CacheAssumption`, `ConfigFileAssumption`, `PollAssumption`; `Ticks` and
`Base64_proofs` state theirs in each theorem). Every step is checked by TLAPS. Every invariant
that a passing run checks is stated by a theorem.

**SetColorAndPower.** `TypeCorrect`, `AckWindowHolds`, `QuietCallReaches` and
`QuietCallSaves` follow from `IInv == TypeOK /\ RetriesLeft /\ HeardInWait /\ QuietCall`.
`TypeOK` alone does not keep `retries' = retries - 1` in range: `RetriesLeft` adds
that a call that attempts or waits has an attempt left. `HeardInWait` is `AckWindow`
with what the counter is when the wait has just ended. `QuietCall` says of a call
that began with an empty network where each acknowledgement can have come from:
only from the call's own commands, each on the network at most once per attempt, so
that in the first attempt two acknowledgements are one of each. `Implements` is the
refinement of BulbCall: initial states map to initial states, and each action to the
abstract one of its purpose or to a stutter; a lost packet is a command or a report that
`Network` lets go.

**LightControl.** `TypeCorrect`, `NoChangeIsForgotten` (with `LoopInv`: what the local
`success` of a loop implies of the devices it has visited), `SnapshotIsKept` (with
`EpisodeInv`: a dimmed device is `DOWN`, or `CONFIG_CHANGED` with a `prevLightState`
that is not `RESTORED`; a call that saves is not about one), `NeverDimmedSaved` and
`RestoredIsRestored` (with `MarkInv`: where the marks are between dimming and
restoring; the reported state of a device that is neither dimmed nor `outdated` is the user's).
`SnapshotIsTaken` needs `KeyInv`: a count of hotkeys and the two light states of a device
belong together. `MarkInv` survives a restart because the devices it would be
false of have become `mistaken`, and leave that set only by a call that finds a state of the
user's to restore. `Implements` refines BulbCall for every device: what happens to
another device is a stutter for this one. `ImplementsDimmedLamp` refines DimmedLamp under
`Reliable`, and needs `EpisodeInv`, `KeyInv` and `LampInv`: the second hotkey leaves
`CONFIG_CHANGED` in `prevLightState`, so that `DownSaves` tells one hotkey from two
(`ReturnShows`); the one report a bulb has is the true one; and no device is heard or dimmed while
`main` switches the lights on. `DimOrder` is the comparison of `LightsDown` with `Reference`.
The theorems hold for any finite set of devices and any configurations.

**Discovery.** `TypeCorrect`, `OneGroupHolds`, `TargetKept`, `NeverIsUndefined` and the
action property `AllStored`, from any table that `CachedTables` admits. `CallTargetKept` and
`NeverUndefined` are not inductive:
nothing in the iteration keeps its device alive. `IInv` adds what does: a `StateGroup`
of a bulb that was not moved names the group the bulb is in, however long it has been
on its way, and the table has the bulb nowhere else (`Placed`); a record has an empty name
only if its bulb has (`Named`); a call stands on a device of the group it visits until it
is erased (`Standing`); and a listed control group is neither left by such bulbs nor
purged (`ListedStays`). A device listed twice is `moved` from the start, since the table
expects it somewhere else; `OneGroup` asks more, that it is put right by the first answer that
names its group (`AddContents`: the handler leaves a device in one group). Lemmas say what each
handler does to a table: one moves a device
(`AddContents`), the others add and move none (`Follows`). The theorems hold for any
bulbs and groups, with or without losses and moves.

**Cache.** `TypeCorrect`, `ReadsBack`, `CutPrefix` and `NumbersOwn`. None of the properties is
inductive, for each compares the end of a start's reading with what a handler has done
in an earlier session. What joins them is a *trail*: the positions a handler goes through and
the line it writes between each and the next. `Inv` says that there is a trail and a list of
lines of which all this is true: each step of the trail is one that `WriteDevices` can
take (`Moves`), with one table all along if that did not change (`Exact`); every handler
stands at a position of it, and the file is the lines up to the furthest one, but for holes
(`Writing`); a reader between two devices stands at a position of the same
trail, and what it has read of the group up to there is what the handler wrote there
(`Reading`, `ReadingExact`). So neither the whole file nor the whole table is ever
computed from the other. `SameStep` is why several handlers share a trail: with one table
there is but one way to go on from a position, so that a handler overtaken by another
writes the same lines again. `PlaceIn` is why an iteration over an unchanged table never stands
on an erased node. `DeviceRead` is why a reader cannot slip: a count, a name and an
address are no numbers and `std::stoi` throws at the first two, so it accepts a device
only where the handler began one. The trail is existentially quantified, for no
variable of the program holds it; TLC has checked the same invariant with the trail as a history
variable before it was proved. The theorems hold for any groups, devices, numbers of fields,
handlers and changes, and any first table.

**Base64.** `QuadHoldsBytes`: four characters hold their three bytes. `DecodesWhatWasEncoded`:
the decoder, which knows only a stream of bits that ends before the padding, makes of
every encoded text the text. `ByteFromBits` is the step for one byte, which begins at one
of three places in a group; `EncodeShape` counts the padding.

**ConfigFile.** `TypeCorrect`, `NumbersAreAsWritten`, `LastConfigurationIsDark`,
`ReadableFilesAreRead`, `LoginIsDecoded` from `Inv`, which adds two things to the properties.
`Counted` is what `config` and `num_configs` are after the lines handled so far; without it
nothing says that a number goes to the configuration of the last name. `SettingsAsWritten` is
the same for the settings, so that `LoginIsDecoded` follows with `DecodesWhatWasEncoded`. They
hold for any set of lines, so for every file, and any size of the table. That a set of
positions has a last one (`HasGreatest`) is an induction; it follows from the library's theorem
that the order of the numbers is well-founded.

**VlcPoll.** `TypeCorrect` and `NeighboursMixed`, for any size of the buffer, number of
attempts and network, wherever the cuts are. `MixesNeighbours` alone says nothing of the stream. `StreamInv` does,
and counts from its end: the pieces left are whole answers but for the first, the last one is
the last that was sent, and numbers go down by one every four pieces. Reading and tearing at
the front change no distance from the end. Of four pieces in a row one has a given tag
(`FindNear`), so the two that `Report` finds are two apart (`TwoApart`): in one answer, or
the state in the answer before.

**Ticks.** Arithmetic on `t = W * Epoch(t) + GetTicks(t)`.

Only model-checked: all liveness properties (fairness is beyond the
prover), and that the three findings occur.

## What the models found

1. **A late report is saved** (`saves_entry_state`). The comment at
   Manager.cpp:155-156 relies on the lock to keep discovery out while new commands
   take effect. The lock does; but answers to an earlier `Discover` are handled inside
   the call's own wait. One that the bulb sends after it has executed the commands
   replaces the state the call then saves, and the dimmed state becomes the one to
   restore.
2. **A first start may use a null pointer** (`discovery_first_start`). Without a cache,
   when a bulb of another group answers and none of the control group does,
   `groups[group]` at Manager.cpp:319 inserts a null pointer and calls
   `DiscoveryDone` on it. main.cpp:156 does the same with a cache that lists other
   groups only. One that lists the control group without a device passes main.cpp:156, which
   tests for it, and meets the first case when the first `Discover` has purged the group.
3. **A VLC on another host may never be heard** (`vlc_remote`). WinSock.cpp:69-70
   expects connecting to take some time; `GetState` reads three times at once, takes
   "not connected" for a lost connection, and the next poll closes the socket and
   starts over.

## What is not modelled

- `Packet.h`: offsets, bit fields and byte order. The models know which packets exist
  and what they carry. A wrong offset would be found by a packet capture, not here.
- `UnixSocket.cpp`: the program does not compile without `WIN32`.
- `Color.h`: floating point, and never called.
- In Cache, what an iterator to an erased node does beyond skipping, ending or crashing: it may
  go backwards or write what is in that memory by then.
- In Discovery, groups without a name beside the others, which `WriteDevices` leaves out: a name
  is a name. What `SetColorAndPower` does in the calls of the loops: module SetColorAndPower.
- In Cache, a second handler that begins while the table is not the one the first began
  with: lines of different lengths would overlap. What two handlers have garbled is not
  followed beyond the start that reads it.
- In LightControl, devices that join while the program runs: one that joins while the
  lights are down has no saved state, and `LightsRestore` switches it off; one that joins
  before a hotkey is passed over. The table with such devices is module Discovery, which has no
  snapshots. The composition is the first item of the plan.
- A device that was passed over by `LightsDown` for its power and is visited by
  `LightsRestore` all the same is in the model, but no property speaks of it: the marks do
  not tell an old state of the user's from the last one.
- What is read for a negative active configuration: memory before the table.
- In the runs, the wrap of the clock; see Ticks.
- `ListGroups`, the `ToString` functions and the expiry at LIFXGroup.h:62-72 only print or
  have no caller.

## The plan

Done: SetColorAndPower and LightControl with restarts, both refining BulbCall, the second
also DimmedLamp; Discovery; VlcPoll; ConfigFile with Base64; Cache; Ticks; all of these with proofs.

What is left, in this order:

1. **Devices that join in LightControl** – a set of joined devices that grows in the waits, and
   a saved state of zeros for each. Property: what a device is restored to when it was not
   dimmed. It needs a smaller instance of the rest, and a new `MarkInv`.
2. **Marks in DimmedLamp** – what `NeverSavesDimmed` and `RestoredMeansRestored` say, stated and
   proved of the abstract lamp, so that they follow for LightControl from the refinement.
