# MyPods in TLA+

Models, model-checking configurations and machine-checked proofs for the
daemon of MyPods (`src/core`), which connects AirPods and other Bluetooth
headphones to a Linux computer. Every definition is translated from the C++
source; `PROJECT.json` maps each one to the lines it stands for.

    tlc -workers 2 -config AudioSwitch.cfg MCAudioSwitch.tla     # one run
    tlapm ControlChannelProofs.tla                               # one proof module

Contents: the system and its components · what is modelled, module by module ·
runs and bounds · fairness · proofs · where code and documentation disagree ·
what is not modelled · the plan.

## The system

The daemon is one process with many threads. For each pair of headphones it
holds a `Device` with *capabilities* (automatic switching, ear detection,
conversation awareness, noise control, ...), and two L2CAP channels: the AAP
control channel (`Client`) and, for AirPods, an ATT channel for hearing
settings. Threads meet in the capabilities:

| thread | started by | calls |
| --- | --- | --- |
| D-Bus | `DBusService` | connected/disconnected, `Reset` of capabilities |
| client worker | `Device` | `StartClient`, `StopClient`, ATT client |
| reader, writer | `Client`, one pair per session | `OnReceivedData`; sends the queue |
| hold worker | `AapAudioSwitchCapability` | `UpdateHold` every second |
| takeover worker | `TakeOver`, detached | connect, claim, route, resume |
| release worker | `Release`, detached | switches the card off |
| PulseAudio | `PulseAudioClient` | card listeners |
| MPRIS | `MprisService` | "something plays" |
| WebSocket | `main.cpp` | settings, "Move here", disconnect |

They talk through events (`Event<T>`: synchronous callbacks under a lock per
listener), atomics, a few mutexes, and detached threads.

### Components

**Automatic switching** (`AapAudioSwitchCapability.cpp`, `Device::RouteAudio`).
State: the atomics `ownsAudio`, `claimed`, `ownsReport`, `released`,
`reclaimed`, `sourceType`, `busy`, `cardSeen`, `routeWhenWorn`, `takeoverAt`;
the card's profile and the default output in PulseAudio; who the AirPods think
has them. Operations: `TakeOver`, its worker, `Release` and its worker,
`OnReceivedData`, `UpdateHold`, the card listener, `Reset`. Hard: six kinds of
thread write the same atomics without a lock; reports of the AirPods are late,
and a takeover ignores them for three seconds; the link may drop at any line.
Correct when: one takeover runs at a time and always ends; what it paused is
resumed; this computer and the AirPods end up agreeing on who has them; audio
that waited in the case comes on.

**Silent output** (second half of `UpdateHold`, `HoldWorker`,
`AudioEffects::HoldSink`). State: `holding`, `heldOutput`, `holdBlocked`, the
silent sink's process and node, the default output. While another device has
the AirPods in the user's ears, nothing plays from the speakers. Hard: every
step is a call to another process that may fail, and the decision rests on what
was read up to two seconds before. Correct when: the silent sink is there
exactly while an output is held, and the speakers always come back.

**Control channel** (`Device.cpp`, `Client.cpp`, `BlockingQueue.h`,
`AapDevice.h`). State: requests for the client worker and the number of
restarts, the session with its reader and writer and the queue between them,
`aapReady`. Operations: start, stop, delayed restart, disconnect on request,
`Shutdown`. Hard: a stop, a start and a delayed restart can be pending at once;
the reader of a session asks for the restart of the next; joins in a chain.
Correct when: a session never meets what is left of another one; a connection
that lasts gets its channel; `Shutdown` ends and leaves nothing.

**ATT settings channel** (`Att.cpp`, `AapDevice.cpp`). State: the request
queue, `busy`, the handle being read. Answers carry no handle: they are told by
the order of the requests. Hard: several pushers, AirPods that ignore requests,
restarts. Correct when: one request is outstanding, values reach the right
characteristic, nothing waits forever.

**Events** (`Event.h`). State: the listeners, each with a mutex and `alive`.
Hard: unsubscribing while another thread calls, or within the call. Correct
when: nobody is called after `Unsubscribe` returned.

**Conversation awareness** (`AapConversationAwarenessStateCapability.cpp`).
State: `duckGeneration`, `volumeBeforeDuck`, the sink's volume, `duckLock`.
Hard: a thread per report, in any order; a report in the middle of a ramp. Correct
when: the volume is lowered while the wearer speaks, and comes back to where it
was.

**Ear detection** (`EarDetectionPause.h`, the two ear detection capabilities).
State: `paused`, `inEarBeforePause`, the buds in the ears. Hard: a thread per
change, in any order; the other device. Correct when: putting a bud back resumes
exactly what taking it out paused.

**BLE scan** (`DBusBasedBleAdvertisingService.cpp`, `UpdateBleState` of
`DevicesInfoFetcher.cpp`). State: `_bleScanActive`, `_scanDesired`, the
subscription to devices that advertise, the discovery session at BlueZ.
Operations: start, stop, a pause every 15 s, a restart when the adapter comes
back. Hard: four kinds of thread, one lock that only some of them take, a restart
100 ms later whatever happened meanwhile. Correct when: the scan runs exactly
while somebody needs it, and comes back by itself.

**Lid popup** (`AppAnimationCapability.cpp`, `PopupAnimation.qml`). State: the
address the AirPods advertise from, the last advertisement, the quiet period, the
UI's popup with its timers. Operations: an advertisement, a connection, a lid
that falls silent; show, hide, dismiss. Hard: three threads decide under a lock
and fire after it, to a popup that holds back what it is told. Correct when: each
opening of the lid shows one popup, and it is gone once the AirPods are in use.

**Device registry** (`DevicesInfoFetcher.cpp`, `DBusService.cpp`,
`DBusDeviceInfo.cpp`). State: BlueZ's objects, the infos made from them, the map
of devices; the active device, the output, headphones on a jack. Operations:
objects added and removed, properties, the constructors' start, connections,
plugs, picks. Hard: a look and an insertion under two locks with seconds in
between; a device whose constructor reads what its own listener is told; workers
that coalesce. Correct when: the map lists what is paired, and the active device
is a connected one.

**Settings** (`SettingsService.cpp`). State: the table in memory, `config.toml`,
its temporary file and what was put aside. Operations: load with migration,
defaults and damaged files; save; its listeners. Hard: a crash or a failed write
anywhere; listeners that wait for threads that save. Correct when: the file
always is one whole table, and nobody waits for himself.

**Effect chain** (`AudioEffects.cpp`, `Device::RouteAudio`). State: the process in
front of one of the headphones, its configuration. Operations: `Apply`,
`StopFor`, `Stop`; from settings, cards, connections, the sound server's return
and signals. Hard: a route is three steps that others get between. Correct when:
connected headphones with an output have the effects saved for them, and nothing
outlives headphones or daemon.

**Battery**, **PulseAudio client**, **WebSocket server and `main`**, **other
headphones**, **UI**: not modelled; see the end.

## The modules

| module | what it is |
| --- | --- |
| `AapLink` | abstract specification: what capabilities see of link and channel |
| `ControlChannel` | client worker, session, queue, `Shutdown`; implements `AapLink` |
| `ControlChannelProofs` | its theorems |
| `AudioSwitch` | automatic switching, on top of `AapLink` |
| `AudioSwitchProofs` | its types, `OneTakeover`, `ResumesWhatItPaused`, `ConfirmedIsTheirsUnlessCrossed` |
| `MCAudioSwitch` | the environments TLC runs it in |
| `HoldOutput`, `HoldOutputProofs` | the silent output and its theorems |
| `AttQueue` | the ATT request queue between its four callers |
| `EventBus`, `EventBusProofs` | `Event<T>` and its theorems |
| `Ducking` | conversation awareness |
| `EarPause` | ear detection |
| `EffectChain` | the effect chain behind `RouteAudio` |
| `MCCapabilities` | `AttQueue`, `Ducking`, `EarPause`, `EffectChain` for TLC |
| `CapabilitiesProofs` | the theorems about these four |
| `BleScan` | the BLE scan |
| `LidPopup` | the popup, from the advertisement to the UI |
| `MCNearby` | `BleScan` and `LidPopup` for TLC |
| `NearbyProofs` | the theorems about these two |
| `DeviceRegistry` | from BlueZ's objects to the map of devices |
| `ActiveDevice` | which of them is the active one; jacks and outputs |
| `DurableSettings` | abstract specification: a table and a file that follows it |
| `Settings` | `config.toml` with crashes; implements `DurableSettings` |
| `SettingListeners` | who waits for whom when a setting is saved |
| `SettingsProofs` | the theorems about the file |
| `MCDevices` | the last five for TLC |
| `DevicesProofs` | the theorems about the registry, the active device and the locks |

`AudioSwitch` extends `AapLink`: the steps of the link are steps of the system,
and each takes along what the capability does with it (`Disconnects` is
`LinkDown` with `Reset`). `ControlChannel` instantiates `AapLink` with a
refinement mapping and has its specification as a property, so what
`AudioSwitch` assumes of the channel is what the client provides. The two are
not multiplied.

`MCCapabilities`, `MCNearby` and `MCDevices` put modules side by side that share
no state: the variable `part`, chosen at the start, says which of them moves in a
behaviour, and the others keep one initial state. A run then answers for each of
them what it would alone; nothing is learnt, and no time spent, on combinations
of, say, a damaged settings file and a volume half way down. Where modules do
meet, the one has what it sees of the other: `LidPopup` the scan that starts and
stops (`scanning`), `SettingListeners` the locks of scan and popup,
`DurableSettings` stands for the file.

A definition called *slip* in its comment is a plausible bug of the definition
below it, with the same parameters. No specification uses them: `PROJECT.json`
pairs each with the property that notices it.

### ControlChannel

`worker`, `reader`, `writer` and `owner` are program counters of the client
worker, the session's threads and the thread in `Shutdown`. A step is what runs
under one lock, or one call that may wait. `WorkerTakes` is the choice under
`_workerLock` (exit before stop before start), `WorkerStarts` and
`WorkerJoinsOld` are `Client::Start` up to its connect, `WorkerReopens` the
queue's `Reopen` with the two threads, `WorkerShakes` the init packets and
`OnClientStarted`. `ReaderTests` is the reader's look at `isStarted` that tells
a channel the headphones closed from one that was stopped, `ReaderFires` the
`closed` event with Device's listener. Packets are told apart by the session
in which they were queued.

Abstracted: the D-Bus thread's `_connected` and its request are one step (the
worker looks at the one only after the other); the three connect attempts and
the init packets are one step each; a delay may end early; a channel only opens
over a link.

### AudioSwitch

One step is what a thread does between two points where another can get in: a
wait, a call to another process, or a window between a test and what relies on
it. So the takeover worker has fourteen steps (`TakeLook` ... `TakeDone`), the
reader reads `InGrace` when it takes a report and acts on it in another step,
and `RouteAudio` is two halves under its own lock. `Claim` is three steps, the
packet, the flag and the report before it forgotten, for a takeover (`TakeClaim`,
`TakeClaimed`, `TakeForgets`) and for the hold worker (`HoldClaims`,
`HoldClaimed`, `HoldForgetsAgain`). `Release` is the packet with the note of the
report, then its flags with `released.exchange`, then the card's job. The history
variable `crossed` says that a yield has overtaken a claim between its packet and
its flag.

The AirPods are `podsOwner` and the reports under way in `inbox`. What the
user, the pods and the other device may do in a behaviour is the variable
`env`, taken from the constant `Environments`: each is a record of the
settings, the places of the pods, the reports, the profiles of a new card, and
bounds on playbacks, lost links, closed channels, moves and the other device's
takes. An environment per
hazard keeps the product of all of them out of the state space.

Abstracted: `connectedDevices`, `talkingDevices` and the messages to each
device are one answer of the AirPods; a claim reaches them if the channel is up
at that moment; HFP is "off"; players are one flag `paused` per worker; jobs of
the same kind coalesce. Not modelled: `MakeDefaultOutput` and
`RouteAudioAsync` on the user's request. The failed connect's `holdBlocked` is
in `HoldOutput` (`TakeoverFails`).

### HoldOutput

`HoldLooks` is what `UpdateHold` reads once, in the record `hold`;
`HoldDecides`, `HoldMakes` and `HoldGives` act on it later, with the sound
server, the user and a takeover in between. Each call to the server may fail,
and the server may be away (`default = ""`). The destructor is `exiting`: one
more pass, then the thread ends. Who has the AirPods is an environment here, in
the order a takeover changes it.

### AttQueue, EventBus, Ducking, EarPause

`AttQueue`: `SendNext` is `RequestQueue::Next` with the send, used by `Push` and
`Answered`; the callers are the client worker (`Connected`, `Reads`, `Stops`,
`Clears`), setters (a look at `IsStarted()`, then the push) and the reader. A
packet sent while the channel is not up is dropped. Two seconds are `overdue`.
Notifications are left out: they carry their handle and pass the queue by.

`EventBus`: `FireEvent` takes a snapshot (`Fire`), then per listener locks
`calling`, tests `alive` and calls (`Calls`, `Returns`); `Unsubscribe` erases
(`Drops`), waits for `calling` unless it is its own caller, and clears `alive`
(`Dropped`). Within a call a listener may subscribe and unsubscribe, itself or
others; it does not fire the event it listens to.

`Ducking`: `threads` are those of `Duck`, each with its generation; the
generation's test and the volume's change are one step of a ramp.
`ResetForgets` and `ResetBumps` are the two halves of `Reset`. The user does not
touch the volume, and a sink that comes back has the volume it had. `EarPause`:
each thread of `Changed` runs under the lock in one step, in any order;
`Reset` and the other device in between. The user changes players only while no
thread is under way; MPRIS calls succeed.

`EffectChain`: a thread waits in `waiting` (started by a card's change, it first
looks whether the headphones have effects at all), then holds `RouteAudio`'s lock
through `Looks`, `LoadEffectsConfig` and `Applies`, one step each. `Applied` is
`AudioEffects::Apply`: the same graph gets new gains, another one a new process.
`UserSets`, `SinkComes`, `StopEffects`, `Reconnected` and `SignalStops` are the
threads that come in between. The headphones are `BhfDevice`s: AirPods route
through a handover, which is `AudioSwitch`'s. Configurations are "flat", another
set of gains and another graph.

### BleScan, LidPopup

`BleScan`: `pc` has where each caller of the service is: the one in
`UpdateBleState` and the restarts the adapter's return starts. `Drops` and
`Subscribes` are `StartListening`, which takes no lock; `Locks`, `Desires` and
`StartThrows` are `StartScan`; `Stops` and `StopsListening` `StopScan`; `GapLooks`
to `GapFails` the duty cycle. `need` is what `ShouldScan` reads. Callers of
`UpdateBleState` that wait for its lock are one, since each reads anew; the
subscription to new devices stands for those to known ones. The fetcher lives as
long as the daemon: the service's destructor is left out.

`LidPopup`: `AdHandled` is the handler of an advertisement under `locker`,
`Connected` and `Disconnected` the listener of the connection, `Watches` the
thread that takes five seconds of silence for a closed lid; what each decides to
fire waits in `firing` until `FireAnimation`, which is the UI's `handleAnimation`.
`AddressRotates` changes the AirPods' random address. One pair of AirPods, whose
keys are known; batteries are two values; decryption is left out. Between two
openings the lid stays shut long enough to be noticed. `Dismiss` is the
close button, also while the popup outlasts its lid or fades.

### DeviceRegistry, ActiveDevice

`DeviceRegistry` follows one pair of headphones through the main thread, the root
proxy's and those of its infos. `signals` are BlueZ's to the root proxy, `props` those
to each info. `seen` is what an info knows, `job` what a thread is in the middle
of. `TryCreateDevice`, `Listens` and `Tries` are the service's, `Tells` and `Inserts` the fetcher's
handler, `ObjectRemoved` and `Forgets` the two halves of `TryRemoveDevice`. The
main thread goes through `GetManagedObjects` to `Subscribes`, and the fetcher
subscribes last. `ServicesResolved` does not go back to false in the model: it is
only looked at together with `Paired`, until the headphones are listed.

`ActiveDevice`: `Grows` is how a device is made (its `Init` listens, reads and
writes; the fetcher listens, inserts, selects), `Selected` is
`TrySelectNewActiveDevice`, the steps of `Runs` a detached worker of
`RefreshWiredSoon`, `Routes` a thread in `RouteAudio`. Addresses are numbers,
in the order of the map.

### Settings, SettingListeners

`Settings`: names stand for inodes and inodes have contents, so a file that is
written while another name stands for it is not hidden. `Opens`, `Writes`,
`Flushes`, `Renames` and `Abandons` are `WriteToFile`; `Fails` any of its error
returns; `Ends` a crash or a signal anywhere; `IsEdited` a file damaged by hand.
`Loads` is the constructor, with migration and defaults (`Fresh`). Three settings
stand for all: one that the user sets, its old name, and the AirPods' keys.
Written data reach the disk in order: a power cut that loses what was renamed is
not modelled.

`SettingListeners` has only locks: who has one (`owner`) and where each thread is.
The calls of a listener are a lock of their own, as in `EventBus`. `WaitsFor` says
whom a thread waits for there; a `Circle` of threads waits for ever.

## Runs

Eight runs pass; four find a statement of the repository that the code does not
keep (below).

| run | question | bounds |
| --- | --- | --- |
| `AudioSwitch` | takeovers exclude each other, always clear `busy` and resume players | 2 workers; 3 environments; 1 report under way |
| `AudioSwitchOwnership` | agreement with the AirPods; liveness | 1 worker; 4 environments; 1 report under way |
| `HoldOutput` | the silent output is there exactly when it should be | 2 speakers, 1 headset |
| `ControlChannel` | sessions, restarts, `Shutdown`, refinement of `AapLink` | 1 restart, 2 closes, 1 drop, 1 packet, 1 disconnect |
| `EventBus` | nobody is called who is gone | 3 threads, 2 listeners |
| `Capabilities` | answers, volume, players and effects end where they should | ATT: 2 handles, 2 setters, 3 writes, 2 stops; volume: 4 reports, 1 absence, ramps of 2 steps; ears: 2 players, 5 moves; effects: 2 headphones, 3 changes |
| `Nearby` | the scan runs when needed; one popup per opening of the lid | scan: 1 return of the adapter, 2 changes, 1 failure; popup: 2 addresses, 2 batteries, 3 moves |
| `Devices` | map, active headphones and file follow; who waits for whom | registry: 3 infos, 5 changes; active: 2 Bluetooth, 1 wired, 2 workers, 2 moves; file: 3 saves, 2 ends, 2 failures, 1 edit; locks: 2 advertising threads, 6 moves |

Why they are enough. Two takeover workers are the most that meet: `busy` is what
is in question, and a third adds nothing to an exchange. The four environments of
`AudioSwitchOwnership` have the other device take the AirPods in the middle of a
takeover, take them twice without a card, and stream, and the pods put in the case
and worn under either setting, so that a takeover the setting refuses meets a
waiting one. `MaxRestarts = 1` with two closes goes past the limit; the code's
five only repeats the step, and the bound is proved for every value. One packet
can be queued before, in and between sessions. Three threads on two listeners have
one fire, one unsubscribe from outside and one from within. Three writes queue
behind an outstanding request with the worker's reads before and after a stop.
Three reports, start, stop and either of the two again, are the shortest sequence
where a ramp back up is cut; the fourth is what comes after it, or a whole second
cycle. Two steps of a ramp have one place to be cut in. Five moves take two buds
out and put them back once more. Two headphones can take the chain from each
other, and three changes make one pair go while a route of the other is under way
and a setting was saved. One return of the adapter has its restart meet a stop, a
pause and a start; two changes are a need that goes and comes back. Three moves
open, shut and open the lid, or connect in the middle. Five changes let BlueZ's
object come, pair, resolve, go and come again; three infos are as many lives of
it. Two moves and two workers have a plug and a second one, a connection or a pick
while the first is looked at, from any state of the links; that more of either
change nothing is proved. Three saves with two ends have a save that a crash cuts,
one that fails, and one after a restart. Six moves put a saved setting, keys and
two advertisements on their way at once.

Deadlock is not checked where the system may really stop: `ControlChannel`
(after `Shutdown`), `Capabilities`, `Nearby` and `Devices` (the environment's
changes are used up and everybody is at rest, or the daemon is gone), `DuckingCut`
(so are the reports), `EventBus`, where listeners that unsubscribe each other from
within their calls wait for each other (`Event.h:18` warns of it;
`UnsubscribeReturns` holds for listeners that only unsubscribe themselves), and
`SettingListenersCircle`, whose question is a deadlock of some of the threads.

Properties worth a word:

- `OneTakeover` (AudioSwitch) has both directions: no second worker, and `busy`
  set only while there is one, on every way out.
- `ConfirmedIsTheirsUnlessCrossed`: a confirmed claim with no report under way is
  true at the AirPods' end. A takeover concludes "already ours" from it and sends
  nothing. It needs a channel that lasts, and no yield between a claim's packet and
  its flag: see below.
- `WaitedAudioComesOn`: its one excuse is a takeover refused by the setting while
  the audio waits, by name (`mode = 1`); every other way on is checked, under that
  setting too.
- `LearnsItLostThem`: also when the word comes in the grace, where the reader
  puts it aside for the hold worker.
- `NoThreadLeftOver` (ControlChannel): assigning over a running `std::thread`
  ends the program.
- `RestartsBounded` is `MaxRestarts + 2`, not `+ 1`: a stop left over from the
  connection before may end the first session.
- `ComesUp`: a connection that lasts ends with the channel up, with all the
  excuses the code has: `connect()` failed, the headphones closed it too often,
  or the user asked to disconnect.
- `NoSessionUnwanted` (BleScan): the duty cycle stops the discovery without the
  scan's lock and starts it again under it. It reads the wish again there, and
  that is all that keeps a pause from undoing a `StopScan`.
- `ScanComesBack`: also when the adapter comes on between a session that could
  not start and the note that it is wanted, where the adapter's thread sees no
  wish; the next pause starts it then.
- `MapFollowsUnlessMissed` (DeviceRegistry): a listener is there before the look
  that may find the properties complete, so that of the two one sees them.
- `ActiveFollows`, `OutputFollows` (ActiveDevice): each thread changes what it
  knows first and selects afterwards, so the last selection has seen everything;
  a worker lowers its flag before it looks, so what comes later has another one.
- `ImplementsDurable` (Settings): with crashes and failures between any two
  steps, one daemon's file goes from one whole table to another.
- `CircleOnlyUnderLocker` (SettingListeners): every deadlock there is has a save
  from under the popup's lock in it; without that the order of locks is sound.
- `LoweredUnlessCut` and `BroughtBackUnlessCut` (Ducking) are about the volume, not
  about what is noted of it: two reports of a kind in a row leave the note right and
  the volume wrong, so the ramps that were cut are told apart.
- `FollowsUnlessStrayed` (EarPause): what should play is kept beside the code's own
  `paused` and follows the declaration alone. Where the code departs from it, the
  departure is named (`PlaysOn`) and noted in `strayed`.
- The properties called `...Unless...` are what remains true of a sentence of the
  documentation once the circumstances that break it are told apart by a history
  variable (`strayed`, `cut`, `short`, `crossed`, `missed`, `early`,
  `overwritten`). The sentence itself is the property without the condition; which
  interleavings it fails in is said below.

## Fairness

Threads of the daemon that can run do (weak fairness of their steps, per worker
in `EventBus`, per thread in `BleScan` and `LidPopup`); the clock runs
(`GraceEnds`, the duty cycle, the popup's timers, the quiet period, the watch on
the lid); PulseAudio answers in the end (`ServerComes`). `_scanMutex` serves
everybody who keeps trying (strong fairness of `Locks`, `Stops` and `GapResumes`,
the only one): its holders do a call to BlueZ at most every 15 s, so a waiter
that lost for ever would have to lose to threads that mostly sleep. AirPods in
reach with the scan on advertise (`Advertises`). Nothing else is assumed of the
user, the link, the AirPods or the other device. Other mutexes are not assumed to
be fair. Liveness is only model-checked.

## Proofs

TLAPS checks the following for every value of the constants, the bounds
included. Every invariant and every action property a passing run checks is
stated by one of these theorems; `PROJECT.json` lists which by which. For a
module TLC runs beside others (`MCCapabilities`, `MCNearby`, `MCDevices`) the
theorem is about the specification TLC runs or about the module's own: a step of
the composition is a step of that module or leaves its variables alone, which
is the first step of each such proof. TLC checked every inductive invariant on
the small instance before it was proved.

`EventBusProofs` — `TypeCorrect`, `BusInvariant`, `NotCalled`, `CalledOneByOne`,
`NotEntered`. The inductive invariant `BusInv` says that a listener whose
`Unsubscribe` returned has `alive` clear (`DroppedIsDead`), that the lock of a
listener has one holder (`HoldsAlone`) and that only a holder is in the function
(`CallsUnderLock`). `NotCalledAfterUnsubscribe` is not inductive alone: the next
call depends on `alive`, the present one on the lock. Assumption:
`ListenersAssumption`.

`ControlChannelProofs` — `TypeCorrect`, then:

- `SessionInvariant`: ten conjuncts on who may be where. A channel is alive only
  in a started session; a session being joined is not started any more; once
  `Shutdown` stops the client the worker is gone; the reader and the writer come
  and go together, and while they are there either the session is started or
  somebody is joining them (`ThreadsHaveAJoiner`). The last one is what makes
  `NoThreadsYet` inductive, from which `NoThreadIsLeftOver` follows;
  `NothingIsLeft` follows from the conjuncts on Shutdown.
- `NoPacketIsStale` from `PacketInv`: all that waits was queued since the last
  session was opened, because `Reopen` empties the queue before it counts.
- `RestartsAreBounded` from `RestartsInv`: sessions opened, the one the worker is
  on its way to, and the one it was asked for, are at most the restarts counted
  plus two.
- `LinkImplemented`: each step of the client is a step of `AapLink` or a stutter,
  under the mapping of `Link`. The old session's end is the headphones' close as
  far as the capabilities can tell; a stop is one step there, three here.

Assumptions: `RestartsAssumption`, `BoundsAssumption`.

`AudioSwitchProofs` — `TypeCorrect`, `TakeoversExclude`, `PlayersAreResumed`, for
any number of workers, every set of environments and every bound. Each step of
the system moves a takeover on (`Moves`), ends it together with `busy` (`Ends`),
begins one while `busy` is clear (`Begins`) or leaves `take` and `busy` alone;
`TakeInvKept` shows that the four keep `TakeInv`. That invariant adds to
`OneTakeover` the types of the workers and `PausedOnceDecided`: a worker that has
not decided yet has paused nobody, which a worker in the idle state inherits.
`TypeOK` is proved one kind of value at a time: the flags, the environment, the
records of the card, the jobs and the workers, the reports under way
(`InboxStep`: an append of a report, the rest of the queue, or nothing left), the
reader and the hold worker. Assumption: `EnvironmentsAssumption`.

`ConfirmedClaimIsTheirs` needs more: reports are late, so what the AirPods said
last may be noted, in the reader's hand or anywhere in the queue.
`OthersUnconfirmed` says that while the other device owns them, a claim stands or
its packet is out (`Stands`) and nothing has `crossed`, the last of these is no
confirmation; `ReportJoins` and `ReportLeaves` are the lemmas on a queue whose last
report it is. Its hypothesis `ChannelsLast` (no environment drops the link or
closes the channel) is what the code needs: a word lost with its session leaves an
old confirmation standing, see the next section.

`HoldOutputProofs` — `TypeCorrect`, `NoSinkIsStray`, `SilenceIsAlwaysHeld`, for
any speakers and headsets and a sound server that may fail any call. `HoldInv`
adds where the worker is: between `HoldMakes` and its outcome there is a sink and
nothing held, and only something held is given back. `GivenBackUnlessLate` has
`~LateTakeovers` as its hypothesis, without which the run `HoldOutputGone`
refutes it; `LastPass` says that the last pass finds no takeover and a reason.

`CapabilitiesProofs`:

- ATT: `NoneIsStranded`, for AirPods that ignore requests or answer late. All
  callers go through `Next`, after which a request is outstanding or none waits
  (`NextLeavesNoneWaiting`), whatever was there before; so this needs neither
  types nor an assumption. `AnsweredAsAsked`, for AirPods that are not late
  (`~Late`): at most one request is unanswered, and it is the one the queue takes
  to be outstanding (`OnlyOneOut`), also across a stop.
- Conversation awareness: `AlwaysLoweredUnlessCut`, `AlwaysBroughtBackUnlessCut`. In
  `DuckInv` the thread with the newest generation stands for the last report
  until it is done (`NewestDecides`), the lock's holder is the one thread that
  ramps (`OneRamps`), the user's volume is the sink's, noted, or a ramp's target
  (`VolumeIsKept`), and a ramp down ends at the share of it and leaves the volume
  there (`LoweringIsKept`).
- Ear detection: `AlwaysFollowsUnlessStrayed`. `LeadsThere` says that the threads
  under way are those of the last changes and lead, each from what the one before
  leaves, from the players as they are to the players as they should be: a chain
  as long as there are threads, which a change extends at its end and a thread
  shortens at its front.
- Effects: `ChainAlwaysFollows`. Whoever should have the chain has it or a route is
  under way that will see to it (`InFront`), a chain with other effects than the
  saved ones has one too (`AsSaved`), and headphones that left have `StopEffects`
  still to come (`OfConnected`).

Assumption: `CapabilitiesAssumption`.

`NearbyProofs` — `NoSessionIsUnwanted`, for any number of restarts, changes and
failures. The property is inductive: a session starts under `_scanMutex`, either
in a `StartScan` that notes the wish before it lets go, or in a pause's end that
finds the wish; and `StopScan` holds the lock from dropping the wish to ending
the session. `AlwaysRestsAsNeeded`, of the same module: the updater is on its way
to what it decided last (`DoesAsDecided`), and a subscription is replaced before
another is made (`ListensOnce`). `AlwaysDownUnlessStrayed`: whoever is about to
hide the popup knows that no show will follow (`NoneFollows`), what is shown or
about to be is asked for or about to be hidden (`ShownIsAskedFor`), and a
dismissed popup is held back by the UI or asked for by nobody
(`DismissedStays`). Assumptions: `BoundsAssumption`, `NearbyAssumption`.

`SettingsProofs` — with one daemon (`OneDaemon`): `TypeCorrect`,
`FileAlwaysFollows`, `KeysAlwaysKept`, `DurableImplemented`. `FileInv` says that the
three names stand for different inodes (`Apart`), that the daemon writes only
the temporary one, which is the table in memory when it is renamed (`Writer`),
and that the file is a whole table unless it was damaged by hand (`Whole`). The
refinement needs one inode nobody stands for whenever one is opened; four are
enough for three names (`FourInodes`). With two daemons `KeysAreKept` is false.

`DevicesProofs`:

- `ActiveAlwaysFollows`: the selection is right or a thread is about to select
  (`SelectionInv`), and what counts as connected is, but for what its own thread
  has still to hear (`HeardInv`). The least and the greatest of a set of
  addresses, which the selection takes, exist by well-foundedness.
- `OutputAlwaysFollows`: a worker that will still look makes up for whatever was
  seen before it (`WorkersInv`, `JackInv`, `OutputInv`).
- `CirclesGoThroughLocker`: who is where holds exactly the locks of that place
  (`LockInv`); a circle without a save from under the popup's lock is then emptied
  place by place (`CircleThroughLocker`).
- `MapAlwaysFollows`: what the service knows is what BlueZ has but for the signals
  in their queue (`KnowsWhatIs`), what an info has seen of it leads to what is by
  way of the properties under way (`SeesWhatIs`, with `PathGrows` and `PathShrinks`
  on such queues), a paired one is announced or somebody will look again
  (`PairsWhatIs`), and the map has what was announced or will (`TellsWhatIs`,
  `MapsWhatIs`). All of it holds only until something is missed; `RegistryType`
  holds always.

Assumption: `DevicesAssumption`.

What is only model-checked: the liveness properties of the runs
(`LearnsItLostThem`, `TakeoverEnds`, `WaitedAudioComesOn`, `SpeakersFollow`,
`ShutdownCompletes`, `ComesUp`, `ClosesWhenTold`, `UnsubscribeReturns`,
`ScanComesBack`, `ShowsEveryOpening`), because the prover has no rules for
fairness and for what is enabled.

## Where code and documentation disagree

Runs in the project:

- `HoldOutputGone`: the destructor joins the hold worker before it unsubscribes
  from playbacks. One that starts meanwhile sets `busy`, and the last pass, which
  is to give the output back, returns early with the silent sink still the
  default (`AapAudioSwitchCapability.cpp:369`).
- `DuckingCut`: a second report that they stopped speaking cuts the ramp back up
  (`AapConversationAwarenessStateCapability.cpp:86`), finds nothing left to bring
  back (77-78), and the volume stays half way. (A new start cuts it too, and notes
  the half-way volume as the one to come back to, 72.)
- `EarPauseOrder`: the thread of the bud put back may run first; the players stay
  paused.
- `SettingListenersCircle`: `SettingsService.h:23-25` promises that a listener
  cannot deadlock against a writer. The listener of `DevicesInfoFetcher` stops the
  scan, which waits for the advertisement being handled, whose handler saves the
  popup's color under its lock (`AppAnimationCapability.cpp:75-77`) and waits for
  that listener. Likewise when the AAP reader saves the keys under the lock an
  advertisement waits for.

Properties kept in the modules that no run lists, since the code does not keep
them; put one in a cfg to see the behaviour:

- `KeptReportIsLookedAt` (AudioSwitch): an "owns connection 0" kept in the grace
  is only looked at with `claimed` set (cpp:353); after a link lost in the grace
  it never is.
- `LetGoTurnsCardOff`: `RouteAudio` switches on a card that is off without asking
  who owns the AirPods; a job that was still waiting does so after the release.
- `ClaimedOnThisConnection`: a worker whose link drops while it waits claims
  after `Reset`.
- `TakeoverNotUndone`: the grace is read before the report is handled; a takeover
  that begins in between is undone.
- `ConfirmedIsTheirs`: a yield of the reader between a claim's packet and its flag
  (cpp:524-527, 558-560) gives the AirPods back, and the flag is set after it; an
  answer then confirms a claim they no longer know, and the next takeover takes
  them to be ours already (R12, `docs/airpods-switching.md:34`: only once the
  AirPods confirmed the claim). With an environment that drops or closes the
  channel, an unread "owns connection 0" is lost with the session too, and
  `ownsReport` stays 1.
- `WaitedAudioComesOn` without its excuse: with the setting "When Last Connected
  to This Computer" the hold worker takes `routeWhenWorn` (cpp:341), a playback's
  takeover sets `busy`, the hold worker's finds it set (583), and the playback's
  is refused (602). The audio that waited never comes on (R6,
  `docs/airpods-switching.md:31`).
- `LoweredUnlessCut` (Ducking) without `short`: of two starts in a row the second
  cuts the first's ramp (cpp:86) and returns, as already lowered (70-71). The volume
  stays half way down (`README.md:68`).
- `FollowsUnlessStrayed` (EarPause) without `PlaysOn`: with one bud out and
  something paused for it, the user starts a player and takes the other bud out. It
  plays on: nothing is paused while something is (`EarDetectionPause.h:31`; h:15-16
  and `README.md:88` say that taking a bud out pauses). Likewise a thread on its way
  at `Reset` pauses afterwards, with something to resume later (h:58-60).
- `PickStands` (HoldOutput): an output picked while the worker waits for the
  silent sink is switched away from.
- `KeptClosed` (ControlChannel): a start the worker has already taken opens the
  channel after a disconnect was asked for; the stop comes next
  (`ClosesWhenTold` holds).
- `ReadyMeansUp`: `aapReady` ("the control channel is up", `AapDevice.h:78`) stays
  set over a channel the headphones closed.
- `RightHandle` (AttQueue) with `Late = TRUE`: an answer after the two seconds
  counts for the next request.
- `RestsAsNeeded` (BleScan): the restart 100 ms after the adapter came back asks
  nobody whether the scan is still wanted; after a `StopScan` it scans on.
- `ClosedOnceConnected` (LidPopup; "Once they connect, it closes",
  `README.md:50`): a show decided on before the connection and fired after its
  hide, or decided on between the listener and the end of the scan, stays up.
- `HeldOnlyWhileOpen` (`PopupAnimation.qml:27-29`): a popup closed by hand in the
  three seconds it outlasts its lid, or while it fades after that (36-39, the button
  at 335), holds back the popup of the next opening (64).
- `MapFollows` (DeviceRegistry): headphones removed while their device is being
  made stay in the map; what changes while the daemon starts, or before an info
  hears of its own properties, is missed.
- `KeysAreKept` (Settings) with two daemons: the second one loads and writes
  through the same temporary file (`main.cpp:574`) before it finds the port
  taken, so "must not truncate the settings, they hold the AirPods keys"
  (`SettingsService.cpp:45-46`) does not cover it.
- `ChainFollows` (EffectChain): a route that looked before the headphones went
  puts the chain back after `StopEffects` (`Device.cpp:340`), one under way when
  the signal comes puts it back after `Stop()` (`main.cpp:554-558`), and a card
  whose output came before the connection was heard is not looked at again.

Seen while reading, with no model: a second daemon constructs `AudioEffects`
(`main.cpp:561`) and thereby ends the chain of the running one before it finds
the port taken.

## Not modelled, and why

- `PulseAudioClient`: a request and its answer under one main-loop lock, and a
  loop that connects again. The other modules have its failures as outcomes of
  their calls, its restart in `EffectChain` and `HoldOutput`.
- Battery: one value per bud, taken over from the last report.
- Of the settings file: one that is there and cannot be opened
  (`SettingsService.cpp:28-29`), a damaged one that cannot be put aside (39), and a
  second damaged one, which takes the place of the first. Of the active device:
  `ActiveFollows` says that it is connected, not which of several it is
  (`README.md:98` says the one connected last; the fallback takes the map's last).
- WebSocket server and `main`: JSON, and dispatch on one loop. Its thread is a
  caller of modelled operations; the daemon's start and end are in `Settings`,
  `DeviceRegistry` and `EffectChain`.
- Galaxy Buds and Zik: packet codecs with a value per capability; their channel
  is `ControlChannel`'s, their ear detection `EarPause`'s.
- The UI but for its popup: Qt widgets and a WebSocket client.
- The daemon's exit when the adapter or bluetoothd goes; pid files and head
  tracking of the effect chain; `MakeDefaultOutput`; pairing.
- Bytes on the wire, JSON, D-Bus marshalling, filters and presets: formatting and
  numerics. Windows variants share the interfaces. Two copies of a vendored JSON
  parser are two thirds of the lines under `src/`.

BlueZ, PulseAudio, MPRIS, the file system and the AirPods are environments,
modelled from how the code uses them. Out of the prover's reach, so only
model-checked: liveness, and the actions' enabling conditions.

## Plan

The components that carry the program's own state and threads are modelled, and
every safety property a passing run checks is a theorem as well. What is left,
in this order:

1. The safety cores of the liveness properties, as invariants that say who will
   act: that a scan which is desired and not running has a pause or a restart to
   come (`ScanComesBack`), that a connection which lasts and has no channel has a
   request waiting for the worker (`ComesUp`).
2. `EventBus`: that listeners which only unsubscribe themselves never wait for
   each other in a circle, as `CirclesGoThroughLocker` does for the settings.
