# Specifications of GB28181-Service

TLA+ specifications of the two programs of this repository: **SipService**, a
GB28181 SIP server that registers cameras and recorders, plays their channels
into a ZLMediaKit media server and offers an HTTP interface; and **SipClient**,
which simulates a GB28181 device. TLC checks the specifications on small
instances; the TLA+ proof system proves the most important safety properties for
any number of threads, devices, streams and calls.

Source paths below are relative to the root of the repository.

## 1. The system

### 1.1 Parts, state and operations

| Part | Where | State | Operations |
|---|---|---|---|
| Play sessions | `SipService/HttpServer.cpp`, `StreamManager.cpp` | `StreamManager::_streams` (stream id to session, `_mutex`); `CallSession`: `_call_id`, `_dialog_id`, `_is_connected`, a condition variable | `/play/start`, `/record/play/start`, `/play/stop`, `/record/play/stop`, `/play/stopall`, hooks of the media server |
| INVITE requests and call events | `SipRequest.cpp`, `EventHandler.cpp` | the session of the request | `InviteRequest::SendCall`, `CallHandler` (answered, closed) |
| SIP event loop | `SipServer.cpp`, `EventHandlerManager.cpp` | one eXosip context and receiving thread per transport; queues of the event pollers | receive, dispatch |
| Device registry | `DeviceManager.cpp`, `Device.cpp`, `EventHandler.cpp` | `_devices` (`_mutex`); `Device`: address, names, `_status`, `_registered`, `_last_time`, without a lock | REGISTER, Keepalive, DeviceInfo, status timer, `/set/device/*` |
| Database | `DbManager.cpp` | SQLite tables of devices and channels | `AddOrUpdateDevice`, `AddOrUpdateChannel`, the lists read at start |
| Channel catalog | `EventHandler.cpp`, `Device.cpp`, `SSRC_Config.cpp` | `Device::_channels` (`_mutex` of the device), `_channel_count`, the 16-bit SSRC counter | Catalog messages, `/set/channel/nickname` |
| Message requests | `SipRequest.cpp`, `RequestPool.cpp`, `HttpServer.cpp` | pool of requests by id (`_mutex`); `_b_wait`, `_b_finished`, a condition variable; the records of a query, without a lock | `/record/query`, `/preset/query`, `WaitResult`, the handlers of their answers |
| Media server client | `ZlmServer.cpp` | `_connected`, heartbeat time | `openRtpServer`, heartbeat |
| PTZ commands | `PtzCmd.cpp` | none | encode and parse |
| Device: registration | `SipClient/Device.cpp` | `_is_running`, `_register_success`, heartbeat thread | REGISTER, heartbeat, logout |
| Device: sessions | `SipClient/Device.cpp`, `HttpServer.cpp`, `HttpClient.cpp` | `_session_map` (`_session_mutex`), `Session::Used` | INVITE, ACK, BYE, CANCEL, INFO, hooks of the local media server, stop |
| Device: records, distribution | `SipClient/DbManager.cpp`, `DistributeManager.cpp` | SQLite index of recordings; list of pulled streams | record query, periodic comparison |

Two external programs matter: **eXosip2** (vendored) keeps dialogs and
transactions, reports events and sends ACK, BYE, CANCEL and REGISTER again by
itself; **ZLMediaKit** opens RTP ports, registers streams and calls the hooks
`on_stream_changed`, `on_stream_none_reader`, `on_stream_not_found` and
`on_rtp_server_timeout`.

### 1.2 How the parts interact

* HTTP threads (crow) serve the interface and the hooks. A play sends its INVITE
  and waits, in its own thread, for the register hook that another thread serves.
* The receiving thread of `SipServer` posts every SIP event to the poller with
  the least load. Two events of one call, or of one device, may run at the same
  time on two pollers; on one poller they run in order.
* `on_stream_not_found` posts a play to a poller too, where it waits like the
  others and holds back what is queued behind it.
* The status timer runs on a poller. It holds the mutex of the device table for a
  whole sweep; the fields of a device have no lock at all.
* In SipClient the SIP thread handles events one after the other; a hook thread
  and the main thread share the session table with it.

### 1.3 What is hard about it

1. **Interleaving without locks**: `CallSession` and `Device` fields are read and
   written by several threads, one field at a time.
2. **Check, then act**: Play looks for a session and stores another one after a
   round trip; OnCallInvite looks for a target and inserts later; the timer reads
   a time and sets a status later.
3. **Order**: events of a call overtake each other; hooks name a stream and not a
   session; an answer may come before the INVITE's call id is recorded, and a stop before its
   context is.
4. **Waiting**: plays wait on threads that have other work; condition variables have no
   predicate, so that a thread may wake up for nothing; a join holds a mutex.
5. **Restarts and loss**: the table is rebuilt from rows that were saved at some
   earlier time; REGISTERs are lost; passwords are wrong; addresses change; requests to
   the media server fail, or take effect after they have been given up.

`PROJECT.json` lists these hazards one by one, each at its line and with the
properties that cover it.

### 1.4 What makes each part correct

* Play sessions: a session that counts as playing, or was acknowledged, knows the
  dialog of its call, so that it can be hung up; a stop that returns has hung up;
  whatever is started ends; an answer is acknowledged; a stream that plays can be
  stopped; both ends of a call go through it in the same order.
* Device registry: a registered device is shown online; a restart forgets no
  device; a running device comes back after any disturbance and its row becomes
  what the server holds.
* Device sessions: the device loses track of no live stream that it has not tried to
  stop; two calls do not send one channel to one receiver; a call that is over leaves
  no session; a device that is told to stop stops, and starts nothing live from then on.
* Channel catalog: a channel that is known is, or is about to be, in the database;
  its SSRC is its own, and fixed.
* Message requests: a query is answered once, with records of its own, and with all of
  them once they have come; the last batch finishes it; whoever waits for an answer gets
  one.
* PTZ commands: the camera can tell from the frame which move, speed or preset was asked
  for.

## 2. Modules

| Module | Models | Extends |
|---|---|---|
| `MediaCall` | what the two ends of a call rely on (abstract) | |
| `CallSessions` | plays, stops, hooks and call events of SipService | instance of `MediaCall` |
| `DeviceRegistry` | registration and presence in SipService, its database rows, restarts | |
| `DeviceRegistration` | SipClient devices and the network beside that server | `DeviceRegistry` |
| `DeviceSessions` | the session table of a SipClient device | instance of `MediaCall` |
| `ChannelCatalog` | channels, their rows and SSRCs in SipService, restarts | |
| `QueryService` | what a record or preset query promises (abstract) | |
| `DeviceQueries` | queries: HTTP threads, request pool, batches of the device, pollers | instance of `QueryService` |
| `PtzCommands` | frames of PTZ and preset commands, and their parser | |
| `MC...` | symmetry sets and values for TLC | the module named |
| `..._proofs` | theorems and their proofs | the module named, `TLAPS` |

Each module has one action per step between two accesses to shared state, named
for the function of the code, or for the part of it, that it models. The control
state is a program counter per thread. Definitions marked "Plausible bug" are not
part of a specification: each is a mistake that could be made at that place and
that one of the properties detects.

### 2.1 CallSessions

| State | Code |
|---|---|
| `streams` | `StreamManager::_streams` |
| `streamOf`, `callId`, `context`, `dialogId`, `connected` | fields of a `CallSession` |
| `call` | the SIP call as the stack and the device see it |
| `sipEvents`, `queue` | events of the stack; tasks of each poller |
| `pc`, `arg`, `obj`, `todo` | what each HTTP thread and poller is doing |
| `started`, `media`, `rtpOpen`, `hooks` | media that has begun to arrive; streams and RTP ports of the media server; hooks on their way |

*Play* runs `Play` (is there a connected session?), `OpenRtp`, `AddStream`,
`SendInvite`, `SetCallID`, `SetContext`, `Await` (look up again), then `PlayTimeout`
or, after `StreamRegistered`, `PlayOk`. `WaitForStreamReady` waits without a predicate and
takes any wake-up for a success (`StreamManager.cpp:77`): `WakeSpuriously` may wake a
waiting play at any time, so nothing is claimed about what Play answers. *Stop* runs `Stop` or `StopAll` and `StopNext`, then
`Terminate`, `ClearConnected`. An *answer* runs `AnswerMatched` or `AnswerIgnored`,
`Connect`, `SendCallAck`; a *close* `CloseMatched` or `CloseIgnored`, `Disconnect`.
`HangUp` is `eXosip_call_terminate` as vendored: BYE with a dialog id, otherwise
CANCEL if the device has answered provisionally, which it need not have. The handlers
find a session by its call id, which is set before its context (`SipRequest.cpp:351`,
`:352`); `eXosip_call_terminate` with an id and a null context ends the process
(`Crash`), after which nothing runs.

A session and its call share one identifier, since `SendCall` sends at most one
INVITE per session. Looking at the table and writing `_dialog_id` are one step in
`AnswerMatched`: the id that is compared is set once, and the session that is
found is kept alive by its pointer. Names that are written together and read together
are one step.

**The contract of a call.** `CallSessions` and `DeviceSessions` model the two ends of the
same calls, each with the other as its environment: `MediaStarts` says when a device
sends, the events of `DeviceSessions` say when a server invites, acknowledges and hangs
up. `MediaCall` is what each assumes of the other: a call is invited once, answered once
and acknowledged once, each while it is up, and media flows from the acknowledgement on,
possibly beyond the end of the call that was acknowledged. `ImplementsContract` in both modules states that the
end implements it, with `Phase` mapping the state of a call and `sending` to the calls
whose media flows. Only live streams are in the contract: a recording is sent when
its hook comes, be it for another session of its period, which may be before the ACK or
after the call; `MayStart` lets a playback start with any call.

### 2.2 DeviceRegistry and DeviceRegistration

| State | Code |
|---|---|
| `table` | `DeviceManager::_devices` |
| `addr`, `note` | the saved fields of a `Device` object: address, and the others |
| `online`, `registered`, `fresh` | `_status`, `_registered`, is `_last_time` at most 180 s old? |
| `row` | rows of the table `Device` |
| `sweeper`, `todo` | `CheckDeviceStatus`, which holds `_mutex` |
| `pc`, `req`, `obj`, `bound`, `found`, `said` | what each thread is doing, with what |
| `running`, `reg`, `knows`, `beating`, `home` | a SipClient device and its REGISTER transaction |
| `inbox`, `answers` | messages between them |

A REGISTER is refused, rejected (wrong digest: the device leaves the table), or
accepted; then the object is found or made, added, given its address, set
registered, set online, its time updated, saved in two steps (`Bind` takes the
fields, `Execute` writes them, as INSERT or UPDATE according to what the *table*
held), and the device is queried. A Keepalive updates time and status and saves.
`Restart` stops the process between any two steps and loads the rows.

Objects may be used again once neither the table nor a thread refers to them, as
shared pointers allow. `UpdateRegistTime` and `UpdateLastTime` are one step, and so
are the two halves of an address. Requests of one device may be taken in any order,
which includes every order that several pollers can produce.

`DeviceRegistration` adds the devices: eXosip's REGISTER transaction with its
challenge, its repetition after 120 s and its refresh after 900 s, the heartbeat
thread, and `OnMessageRequestFailed`, by which a refused heartbeat makes the device
register again. Answers that a device does nothing about are left out (`Heeded`).

### 2.3 DeviceSessions

| State | Code |
|---|---|
| `channel`, `period`, `target` | what an INVITE asks for |
| `call`, `events`, `repeats` | its dialog; events of the stack in order; repeated ones |
| `sessions`, `used` | `_session_map`, `Session::Used` |
| `pc`, `cur`, `main` | SIP thread and main thread |
| `recording`, `file`, `sending`, `hooks` | the local media server |
| `late` | calls whose `startSendRtp` has timed out and may still take effect |
| `told` | history: live calls whose stream the media server was last told to stop |
| `closeAll` | the option `CloseAllWhenBye` |

The handlers are one step each, because they run under `_session_mutex`, except
OnCallInvite, whose look-up, insertion and answer are three. A hook is served under
`HttpServer::_mtx` and takes the session mutex. `StopSipClient` holds that mutex
from its loop over the sessions to the end of its join. Every
request to the media server may fail, and nobody looks at the result of `stopSendRtp`
(`Device.cpp:109`, `:346`, `:354`): `StopSendRtp` stops any part of the streams it was
called for, and `SendingEnds` is also a stop that takes effect late. A `startSendRtp`
that has timed out may take effect at once, later (`SendingStarts`) or never.
`stopSendRtp` names a stream and no SSRC and therefore stops every sender of it.
INFO messages that pause or change the speed are left out, as is the use of a
session that another thread erases at the same time (undefined behaviour).

### 2.4 ChannelCatalog

| State | Code |
|---|---|
| `table` | `DeviceManager::_devices` |
| `channels` | `Device::_channels` |
| `index` | `SSRCConfig::_ssrc_idx` |
| `saved`, `row`, `rowDevice` | rows of the tables `Device` and `Channel` |
| `pc`, `dev`, `item`, `chan`, `todo`, `found` | what each poller and HTTP thread is doing |
| `again` | history: has the counter begun again, by a wrap or a restart? |

A catalog takes its device (`Catalog`) and goes through its items: each is looked up
(`KnownItem`, or `NewItem` with the next SSRC), a new one put into the map
(`InsertChannel`), and saved (`SaveItem`) by INSERT if it was new and by UPDATE if it
was not. `channel_id` alone is the primary key, and any device may announce any channel,
so an INSERT fails where there is a row, be it another device's; it fails silently, and so
does an UPDATE where there is none. A first REGISTER makes a Device object (`Register`),
puts it into the table (`AddDevice`), perhaps in the place of another one that has
channels already, and saves it (`AddOrUpdateDevice`); one with a wrong digest takes the
device out of the table, with all its channels (`Refuse`). `FindChannel` begins
`/set/channel/nickname` (`SaveNickname`) and `/record/play` (`NumberPlayback`). A Channel
object is represented by its SSRC, which is set once; the other columns do not influence
what happens, nor does the channel count that a device shows, which an overlap of
catalogs makes wrong.

### 2.5 QueryService and DeviceQueries

| State | Code |
|---|---|
| `sn`, `kind`, `size` | `MessageRequest::_sn`; what was asked; `SumNum` of the answer |
| `pool`, `waiting`, `finished`, `records` | `RequestPool::_requests`, `_b_wait`, `_b_finished`, `_record_items` or `_preset_list` |
| `requests`, `messages`, `failures` | MESSAGEs on their way to and from the device; failures reported by the stack |
| `failed`, `lost`, `torn` | history: failed MESSAGEs, lost batches, vectors damaged by a race |
| `wpc`, `asked`, `answered`, `answer` | HTTP threads, and what their clients got |
| `pc`, `req`, `items`, `seen` | what each poller is doing |

A query runs `SendMessage`, `AddRequest`, `SetWait`, `WaitResult`, `Wait`, `Return`. `_cv.wait` has no
predicate, so that the thread may wake up for nothing (`WakeSpuriously`) and return what
there is: `Return` of a record query replies with the records received so far, that of a
preset query with an empty list unless it is finished. The
request enters the pool after it has been sent, and the thread begins to wait later
still, so the answer may come before either. The device sends records in batches of
`BatchSize` (six in the code), presets in one message. A poller finds the request
(`FindRequest`, `FindNoRequest`), inserts what came (`BeginInsert`, `EndInsert`: the
vector has no lock, and of what two pollers insert at once any part may get lost), and
finishes the request if it holds `SumNum` records (`OnRequestFinished`), which notifies
the thread and clears its flag. `HandleFailure` wakes the thread when its MESSAGE was refused
or not answered; a 200 does nothing (`EventHandlerManager.cpp:241`).

`QueryService` says what the two routes promise, with no threads and messages: a query
is asked, its records are complete at some point, and it is answered once: with records
of its own only, and with all of them if it is complete by then. An incomplete query may
be answered with any part, as the comment at `HttpServer.cpp:471` wants.
`ImplementsService` states that `DeviceQueries` implements it, with `finished` for
`complete` and the other variables of the same names. A reply that is made while a poller
inserts, a data race, reads the vector in one step.

### 2.6 PtzCommands

A behaviour is one command: `Ptz` or `Preset` builds the frame, `Understand` takes it
apart as `PtzParser` does. A frame is the sequence of its hexadecimal digits, each
number printed with at least two of them (`Hex`), as `setw(2)` does. The parser has no
caller in the repository; it is the only statement there of what a camera reads.
`Understood` compares moves, stops, speeds and presets with what the route was asked for,
and zooms with what `cmdString` was given: its comments and the parser agree that an
`inOut` of 1 is out and 2 is in, while `/ptz` gives 1 for `zoomin` (`HttpServer.cpp:307`).

## 3. What is checked

### 3.1 Runs that pass

| Run | Instance | Shows |
|---|---|---|
| `overlapping_plays` | two HTTP threads, two pollers, one channel, two calls, multi-port mode, addresses that change | `ConnectedHasDialog`, `AckedHasDialog`, `StopHangsUp`: no interleaving lets a session play, be acknowledged or be stopped without the dialog of its own call; `ImplementsContract` |
| `plays_end` | one HTTP thread, two pollers, one call, a channel and a recording in single-port mode, plays on demand, viewers that leave | `OperationsEnd`, `AnswerIsAcknowledged` under fairness, and `StopHangsUp` once more with the hooks that start and close plays |
| `device_presence` | two pollers, one device, three objects, a restart | `RegisteredIsOnline`, `RestartKeepsDevices` |
| `devices_return` | a device, its server, an HTTP thread, one disturbance of any kind | `DeviceComesBack` under fairness |
| `calls_on_device` | two calls, two channels, one period, two receivers, a repeated event, requests to the media server that fail or take effect late | `LiveCanBeStopped`, `OneSessionPerTarget`, `OverIsForgotten`; `StoppedStartsNothingLive`: an ACK that is handled while the device is being stopped starts no stream behind its back; `ImplementsContract` |
| `catalogs_overlap` | two devices that announce one channel, two objects, two pollers, an HTTP thread, SSRCs from 0 to 2, a restart | `KnownChannelsAreSaved`; `UniqueSSRC`: no SSRC names the channels of two devices until the counter begins again |
| `queries_answered` | two queries, one HTTP thread, two pollers, up to three records in batches of two, loss and failure, wake-ups without cause | `FinishedIsWhole`; `ImplementsService`: an answer has records of its own query only, and all of them when they have come; `UnfinishedIsUnderway`, `NoWakeupLost`: the last batch finishes the query and wakes who waits, whichever pollers run; `WaitersReturn` under fairness |
| `ptz_commands` | all commands with the values -3 to 300 and larger ones | `FrameIsValid`, `Understood` |

Each module with processes has one type invariant, checked in the first run of the module.

### 3.2 Disagreements between code and documentation

| Run | Property | What happens |
|---|---|---|
| `orphaned_call` | `StreamingIsStoppable` | two plays of a channel overlap, and the first session is replaced: `/play/stopall` no longer reaches its stream (`HttpServer.cpp:793`) |
| `stop_deadlock` | `DeviceStops` | `StopSipClient` joins the SIP thread while it holds the mutex that thread waits for (`SipClient/Device.cpp:108`) |
| `changing_ssrc` | `FixedSSRC` | two catalogs of a device overlap, both find a channel unknown, and the second Channel object replaces the first: the SSRC of the channel changes (`EventHandler.cpp:369`) |
| `query_never_ends` | `WaitsEnd` | the answer is handled before the thread begins to wait, or never comes: the wait has neither a predicate nor a time limit (`SipRequest.cpp:37`) |

`PROJECT.json` quotes the lines that say otherwise. More disagreements are steps of
the specifications, without a run of their own:

* A stream that registers between Play's look-up and its wait notifies nobody, and
  Play answers *timeout* for a stream that is there (`StreamManager.cpp:77`;
  `HttpServer.cpp:884` says it waits for the stream).
* The timer reads the time of a device, the device is heard of, and the timer sets it
  offline (`DeviceManager.cpp:118`; `:117` calls it a heartbeat timeout).
* The server never reads Expires: a logout registers the device (`EventHandler.cpp:141`;
  `SipClient/Device.cpp:164` sets expires to 0 in order to log out).
* Playbacks of two channels over one period share one recording
  (`SipClient/Structs.h:84`; `SipClient/Device.cpp:394` says the request determines the
  channel).
* `WaitForStreamReady` reports success when its wait wakes up without cause
  (`StreamManager.cpp:77`).
* An answer and a stop between `SetCallID` and the assignment of `exosip_context`
  (`SipRequest.cpp:351`) terminate the call with a null context.
* With two pollers, or with the no-reader hook, a finished call may be left connected and
  is then taken for a stream that exists (`SipServer.cpp:89`, `HttpServer.cpp:689`).
* A live stream whose `stopSendRtp` has failed goes on without a session, also after
  `StopSipClient` (`SipClient/Device.cpp:346`, `:109`).
* A device that announces a channel of another device has no row for it, and loses it at
  the next restart (`DbManager.cpp:318`).
* A device that is removed for a wrong digest has new SSRCs after its next catalog,
  while the rows keep the old ones until a catalog that finds the channels known;
  `README.md:26` calls the SSRC of a channel fixed.
* After a restart the SSRC counter begins at 0, so that a new channel gets the SSRC of
  an old one.
* `/ptz?command=zoomin` sends the bit that `PtzCmd.cpp:24` and `Test/Test.cpp` call zooming
  out, and speeds beyond 255 print three digits and shift the rest of the frame.

### 3.3 Bounds

* `Sessions` and `Calls` bound the number of INVITEs. Two are enough for every
  property that relates two calls: an overlap, a replaced session, a late hook of
  an earlier call, a shared target. When they are used up no play can begin, so
  these runs do not look for deadlock; `OperationsEnd` covers it.
* Two HTTP threads and two pollers: the handlers of one object conflict in pairs.
  `devices_return` has one poller and one object, since its question is whether the
  device comes back; the interleavings of pollers are `device_presence`'s.
* `MaxPending` bounds hooks that viewers cause, and `MaxRepeats` repeated events.
* `Schemas = 2`: a recording registers under two protocols, so that a second hook
  for the same recording is served after the first.
* `MaxRestarts`, `MaxDisturbances = 1`: one restart, move, wrong password or edit at
  any moment; a later one finds the system in a state of the same kind.
* `SsrcRange = 3` in `catalogs_overlap`: two pollers and a playback, then the counter
  wraps. Two devices with one channel id between them are the case of the shared primary
  key; two channels per device beside two pollers are beyond TLC, and left to the theorems.
* `MaxFiles = 3`, `BatchSize = 2`: none, a part of a batch, a batch, and a batch and a part.
  `MaxQueries = 2`: late batches of the first query meet the second one.
  `MaxLost = 1`, `MaxFailed = 1`: the network loses batches while no query or the first has,
  and one MESSAGE fails.
* `Objects = 3` in `device_presence`: one in the table and one in each poller's hand.

### 3.4 Fairness

* `CallSessions`: a thread that has begun goes on (`WF` of the steps of each play,
  stop and handler), the receiving loop runs, and `wait_for` expires. Nobody need
  play, stop, answer or hang up, no stream need start, and no wait need end but by its time
  limit (`WakeSpuriously` is not fair). A hook is served when an
  HTTP thread takes it, which is not assumed.
* `DeviceRegistration`: `WF` for the device's SIP and heartbeat threads, which loop
  for ever; `SF` for the handlers of the pollers, because `_mutex`, which the timer
  takes again and again, is handed over by the operating system sooner or later;
  `SF` for the delivery of each kind of request, because poller queues are first in,
  first out. Moves, edits, logouts, refreshes and restarts are not assumed to occur,
  and an HTTP thread may stop half-way.
* `DeviceQueries`: an HTTP thread goes on with the query it has begun, the device
  answers, and each poller handles what it is given. Nobody need ask, and nothing need
  get lost or fail, or wake up for nothing, so that what `WaitersReturn` exempts is not
  what makes it true.
* `DeviceSessions`, for `stop_deadlock` only: the SIP thread and the main thread go
  on whenever they can.

No symmetry is used in runs with liveness properties.

## 4. What is proved

The proofs hold for any constants that satisfy the assumptions named in the
modules (`CallAssumption`, `RegistryAssumption`, `RegistrationAssumption`,
`SessionAssumption`, `CatalogAssumption`, `QueryAssumption`, `PtzAssumption`), which say that
`None` is none of the values, that threads of different kinds differ, that bounds are
numbers, and that twice a speed is an `int`. No theorem assumes more.

| Theorem | Property |
|---|---|
| `CallSessions_proofs!TypeCorrect` | `TypeOK` |
| `PlayingCanBeStopped`, `AcknowledgedIsRecorded` | `ConnectedHasDialog`, `AckedHasDialog` |
| `StopEndsCall` | `StopHangsUp` |
| `ServerKeepsContract` | `ImplementsContract`: `Spec => Contract!Spec` |
| `DeviceRegistry_proofs!RegistryTypeCorrect` | `TypeOK` |
| `RegisteredStaysOnline`, `RestartsKeepDevices` | `RegisteredIsOnline`, `RestartKeepsDevices` |
| `DeviceRegistration_proofs!SystemImplementsRegistry` | `SystemSpec => Spec` of `DeviceRegistry` |
| `SystemKeepsOnline`, `SystemTypeCorrect` | `RegisteredIsOnline`, `SystemTypeOK` of the composed system |
| `DeviceSessions_proofs!SessionsTypeCorrect` | `TypeOK` |
| `LiveStaysStoppable`, `TargetsStayApart`, `OverStaysForgotten` | `LiveCanBeStopped`, `OneSessionPerTarget`, `OverIsForgotten` |
| `StoppedStaysSilent` | `StoppedStartsNothingLive` |
| `DeviceKeepsContract` | `ImplementsContract`: `Spec => Contract!Spec` |
| `ChannelCatalog_proofs!CatalogTypeCorrect`, `ChannelsAreSaved` | `TypeOK`, `KnownChannelsAreSaved` |
| `SSRCsAreUnique` | `UniqueSSRC` |
| `DeviceQueries_proofs!QueriesTypeCorrect`, `FinishedAreWhole` | `TypeOK`, `FinishedIsWhole` |
| `QueriesImplementService` | `ImplementsService`: `Spec => Service!Spec` |
| `NoAnswerLeftBehind`, `WakeupsArrive` | `UnfinishedIsUnderway`, `NoWakeupLost` |
| `BatchesPartition` | each record is in exactly one batch |
| `PtzCommands_proofs!FramesAreValid`, `CommandsAreUnderstood` | `FrameIsValid`, `Understood` |

**CallSessions.** None of the properties is inductive. The invariant `IInv` adds:
which labels a thread is at only with a session or stream in hand (`LabelInv`); a
stored session is stored under its own stream id (`TableInv`); a session records no
ids but its own (`IdInv`); an INVITE is sent once, after its session is stored
(`SendInv`); events are about answered calls (`EventInv`); and a handler past its look-up
has recorded the dialog (`ThreadInv`). `StopHangsUp` follows since a thread at `terminate`
holds a session that was connected when it looked, and a dialog id, once recorded,
stays: when `Terminate` goes on to clear the flag, and does not end the process for want of
a context, it has hung up by that id. The contract needs no more: every step leaves the
phase of each call alone or takes one call one phase further, and a live call sends only
when its stream has begun to, which `MediaStarts` does for an acknowledged one
(`StartedInv`: only of a session that has been stored).

**DeviceRegistry.** `PresenceInv`: a registered device that is shown offline is in
the hands of a thread between two writes that will put it right - the REGISTER
handler writes `_registered` first, `SetStatus(0)` writes it last. `SavedInv`: a device in
the table without a row is in the hands of the thread that added it. `FoundInv` and
`ProfileInv` support the latter: INSERT and UPDATE are chosen by `found`, and every
object in use has its fields. For the types of the composed system, `TInv` adds that a
handler has the request it answers in hand, so that what it sends is an answer to one.

**DeviceSessions.** `EventInv`: a pending event tells the truth about its dialog (an
ACK of an acknowledged call, a BYE of an ended one). `SenderInv`: who sends a live
stream, or may begin to late (`Begun`), has been acknowledged, so that neither CANCEL nor
the hooks of a recording can take its session without asking for its end, and has its
session or is among those whose stream the media server was told to stop. `TargetInv`:
between the look-up and the insertion other threads only take sessions away. `OverInv`: a
call that is over has its last event before it, in hand, or behind it.
`StoppedStartsNothingLive` puts these together: the loop of StopSipClient asks for the end
of each live stream that has a session, and the others were told to stop before
(`AllTold`); only the handler of an ACK gives another order, with the mutex free
(`OnlyAckStarts`), which StopSipClient holds until the join is over; and then the SIP thread
has exited (`StopInv`).

**ChannelCatalog.** `SavedInv` is inductive: a thread about to save has a channel in hand
(`HandInv`), the table holds each object under its device (`TableInv`), and a row has a
device with its SSRC (`RowInv`). `KnownChannelsAreSaved` then survives even the INSERT that
fails, because it fails on a row. For `UniqueSSRC`, `NameInv` says that until the counter
begins again every SSRC in a map, in a row or in the hands of a thread is below the
counter, and names one channel of one device only, whichever of these places it is in
(`Names`); `GenerateSSRC` is the only step that makes a new name, and takes it from the
counter.

**DeviceQueries.** The refinement mapping is the identity on `size`, `answered` and
`answer`, with `finished` for `complete`, so a step is a stutter unless it asks, finishes
or answers. That `Return` is an `Answer`, even of a thread that woke up for nothing, needs
that records are those of their query (`PartInv`), and that they are all there once the
query is finished. `FreshInv` is the heart of that: what is still to be inserted, in a
message or in a poller's hand, is in no vector and in one place only, because the batches
of an answer are disjoint (`PartsDisjoint`, from `BatchSize > 0` and multiplication alone).
So the number of records can equal `SumNum` only when all are there (`FinishedIsWhole`),
however the vector was damaged. `AskInv` says that a query has one thread and has not been
answered while the thread has it.

`UnfinishedIsUnderway` is the converse of wholeness, and takes a conservation law:
`UnderwayInv` says that, once the device has answered, every record of a query that lost
none is in its vector, in a batch on its way or with a poller (`Somewhere`; at first by
`BatchesPartition`), besides what the property says. A poller that counts while nothing is
on its way and no other poller is at work therefore counts them all and finishes the query.
`NoWakeupLost` is the safety part of `WaitersReturn`, with no assumption on fairness: what a
thread waits for stays on its way until it returns, although pollers set `_b_finished`, look
at `_b_wait`, notify and clear it in steps of their own. `SureToWake` derives from `IInv` that
a thread which waits for an unfinished query is in this position. What fairness
adds, that pollers take their steps, stays with TLC.

**PtzCommands.** A number below 256 has two digits which give it back (`HexTwo`, `HighLow`);
the frame of such numbers therefore has 16 digits and its bytes are the ones that went
in (`FrameBytes`). `IInv` records for a command the bytes that were sent; the two
properties follow by the cases of the command.

**Only model-checked.** Liveness (`OperationsEnd`, `AnswerIsAcknowledged`,
`DeviceComesBack`, `WaitersReturn`), since the prover does not reach fairness and ENABLED.

## 5. What is not modelled

* Parsing and formatting of SIP, SDP, XML and JSON, digest authentication,
  configuration, logging, and the vendored libraries.
* Walks of a table without its mutex during an insertion or erasure
  (`StreamManager.cpp:134`, `SipClient/Device.cpp:375`): undefined behaviour. The walk
  is one step of the model.
* A device that is in the table before its `exosip_context` is set
  (`EventHandler.cpp:157`, `:177`), so that a play may use a null context; errors of SQLite
  other than those of its keys.
* MESSAGEs that are delivered twice: the stack recognises a retransmission. The timeout
  timer of the request pool, which nothing starts, and `RemoveRequest`, which nothing
  calls: requests stay in the pool.
* Sub-channels (`InsertSubChannel` is reached for another parent id only, which the
  catalog never passes), `DeleteChannel` and `cmdLens`, which have no caller, and the lens,
  patrol and scan commands of the parser.
* The mobile position subscription, whose thread is never started, and the pull
  distribution of SipClient, one thread that compares a list every 30 s.
* How long a step takes.
* The playback counterpart of `LiveCanBeStopped`. It does not hold: a late unregister
  hook erases the session of a second playback of the same period.
* What Play and Playback answer: a wait that wakes up without cause makes any answer
  possible.

## 6. Plan

Done: the components above, in the order of their weight for the service. Left:

1. An abstract specification of a device (unknown, offline, online), implemented by
   `DeviceRegistry`.
2. The pull distribution of SipClient (`DistributeManager.cpp`).

## 7. Running it

    tlc -config OverlappingPlays.cfg MCCallSessions.tla
    tlapm CallSessions_proofs.tla

Every run takes less than four minutes with two workers; the proofs take some ten
minutes together.
