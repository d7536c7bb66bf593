---------------------------- MODULE ChannelCatalog ----------------------------
(***************************************************************************)
(* The channels of the devices in SipService: the map each Device object   *)
(* keeps of its Channel objects, the rows of the Channel table in SQLite,  *)
(* the pollers that handle REGISTERs and catalogs, the HTTP threads that   *)
(* rename channels and number playbacks, and restarts of the process.      *)
(*                                                                         *)
(* What the properties tell apart of a Channel object is its SSRC, which   *)
(* is set before the object is shared and never again: an object is        *)
(* represented by its SSRC, and the other columns of a row are left out,   *)
(* as is the number of channels that a device reports.  Whether a device   *)
(* is online is the subject of DeviceRegistry.  Threads interleave between *)
(* any two accesses to the device table, a map, the SSRC counter or the    *)
(* database.                                                               *)
(***************************************************************************)
EXTENDS Naturals

CONSTANTS
  Devices,      \* GB28181 device ids
  Channels,     \* GB28181 channel ids; any device may announce any of them
  Objects,      \* Device objects; their number bounds those alive at once
  SsrcRange,    \* how many values SSRCConfig::_ssrc_idx has: 2^16
  Pollers,      \* event pollers
  Workers,      \* HTTP threads
  MaxRestarts,  \* bound: restarts of the process
  None

Threads == Pollers \cup Workers
SSRCs == 0 .. SsrcRange - 1

ASSUME CatalogAssumption ==
  /\ Pollers \cap Workers = {}
  /\ None \notin Devices \cup Channels \cup Objects \cup Nat
  /\ SsrcRange \in Nat \ {0}
  /\ MaxRestarts \in Nat

VARIABLES
  table,      \* DeviceManager::_devices
  deviceId,   \* Device::_device_id
  channels,   \* Device::_channels: the SSRC of the Channel under an id
  index,      \* SSRCConfig::_ssrc_idx
  again,      \* history: has it begun again from 0, by a wrap or a restart?
  saved,      \* does the device have a row in the table Device?
  row,        \* rows of the table Channel, by channel_id alone: their ssrc
  rowDevice,  \* and their device_id
  pc, dev, item, chan, todo,  \* per thread: next step, Device object, channel
                              \* id, SSRC of the Channel object, items to do
  found,      \* per thread: `find`, is the row to be updated?
  restarts

memory  == <<table, deviceId, channels, index, again>>
rows    == <<saved, row, rowDevice>>
control == <<pc, dev, item, chan, todo, found>>
vars    == <<memory, rows, control, restarts>>

Labels == {"idle", "add", "device", "each", "insert", "save", "number"}

TypeOK ==
  /\ table \in [Devices -> Objects \cup {None}]
  /\ deviceId \in [Objects -> Devices \cup {None}]
  /\ channels \in [Objects -> [Channels -> SSRCs \cup {None}]]
  /\ index \in SSRCs
  /\ again \in BOOLEAN
  /\ saved \in [Devices -> BOOLEAN]
  /\ row \in [Channels -> SSRCs \cup {None}]
  /\ rowDevice \in [Channels -> Devices \cup {None}]
  /\ pc \in [Threads -> Labels]
  /\ dev \in [Threads -> Objects \cup {None}]
  /\ item \in [Threads -> Channels \cup {None}]
  /\ chan \in [Threads -> SSRCs \cup {None}]
  /\ todo \in [Threads -> SUBSET Channels]
  /\ found \in [Threads -> BOOLEAN]
  /\ restarts \in 0 .. MaxRestarts

NoChannels == [c \in Channels |-> None]

PerThread(value) == [t \in Threads |-> value]

Init ==
  /\ table = [d \in Devices |-> None]
  /\ deviceId = [o \in Objects |-> None]
  /\ channels = [o \in Objects |-> NoChannels]
  /\ index = 0
  /\ again = FALSE
  /\ saved = [d \in Devices |-> FALSE]
  /\ row = [c \in Channels |-> None]
  /\ rowDevice = [c \in Channels |-> None]
  /\ pc = PerThread("idle")
  /\ dev = PerThread(None)
  /\ item = PerThread(None)
  /\ chan = PerThread(None)
  /\ todo = PerThread({})
  /\ found = PerThread(FALSE)
  /\ restarts = 0

-----------------------------------------------------------------------------
(* Helpers *)

\* A Device object that neither the table nor a thread refers to has been freed.
LiveObjects == ({table[d] : d \in Devices} \cup {dev[t] : t \in Threads}) \ {None}

Goto(t, label) == pc' = [pc EXCEPT ![t] = label]

\* The handler has saved its item and goes on with label.
Done(t, label) ==
  /\ Goto(t, label)
  /\ item' = [item EXCEPT ![t] = None]
  /\ chan' = [chan EXCEPT ![t] = None]
  /\ found' = [found EXCEPT ![t] = FALSE]

\* The Channel object by which the server knows a channel now, if it does.
Known(d, c) == IF table[d] = None THEN None ELSE channels[table[d]][c]

-----------------------------------------------------------------------------
(* RegisterHandler, as far as channels depend on it *)

\* A device that is not in the table gets a new Device object.  A REGISTER of one
\* that is changes nothing here.
Register(p) ==
  /\ pc[p] = "idle"
  /\ \E d \in Devices : \E o \in Objects \ LiveObjects :
       /\ table[d] = None
       /\ deviceId' = [deviceId EXCEPT ![o] = d]
       /\ channels' = [channels EXCEPT ![o] = NoChannels]
       /\ dev' = [dev EXCEPT ![p] = o]
  /\ Goto(p, "add")
  /\ UNCHANGED <<table, index, again, rows, item, chan, todo, found, restarts>>

\* The object goes into the table, whatever has been put there meanwhile.
AddDevice(p) ==
  /\ pc[p] = "add"
  /\ table' = [table EXCEPT ![deviceId[dev[p]]] = dev[p]]
  /\ Goto(p, "device")
  /\ UNCHANGED <<deviceId, channels, index, again, rows, dev, item, chan, todo, found,
                 restarts>>

\* The INSERT of a device that has a row fails, and nobody minds.
AddOrUpdateDevice(p) ==
  /\ pc[p] = "device"
  /\ saved' = [saved EXCEPT ![deviceId[dev[p]]] = TRUE]
  /\ dev' = [dev EXCEPT ![p] = None]
  /\ Goto(p, "idle")
  /\ UNCHANGED <<memory, row, rowDevice, item, chan, todo, found, restarts>>

\* A REGISTER with a wrong digest takes the device out of the table.
Refuse(p) ==
  /\ pc[p] = "idle"
  /\ \E d \in Devices : table[d] # None /\ table' = [table EXCEPT ![d] = None]
  /\ UNCHANGED <<deviceId, channels, index, again, rows, control, restarts>>

-----------------------------------------------------------------------------
(* SSRCConfig *)

\* Plausible bug: the counter does not wrap.
NextIndexUnbounded == index + 1

\* The counter is 16 bits wide.
NextIndex == (index + 1) % SsrcRange

GenerateSSRC ==
  /\ index' = NextIndex
  /\ again' = (again \/ NextIndex = 0)

-----------------------------------------------------------------------------
(* CatalogHandler *)

\* A catalog lists some channels; that of a device which is not in the table is
\* refused without any effect.
Catalog(p) ==
  /\ pc[p] = "idle"
  /\ \E d \in Devices :
       /\ table[d] # None
       /\ dev' = [dev EXCEPT ![p] = table[d]]
  /\ \E listed \in SUBSET Channels : todo' = [todo EXCEPT ![p] = listed]
  /\ Goto(p, "each")
  /\ UNCHANGED <<memory, rows, item, chan, found, restarts>>

Answer(p) ==
  /\ pc[p] = "each" /\ todo[p] = {}
  /\ dev' = [dev EXCEPT ![p] = None]
  /\ Goto(p, "idle")
  /\ UNCHANGED <<memory, rows, item, chan, todo, found, restarts>>

Take(p, c) ==
  /\ pc[p] = "each" /\ c \in todo[p]
  /\ todo' = [todo EXCEPT ![p] = @ \ {c}]
  /\ item' = [item EXCEPT ![p] = c]

\* The item's channel is in the map of the device.
KnownItem(p, c) ==
  /\ Take(p, c)
  /\ channels[dev[p]][c] # None
  /\ chan' = [chan EXCEPT ![p] = channels[dev[p]][c]]
  /\ found' = [found EXCEPT ![p] = TRUE]
  /\ Goto(p, "save")
  /\ UNCHANGED <<memory, rows, dev, restarts>>

\* Plausible bug: the row of a new channel is updated and not inserted.
NewItemUpdated(p, c) ==
  /\ Take(p, c)
  /\ channels[dev[p]][c] = None
  /\ chan' = [chan EXCEPT ![p] = index]
  /\ GenerateSSRC
  /\ found' = [found EXCEPT ![p] = TRUE]
  /\ Goto(p, "insert")
  /\ UNCHANGED <<table, deviceId, channels, rows, dev, restarts>>

\* Plausible bug: the SSRC is made of the counter, which is not advanced.
NewItemUnnumbered(p, c) ==
  /\ Take(p, c)
  /\ channels[dev[p]][c] = None
  /\ chan' = [chan EXCEPT ![p] = index]
  /\ found' = [found EXCEPT ![p] = FALSE]
  /\ Goto(p, "insert")
  /\ UNCHANGED <<memory, rows, dev, restarts>>

\* It is not: a new Channel with the next SSRC.
NewItem(p, c) ==
  /\ Take(p, c)
  /\ channels[dev[p]][c] = None
  /\ chan' = [chan EXCEPT ![p] = index]
  /\ GenerateSSRC
  /\ found' = [found EXCEPT ![p] = FALSE]
  /\ Goto(p, "insert")
  /\ UNCHANGED <<table, deviceId, channels, rows, dev, restarts>>

\* The new Channel replaces whatever is in the map by now.
InsertChannel(p) ==
  /\ pc[p] = "insert"
  /\ channels' = [channels EXCEPT ![dev[p]][item[p]] = chan[p]]
  /\ Goto(p, "save")
  /\ UNCHANGED <<table, deviceId, index, again, rows, dev, item, chan, todo, found,
                 restarts>>

\* INSERT fails when the channel id has a row, be it of another device; UPDATE
\* does nothing when the device has none.  Neither is an error to the caller.
AddOrUpdateChannel(t) ==
  LET c == item[t]
      d == deviceId[dev[t]]
      write == IF found[t] THEN rowDevice[c] = d ELSE rowDevice[c] = None
  IN  /\ row' = [row EXCEPT ![c] = IF write THEN chan[t] ELSE @]
      /\ rowDevice' = [rowDevice EXCEPT ![c] = IF write THEN d ELSE @]

SaveItem(p) ==
  /\ pc[p] = "save"
  /\ AddOrUpdateChannel(p)
  /\ Done(p, "each")
  /\ UNCHANGED <<memory, saved, dev, todo, restarts>>

-----------------------------------------------------------------------------
(* /set/channel/nickname and /record/play *)

\* Both look a channel up.  dev stands for the device id that the request names.
FindChannel(w) ==
  /\ pc[w] = "idle"
  /\ \E d \in Devices : \E c \in Channels :
       /\ Known(d, c) # None
       /\ dev' = [dev EXCEPT ![w] = table[d]]
       /\ item' = [item EXCEPT ![w] = c]
       /\ chan' = [chan EXCEPT ![w] = Known(d, c)]
  /\ found' = [found EXCEPT ![w] = TRUE]
  /\ Goto(w, "save") \/ Goto(w, "number")
  /\ UNCHANGED <<memory, rows, todo, restarts>>

\* A Channel that was inserted just now may have no channel id yet, so that the
\* UPDATE finds no row of it.
Unnamed(w) ==
  \E p \in Pollers : pc[p] = "save" /\ ~found[p] /\ item[p] = item[w] /\ chan[p] = chan[w]

SaveNickname(w) ==
  /\ pc[w] = "save"
  /\ AddOrUpdateChannel(w) \/ (Unnamed(w) /\ UNCHANGED <<row, rowDevice>>)
  /\ Done(w, "idle")
  /\ dev' = [dev EXCEPT ![w] = None]
  /\ UNCHANGED <<memory, saved, todo, restarts>>

\* Every playback takes an SSRC of its own from the same counter.
NumberPlayback(w) ==
  /\ pc[w] = "number"
  /\ GenerateSSRC
  /\ Done(w, "idle")
  /\ dev' = [dev EXCEPT ![w] = None]
  /\ UNCHANGED <<table, deviceId, channels, rows, todo, restarts>>

-----------------------------------------------------------------------------
\* The process stops at any moment; DeviceManager::Init then makes an object of
\* every row of the table Device and inserts the channels whose rows name it.
Restart ==
  /\ restarts < MaxRestarts
  /\ \E loaded \in [Devices -> Objects \cup {None}] :
     \E id \in [Objects -> Devices \cup {None}] :
       /\ \A d \in Devices : loaded[d] # None <=> saved[d]
       /\ \A d \in Devices : \A o \in Objects : loaded[d] = o <=> id[o] = d
       /\ table' = loaded
       /\ deviceId' = id
       /\ channels' = [o \in Objects |-> [c \in Channels |->
            IF id[o] # None /\ rowDevice[c] = id[o] THEN row[c] ELSE None]]
  /\ index' = 0
  /\ again' = TRUE
  /\ pc' = PerThread("idle")
  /\ dev' = PerThread(None)
  /\ item' = PerThread(None)
  /\ chan' = PerThread(None)
  /\ todo' = PerThread({})
  /\ found' = PerThread(FALSE)
  /\ restarts' = restarts + 1
  /\ UNCHANGED rows

-----------------------------------------------------------------------------
RegisterSteps(p) == Register(p) \/ AddDevice(p) \/ AddOrUpdateDevice(p) \/ Refuse(p)

CatalogSteps(p) ==
  \/ Catalog(p) \/ Answer(p) \/ InsertChannel(p) \/ SaveItem(p)
  \/ \E c \in Channels : KnownItem(p, c) \/ NewItem(p, c)

Next ==
  \/ \E p \in Pollers : RegisterSteps(p) \/ CatalogSteps(p)
  \/ \E w \in Workers : FindChannel(w) \/ SaveNickname(w) \/ NumberPlayback(w)
  \/ Restart

Spec == Init /\ [][Next]_vars

-----------------------------------------------------------------------------
(* Properties *)

\* A thread on its way to INSERT the row of a channel.
Inserting(t, c) == pc[t] \in {"insert", "save"} /\ item[t] = c /\ ~found[t]

\* A channel in the map of a Device object, even one that is no longer in the
\* table, has its row, or a handler is on its way to write it: a restart loses no
\* channel but one that is being added just then, or whose row is that of another
\* device which announced it first.
KnownChannelsAreSaved ==
  \A o \in Objects : \A c \in Channels :
    channels[o][c] # None => row[c] # None \/ \E t \in Threads : Inserting(t, c)

\* Until the counter begins again no SSRC names two channels, neither among those
\* that the server knows nor in the rows that it makes them of at its next start,
\* however many handlers replace Channel and Device objects of each other:
\* viewers in single-port mode find the stream of a channel by it.
UniqueSSRC ==
  ~again =>
    \A c, e \in Channels :
      /\ \A d, f \in Devices :
           Known(d, c) # None /\ Known(d, c) = Known(f, e) => d = f /\ c = e
      /\ row[c] # None /\ row[c] = row[e] => c = e

\* The SSRC of a channel is fixed when the channel is set up (README.md:26): viewers
\* in single-port mode have its stream address from it.
FixedSSRC ==
  [][\A d \in Devices : \A c \in Channels :
       Known(d, c) # None /\ Known(d, c)' # None => Known(d, c)' = Known(d, c)]_vars
=============================================================================
