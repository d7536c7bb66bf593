---------------------------- MODULE DeviceRegistry ----------------------------
(***************************************************************************)
(* Registration and presence of devices in SipService: the device table    *)
(* (DeviceManager), the Device objects, the rows of the Device table in    *)
(* SQLite, the pollers that run REGISTER, Keepalive and DeviceInfo         *)
(* handlers, the timer that marks silent devices offline, the HTTP threads *)
(* that edit a device, and restarts of the process.                        *)
(*                                                                         *)
(* Threads interleave between any two accesses to shared state.  Device    *)
(* fields have no lock; the table has one, DeviceManager::_mutex, which    *)
(* the timer holds for a whole sweep.                                      *)
(***************************************************************************)
EXTENDS Naturals, FiniteSets

CONSTANTS
  Devices,      \* GB28181 device ids
  Objects,      \* Device objects that exist at the same time
  Addresses,    \* ip and port a device is reached at
  Notes,        \* values of the descriptive fields: name, nickname, stream ip
  Blank,        \* those of a new Device
  Pollers,      \* event pollers
  Workers,      \* HTTP threads
  MaxRestarts,  \* bound: restarts of the process
  None

Threads == Pollers \cup Workers
Profile == [addr : Addresses, note : Notes]

ASSUME RegistryAssumption ==
  /\ Pollers \cap Workers = {}
  /\ None \notin Devices \cup Objects \cup Addresses \cup Notes \cup Threads
  /\ None \notin Profile
  /\ Blank \in Notes
  /\ MaxRestarts \in Nat

VARIABLES
  table,       \* DeviceManager::_devices
  addr, note,  \* Device::_ip and _port; its other saved fields
  online,      \* Device::_status is 1
  registered,  \* Device::_registered
  fresh,       \* is Device::_last_time at most 180 s old?
  row,         \* rows of the table Device in SQLite, by device_id
  sweeper,     \* the poller in CheckDeviceStatus, which holds _mutex
  todo,        \* devices its sweep has still to look at
  pc, req, obj, bound,  \* per thread: next step, request, device object,
                        \* profile bound to its SQL statement
  found,       \* per thread: `find` of the REGISTER handler
  said,        \* per thread: what the handler has just sent
  restarts

object  == <<addr, note, online, registered, fresh>>
timer   == <<sweeper, todo>>
control == <<pc, req, obj, bound, found, said>>
vars    == <<table, object, row, timer, control, restarts>>

RegisterKinds == {"register", "logout"}   \* logout: Expires is 0
Request ==
  [kind : RegisterKinds, dev : Devices, arg : Addresses]
    \cup [kind : {"hello", "misdirected", "mistyped", "keepalive"}, dev : Devices,
          arg : {None}]
    \cup [kind : {"info", "nickname", "streamIP"}, dev : Devices, arg : Notes]
HttpKinds == {"nickname", "streamIP"}
EditKinds == HttpKinds \cup {"info"}
Labels == {"idle", "refuse", "reject", "remove", "accept", "find", "add",
           "address", "register", "online", "touch", "check", "describe",
           "answer", "bind", "execute", "query", "done", "sweep", "offline", "unregister"}
Messages == {"ok", "unauthorized", "badRequest", "query"}

TypeOK ==
  /\ table \in [Devices -> Objects \cup {None}]
  /\ addr \in [Objects -> Addresses \cup {None}]
  /\ note \in [Objects -> Notes \cup {None}]
  /\ online \in [Objects -> BOOLEAN]
  /\ registered \in [Objects -> BOOLEAN]
  /\ fresh \in [Objects -> BOOLEAN]
  /\ row \in [Devices -> Profile \cup {None}]
  /\ sweeper \in Pollers \cup {None}
  /\ todo \in SUBSET Devices
  /\ pc \in [Threads -> Labels]
  /\ req \in [Threads -> Request \cup {None}]
  /\ obj \in [Threads -> Objects \cup {None}]
  /\ bound \in [Threads -> Profile \cup {None}]
  /\ found \in [Threads -> BOOLEAN]
  /\ said \in [Threads -> Messages \cup {None}]
  /\ restarts \in Nat

\* DeviceManager::Init on an empty database; restarts load the rows.
Init ==
  /\ table = [d \in Devices |-> None]
  /\ addr = [o \in Objects |-> None]
  /\ note = [o \in Objects |-> None]
  /\ online = [o \in Objects |-> FALSE]
  /\ registered = [o \in Objects |-> FALSE]
  /\ fresh = [o \in Objects |-> FALSE]
  /\ row = [d \in Devices |-> None]
  /\ sweeper = None
  /\ todo = {}
  /\ pc = [t \in Threads |-> "idle"]
  /\ req = [t \in Threads |-> None]
  /\ obj = [t \in Threads |-> None]
  /\ bound = [t \in Threads |-> None]
  /\ found = [t \in Threads |-> FALSE]
  /\ said = [t \in Threads |-> None]
  /\ restarts = 0

-----------------------------------------------------------------------------
(* Helpers *)

\* Objects that neither the table nor a thread refers to.
Free == {o \in Objects : (\A d \in Devices : table[d] # o)
                         /\ (\A t \in Threads : obj[t] # o)}

Goto(t, label) == pc' = [pc EXCEPT ![t] = label]

\* A step of t that changes fields of its object, or nothing but its place.
Step(t, from, to) ==
  /\ pc[t] = from
  /\ Goto(t, to)
  /\ UNCHANGED <<table, row, timer, req, obj, bound, found, said, restarts>>

\* SendResponse and SendMessage
Say(t, from, to, message) ==
  /\ pc[t] = from
  /\ Goto(t, to)
  /\ said' = [said EXCEPT ![t] = message]
  /\ UNCHANGED <<table, object, row, timer, req, obj, bound, found, restarts>>

Unlocked == sweeper = None

-----------------------------------------------------------------------------
(* Handlers begin and end *)

First(kind) ==
  CASE kind \in {"hello", "misdirected"} -> "refuse"
    [] kind = "mistyped"                 -> "reject"
    [] kind \in RegisterKinds            -> "accept"
    [] OTHER                             -> "find"

\* A poller takes a SIP request, an HTTP thread an edit of a device.
Begin(t, r) ==
  /\ pc[t] = "idle"
  /\ r.kind \in HttpKinds <=> t \in Workers
  /\ Goto(t, First(r.kind))
  /\ req' = [req EXCEPT ![t] = r]
  /\ UNCHANGED <<table, object, row, timer, obj, bound, found, said, restarts>>

Return(t) ==
  /\ pc[t] = "done"
  /\ Goto(t, "idle")
  /\ req' = [req EXCEPT ![t] = None]
  /\ obj' = [obj EXCEPT ![t] = None]
  /\ bound' = [bound EXCEPT ![t] = None]
  /\ found' = [found EXCEPT ![t] = FALSE]
  /\ said' = [said EXCEPT ![t] = None]
  /\ UNCHANGED <<table, object, row, timer, restarts>>

-----------------------------------------------------------------------------
(* RegisterHandler::HandleIncomingRequest *)

\* No credentials, or another server's id.
Refuse(t) ==
  \/ Say(t, "refuse", "done", "unauthorized") /\ req[t].kind = "hello"
  \/ Say(t, "refuse", "done", "badRequest") /\ req[t].kind = "misdirected"

\* The digest does not match: the device leaves the table, its row stays.
Reject(t) == Say(t, "reject", "remove", "unauthorized")

RemoveDevice(t) ==
  /\ Unlocked
  /\ pc[t] = "remove"
  /\ Goto(t, "done")
  /\ table' = [table EXCEPT ![req[t].dev] = None]
  /\ UNCHANGED <<object, row, timer, req, obj, bound, found, said, restarts>>

\* The digest matches, whatever Expires says: 200 goes out first.
Accept(t) == Say(t, "accept", "find", "ok")

\* DeviceManager::GetDevice finds the device of the request.
GetDevice(t, next) ==
  /\ Unlocked
  /\ pc[t] = "find"
  /\ table[req[t].dev] # None
  /\ Goto(t, next)
  /\ obj' = [obj EXCEPT ![t] = table[req[t].dev]]
  /\ found' = [found EXCEPT ![t] = TRUE]
  /\ UNCHANGED <<table, object, row, timer, req, bound, said, restarts>>

FindKnown(t) == GetDevice(t, "address") /\ req[t].kind \in RegisterKinds

\* A Device is constructed at address a.
NewDevice(t, a) ==
  /\ Unlocked
  /\ pc[t] = "find"
  /\ req[t].kind \in RegisterKinds
  /\ table[req[t].dev] = None
  /\ \E o \in Free :
       /\ obj' = [obj EXCEPT ![t] = o]
       /\ addr' = [addr EXCEPT ![o] = a]
       /\ note' = [note EXCEPT ![o] = Blank]
       /\ online' = [online EXCEPT ![o] = FALSE]
       /\ registered' = [registered EXCEPT ![o] = FALSE]
       /\ fresh' = [fresh EXCEPT ![o] = FALSE]
  /\ Goto(t, "add")
  /\ UNCHANGED <<table, row, timer, req, bound, found, said, restarts>>

\* Plausible bug: the constructor forgets the address.
NewWithoutAddress(t) == pc[t] = "find" /\ NewDevice(t, None)

\* GetDevice finds nothing.
FindNew(t) == pc[t] = "find" /\ NewDevice(t, req[t].arg)

AddDevice(t) ==
  /\ Unlocked
  /\ pc[t] = "add"
  /\ Goto(t, "register")
  /\ table' = [table EXCEPT ![req[t].dev] = obj[t]]
  /\ UNCHANGED <<object, row, timer, req, obj, bound, found, said, restarts>>

SetAddress(t) ==
  /\ Step(t, "address", "register")
  /\ addr' = [addr EXCEPT ![obj[t]] = req[t].arg]
  /\ UNCHANGED <<note, online, registered, fresh>>

SetRegistered(t) ==
  /\ Step(t, "register", "online")
  /\ registered' = [registered EXCEPT ![obj[t]] = TRUE]
  /\ UNCHANGED <<addr, note, online, fresh>>

\* Plausible bug: a Keepalive does not save the device.
OnlineUnsaved(t) ==
  /\ \/ Step(t, "online", "touch") /\ req[t].kind \in RegisterKinds
     \/ Step(t, "online", "answer") /\ req[t].kind = "keepalive"
  /\ online' = [online EXCEPT ![obj[t]] = TRUE]
  /\ UNCHANGED <<addr, note, registered, fresh>>

\* SetStatus(1); a Keepalive has refreshed the time already.
SetOnline(t) ==
  /\ \/ Step(t, "online", "touch") /\ req[t].kind \in RegisterKinds
     \/ Step(t, "online", "bind") /\ req[t].kind = "keepalive"
  /\ online' = [online EXCEPT ![obj[t]] = TRUE]
  /\ UNCHANGED <<addr, note, registered, fresh>>

UpdateLastTime(t) ==
  /\ \/ Step(t, "touch", "bind") /\ req[t].kind \in RegisterKinds
     \/ Step(t, "touch", "online") /\ req[t].kind = "keepalive"
  /\ fresh' = [fresh EXCEPT ![obj[t]] = TRUE]
  /\ UNCHANGED <<addr, note, online, registered>>

-----------------------------------------------------------------------------
(* DbManager::AddOrUpdateDevice *)

\* The statement takes the fields as they are now ...
Bind(t) ==
  /\ pc[t] = "bind"
  /\ Goto(t, "execute")
  /\ bound' = [bound EXCEPT ![t] = [addr |-> addr[obj[t]], note |-> note[obj[t]]]]
  /\ UNCHANGED <<table, object, row, timer, req, obj, found, said, restarts>>

AfterSave(t) ==
  CASE req[t].kind \in RegisterKinds -> "query"
    [] req[t].kind = "nickname"      -> "done"
    [] OTHER                         -> "answer"

\* Plausible bug: every save is an UPDATE.
AlwaysUpdate(t) ==
  /\ pc[t] = "execute"
  /\ Goto(t, AfterSave(t))
  /\ row' = IF row[req[t].dev] # None
              THEN [row EXCEPT ![req[t].dev] = bound[t]] ELSE row
  /\ UNCHANGED <<table, object, timer, req, obj, bound, found, said, restarts>>

\* ... and writes them later: INSERT fails if the row exists (primary key),
\* UPDATE changes nothing if it does not.
Execute(t) ==
  /\ pc[t] = "execute"
  /\ Goto(t, AfterSave(t))
  /\ row' = IF (row[req[t].dev] # None) = found[t]
              THEN [row EXCEPT ![req[t].dev] = bound[t]] ELSE row
  /\ UNCHANGED <<table, object, timer, req, obj, bound, found, said, restarts>>

\* DeviceInfoRequest and CatalogRequest
SendQueries(t) == Say(t, "query", "done", "query")

-----------------------------------------------------------------------------
(* HeartbeatHandler, DeviceInfoHandler and the HTTP edits *)

FindForKeepalive(t) == GetDevice(t, "check") /\ req[t].kind = "keepalive"

\* The device is known and registered.
IsRegistered(t) ==
  /\ Step(t, "check", "touch")
  /\ registered[obj[t]]
  /\ UNCHANGED object

\* A device that is not known, or known and not registered, is told so.
RefuseKeepalive(t) ==
  \/ /\ Say(t, "find", "done", "unauthorized")
     /\ req[t].kind = "keepalive"
     /\ Unlocked /\ table[req[t].dev] = None
  \/ Say(t, "check", "done", "unauthorized") /\ ~registered[obj[t]]

\* The row is saved before the answer goes out.
AnswerOk(t) == Say(t, "answer", "done", "ok")

FindForEdit(t) == GetDevice(t, "describe") /\ req[t].kind \in EditKinds

\* DeviceInfoHandler drops the message, HTTP answers "device not found".
EditUnknown(t) ==
  /\ Unlocked
  /\ Step(t, "find", "done")
  /\ req[t].kind \in EditKinds
  /\ table[req[t].dev] = None
  /\ UNCHANGED object

\* SetName and its like, SetNickName, SetStreamIP; only the last is not saved.
Describe(t) ==
  /\ \/ Step(t, "describe", "done") /\ req[t].kind = "streamIP"
     \/ Step(t, "describe", "bind") /\ req[t].kind # "streamIP"
  /\ note' = [note EXCEPT ![obj[t]] = req[t].arg]
  /\ UNCHANGED <<addr, online, registered, fresh>>

-----------------------------------------------------------------------------
(* DeviceManager::CheckDeviceStatus, every 60 s on a poller, under _mutex *)

StartSweep(p) ==
  /\ Unlocked
  /\ pc[p] = "idle"
  /\ Goto(p, "sweep")
  /\ sweeper' = p
  /\ todo' = {d \in Devices : table[d] # None}
  /\ UNCHANGED <<table, object, row, req, obj, bound, found, said, restarts>>

\* The time of the next device is compared with now.
CheckTime(p, d) ==
  /\ pc[p] = "sweep"
  /\ d \in todo
  /\ todo' = todo \ {d}
  /\ \/ fresh[table[d]] /\ UNCHANGED <<pc, obj>>
     \/ ~fresh[table[d]] /\ Goto(p, "offline") /\ obj' = [obj EXCEPT ![p] = table[d]]
  /\ UNCHANGED <<table, object, row, sweeper, req, bound, found, said, restarts>>

\* Plausible bug: SetStatus(0) forgets _registered.
StatusOnly(p) ==
  /\ Step(p, "offline", "sweep")
  /\ online' = [online EXCEPT ![obj[p]] = FALSE]
  /\ UNCHANGED <<addr, note, registered, fresh>>

\* SetStatus(0) writes two fields.
SetOffline(p) ==
  /\ Step(p, "offline", "unregister")
  /\ online' = [online EXCEPT ![obj[p]] = FALSE]
  /\ UNCHANGED <<addr, note, registered, fresh>>

ClearRegistered(p) ==
  /\ Step(p, "unregister", "sweep")
  /\ registered' = [registered EXCEPT ![obj[p]] = FALSE]
  /\ UNCHANGED <<addr, note, online, fresh>>

EndSweep(p) ==
  /\ pc[p] = "sweep"
  /\ todo = {}
  /\ Goto(p, "idle")
  /\ obj' = [obj EXCEPT ![p] = None]
  /\ sweeper' = None
  /\ UNCHANGED <<table, object, row, todo, req, bound, found, said, restarts>>

-----------------------------------------------------------------------------
(* Time and restarts *)

\* 180 s pass since the device was last heard of.
GrowStale(o) ==
  /\ fresh[o]
  /\ fresh' = [fresh EXCEPT ![o] = FALSE]
  /\ UNCHANGED <<table, addr, note, online, registered, row, timer, control, restarts>>

\* The process stops at any point and starts again: DeviceManager::Init makes
\* an offline device of every row.  The time a row holds is local and read
\* back as UTC, so that it may be old or not.
Restart ==
  /\ restarts < MaxRestarts
  /\ restarts' = restarts + 1
  /\ \E load \in [Devices -> Objects \cup {None}] :
       /\ \A d \in Devices : load[d] = None <=> row[d] = None
       /\ \A d, e \in Devices : load[d] # None /\ load[d] = load[e] => d = e
       /\ table' = load
       /\ \E home \in [Objects -> Addresses \cup {None}] :
            /\ \A d \in Devices : row[d] # None => home[load[d]] = row[d].addr
            /\ \A o \in Objects : (\A d \in Devices : load[d] # o) => home[o] = None
            /\ addr' = home
       /\ \E text \in [Objects -> Notes \cup {None}] :
            /\ \A d \in Devices : row[d] # None => text[load[d]] = row[d].note
            /\ \A o \in Objects : (\A d \in Devices : load[d] # o) => text[o] = None
            /\ note' = text
       /\ \E old \in SUBSET {o \in Objects : \E d \in Devices : load[d] = o} :
            fresh' = [o \in Objects |-> o \in old]
  /\ online' = [o \in Objects |-> FALSE]
  /\ registered' = [o \in Objects |-> FALSE]
  /\ sweeper' = None
  /\ todo' = {}
  /\ pc' = [t \in Threads |-> "idle"]
  /\ req' = [t \in Threads |-> None]
  /\ obj' = [t \in Threads |-> None]
  /\ bound' = [t \in Threads |-> None]
  /\ found' = [t \in Threads |-> FALSE]
  /\ said' = [t \in Threads |-> None]
  /\ UNCHANGED row

-----------------------------------------------------------------------------
(* Next-state relation *)

RegisterSteps(t) ==
  \/ Refuse(t) \/ Reject(t) \/ RemoveDevice(t) \/ Accept(t)
  \/ FindKnown(t) \/ FindNew(t) \/ AddDevice(t) \/ SetAddress(t)
  \/ SetRegistered(t) \/ SetOnline(t) \/ UpdateLastTime(t) \/ SendQueries(t)

MessageSteps(t) ==
  \/ FindForKeepalive(t) \/ IsRegistered(t) \/ RefuseKeepalive(t) \/ AnswerOk(t)
  \/ FindForEdit(t) \/ EditUnknown(t) \/ Describe(t)

HandlerSteps(t) ==
  RegisterSteps(t) \/ MessageSteps(t) \/ Bind(t) \/ Execute(t) \/ Return(t)

SweepSteps(p) ==
  \/ \E d \in Devices : CheckTime(p, d)
  \/ SetOffline(p) \/ ClearRegistered(p) \/ EndSweep(p)

Running ==
  \/ \E t \in Threads : HandlerSteps(t)
  \/ \E p \in Pollers : StartSweep(p) \/ SweepSteps(p)
  \/ \E o \in Objects : GrowStale(o)

Next ==
  \/ \E t \in Threads : \E r \in Request : Begin(t, r)
  \/ Running
  \/ Restart

Spec == Init /\ [][Next]_vars

-----------------------------------------------------------------------------
(* Properties *)

\* A device whose heartbeats are accepted is never left shown offline: when no
\* thread has the object in hand, a registered device has status 1.  It rests on
\* the order of SetRegistered and SetStatus in the REGISTER handler and of the
\* two writes of SetStatus(0) in the timer, which have no lock in common.
RegisteredIsOnline ==
  \A o \in Objects :
    registered[o] /\ (\A t \in Threads : obj[t] # o) => online[o]

\* A restart loses no device the server knew, unless the thread that added it
\* had not saved it yet: INSERT and UPDATE are chosen by what the table held,
\* and a failed digest removes the device from the table only.
RestartKeepsDevices ==
  [][restarts' # restarts =>
       \A d \in Devices :
         table[d] # None /\ (\A t \in Threads : obj[t] # table[d])
           => table'[d] # None]_vars
=============================================================================
