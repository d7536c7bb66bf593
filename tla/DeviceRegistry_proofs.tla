------------------------ MODULE DeviceRegistry_proofs ------------------------
(***************************************************************************)
(* Proofs about DeviceRegistry, for any sets of devices, objects and       *)
(* threads: type correctness, that a registered device is not left shown   *)
(* offline, and that a restart keeps the devices.                          *)
(***************************************************************************)
EXTENDS DeviceRegistry, TLAPS

Handling == Labels \ {"idle", "sweep", "offline", "unregister"}
Holding == {"add", "address", "register", "online", "touch", "check",
            "describe", "bind"}

\* What a thread has in hand at each of its steps.
RequestInv ==
  \A t \in Threads :
    /\ pc[t] \in Handling => req[t] \in Request
    /\ pc[t] \in {"accept", "add", "address", "register"}
         => req[t].kind \in RegisterKinds
    /\ pc[t] = "describe" => req[t].kind \in EditKinds
    /\ pc[t] \in Holding => obj[t] \in Objects
    /\ pc[t] = "execute" => bound[t] \in Profile

Whole(o) == addr[o] \in Addresses /\ note[o] \in Notes

\* An object the table or a thread refers to has its fields.
ProfileInv ==
  /\ \A d \in Devices : table[d] # None => Whole(table[d])
  /\ \A t \in Threads : obj[t] # None => Whole(obj[t])

\* Only a thread between two writes separates _registered from _status.
PresenceInv ==
  \A o \in Objects :
    registered[o] /\ ~online[o]
      => \E t \in Threads : obj[t] = o /\ pc[t] \in {"online", "unregister"}

\* Thread t has added the device d and not saved it yet.
Saving(t, d) ==
  /\ obj[t] = table[d]
  /\ pc[t] \in {"register", "online", "touch", "bind", "execute"}
  /\ req[t].kind \in RegisterKinds
  /\ req[t].dev = d
  /\ ~found[t]

FoundInv ==
  \A t \in Threads :
    pc[t] \in {"idle", "refuse", "reject", "remove", "accept", "find", "add",
               "sweep", "offline", "unregister"} => ~found[t]

SavedInv ==
  \A d \in Devices :
    table[d] # None /\ row[d] = None => \E t \in Threads : Saving(t, d)

TInv == TypeOK /\ RequestInv /\ ProfileInv
IInv == TInv /\ PresenceInv /\ FoundInv /\ SavedInv

-----------------------------------------------------------------------------
(* Constants *)

LEMMA NoneOutside ==
  /\ None \notin Devices /\ None \notin Objects /\ None \notin Addresses
  /\ None \notin Notes /\ None \notin Threads /\ None \notin Profile
  /\ Blank \in Notes
  BY RegistryAssumption

LEMMA RequestFields ==
  ASSUME NEW r \in Request
  PROVE  /\ r.dev \in Devices
         /\ r.kind \in RegisterKinds => r.arg \in Addresses
         /\ r.kind \in EditKinds => r.arg \in Notes
  BY DEF Request, RegisterKinds, EditKinds, HttpKinds

LEMMA ProfileFields ==
  ASSUME NEW p \in Profile
  PROVE  p.addr \in Addresses /\ p.note \in Notes
  BY DEF Profile

-----------------------------------------------------------------------------
(* Type correctness *)

LEMMA InitIInv == Init => IInv
  BY DEF Init, IInv, TInv, TypeOK, RequestInv, ProfileInv, PresenceInv, FoundInv,
         SavedInv, Labels, Handling, Holding, Whole

\* A step that changes nothing but the place of t, and fields of objects that
\* keep their types.
LEMMA StepTInv ==
  ASSUME TInv, NEW t \in Threads, NEW from \in Labels, NEW to \in Labels,
         Step(t, from, to),
         from \in Handling \/ to \notin Handling,
         to \in Holding => from \in Holding,
         to \in {"accept", "add", "address", "register"}
           => from \in {"accept", "add", "address", "register"},
         to # "describe", to # "execute",
         addr' \in [Objects -> Addresses \cup {None}],
         note' \in [Objects -> Notes \cup {None}],
         online' \in [Objects -> BOOLEAN],
         registered' \in [Objects -> BOOLEAN],
         fresh' \in [Objects -> BOOLEAN],
         \A o \in Objects : Whole(o) => Whole(o)'
  PROVE  TInv'
<1> USE NoneOutside DEF TInv, Step, Goto, timer
<1>1. TypeOK'
  BY DEF TypeOK
<1>2. RequestInv'
  BY DEF TypeOK, RequestInv
<1>3. ProfileInv'
  BY DEF TypeOK, ProfileInv
<1>4. QED
  BY <1>1, <1>2, <1>3

LEMMA SayTInv ==
  ASSUME TInv, NEW t \in Threads, NEW from \in Handling, NEW to \in Handling,
         NEW message \in Messages, Say(t, from, to, message),
         to \notin Holding,
         to \notin {"accept", "execute"}
  PROVE  TInv'
<1> USE NoneOutside DEF TInv, Say, Goto, timer, object
<1>1. TypeOK'
  BY DEF TypeOK, Handling
<1>2. RequestInv'
  BY DEF TypeOK, RequestInv, Holding
<1>3. ProfileInv'
  BY DEF TypeOK, ProfileInv, Whole
<1>4. QED
  BY <1>1, <1>2, <1>3

LEMMA BeginTInv ==
  ASSUME TInv, NEW t \in Threads, NEW r \in Request, Begin(t, r)
  PROVE  TInv'
<1> USE NoneOutside DEF TInv, Begin, Goto, timer, object
<1>1. /\ First(r.kind) \in {"refuse", "reject", "accept", "find"}
      /\ First(r.kind) = "accept" => r.kind \in RegisterKinds
  BY DEF First, RegisterKinds
<1>2. TypeOK'
  BY <1>1 DEF TypeOK, Labels
<1>3. RequestInv'
  BY <1>1 DEF TypeOK, RequestInv, Handling, Holding
<1>4. ProfileInv'
  BY DEF TypeOK, ProfileInv, Whole
<1>5. QED
  BY <1>2, <1>3, <1>4

LEMMA ReturnTInv ==
  ASSUME TInv, NEW t \in Threads, Return(t)
  PROVE  TInv'
<1> USE NoneOutside DEF TInv, Return, Goto, timer, object
<1>1. TypeOK'
  BY DEF TypeOK, Labels
<1>2. RequestInv'
  BY DEF TypeOK, RequestInv, Handling, Holding
<1>3. ProfileInv'
  BY DEF TypeOK, ProfileInv, Whole
<1>4. QED
  BY <1>1, <1>2, <1>3

LEMMA GetDeviceTInv ==
  ASSUME TInv, NEW t \in Threads, NEW next \in {"address", "check", "describe"},
         GetDevice(t, next),
         next = "address" => req[t].kind \in RegisterKinds,
         next = "describe" => req[t].kind \in EditKinds
  PROVE  TInv'
<1> USE NoneOutside DEF TInv, GetDevice, Goto, timer, object
<1>1. req[t] \in Request
  BY DEF RequestInv, Handling, Labels, TypeOK
<1>2. req[t].dev \in Devices
  BY <1>1, RequestFields
<1>3. TypeOK'
  BY <1>2 DEF TypeOK, Labels
<1>4. RequestInv'
  BY <1>2 DEF TypeOK, RequestInv, Handling, Holding, Labels
<1>5. ProfileInv'
  BY <1>2 DEF TypeOK, ProfileInv, Whole
<1>6. QED
  BY <1>3, <1>4, <1>5

LEMMA FindNewTInv ==
  ASSUME TInv, NEW t \in Threads, FindNew(t)
  PROVE  TInv'
<1> USE NoneOutside DEF TInv, Goto, timer, object
<1>1. req[t] \in Request /\ req[t].kind \in RegisterKinds
  BY DEF FindNew, NewDevice, RequestInv, Handling, Labels, TypeOK
<1>2. req[t].arg \in Addresses
  BY <1>1, RequestFields
<1>3. TypeOK'
  BY <1>2 DEF FindNew, NewDevice, TypeOK, Labels, Free
<1>4. RequestInv'
  BY <1>1 DEF FindNew, NewDevice, TypeOK, RequestInv, Handling, Holding, Labels, Free
<1>5. ProfileInv'
  BY <1>2 DEF FindNew, NewDevice, TypeOK, ProfileInv, Whole, Free
<1>6. QED
  BY <1>3, <1>4, <1>5

LEMMA TableTInv ==
  ASSUME TInv, NEW t \in Threads, RemoveDevice(t) \/ AddDevice(t)
  PROVE  TInv'
<1> USE NoneOutside DEF TInv, RemoveDevice, AddDevice, Goto, timer, object
<1>1. TypeOK'
  BY DEF TypeOK, Labels
<1>2. RequestInv'
  BY DEF TypeOK, RequestInv, Handling, Holding, Labels
<1>3. ProfileInv'
  BY DEF TypeOK, ProfileInv, Whole, RequestInv
<1>4. QED
  BY <1>1, <1>2, <1>3

LEMMA SaveTInv ==
  ASSUME TInv, NEW t \in Threads, Bind(t) \/ Execute(t)
  PROVE  TInv'
<1> USE NoneOutside DEF TInv, Goto, timer, object
<1>1. CASE Bind(t)
  <2>1. obj[t] \in Objects /\ Whole(obj[t])
    BY <1>1 DEF Bind, RequestInv, Holding, ProfileInv
  <2>2. [addr |-> addr[obj[t]], note |-> note[obj[t]]] \in Profile
    BY <2>1 DEF Whole, Profile
  <2>3. TypeOK'
    BY <1>1, <2>2 DEF Bind, TypeOK, Labels
  <2>4. RequestInv'
    BY <1>1, <2>2 DEF Bind, TypeOK, RequestInv, Handling, Holding, Labels
  <2>5. ProfileInv'
    BY <1>1 DEF Bind, TypeOK, ProfileInv, Whole
  <2>6. QED
    BY <2>3, <2>4, <2>5
<1>2. CASE Execute(t)
  <2>1. AfterSave(t) \in {"query", "done", "answer"}
    BY DEF AfterSave
  <2>2. bound[t] \in Profile
    BY <1>2 DEF Execute, RequestInv
  <2>3. TypeOK'
    BY <1>2, <2>1, <2>2 DEF Execute, TypeOK, Labels
  <2>4. RequestInv'
    BY <1>2, <2>1 DEF Execute, TypeOK, RequestInv, Handling, Holding, Labels
  <2>5. ProfileInv'
    BY <1>2 DEF Execute, TypeOK, ProfileInv, Whole
  <2>6. QED
    BY <2>3, <2>4, <2>5
<1>3. QED
  BY <1>1, <1>2

LEMMA DescribeTInv ==
  ASSUME TInv, NEW t \in Threads, Describe(t)
  PROVE  TInv'
<1> USE NoneOutside DEF TInv, Step, Goto, timer
<1>1. req[t] \in Request /\ req[t].kind \in EditKinds
  BY DEF Describe, RequestInv, Handling, Labels, TypeOK
<1>2. req[t].arg \in Notes
  BY <1>1, RequestFields
<1>3. TypeOK'
  BY <1>2 DEF Describe, TypeOK, Labels
<1>4. RequestInv'
  BY <1>1 DEF Describe, TypeOK, RequestInv, Handling, Holding, Labels
<1>5. ProfileInv'
  BY <1>2 DEF Describe, TypeOK, ProfileInv, Whole
<1>6. QED
  BY <1>3, <1>4, <1>5

LEMMA SetAddressTInv ==
  ASSUME TInv, NEW t \in Threads, SetAddress(t)
  PROVE  TInv'
<1> USE NoneOutside DEF TInv, Step, Goto, timer
<1>1. req[t] \in Request /\ req[t].kind \in RegisterKinds
  BY DEF SetAddress, RequestInv, Handling, Labels, TypeOK
<1>2. req[t].arg \in Addresses
  BY <1>1, RequestFields
<1>3. TypeOK'
  BY <1>2 DEF SetAddress, TypeOK, Labels
<1>4. RequestInv'
  BY <1>1 DEF SetAddress, TypeOK, RequestInv, Handling, Holding, Labels
<1>5. ProfileInv'
  BY <1>2 DEF SetAddress, TypeOK, ProfileInv, Whole
<1>6. QED
  BY <1>3, <1>4, <1>5

LEMMA SweepTInv ==
  ASSUME TInv, NEW p \in Pollers,
         \/ StartSweep(p)
         \/ \E d \in Devices : CheckTime(p, d)
         \/ EndSweep(p)
  PROVE  TInv'
<1> USE NoneOutside DEF TInv, StartSweep, CheckTime, EndSweep, Goto, object, Threads
<1>1. TypeOK'
  BY DEF TypeOK, Labels
<1>2. RequestInv'
  BY DEF TypeOK, RequestInv, Handling, Holding, Labels
<1>3. ProfileInv'
  BY DEF TypeOK, ProfileInv, Whole
<1>4. QED
  BY <1>1, <1>2, <1>3

LEMMA RestartTInv ==
  ASSUME TInv, Restart
  PROVE  TInv'
<1> USE NoneOutside DEF TInv, Restart
<1>1. TypeOK'
  BY DEF TypeOK, Labels
<1>2. RequestInv'
  BY DEF TypeOK, RequestInv, Handling, Holding
<1>3. \A d \in Devices :
        row[d] # None => row[d].addr \in Addresses /\ row[d].note \in Notes
  BY ProfileFields DEF TypeOK
<1>4. ProfileInv'
  BY <1>3 DEF TypeOK, ProfileInv, Whole
<1>5. QED
  BY <1>1, <1>2, <1>4

\* Steps that only move their thread, answer, or set a flag of its object.
LEMMA FlagTInv ==
  ASSUME TInv, NEW t \in Threads,
         \/ SetRegistered(t) \/ SetOnline(t) \/ UpdateLastTime(t) \/ IsRegistered(t)
         \/ EditUnknown(t) \/ SetOffline(t) \/ ClearRegistered(t)
  PROVE  TInv'
<1> USE StepTInv DEF Handling, Holding, Labels, Whole, TInv, TypeOK
<1>1. CASE SetRegistered(t)
  BY <1>1 DEF SetRegistered
<1>2. CASE SetOnline(t)
  BY <1>2 DEF SetOnline
<1>3. CASE UpdateLastTime(t)
  BY <1>3 DEF UpdateLastTime
<1>4. CASE IsRegistered(t)
  BY <1>4 DEF IsRegistered, object
<1>5. CASE EditUnknown(t)
  BY <1>5 DEF EditUnknown, object
<1>6. CASE SetOffline(t)
  BY <1>6 DEF SetOffline
<1>7. CASE ClearRegistered(t)
  BY <1>7 DEF ClearRegistered
<1>8. QED
  BY <1>1, <1>2, <1>3, <1>4, <1>5, <1>6, <1>7

LEMMA AnswerTInv ==
  ASSUME TInv, NEW t \in Threads,
         \/ Refuse(t) \/ Reject(t) \/ Accept(t) \/ SendQueries(t)
         \/ RefuseKeepalive(t) \/ AnswerOk(t)
  PROVE  TInv'
<1> USE SayTInv DEF Handling, Holding, Labels, Messages
<1>1. CASE Refuse(t)
  BY <1>1 DEF Refuse
<1>2. CASE Reject(t)
  BY <1>2 DEF Reject
<1>3. CASE Accept(t)
  BY <1>3 DEF Accept
<1>4. CASE SendQueries(t)
  BY <1>4 DEF SendQueries
<1>5. CASE RefuseKeepalive(t)
  BY <1>5 DEF RefuseKeepalive
<1>6. CASE AnswerOk(t)
  BY <1>6 DEF AnswerOk
<1>7. QED
  BY <1>1, <1>2, <1>3, <1>4, <1>5, <1>6

LEMMA HandlerTInv ==
  ASSUME TInv, NEW t \in Threads, HandlerSteps(t)
  PROVE  TInv'
<1>1. CASE FindKnown(t)
  BY <1>1, GetDeviceTInv DEF FindKnown
<1>2. CASE FindForKeepalive(t)
  BY <1>2, GetDeviceTInv DEF FindForKeepalive
<1>3. CASE FindForEdit(t)
  BY <1>3, GetDeviceTInv DEF FindForEdit
<1>4. QED
  BY <1>1, <1>2, <1>3, AnswerTInv, FlagTInv, TableTInv, SaveTInv, FindNewTInv,
     SetAddressTInv, DescribeTInv, ReturnTInv
     DEF HandlerSteps, RegisterSteps, MessageSteps

LEMMA NextTInv == TInv /\ [Next]_vars => TInv'
<1> SUFFICES ASSUME TInv, [Next]_vars PROVE TInv'
  OBVIOUS
<1>1. CASE \E t \in Threads : \E r \in Request : Begin(t, r)
  BY <1>1, BeginTInv
<1>2. CASE \E t \in Threads : HandlerSteps(t)
  BY <1>2, HandlerTInv
<1>3. CASE \E p \in Pollers : StartSweep(p) \/ SweepSteps(p)
  BY <1>3, SweepTInv, FlagTInv DEF SweepSteps, Threads
<1>4. CASE \E o \in Objects : GrowStale(o)
  BY <1>4 DEF GrowStale, TInv, TypeOK, RequestInv, ProfileInv, Whole, control, timer
<1>5. CASE Restart
  BY <1>5, RestartTInv
<1>6. CASE UNCHANGED vars
  BY <1>6 DEF vars, object, timer, control, TInv, TypeOK, RequestInv, ProfileInv, Whole
<1>7. QED
  BY <1>1, <1>2, <1>3, <1>4, <1>5, <1>6 DEF Next, Running

\* The tables, the objects and the threads only hold values of their kinds, for
\* any devices, threads and number of restarts.
THEOREM RegistryTypeCorrect == Spec => []TypeOK
<1>1. Init => TInv
  BY InitIInv DEF IInv
<1>2. TInv => TypeOK
  BY DEF TInv
<1>3. QED
  BY <1>1, <1>2, NextTInv, PTL DEF Spec

-----------------------------------------------------------------------------
(* A registered device is online *)

\* Writers of _registered and _status leave their mark in pc.
LEMMA NextPresence == TInv /\ PresenceInv /\ [Next]_vars => PresenceInv'
<1> SUFFICES ASSUME TInv, PresenceInv, [Next]_vars PROVE PresenceInv'
  OBVIOUS
<1> DEFINE Between(t, o) == obj[t] = o /\ pc[t] \in {"online", "unregister"}
<1>a. ASSUME NEW t \in Threads, pc[t] \notin {"online", "unregister"},
             \A u \in Threads \ {t} : obj'[u] = obj[u] /\ pc'[u] = pc[u],
             UNCHANGED <<registered, online>>
      PROVE  PresenceInv'
  BY <1>a DEF PresenceInv
<1>b. ASSUME UNCHANGED <<registered, online, obj, pc>>
      PROVE  PresenceInv'
  BY <1>b DEF PresenceInv
<1>1. ASSUME NEW t \in Threads, NEW r \in Request, Begin(t, r)
      PROVE  PresenceInv'
  BY <1>1, <1>a DEF Begin, Goto, object, TInv, TypeOK
<1>2. ASSUME NEW t \in Threads, RegisterSteps(t)
      PROVE  PresenceInv'
  <2> USE DEF TInv, TypeOK, Goto, object
  <2>1. CASE Refuse(t) \/ Reject(t) \/ Accept(t) \/ SendQueries(t)
    BY <2>1, <1>a DEF Refuse, Reject, Accept, SendQueries, Say
  <2>2. CASE RemoveDevice(t) \/ AddDevice(t)
    BY <2>2, <1>a DEF RemoveDevice, AddDevice
  <2>3. CASE FindKnown(t)
    BY <2>3, <1>a DEF FindKnown, GetDevice
  <2>4. CASE FindNew(t)
    BY <2>4 DEF FindNew, NewDevice, PresenceInv, Free
  <2>5. CASE SetAddress(t)
    BY <2>5, <1>a DEF SetAddress, Step
  <2>6. CASE SetRegistered(t)
    <3>1. obj[t] \in Objects
      BY <2>6 DEF SetRegistered, Step, RequestInv, Holding
    <3>2. \A u \in Threads \ {t} : pc'[u] = pc[u] /\ obj'[u] = obj[u]
      BY <2>6 DEF SetRegistered, Step
    <3>3. pc'[t] = "online" /\ obj'[t] = obj[t] /\ pc[t] = "register"
      BY <2>6 DEF SetRegistered, Step
    <3>4. \A o \in Objects \ {obj[t]} :
            registered'[o] = registered[o] /\ online'[o] = online[o]
      BY <2>6 DEF SetRegistered
    <3>5. QED
      BY <3>1, <3>2, <3>3, <3>4 DEF PresenceInv
  <2>7. CASE SetOnline(t)
    <3>1. obj[t] \in Objects
      BY <2>7 DEF SetOnline, Step, RequestInv, Holding
    <3>2. \A u \in Threads \ {t} : pc'[u] = pc[u] /\ obj'[u] = obj[u]
      BY <2>7 DEF SetOnline, Step
    <3>3. online'[obj[t]] /\ registered' = registered
      BY <2>7, <3>1 DEF SetOnline
    <3>4. \A o \in Objects \ {obj[t]} : online'[o] = online[o]
      BY <2>7 DEF SetOnline
    <3>5. QED
      BY <3>1, <3>2, <3>3, <3>4 DEF PresenceInv
  <2>8. CASE UpdateLastTime(t)
    BY <2>8, <1>a DEF UpdateLastTime, Step
  <2>9. QED
    BY <1>2, <2>1, <2>2, <2>3, <2>4, <2>5, <2>6, <2>7, <2>8 DEF RegisterSteps
<1>3. ASSUME NEW t \in Threads, MessageSteps(t)
      PROVE  PresenceInv'
  BY <1>3, <1>a DEF MessageSteps, FindForKeepalive, IsRegistered, RefuseKeepalive,
     AnswerOk, FindForEdit, EditUnknown, Describe, GetDevice, Step, Say, Goto,
     object, TInv, TypeOK
<1>4. ASSUME NEW t \in Threads, Bind(t) \/ Execute(t) \/ Return(t)
      PROVE  PresenceInv'
  BY <1>4, <1>a DEF Bind, Execute, Return, Goto, object, TInv, TypeOK
<1>5. ASSUME NEW p \in Pollers, StartSweep(p) \/ SweepSteps(p)
      PROVE  PresenceInv'
  <2> USE DEF TInv, TypeOK, Goto, object, Threads
  <2>1. CASE StartSweep(p)
    BY <2>1, <1>a DEF StartSweep
  <2>2. CASE \E d \in Devices : CheckTime(p, d)
    BY <2>2, <1>a DEF CheckTime
  <2>3. CASE EndSweep(p)
    BY <2>3, <1>a DEF EndSweep
  <2>4. CASE SetOffline(p)
    <3>1. \A u \in Threads \ {p} : pc'[u] = pc[u] /\ obj'[u] = obj[u]
      BY <2>4 DEF SetOffline, Step
    <3>2. pc'[p] = "unregister" /\ obj'[p] = obj[p] /\ pc[p] = "offline"
      BY <2>4 DEF SetOffline, Step
    <3>3. \A o \in Objects \ {obj[p]} : online'[o] = online[o]
      BY <2>4 DEF SetOffline
    <3>4. registered' = registered
      BY <2>4 DEF SetOffline
    <3>5. QED
      BY <3>1, <3>2, <3>3, <3>4 DEF PresenceInv
  <2>5. CASE ClearRegistered(p)
    <3>1. \A u \in Threads \ {p} : pc'[u] = pc[u] /\ obj'[u] = obj[u]
      BY <2>5 DEF ClearRegistered, Step
    <3>2. \A o \in Objects : o = obj[p] => ~registered'[o]
      BY <2>5 DEF ClearRegistered
    <3>3. \A o \in Objects : o # obj[p] => registered'[o] = registered[o]
      BY <2>5 DEF ClearRegistered
    <3>4. online' = online
      BY <2>5 DEF ClearRegistered
    <3>5. QED
      BY <3>1, <3>2, <3>3, <3>4 DEF PresenceInv
  <2>6. QED
    BY <1>5, <2>1, <2>2, <2>3, <2>4, <2>5 DEF SweepSteps
<1>6. ASSUME NEW o \in Objects, GrowStale(o)
      PROVE  PresenceInv'
  BY <1>6, <1>b DEF GrowStale, control
<1>7. CASE Restart
  BY <1>7 DEF Restart, PresenceInv
<1>8. CASE UNCHANGED vars
  BY <1>8, <1>b DEF vars, object, control
<1>9. QED
  BY <1>1, <1>2, <1>3, <1>4, <1>5, <1>6, <1>7, <1>8 DEF Next, Running, HandlerSteps

\* Whatever the timer and the handlers do to a Device without a lock, one whose
\* heartbeats are accepted is not left with status 0.
THEOREM RegisteredStaysOnline == Spec => []RegisteredIsOnline
<1>1. Init => TInv /\ PresenceInv
  BY InitIInv DEF IInv
<1>2. PresenceInv => RegisteredIsOnline
  BY DEF PresenceInv, RegisteredIsOnline
<1>3. QED
  BY <1>1, <1>2, NextTInv, NextPresence, PTL DEF Spec

-----------------------------------------------------------------------------
(* A restart keeps the devices *)

\* Only GetDevice sets `find`, and only Return clears it.
LEMMA NextFound == TInv /\ FoundInv /\ [Next]_vars => FoundInv'
<1> SUFFICES ASSUME TInv, FoundInv, [Next]_vars PROVE FoundInv'
  OBVIOUS
<1> USE DEF TInv, TypeOK, Goto
<1>1. ASSUME NEW t \in Threads, NEW r \in Request, Begin(t, r)
      PROVE  FoundInv'
  BY <1>1 DEF Begin, FoundInv
<1>2. ASSUME NEW t \in Threads, RegisterSteps(t)
      PROVE  FoundInv'
  <2> USE DEF FoundInv
  <2>1. CASE Refuse(t) \/ Reject(t) \/ Accept(t) \/ SendQueries(t)
    BY <2>1 DEF Refuse, Reject, Accept, SendQueries, Say
  <2>2. CASE RemoveDevice(t) \/ AddDevice(t) \/ FindNew(t)
    BY <2>2 DEF RemoveDevice, AddDevice, FindNew, NewDevice
  <2>3. CASE FindKnown(t)
    BY <2>3 DEF FindKnown, GetDevice
  <2>4. CASE SetAddress(t) \/ SetRegistered(t) \/ SetOnline(t) \/ UpdateLastTime(t)
    BY <2>4 DEF SetAddress, SetRegistered, SetOnline, UpdateLastTime, Step
  <2>5. QED
    BY <1>2, <2>1, <2>2, <2>3, <2>4 DEF RegisterSteps
<1>3. ASSUME NEW t \in Threads, MessageSteps(t)
      PROVE  FoundInv'
  BY <1>3 DEF MessageSteps, FindForKeepalive, IsRegistered, RefuseKeepalive,
     AnswerOk, FindForEdit, EditUnknown, Describe, GetDevice, Step, Say, FoundInv
<1>4. ASSUME NEW t \in Threads, Bind(t) \/ Execute(t) \/ Return(t)
      PROVE  FoundInv'
  <2>1. AfterSave(t) \in {"query", "done", "answer"}
    BY DEF AfterSave
  <2>2. QED
    BY <1>4, <2>1 DEF Bind, Execute, Return, FoundInv
<1>5. ASSUME NEW p \in Pollers, StartSweep(p) \/ SweepSteps(p)
      PROVE  FoundInv'
  BY <1>5 DEF StartSweep, SweepSteps, CheckTime, SetOffline, ClearRegistered,
     EndSweep, Step, Threads, FoundInv
<1>6. CASE (\E o \in Objects : GrowStale(o)) \/ UNCHANGED vars
  BY <1>6 DEF GrowStale, vars, control, FoundInv
<1>7. CASE Restart
  BY <1>7 DEF Restart, FoundInv
<1>8. QED
  BY <1>1, <1>2, <1>3, <1>4, <1>5, <1>6, <1>7 DEF Next, Running, HandlerSteps

\* A device that is in the table without a row is being saved.
LEMMA NextSaved == TInv /\ FoundInv /\ SavedInv /\ [Next]_vars => SavedInv'
<1> SUFFICES ASSUME TInv, FoundInv, SavedInv, [Next]_vars PROVE SavedInv'
  OBVIOUS
<1> DEFINE At == {"register", "online", "touch", "bind", "execute"}
<1> USE DEF TInv, TypeOK, Goto
<1>a. ASSUME NEW t \in Threads,
             \A u \in Threads \ {t} :
               obj'[u] = obj[u] /\ pc'[u] = pc[u] /\ req'[u] = req[u]
                 /\ found'[u] = found[u],
             \/ pc[t] \notin At
             \/ req[t].kind \notin RegisterKinds
             \/ /\ pc'[t] \in At
                /\ obj'[t] = obj[t] /\ req'[t] = req[t] /\ found'[t] = found[t],
             UNCHANGED <<table, row>>
      PROVE  SavedInv'
  BY <1>a DEF SavedInv, Saving
<1>1. ASSUME NEW t \in Threads, NEW r \in Request, Begin(t, r)
      PROVE  SavedInv'
  BY <1>1, <1>a DEF Begin
<1>2. ASSUME NEW t \in Threads, RegisterSteps(t)
      PROVE  SavedInv'
  <2>1. CASE Refuse(t) \/ Reject(t) \/ Accept(t) \/ SendQueries(t)
    BY <2>1, <1>a DEF Refuse, Reject, Accept, SendQueries, Say
  <2>2. CASE RemoveDevice(t)
    BY <2>2 DEF RemoveDevice, SavedInv, Saving
  <2>3. CASE AddDevice(t)
    <3>1. req[t].kind \in RegisterKinds /\ ~found[t]
      BY <2>3 DEF AddDevice, RequestInv, FoundInv
    <3>2. \A u \in Threads \ {t} : pc'[u] = pc[u]
      BY <2>3 DEF AddDevice
    <3>3. pc'[t] = "register" /\ UNCHANGED <<obj, req, found, row>>
      BY <2>3 DEF AddDevice
    <3>4. table' = [table EXCEPT ![req[t].dev] = obj[t]] /\ pc[t] = "add"
      BY <2>3 DEF AddDevice
    <3>5. ASSUME NEW d \in Devices, table'[d] # None, row'[d] = None
          PROVE  \E u \in Threads : Saving(u, d)'
      <4>1. CASE d = req[t].dev
        BY <3>1, <3>3, <3>4, <4>1 DEF Saving
      <4>2. CASE d # req[t].dev
        BY <3>2, <3>3, <3>4, <3>5, <4>2 DEF Saving, SavedInv
      <4>3. QED
        BY <4>1, <4>2
    <3>6. QED
      BY <3>5 DEF SavedInv
  <2>4. CASE FindKnown(t)
    BY <2>4, <1>a DEF FindKnown, GetDevice
  <2>5. CASE FindNew(t)
    BY <2>5, <1>a DEF FindNew, NewDevice
  <2>6. CASE SetAddress(t) \/ SetRegistered(t) \/ SetOnline(t) \/ UpdateLastTime(t)
    BY <2>6, <1>a DEF SetAddress, SetRegistered, SetOnline, UpdateLastTime, Step,
       RegisterKinds
  <2>7. QED
    BY <1>2, <2>1, <2>2, <2>3, <2>4, <2>5, <2>6 DEF RegisterSteps
<1>3. ASSUME NEW t \in Threads, MessageSteps(t)
      PROVE  SavedInv'
  BY <1>3, <1>a DEF MessageSteps, FindForKeepalive, IsRegistered, RefuseKeepalive,
     AnswerOk, FindForEdit, EditUnknown, Describe, GetDevice, Step, Say
<1>4. ASSUME NEW t \in Threads, Bind(t)
      PROVE  SavedInv'
  BY <1>4, <1>a DEF Bind
<1>5. ASSUME NEW t \in Threads, Execute(t)
      PROVE  SavedInv'
  <2>1. bound[t] # None /\ UNCHANGED <<table, obj, req, found>>
    BY <1>5, NoneOutside DEF Execute, RequestInv
  <2>2. \A u \in Threads \ {t} : pc'[u] = pc[u]
    BY <1>5 DEF Execute
  <2>3. \A d \in Devices : row[d] # None => row'[d] # None
    BY <1>5, <2>1 DEF Execute
  <2>4. ASSUME NEW d \in Devices, Saving(t, d), row[d] = None
        PROVE  row'[d] # None
    BY <1>5, <2>1, <2>4 DEF Execute, Saving
  <2>5. QED
    BY <2>1, <2>2, <2>3, <2>4 DEF SavedInv, Saving
<1>6. ASSUME NEW t \in Threads, Return(t)
      PROVE  SavedInv'
  BY <1>6, <1>a DEF Return
<1>7. ASSUME NEW p \in Pollers, StartSweep(p) \/ SweepSteps(p)
      PROVE  SavedInv'
  BY <1>7, <1>a DEF StartSweep, SweepSteps, CheckTime, SetOffline, ClearRegistered,
     EndSweep, Step, Threads
<1>8. CASE (\E o \in Objects : GrowStale(o)) \/ UNCHANGED vars
  BY <1>8 DEF GrowStale, vars, control, SavedInv, Saving
<1>9. CASE Restart
  BY <1>9 DEF Restart, SavedInv
<1>10. QED
  BY <1>1, <1>2, <1>3, <1>4, <1>5, <1>6, <1>7, <1>8, <1>9
     DEF Next, Running, HandlerSteps

\* A device is in the table again after a restart unless its first REGISTER was
\* still being handled.
THEOREM RestartsKeepDevices == Spec => RestartKeepsDevices
<1>1. Init => TInv /\ FoundInv /\ SavedInv
  BY InitIInv DEF IInv
<1>2. TInv /\ SavedInv /\ [Next]_vars =>
        [restarts' # restarts =>
           \A d \in Devices :
             table[d] # None /\ (\A t \in Threads : obj[t] # table[d])
               => table'[d] # None]_vars
  <2> SUFFICES ASSUME TInv, SavedInv, [Next]_vars, restarts' # restarts,
                      NEW d \in Devices, table[d] # None,
                      \A t \in Threads : obj[t] # table[d]
               PROVE  table'[d] # None
    OBVIOUS
  <2>1. Restart
    BY DEF Next, Running, HandlerSteps, RegisterSteps, MessageSteps, SweepSteps,
       Begin, Return, Refuse, Reject, RemoveDevice, Accept, FindKnown, FindNew,
       NewDevice,
       AddDevice, SetAddress, SetRegistered, SetOnline, UpdateLastTime, SendQueries,
       FindForKeepalive, IsRegistered, RefuseKeepalive, AnswerOk, FindForEdit,
       EditUnknown, Describe, GetDevice, Step, Say, Bind, Execute, StartSweep,
       CheckTime, SetOffline, ClearRegistered, EndSweep, GrowStale, vars
  <2>2. row[d] # None
    BY DEF SavedInv, Saving
  <2>3. QED
    BY <2>1, <2>2 DEF Restart
<1>3. QED
  BY <1>1, <1>2, NextTInv, NextFound, NextSaved, PTL DEF Spec, RestartKeepsDevices
=============================================================================
