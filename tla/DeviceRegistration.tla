------------------------- MODULE DeviceRegistration -------------------------
(***************************************************************************)
(* SipClient registering with SipService: the server of DeviceRegistry     *)
(* beside the REGISTER transaction, the heartbeat thread and the SIP       *)
(* thread of each SipDevice, with the messages between them.  Messages may *)
(* overtake each other; a restart of the server loses those it was         *)
(* handling, and may lose those it had not read.                           *)
(***************************************************************************)
EXTENDS DeviceRegistry

CONSTANTS
  Name,             \* the descriptive fields a device reports of itself
  Origin,           \* the address a device starts from
  MaxDisturbances   \* bound: restarts of the server, moves of a device, wrong
                    \* passwords and HTTP edits, together

ASSUME RegistrationAssumption ==
  /\ Name \in Notes
  /\ Origin \in Addresses
  /\ MaxDisturbances \in Nat

VARIABLES
  running,  \* SipDevice::_is_running
  reg,      \* the REGISTER transaction of eXosip
  knows,    \* has eXosip_add_authentication_info been called?
  beating,  \* has _heartbeat_thread been started?
  home,     \* the address the server sees
  inbox,    \* requests the server has not taken
  answers,  \* answers and queries the devices have not taken
  disturbances

device  == <<running, reg, knows, beating, home>>
network == <<inbox, answers>>
allVars == <<vars, device, network, disturbances>>

Answer == [dev : Devices, of : {r.kind : r \in Request}, says : Messages]

SystemTypeOK ==
  /\ TypeOK
  /\ running \in [Devices -> BOOLEAN]
  /\ reg \in [Devices -> {"off", "sent", "challenged", "failed", "done"}]
  /\ knows \in [Devices -> BOOLEAN]
  /\ beating \in [Devices -> BOOLEAN]
  /\ home \in [Devices -> Addresses]
  /\ inbox \in SUBSET Request
  /\ answers \in SUBSET Answer
  /\ disturbances \in 0..MaxDisturbances

SystemInit ==
  /\ Init
  /\ running = [d \in Devices |-> FALSE]
  /\ reg = [d \in Devices |-> "off"]
  /\ knows = [d \in Devices |-> FALSE]
  /\ beating = [d \in Devices |-> FALSE]
  /\ home = [d \in Devices |-> Origin]
  /\ inbox = {}
  /\ answers = {}
  /\ disturbances = 0

-----------------------------------------------------------------------------
(* The server on the network *)

Receive(p, r) ==
  /\ r \in inbox
  /\ inbox' = inbox \ {r}
  /\ Begin(p, r)
  /\ UNCHANGED <<device, answers, disturbances>>

\* SipClient does nothing on the 200 of a message, and another device gets the
\* refusal of its wrong password: these are left out.
Heeded(kind, message) ==
  \/ kind \in RegisterKinds \cup {"hello"}
  \/ kind = "keepalive" /\ message = "unauthorized"

\* What a step of t sends to the device whose request it handles.
Sent(t) ==
  {[dev |-> req[t].dev, of |-> req[t].kind, says |-> m] :
     m \in {n \in {said'[t]} \ {said[t], None} : Heeded(req[t].kind, n)}}

ServerSteps(t) ==
  /\ HandlerSteps(t)
  /\ answers' = answers \cup Sent(t)
  /\ UNCHANGED <<device, inbox, disturbances>>

Timer ==
  /\ \/ \E p \in Pollers : StartSweep(p) \/ SweepSteps(p)
     \/ \E o \in Objects : GrowStale(o)
  /\ UNCHANGED <<device, network, disturbances>>

ServerRestarts ==
  /\ disturbances < MaxDisturbances
  /\ disturbances' = disturbances + 1
  /\ Restart
  /\ inbox' \in {inbox, {}}
  /\ UNCHANGED <<device, answers>>

HttpEdit(w, r) ==
  /\ disturbances < MaxDisturbances
  /\ disturbances' = disturbances + 1
  /\ r.kind \in HttpKinds
  /\ Begin(w, r)
  /\ UNCHANGED <<device, network>>

-----------------------------------------------------------------------------
(* SipDevice *)

Register(d) ==
  IF knows[d] THEN [kind |-> "register", dev |-> d, arg |-> home[d]]
              ELSE [kind |-> "hello", dev |-> d, arg |-> None]

\* eXosip sends one REGISTER at a time.
SendRegister(d) ==
  /\ inbox' = inbox \cup {Register(d)}
  /\ reg' = [reg EXCEPT ![d] = "sent"]

Take(d, of, says) ==
  LET a == [dev |-> d, of |-> of, says |-> says]
  IN  /\ running[d]
      /\ a \in answers
      /\ answers' = answers \ {a}

Unmoved == UNCHANGED <<vars, home, disturbances>>

StartSipClient(d) ==
  /\ reg[d] = "off"
  /\ SendRegister(d)
  /\ running' = [running EXCEPT ![d] = TRUE]
  /\ Unmoved
  /\ UNCHANGED <<knows, beating, answers>>

\* OnRegistrationFailed, after a 401: the password is added.
OnRegistrationFailed(d) ==
  /\ \E kind \in {"hello", "register"} : Take(d, kind, "unauthorized")
  /\ reg' = [reg EXCEPT ![d] = "challenged"]
  /\ knows' = [knows EXCEPT ![d] = TRUE]
  /\ Unmoved
  /\ UNCHANGED <<running, beating, inbox>>

\* eXosip_automatic_action sends a challenged REGISTER again, with credentials,
\* and one that had no answer, after 120 s.
Resend(d) ==
  /\ running[d]
  /\ reg[d] \in {"challenged", "failed"}
  /\ SendRegister(d)
  /\ Unmoved
  /\ UNCHANGED <<running, knows, beating, answers>>

\* It also refreshes a registration, after 900 s.
Refresh(d) ==
  /\ running[d]
  /\ reg[d] = "done"
  /\ SendRegister(d)
  /\ Unmoved
  /\ UNCHANGED <<running, knows, beating, answers>>

\* OnRegistrationSuccess starts the heartbeat thread, once.
OnRegistrationSuccess(d) ==
  /\ Take(d, "register", "ok")
  /\ reg' = [reg EXCEPT ![d] = "done"]
  /\ beating' = [beating EXCEPT ![d] = TRUE]
  /\ Unmoved
  /\ UNCHANGED <<running, knows, inbox>>

\* HeartbeatTask, whatever became of the last heartbeat.
Heartbeat(d) ==
  /\ running[d]
  /\ beating[d]
  /\ LET r == [kind |-> "keepalive", dev |-> d, arg |-> None]
     IN  r \notin inbox /\ inbox' = inbox \cup {r}
  /\ Unmoved
  /\ UNCHANGED <<running, reg, knows, beating, answers>>

\* Plausible bug: a refused heartbeat is only logged.
IgnoreFailure(d) ==
  /\ Take(d, "keepalive", "unauthorized")
  /\ Unmoved
  /\ UNCHANGED <<running, reg, knows, beating, inbox>>

\* OnMessageRequestFailed: a refused heartbeat makes the device register
\* again, unless a REGISTER is under way.
OnMessageRequestFailed(d) ==
  /\ Take(d, "keepalive", "unauthorized")
  /\ \/ reg[d] # "sent" /\ SendRegister(d)
     \/ reg[d] = "sent" /\ UNCHANGED <<reg, inbox>>
  /\ Unmoved
  /\ UNCHANGED <<running, knows, beating>>

\* OnQueryMessage, DeviceInfo; the catalog is left to another module.
OnQueryMessage(d) ==
  /\ \E kind \in RegisterKinds : Take(d, kind, "query")
  /\ inbox' = inbox \cup {[kind |-> "info", dev |-> d, arg |-> Name]}
  /\ Unmoved
  /\ UNCHANGED <<running, reg, knows, beating>>

\* Logout, then StopSipClient: the heartbeat thread is joined, and REGISTER
\* goes out with Expires 0 unless another one is under way.
Logout(d) ==
  /\ running[d]
  /\ running' = [running EXCEPT ![d] = FALSE]
  /\ beating' = [beating EXCEPT ![d] = FALSE]
  /\ \/ /\ reg[d] = "done"
        /\ inbox' = inbox \cup {[kind |-> "logout", dev |-> d, arg |-> home[d]]}
     \/ reg[d] # "done" /\ UNCHANGED inbox
  /\ Unmoved
  /\ UNCHANGED <<reg, knows, answers>>

-----------------------------------------------------------------------------
(* Around the device *)

\* A REGISTER that nobody handles or answers any more times out.
RegisterLost(d) ==
  /\ reg[d] = "sent"
  /\ \A r \in inbox : r.dev = d => r.kind \notin {"hello", "register"}
  /\ \A t \in Threads : pc[t] # "idle" /\ req[t] # None /\ req[t].dev = d
       => req[t].kind \notin {"hello", "register"}
  /\ \A a \in answers : a.dev = d /\ a.says # "query"
       => a.of \notin {"hello", "register"}
  /\ reg' = [reg EXCEPT ![d] = "failed"]
  /\ UNCHANGED <<vars, running, knows, beating, home, network, disturbances>>

\* The address the server sees changes.
Move(d) ==
  /\ disturbances < MaxDisturbances
  /\ disturbances' = disturbances + 1
  /\ \E a \in Addresses \ {home[d]} : home' = [home EXCEPT ![d] = a]
  /\ UNCHANGED <<vars, running, reg, knows, beating, network>>

\* Another device is set up with the same id and a wrong password.
Mistype(d) ==
  /\ disturbances < MaxDisturbances
  /\ disturbances' = disturbances + 1
  /\ inbox' = inbox \cup {[kind |-> "mistyped", dev |-> d, arg |-> None]}
  /\ UNCHANGED <<vars, device, answers>>

-----------------------------------------------------------------------------
(* Specification *)

SipThread(d) ==
  \/ OnRegistrationFailed(d) \/ OnRegistrationSuccess(d) \/ Resend(d)
  \/ OnMessageRequestFailed(d) \/ OnQueryMessage(d)

SystemNext ==
  \/ \E p \in Pollers : \E r \in Request : Receive(p, r)
  \/ \E t \in Threads : ServerSteps(t)
  \/ Timer
  \/ ServerRestarts
  \/ \E w \in Workers : \E r \in Request : HttpEdit(w, r)
  \/ \E d \in Devices :
       \/ SipThread(d) \/ StartSipClient(d) \/ Refresh(d) \/ Heartbeat(d)
       \/ Logout(d) \/ RegisterLost(d) \/ Move(d) \/ Mistype(d)

SystemSpec == SystemInit /\ [][SystemNext]_allVars

Delivery(kind) ==
  \E p \in Pollers : \E r \in Request : r.kind = kind /\ Receive(p, r)

\* Pollers run and a mutex is handed over; a request reaches a poller (their
\* queues are first in, first out); the SIP thread takes every answer and the
\* heartbeat thread never stops.  Nobody need start, move, refresh, log out or
\* restart, and an HTTP thread may stop in the middle of an edit.
SystemFairness ==
  /\ \A p \in Pollers : SF_allVars(ServerSteps(p))
  /\ \A p \in Pollers : WF_allVars(SweepSteps(p) /\ Timer)
  /\ \A kind \in {"hello", "register", "keepalive"} : SF_allVars(Delivery(kind))
  /\ \A d \in Devices :
       /\ WF_allVars(OnRegistrationFailed(d))
       /\ WF_allVars(OnRegistrationSuccess(d))
       /\ WF_allVars(OnMessageRequestFailed(d))
       /\ WF_allVars(Resend(d))
       /\ WF_allVars(RegisterLost(d))
       /\ WF_allVars(Heartbeat(d))

FairSystem == SystemSpec /\ SystemFairness

-----------------------------------------------------------------------------
(* Properties *)

Accepted(d) == table[d] # None /\ registered[table[d]]

\* A device that runs is registered again and again, and then its row holds what
\* the server holds of it, whatever the timer, a restart, another device's wrong
\* password, its own moves or an HTTP edit did: the refused heartbeat brings the
\* device back (Device.cpp:304), and saving it again makes up for a save of older
\* values, an INSERT that failed and an edit that was not saved at all.
DeviceComesBack ==
  \A d \in Devices :
    running[d] ~>
      \/ ~running[d]
      \/ /\ Accepted(d)
         /\ row[d] = [addr |-> addr[table[d]], note |-> note[table[d]]]
=============================================================================
