---------------------- MODULE DeviceRegistration_proofs ----------------------
(***************************************************************************)
(* The server beside its devices is an instance of DeviceRegistry, so that *)
(* what holds there holds of the system, whatever the devices do.          *)
(***************************************************************************)
EXTENDS DeviceRegistration, DeviceRegistry_proofs

\* Every step of the system is a step of the server or leaves it alone.
LEMMA SystemStep == SystemNext => [Next]_vars
<1> SUFFICES ASSUME SystemNext PROVE [Next]_vars
  OBVIOUS
<1>1. ASSUME NEW p \in Pollers, NEW r \in Request, Receive(p, r)
      PROVE  Next
  BY <1>1 DEF Receive, Next, Threads
<1>2. ASSUME NEW t \in Threads, ServerSteps(t)
      PROVE  Next
  BY <1>2 DEF ServerSteps, Next, Running
<1>3. CASE Timer
  BY <1>3 DEF Timer, Next, Running
<1>4. CASE ServerRestarts
  BY <1>4 DEF ServerRestarts, Next
<1>5. ASSUME NEW w \in Workers, NEW r \in Request, HttpEdit(w, r)
      PROVE  Next
  BY <1>5 DEF HttpEdit, Next, Threads
<1>6. ASSUME NEW d \in Devices,
             \/ SipThread(d) \/ StartSipClient(d) \/ Refresh(d) \/ Heartbeat(d)
             \/ Logout(d) \/ RegisterLost(d) \/ Move(d) \/ Mistype(d)
      PROVE  UNCHANGED vars
  BY <1>6 DEF SipThread, OnRegistrationFailed, OnRegistrationSuccess, Resend,
     OnMessageRequestFailed, OnQueryMessage, StartSipClient, Refresh, Heartbeat,
     Logout, RegisterLost, Move, Mistype, Unmoved
<1>7. QED
  BY <1>1, <1>2, <1>3, <1>4, <1>5, <1>6 DEF SystemNext

\* The system implements DeviceRegistry: its server never does more, whatever
\* the devices send and however messages overtake each other or are lost.
THEOREM SystemImplementsRegistry == SystemSpec => Spec
<1>1. SystemInit => Init
  BY DEF SystemInit
<1>2. [SystemNext]_allVars => [Next]_vars
  BY SystemStep DEF allVars
<1>3. QED
  BY <1>1, <1>2, PTL DEF SystemSpec, Spec

\* In the system, too, a registered device is not left shown offline.
THEOREM SystemKeepsOnline == SystemSpec => []RegisteredIsOnline
  BY SystemImplementsRegistry, RegisteredStaysOnline, PTL

-----------------------------------------------------------------------------
(* Type correctness of the system *)

SystemInv == TInv /\ SystemTypeOK

\* A handler has the request it handles in hand.
LEMMA HandlerRequest ==
  ASSUME TInv, NEW t \in Threads, HandlerSteps(t)
  PROVE  req[t] \in Request
<1>1. pc[t] \in Handling
  BY DEF HandlerSteps, RegisterSteps, MessageSteps, Refuse, Reject, RemoveDevice,
     Accept, FindKnown, FindNew, GetDevice, AddDevice, SetAddress, SetRegistered,
     SetOnline, UpdateLastTime, SendQueries, FindForKeepalive, IsRegistered,
     RefuseKeepalive, AnswerOk, FindForEdit, EditUnknown, Describe, Bind, Execute,
     Return, Say, Step, Handling, Labels
<1>2. QED
  BY <1>1 DEF TInv, RequestInv

LEMMA SentAnswers ==
  ASSUME TInv, TInv', NEW t \in Threads, HandlerSteps(t)
  PROVE  Sent(t) \subseteq Answer
<1> SUFFICES ASSUME NEW m \in {said'[t]} \ {said[t], None}
             PROVE  [dev |-> req[t].dev, of |-> req[t].kind, says |-> m] \in Answer
  BY DEF Sent
<1>1. req[t] \in Request
  BY HandlerRequest
<1>2. req[t].dev \in Devices /\ req[t].kind \in {r.kind : r \in Request}
  BY <1>1, RequestFields
<1>3. m \in Messages
  BY DEF TInv, TypeOK
<1>4. QED
  BY <1>2, <1>3 DEF Answer

LEMMA InitSystemInv == SystemInit => SystemInv
<1> SUFFICES ASSUME SystemInit PROVE SystemInv
  OBVIOUS
<1>1. TInv
  BY InitIInv DEF SystemInit, IInv
<1>2. SystemTypeOK
  BY <1>1, RegistrationAssumption DEF TInv, SystemInit, SystemTypeOK
<1>3. QED
  BY <1>1, <1>2 DEF SystemInv

LEMMA ServerTypeOK ==
  ASSUME SystemInv, TInv',
         \/ \E p \in Pollers : \E r \in Request : Receive(p, r)
         \/ \E t \in Threads : ServerSteps(t)
         \/ Timer \/ ServerRestarts
         \/ \E w \in Workers : \E r \in Request : HttpEdit(w, r)
  PROVE  SystemTypeOK'
<1> USE RegistrationAssumption DEF SystemInv, TInv, SystemTypeOK, device, network
<1>1. CASE \E p \in Pollers : \E r \in Request : Receive(p, r)
  BY <1>1 DEF Receive
<1>2. ASSUME NEW t \in Threads, ServerSteps(t) PROVE SystemTypeOK'
  <2>1. Sent(t) \subseteq Answer
    BY <1>2, SentAnswers DEF ServerSteps
  <2>2. answers' \in SUBSET Answer
    BY <1>2, <2>1 DEF ServerSteps
  <2>3. QED
    BY <1>2, <2>2 DEF ServerSteps
<1>3. CASE Timer
  BY <1>3 DEF Timer
<1>4. CASE ServerRestarts
  BY <1>4 DEF ServerRestarts
<1>5. CASE \E w \in Workers : \E r \in Request : HttpEdit(w, r)
  BY <1>5 DEF HttpEdit
<1>6. QED
  BY <1>1, <1>2, <1>3, <1>4, <1>5

\* What devices send is a request.
LEMMA DeviceRequests ==
  ASSUME SystemInv, NEW d \in Devices
  PROVE  /\ Register(d) \in Request
         /\ [kind |-> "keepalive", dev |-> d, arg |-> None] \in Request
         /\ [kind |-> "info", dev |-> d, arg |-> Name] \in Request
         /\ [kind |-> "logout", dev |-> d, arg |-> home[d]] \in Request
         /\ [kind |-> "mistyped", dev |-> d, arg |-> None] \in Request
  BY RegistrationAssumption
     DEF SystemInv, SystemTypeOK, Register, Request, RegisterKinds

LEMMA DeviceTypeOK ==
  ASSUME SystemInv, TInv', NEW d \in Devices,
         \/ SipThread(d) \/ StartSipClient(d) \/ Refresh(d) \/ Heartbeat(d)
         \/ Logout(d) \/ RegisterLost(d) \/ Move(d) \/ Mistype(d)
  PROVE  SystemTypeOK'
<1> USE RegistrationAssumption, DeviceRequests
    DEF SystemInv, TInv, SystemTypeOK, device, network, Unmoved
<1>1. CASE OnRegistrationFailed(d)
  BY <1>1 DEF OnRegistrationFailed, Take
<1>2. CASE OnRegistrationSuccess(d)
  BY <1>2 DEF OnRegistrationSuccess, Take
<1>3. CASE Resend(d) \/ StartSipClient(d) \/ Refresh(d)
  BY <1>3 DEF Resend, StartSipClient, Refresh, SendRegister
<1>4. CASE OnMessageRequestFailed(d)
  BY <1>4 DEF OnMessageRequestFailed, Take, SendRegister
<1>5. CASE OnQueryMessage(d)
  BY <1>5 DEF OnQueryMessage, Take
<1>6. CASE Heartbeat(d)
  BY <1>6 DEF Heartbeat
<1>7. CASE Logout(d)
  BY <1>7 DEF Logout
<1>8. CASE RegisterLost(d)
  BY <1>8 DEF RegisterLost
<1>9. CASE Move(d)
  BY <1>9 DEF Move
<1>10. CASE Mistype(d)
  <2>1. [kind |-> "mistyped", dev |-> d, arg |-> None] \in Request
    OBVIOUS
  <2>2. inbox' \in SUBSET Request
    BY <1>10, <2>1 DEF Mistype
  <2>3. disturbances' \in 0 .. MaxDisturbances
    BY <1>10 DEF Mistype
  <2>4. QED
    BY <1>10, <2>2, <2>3 DEF Mistype
<1>11. QED
  BY <1>1, <1>2, <1>3, <1>4, <1>5, <1>6, <1>7, <1>8, <1>9, <1>10 DEF SipThread

LEMMA NextSystemInv == SystemInv /\ [SystemNext]_allVars => SystemInv'
<1> SUFFICES ASSUME SystemInv, [SystemNext]_allVars PROVE SystemInv'
  OBVIOUS
<1>1. TInv'
  BY NextTInv, SystemStep DEF SystemInv, allVars
<1>2. CASE SystemNext
  BY <1>1, <1>2, ServerTypeOK, DeviceTypeOK DEF SystemNext, SystemInv
<1>3. CASE UNCHANGED allVars
  BY <1>1, <1>3 DEF SystemInv, TInv, SystemTypeOK, allVars, device, network
<1>4. QED
  BY <1>1, <1>2, <1>3

\* Devices, requests and answers keep their types, whatever the server says.
THEOREM SystemTypeCorrect == SystemSpec => []SystemTypeOK
<1>1. SystemInv => SystemTypeOK
  BY DEF SystemInv
<1>2. QED
  BY <1>1, InitSystemInv, NextSystemInv, PTL DEF SystemSpec
=============================================================================
