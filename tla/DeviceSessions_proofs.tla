------------------------ MODULE DeviceSessions_proofs ------------------------
(***************************************************************************)
(* What DeviceSessions keeps, for any number of calls, channels, periods   *)
(* and repeated events.                                                    *)
(***************************************************************************)
EXTENDS DeviceSessions, TLAPS

\* What an event that is pending, or being handled, tells of its dialog.
Tells(kind, c) ==
  /\ call[c] # "new"
  /\ kind = "ack" => call[c] \in {"acked", "ended"}
  /\ kind = "closed" => call[c] = "ended"
  /\ kind = "cancelled" => call[c] = "cancelled"

Resting == {"idle", "wait", "exited"}

EventInv ==
  /\ \A i \in DOMAIN events : Tells(events[i].kind, events[i].call)
  /\ pc \in Resting <=> cur = None
  /\ cur # None => Tells(pc, cur)

\* Calls whose stream is sent, or may be before long.
Begun == sending \cup late
LiveBegun == {c \in Begun : period[c] = Live}

\* Sessions and senders are of known calls; a live one has been acknowledged, and has
\* a session unless the media server was told to stop it.
SenderInv ==
  /\ \A c \in sessions \cup Begun : call[c] # "new"
  /\ \A c \in Begun : period[c] = Live =>
       c \in sessions \cup told /\ call[c] \in {"acked", "ended"}

\* The SIP thread inserts what it has compared with all other sessions: in
\* between, other threads only take sessions away.
TargetInv ==
  /\ OneSessionPerTarget
  /\ pc = "insert" => cur \notin sessions /\ ~Busy

Over == {"cancelled", "ended"}
Final == {"cancelled", "closed"}

\* The last event of a call that is over is the one that ends it.
Ending(c) ==
  \E j \in DOMAIN events :
    /\ events[j].call = c
    /\ events[j].kind \in Final
    /\ \A i \in DOMAIN events : events[i].call = c => i <= j

Silent(c) == \A i \in DOMAIN events : events[i].call # c

\* A call that is over has that event before it, under way or behind it.
OverInv ==
  \A c \in Calls :
    call[c] \in Over =>
      \/ Ending(c)
      \/ Silent(c) /\ cur = c /\ pc \in Final
      \/ Silent(c) /\ cur # c /\ c \notin sessions

IInv == TypeOK /\ EventInv /\ SenderInv /\ TargetInv /\ OverInv

-----------------------------------------------------------------------------
(* Initial states *)

LEMMA InitIInv == Init => IInv
  BY SessionAssumption
     DEF Init, IInv, TypeOK, EventInv, SenderInv, TargetInv, OverInv, Resting,
         CallStates, EventKinds, OneSessionPerTarget, Over, Begun

-----------------------------------------------------------------------------
(* Type correctness *)

LEMMA DialogType ==
  ASSUME TypeOK, NEW c \in Calls, NEW from, NEW to \in CallStates,
         NEW kind \in EventKinds, Dialog(c, from, to, kind)
  PROVE  /\ call' \in [Calls -> CallStates]
         /\ events' \in Seq(Event)
<1>1. [kind |-> kind, call |-> c] \in Event
  BY DEF Event
<1>2. QED
  BY <1>1 DEF TypeOK, Dialog, Report

LEMMA ServerTypeOK ==
  ASSUME TypeOK, NEW c \in Calls,
         \/ ServerInvites(c) \/ ServerCancels(c) \/ ServerAcks(c)
         \/ ServerHangsUp(c) \/ ReportsAgain(c)
  PROVE  TypeOK'
<1> USE DEF table, thread, zlm, rtp, invite
<1>1. CASE ServerInvites(c)
  <2>1. call' \in [Calls -> CallStates] /\ events' \in Seq(Event)
    BY <1>1, DialogType DEF ServerInvites, CallStates, EventKinds
  <2>2. channel' \in [Calls -> Channels \cup {None}]
    BY <1>1 DEF ServerInvites, TypeOK
  <2>3. period' \in [Calls -> Periods \cup {Live, None}]
    BY <1>1 DEF ServerInvites, TypeOK
  <2>4. target' \in [Calls -> Targets \cup {None}]
    BY <1>1 DEF ServerInvites, TypeOK
  <2>5. UNCHANGED <<repeats, table, thread, main, zlm, closeAll>>
    BY <1>1 DEF ServerInvites, Dialog
  <2>6. QED
    BY <2>1, <2>2, <2>3, <2>4, <2>5 DEF TypeOK
<1>2. CASE ServerCancels(c) \/ ServerAcks(c) \/ ServerHangsUp(c)
  <2>1. call' \in [Calls -> CallStates] /\ events' \in Seq(Event)
    BY <1>2, DialogType
       DEF ServerCancels, ServerAcks, ServerHangsUp, CallStates, EventKinds
  <2>2. UNCHANGED <<invite, repeats, table, thread, main, zlm, closeAll>>
    BY <1>2 DEF ServerCancels, ServerAcks, ServerHangsUp, Dialog
  <2>3. QED
    BY <2>1, <2>2 DEF TypeOK
<1>3. CASE ReportsAgain(c)
  <2>1. PICK k \in EventKinds : Report(k, c)
    BY <1>3 DEF ReportsAgain, EventKinds
  <2>2. events' \in Seq(Event)
    <3>1. [kind |-> k, call |-> c] \in Event
      BY DEF Event
    <3>2. QED
      BY <2>1, <3>1 DEF Report, TypeOK
  <2>3. QED
    BY <1>3, <2>2, SessionAssumption DEF ReportsAgain, TypeOK
<1>4. QED
  BY <1>1, <1>2, <1>3

LEMMA MediaTypeOK ==
  ASSUME TypeOK, MediaServer
  PROVE  TypeOK'
<1> USE SessionAssumption DEF TypeOK, invite, dialog, table, thread, rtp
<1>1. ASSUME NEW w \in Periods, RecordingRegisters(w) \/ RecordingEnds(w)
      PROVE  TypeOK'
  <2>1. hooks' \in [BOOLEAN -> [Periods -> Nat]]
    <3>1. PICK b \in BOOLEAN : Announce(w, b)
      BY <1>1 DEF RecordingRegisters, RecordingEnds
    <3>2. hooks[b][w] \in Nat /\ hooks[b][w] + Schemas \in Nat
      OBVIOUS
    <3>3. hooks' = [hooks EXCEPT ![b][w] = hooks[b][w] + Schemas]
      BY <3>1 DEF Announce
    <3>4. QED
      BY <3>2, <3>3
  <2>2. QED
    BY <1>1, <2>1 DEF RecordingRegisters, RecordingEnds, Senders
<1>2. ASSUME NEW c \in Calls, SendingStarts(c) \/ SendingEnds(c)
      PROVE  TypeOK'
  BY <1>2 DEF SendingStarts, SendingEnds
<1>3. QED
  BY <1>1, <1>2 DEF MediaServer

LEMMA HeadEvent ==
  ASSUME TypeOK, events # <<>>
  PROVE  /\ Head(events) = events[1]
         /\ 1 \in DOMAIN events
         /\ Head(events) \in Event
         /\ Tail(events) \in Seq(Event)
  BY DEF TypeOK

LEMMA SipThreadTypeOK ==
  ASSUME IInv, SipThread
  PROVE  TypeOK'
<1> USE DEF IInv, TypeOK, invite, dialog, table, thread, zlm, rtp, Turn, Done, Resting,
        EventInv
<1>1. CASE Loop
  BY <1>1 DEF Loop
<1>2. CASE Leave
  BY <1>2 DEF Leave
<1>3. CASE TakeEvent
  BY <1>3, HeadEvent DEF TakeEvent, Event
<1>4. CASE OnCallInvite
  BY <1>4 DEF OnCallInvite, Respond, CallStates
<1>5. CASE InsertSession
  BY <1>5 DEF InsertSession
<1>6. CASE SendInviteResponse
  BY <1>6 DEF SendInviteResponse, Respond, CallStates
<1>7. CASE OnCallACK
  BY <1>7 DEF OnCallACK, StartSendRtp, LoadMP4File, EventKinds
<1>8. CASE OnCallClosed
  BY <1>8 DEF OnCallClosed, StopSendRtp, Senders
<1>9. CASE OnCallCancelled
  BY <1>9 DEF OnCallCancelled
<1>10. CASE OnTeardown
  BY <1>10 DEF OnTeardown, StopSendRtp, Senders
<1>11. QED
  BY <1>1, <1>2, <1>3, <1>4, <1>5, <1>6, <1>7, <1>8, <1>9, <1>10 DEF SipThread

LEMMA HooksTypeOK ==
  ASSUME TypeOK, NEW w \in Periods, StreamRegistered(w) \/ StreamUnregistered(w)
  PROVE  TypeOK'
<1> USE DEF TypeOK, invite, dialog, thread, rtp
<1>1. ASSUME NEW b \in BOOLEAN, Serve(w, b)
      PROVE  hooks' \in [BOOLEAN -> [Periods -> Nat]]
  BY <1>1 DEF Serve
<1>2. CASE StreamRegistered(w)
  BY <1>1, <1>2 DEF StreamRegistered, StartSendRtp, Playing
<1>3. CASE StreamUnregistered(w)
  BY <1>1, <1>3 DEF StreamUnregistered
<1>4. QED
  BY <1>2, <1>3

LEMMA MainTypeOK ==
  ASSUME TypeOK, Main
  PROVE  TypeOK'
  BY DEF Main, Logout, StopSipClient, Join, StopSendRtp, Senders, TypeOK, invite, dialog,
     table, thread, zlm, rtp

LEMMA NextTypeOK ==
  ASSUME IInv, [Next]_vars
  PROVE  TypeOK'
<1>1. CASE UNCHANGED vars
  BY <1>1 DEF IInv, TypeOK, vars, invite, dialog, table, thread, zlm, rtp
<1>2. QED
  BY <1>1, ServerTypeOK, MediaTypeOK, SipThreadTypeOK, HooksTypeOK, MainTypeOK
     DEF Next, Server, Hooks, IInv

-----------------------------------------------------------------------------
(* The SIP server *)

\* An event at the end of the queue: those before it keep their places.
LEMMA Reported ==
  ASSUME TypeOK, NEW kind \in EventKinds, NEW c \in Calls, Report(kind, c)
  PROVE  /\ DOMAIN events' = 1..(Len(events) + 1)
         /\ DOMAIN events = 1..Len(events)
         /\ Len(events) \in Nat
         /\ \A i \in DOMAIN events : events'[i] = events[i]
         /\ events'[Len(events) + 1].kind = kind
         /\ events'[Len(events) + 1].call = c
<1>1. DEFINE e == [kind |-> kind, call |-> c]
<1>2. e \in Event /\ e.kind = kind /\ e.call = c
  BY DEF Event
<1>3. events' = Append(events, e) /\ events \in Seq(Event)
  BY DEF Report, TypeOK
<1> HIDE DEF e
<1>4. QED
  BY <1>2, <1>3

LEMMA EventFields ==
  ASSUME TypeOK
  PROVE  \A i \in DOMAIN events :
           events[i].kind \in EventKinds /\ events[i].call \in Calls
<1>1. \A i \in DOMAIN events : events[i] \in Event
  BY DEF TypeOK
<1>2. QED
  BY <1>1 DEF Event

\* What any step of the server comes to.
Reporting(kind, c) ==
  /\ Report(kind, c)
  /\ UNCHANGED <<thread, table, rtp, main>>
  /\ \A d \in Calls \ {c} : /\ call'[d] = call[d] /\ period'[d] = period[d]
                           /\ channel'[d] = channel[d] /\ target'[d] = target[d]
  /\ call[c] # "new" => UNCHANGED invite
  /\ call'[c] # "new" /\ call[c] \notin Over
  /\ call[c] = "acked" => call'[c] \in {"acked", "ended"}
  /\ call'[c] \in Over => kind \in Final
  /\ (Tells(kind, c))'

LEMMA ServerStep ==
  ASSUME IInv, NEW c \in Calls,
         \/ ServerInvites(c) \/ ServerCancels(c) \/ ServerAcks(c)
         \/ ServerHangsUp(c) \/ ReportsAgain(c)
  PROVE  \E kind \in EventKinds : Reporting(kind, c)
<1> USE DEF IInv, TypeOK, Reporting, Tells, Over, Final, EventKinds, zlm, invite
<1>1. CASE ServerInvites(c)
  <2>1. Reporting("invite", c)
    BY <1>1 DEF ServerInvites, Dialog
  <2>2. QED
    BY <2>1
<1>2. CASE ServerCancels(c)
  <2>1. Reporting("cancelled", c)
    BY <1>2 DEF ServerCancels, Dialog
  <2>2. QED
    BY <2>1
<1>3. CASE ServerAcks(c)
  <2>1. Reporting("ack", c)
    BY <1>3 DEF ServerAcks, Dialog
  <2>2. QED
    BY <2>1
<1>4. CASE ServerHangsUp(c)
  <2>1. Reporting("closed", c)
    BY <1>4 DEF ServerHangsUp, Dialog
  <2>2. QED
    BY <2>1
<1>5. CASE ReportsAgain(c)
  <2>1. PICK k \in {"invite", "ack", "teardown"} :
          /\ Report(k, c)
          /\ \/ call[c] \in {"invited", "answered"} /\ k = "invite"
             \/ call[c] = "acked" /\ k \in {"ack", "teardown"}
    BY <1>5 DEF ReportsAgain
  <2>2. Reporting(k, c)
    BY <1>5, <2>1 DEF ReportsAgain
  <2>3. QED
    BY <2>2
<1>6. QED
  BY <1>1, <1>2, <1>3, <1>4, <1>5

LEMMA ServerEventInv ==
  ASSUME IInv, NEW c \in Calls, NEW kind \in EventKinds, Reporting(kind, c)
  PROVE  EventInv'
<1> USE DEF IInv
<1>1. \A k, d : d \in Calls /\ Tells(k, d) /\ k \in EventKinds \cup {"insert", "answer"}
        => (Tells(k, d))'
  BY DEF Tells, Reporting, Over
<1>2. \A i \in DOMAIN events : events[i].kind \in EventKinds /\ events[i].call \in Calls
  BY EventFields
<1>3. ASSUME NEW i \in DOMAIN events'
      PROVE  (Tells(events[i].kind, events[i].call))'
  <2>1. CASE i \in DOMAIN events
    <3>1. Tells(events[i].kind, events[i].call)
      BY <2>1 DEF EventInv
    <3>2. events'[i] = events[i]
      BY <2>1, Reported DEF Reporting
    <3>3. QED
      BY <1>1, <1>2, <2>1, <3>1, <3>2 DEF Tells
  <2>2. CASE i \notin DOMAIN events
    <3>1. i = Len(events) + 1
      BY <2>2, Reported DEF Reporting
    <3>2. QED
      BY <3>1, Reported DEF Tells, Reporting
  <2>3. QED
    BY <2>1, <2>2
<1>4. cur # None => (Tells(pc, cur))'
  <2>1. SUFFICES ASSUME cur # None
                 PROVE  (Tells(pc, cur))'
    OBVIOUS
  <2>2. cur \in Calls /\ Tells(pc, cur) /\ pc \in EventKinds \cup {"insert", "answer"}
    BY <2>1 DEF EventInv, TypeOK, Resting
  <2>3. QED
    BY <1>1, <2>2 DEF thread, Tells, Reporting
<1>5. QED
  BY <1>3, <1>4 DEF EventInv, thread, Reporting

LEMMA ServerSenderInv ==
  ASSUME IInv, NEW c \in Calls, NEW kind \in EventKinds, Reporting(kind, c)
  PROVE  SenderInv'
<1> USE DEF IInv, TypeOK, Reporting, table, invite, rtp, Begun
<1>1. \A d \in sessions \cup Begun : d \in Calls /\ call[d] # "new" /\ call'[d] # "new"
  BY DEF SenderInv
<1>2. \A d \in Begun : period'[d] = period[d]
  BY <1>1
<1>3. \A d \in Calls : call[d] \in {"acked", "ended"} => call'[d] \in {"acked", "ended"}
  BY DEF Over
<1>4. QED
  BY <1>1, <1>2, <1>3 DEF SenderInv

LEMMA ServerTargetInv ==
  ASSUME IInv, NEW c \in Calls, NEW kind \in EventKinds, Reporting(kind, c)
  PROVE  TargetInv'
<1> USE DEF IInv, TypeOK, Reporting, table, invite, thread
<1>1. \A d \in sessions : d \in Calls /\ channel'[d] = channel[d] /\ target'[d] = target[d]
  BY DEF SenderInv
<1>2. pc = "insert" =>
        cur \in Calls /\ channel'[cur] = channel[cur] /\ target'[cur] = target[cur]
  BY DEF EventInv, Resting, Tells
<1>3. OneSessionPerTarget'
  BY <1>1 DEF OneSessionPerTarget, TargetInv
<1>4. pc = "insert" => cur \notin sessions /\ ~Busy'
  BY <1>1, <1>2 DEF Busy, TargetInv
<1>5. QED
  BY <1>3, <1>4 DEF TargetInv

LEMMA ServerOverInv ==
  ASSUME IInv, NEW c \in Calls, NEW kind \in EventKinds, Reporting(kind, c)
  PROVE  OverInv'
<1> USE DEF IInv
<1>1. SUFFICES ASSUME NEW d \in Calls, call'[d] \in Over
               PROVE  \/ Ending(d)'
                      \/ (Silent(d) /\ cur = d /\ pc \in Final)'
                      \/ (Silent(d) /\ cur # d /\ d \notin sessions)'
  BY DEF OverInv
<1>2. CASE d = c
  <2>1. kind \in Final
    BY <1>1, <1>2 DEF Reporting
  <2>2. Ending(d)'
    BY <1>2, <2>1, Reported DEF Ending, Reporting
  <2>3. QED
    BY <2>2
<1>3. CASE d # c
  <2>1. call[d] \in Over
    BY <1>1, <1>3 DEF Reporting
  <2>2. Ending(d) => Ending(d)'
    <3>1. SUFFICES ASSUME NEW j \in DOMAIN events, events[j].call = d,
                          events[j].kind \in Final,
                          \A i \in DOMAIN events : events[i].call = d => i <= j
                   PROVE  Ending(d)'
      BY DEF Ending
    <3>2. j \in DOMAIN events' /\ events'[j] = events[j]
      BY Reported DEF Reporting
    <3>3. \A i \in DOMAIN events' : events'[i].call = d => i <= j
      BY <1>3, <3>1, Reported DEF Reporting
    <3>4. QED
      BY <3>1, <3>2, <3>3 DEF Ending
  <2>3. Silent(d) => Silent(d)'
    BY <1>3, Reported DEF Silent, Reporting
  <2>4. QED
    BY <2>1, <2>2, <2>3 DEF OverInv, Reporting, thread, table
<1>4. QED
  BY <1>2, <1>3

-----------------------------------------------------------------------------
(* The media server, its hooks and the main thread *)

\* They leave dialogs and the SIP thread alone, and live sessions too.
Aside ==
  /\ UNCHANGED <<invite, dialog, thread>>
  /\ sessions' \subseteq sessions
  /\ \A c \in sessions \ sessions' : period[c] # Live
  /\ \A c \in Begun' \ Begun : c \in sessions /\ period[c] # Live
  /\ \A c \in told \ told' : period[c] # Live

LEMMA AsideStep ==
  ASSUME IInv, MediaServer \/ Hooks \/ Main \/ UNCHANGED vars
  PROVE  Aside
<1> USE DEF Aside, table, zlm, rtp, Begun
<1>1. CASE UNCHANGED vars
  BY <1>1 DEF vars
<1>2. CASE MediaServer
  BY <1>2 DEF MediaServer, RecordingRegisters, RecordingEnds, SendingStarts, SendingEnds,
     Senders
<1>3. CASE Main
  BY <1>3 DEF Main, Logout, StopSipClient, Join, StopSendRtp, Senders
<1>4. ASSUME NEW w \in Periods, StreamRegistered(w) \/ StreamUnregistered(w)
      PROVE  Aside
  <2>1. w # Live
    BY SessionAssumption
  <2>2. CASE StreamRegistered(w)
    <3>1. /\ \A c \in Begun' \ Begun : c \in sessions /\ period[c] = w
          /\ \A c \in told \ told' : period[c] = w
      BY <2>2 DEF StreamRegistered, Playing, StartSendRtp
    <3>2. QED
      BY <2>1, <2>2, <3>1 DEF StreamRegistered
  <2>3. CASE StreamUnregistered(w)
    <3>1. \A c \in sessions \ sessions' : period[c] = w
      BY <2>3 DEF StreamUnregistered, Playing
    <3>2. QED
      BY <2>1, <2>3, <3>1 DEF StreamUnregistered
  <2>4. QED
    BY <1>4, <2>2, <2>3
<1>5. QED
  BY <1>1, <1>2, <1>3, <1>4 DEF Hooks

LEMMA AsideIInv ==
  ASSUME IInv, Aside
  PROVE  EventInv' /\ SenderInv' /\ TargetInv' /\ OverInv'
<1> USE DEF IInv, Aside, invite, dialog, thread
<1>1. EventInv'
  BY DEF EventInv, Tells
<1>2. SenderInv'
  BY DEF SenderInv, Begun
<1>3. TargetInv'
  BY DEF TargetInv, OneSessionPerTarget, Busy
<1>4. OverInv'
  <2>1. SUFFICES ASSUME NEW d \in Calls, call[d] \in Over
                 PROVE  \/ Ending(d)
                        \/ Silent(d) /\ cur = d /\ pc \in Final
                        \/ Silent(d) /\ cur # d /\ d \notin sessions'
    BY DEF OverInv, Ending, Silent
  <2>2. QED
    BY <2>1 DEF OverInv
<1>5. QED
  BY <1>1, <1>2, <1>3, <1>4

-----------------------------------------------------------------------------
(* The SIP thread *)

\* The step that takes an event.
LEMMA Taken ==
  ASSUME IInv, TakeEvent
  PROVE  /\ UNCHANGED <<invite, call, table, rtp>>
         /\ pc' = events[1].kind /\ cur' = events[1].call
         /\ pc' \in EventKinds /\ cur' \in Calls
         /\ cur = None
         /\ 1 \in DOMAIN events
         /\ DOMAIN events = 1..Len(events) /\ Len(events) \in Nat
         /\ DOMAIN events' = 1..(Len(events) - 1)
         /\ \A i \in DOMAIN events' : events'[i] = events[i + 1]
<1> USE DEF IInv, TakeEvent, Turn, table, zlm, invite
<1>1. Head(events) = events[1] /\ 1 \in DOMAIN events /\ events[1] \in Event
  BY HeadEvent
<1>2. events' = Tail(events) /\ events \in Seq(Event) /\ events # <<>>
  BY DEF TypeOK
<1>3. /\ DOMAIN events = 1..Len(events) /\ Len(events) \in Nat
      /\ DOMAIN events' = 1..(Len(events) - 1)
      /\ \A i \in DOMAIN events' : events'[i] = events[i + 1]
  BY <1>2
<1>4. pc' \in EventKinds /\ cur' \in Calls
  BY <1>1 DEF Event
<1>5. QED
  BY <1>1, <1>3, <1>4 DEF EventInv, Resting

LEMMA TakeIInv ==
  ASSUME IInv, TakeEvent
  PROVE  EventInv' /\ SenderInv' /\ TargetInv' /\ OverInv'
<1> USE DEF IInv
<1>1. UNCHANGED <<invite, call, table, rtp>>
  BY Taken
<1>2. EventInv'
  <2>1. \A i \in DOMAIN events : Tells(events[i].kind, events[i].call)
    BY DEF EventInv
  <2>2. \A i \in DOMAIN events' : (Tells(events[i].kind, events[i].call))'
    <3>1. \A i \in DOMAIN events' : i + 1 \in DOMAIN events
      BY Taken
    <3>2. QED
      BY <1>1, <2>1, <3>1, Taken DEF Tells
  <2>3. pc' \notin Resting /\ cur' # None
    BY Taken, SessionAssumption DEF Resting, EventKinds
  <2>4. (Tells(pc, cur))'
    BY <1>1, <2>1, Taken DEF Tells
  <2>5. QED
    BY <2>2, <2>3, <2>4 DEF EventInv
<1>3. SenderInv'
  BY <1>1 DEF SenderInv, table, invite, rtp, Begun
<1>4. TargetInv'
  <2>1. pc' # "insert"
    BY Taken DEF EventKinds
  <2>2. QED
    BY <1>1, <2>1 DEF TargetInv, OneSessionPerTarget, table, invite
<1>5. OverInv'
  <2>1. SUFFICES ASSUME NEW d \in Calls, call[d] \in Over
                 PROVE  \/ Ending(d)'
                        \/ (Silent(d) /\ cur = d /\ pc \in Final)'
                        \/ (Silent(d) /\ cur # d /\ d \notin sessions)'
    BY <1>1 DEF OverInv
  <2>2. d # None
    BY SessionAssumption
  <2>3. CASE Ending(d)
    <3>1. PICK j \in DOMAIN events :
            /\ events[j].call = d
            /\ events[j].kind \in Final
            /\ \A i \in DOMAIN events : events[i].call = d => i <= j
      BY <2>3 DEF Ending
    <3>2. CASE j = 1
      <4>1. Silent(d)'
        <5>1. \A i \in DOMAIN events' : i + 1 \in DOMAIN events /\ ~(i + 1 <= 1)
          BY Taken
        <5>2. QED
          BY <3>1, <3>2, <5>1, Taken DEF Silent
      <4>2. QED
        BY <3>1, <3>2, <4>1, Taken
    <3>3. CASE j # 1
      <4>1. j - 1 \in DOMAIN events' /\ events'[j - 1] = events[j]
        BY <3>3, Taken
      <4>2. \A i \in DOMAIN events' : events'[i].call = d => i <= j - 1
        BY <3>1, Taken
      <4>3. QED
        BY <3>1, <4>1, <4>2 DEF Ending
    <3>4. QED
      BY <3>2, <3>3
  <2>4. CASE Silent(d) /\ d \notin sessions
    <3>1. Silent(d)' /\ cur' # d
      BY <2>4, Taken DEF Silent
    <3>2. QED
      BY <1>1, <2>4, <3>1 DEF table
  <2>5. QED
    BY <2>1, <2>2, <2>3, <2>4, Taken DEF OverInv
<1>6. QED
  BY <1>2, <1>3, <1>4, <1>5

\* Every other step of the SIP thread: it handles the event of cur, and may
\* answer that call.
Handling ==
  /\ UNCHANGED <<invite, events>>
  /\ \A c \in Calls :
       call'[c] # call[c] => call[c] = "invited" /\ call'[c] \in {"refused", "answered"}
  /\ pc' \in Resting <=> cur' = None
  /\ cur' # None => cur' = cur /\ pc' \in {"insert", "answer"}
  /\ cur = None => cur' = None

LEMMA HandlingStep ==
  ASSUME IInv, SipThread, ~TakeEvent
  PROVE  Handling
<1> USE DEF IInv, Handling, TypeOK, EventInv, Resting, Turn, Done, dialog, Respond, table,
        zlm
<1>1. CASE Loop
  BY <1>1 DEF Loop
<1>2. CASE Leave
  BY <1>2 DEF Leave
<1>3. CASE OnCallInvite
  BY <1>3 DEF OnCallInvite
<1>4. CASE InsertSession
  BY <1>4 DEF InsertSession
<1>5. CASE SendInviteResponse
  BY <1>5 DEF SendInviteResponse
<1>6. CASE OnCallACK
  BY <1>6 DEF OnCallACK
<1>7. CASE OnCallClosed
  BY <1>7 DEF OnCallClosed
<1>8. CASE OnCallCancelled
  BY <1>8 DEF OnCallCancelled
<1>9. CASE OnTeardown
  BY <1>9 DEF OnTeardown
<1>10. QED
  BY <1>1, <1>2, <1>3, <1>4, <1>5, <1>6, <1>7, <1>8, <1>9 DEF SipThread

LEMMA HandlingEventInv ==
  ASSUME IInv, Handling
  PROVE  EventInv'
<1> USE DEF IInv
<1>1. \A k, d : d \in Calls /\ Tells(k, d) => (Tells(k, d))'
  BY DEF Tells, Handling, TypeOK
<1>2. \A i \in DOMAIN events : events[i].call \in Calls
  BY EventFields
<1>3. \A i \in DOMAIN events' : (Tells(events[i].kind, events[i].call))'
  <2>1. events' = events
    BY DEF Handling
  <2>2. \A i \in DOMAIN events : (Tells(events[i].kind, events[i].call))
    BY DEF EventInv
  <2>3. \A i \in DOMAIN events :
          \A k, d : k = events[i].kind /\ d = events[i].call => (Tells(k, d))'
    BY <1>1, <1>2, <2>2
  <2>4. QED
    BY <2>1, <2>3 DEF Tells
<1>4. cur' # None => (Tells(pc, cur))'
  <2>1. SUFFICES ASSUME cur' # None
                 PROVE  (Tells(pc, cur))'
    OBVIOUS
  <2>2. cur' = cur /\ cur \in Calls /\ pc' \in {"insert", "answer"} /\ Tells(pc, cur)
    BY <2>1 DEF Handling, EventInv, TypeOK
  <2>3. QED
    BY <2>2 DEF Tells, Handling, TypeOK
<1>5. QED
  BY <1>3, <1>4 DEF EventInv, Handling, Resting

LEMMA ThreadSenderInv ==
  ASSUME IInv, SipThread, Handling
  PROVE  SenderInv'
<1> USE DEF IInv, invite, rtp, Begun
<1>1. /\ \A c \in sessions' : c \in sessions \/ (c = cur /\ cur # None)
      /\ \A c \in Begun' : c \in Begun \/ (c = cur /\ cur # None)
  <2>1. CASE InsertSession
    BY <2>1 DEF InsertSession, Turn, EventInv, Resting, zlm
  <2>2. CASE OnCallACK
    BY <2>2 DEF OnCallACK, StartSendRtp, EventInv, Resting
  <2>3. CASE OnCallClosed \/ OnCallCancelled \/ OnTeardown
    BY <2>3 DEF OnCallClosed, OnCallCancelled, OnTeardown, StopSendRtp, Senders, table, zlm
  <2>4. CASE UNCHANGED <<sessions, rtp>>
    BY <2>4
  <2>5. QED
    BY <2>1, <2>2, <2>3, <2>4
       DEF SipThread, Loop, Leave, TakeEvent, OnCallInvite, SendInviteResponse,
           Respond, table, zlm
<1>2. \A c \in sessions' \cup Begun' : c \in Calls /\ call[c] # "new"
  BY <1>1 DEF SenderInv, EventInv, Tells, TypeOK
<1>3. \A c \in sessions' \cup Begun' : call'[c] # "new"
  BY <1>2 DEF Handling
<1>4. ASSUME NEW c \in Begun', period[c] = Live
      PROVE  c \in sessions' \cup told' /\ call[c] \in {"acked", "ended"}
  <2>1. c \in Calls
    BY <1>2
  <2>2. CASE UNCHANGED <<sessions, rtp>>
    BY <1>4, <2>2 DEF SenderInv
  <2>3. CASE InsertSession
    BY <1>4, <2>3 DEF InsertSession, SenderInv, zlm
  <2>4. CASE OnCallACK
    <3>1. \/ c \in Begun /\ rtp' = rtp
          \/ /\ c = cur \/ c \in Begun
             /\ Known /\ told' = told \ {cur}
      BY <1>4, <2>4 DEF OnCallACK, StartSendRtp
    <3>2. sessions' = sessions /\ pc = "ack"
      BY <2>4 DEF OnCallACK
    <3>3. Known => Tells("ack", cur)
      BY <3>2, SessionAssumption DEF EventInv, Known, TypeOK
    <3>4. QED
      BY <1>4, <3>1, <3>2, <3>3 DEF SenderInv, Tells, Known
  <2>5. CASE OnCallClosed
    <3>1. c \in Begun
      BY <1>4, <2>5 DEF OnCallClosed, StopSendRtp, Senders
    <3>2. c \in Closed => c \in told'
      BY <1>4, <2>1, <2>5 DEF OnCallClosed, StopSendRtp
    <3>3. told \subseteq told' /\ sessions' = sessions \ Closed
      BY <2>5 DEF OnCallClosed, StopSendRtp
    <3>4. QED
      BY <1>4, <3>1, <3>2, <3>3 DEF SenderInv
  <2>6. CASE OnCallCancelled
    <3>1. call[cur] = "cancelled"
      BY <2>6, SessionAssumption DEF OnCallCancelled, EventInv, Tells, Resting
    <3>2. QED
      BY <1>4, <2>6, <3>1 DEF OnCallCancelled, SenderInv, zlm
  <2>7. CASE OnTeardown
    <3>1. c \in Begun /\ told \subseteq told' /\ sessions' = sessions
      BY <1>4, <2>7 DEF OnTeardown, StopSendRtp, Senders, table
    <3>2. QED
      BY <1>4, <3>1 DEF SenderInv
  <2>8. QED
    BY <2>2, <2>3, <2>4, <2>5, <2>6, <2>7
       DEF SipThread, Loop, Leave, TakeEvent, OnCallInvite, SendInviteResponse,
           Respond, table, zlm
<1>5. QED
  BY <1>3, <1>4, <1>2 DEF SenderInv, Handling

LEMMA ThreadTargetInv ==
  ASSUME IInv, SipThread, Handling
  PROVE  TargetInv'
<1> USE DEF IInv, Handling, invite
<1>1. CASE InsertSession
  <2>1. pc = "insert" /\ pc' = "answer" /\ sessions' = sessions \cup {cur}
    BY <1>1 DEF InsertSession, Turn
  <2>2. OneSessionPerTarget'
    BY <2>1 DEF TargetInv, OneSessionPerTarget, Busy
  <2>3. QED
    BY <2>1, <2>2 DEF TargetInv
<1>2. CASE ~InsertSession
  <2>1. sessions' \subseteq sessions
    BY <1>2 DEF SipThread, Loop, Leave, TakeEvent, OnCallInvite,
         SendInviteResponse, OnCallACK, OnCallClosed, OnCallCancelled, OnTeardown,
         Respond, table
  <2>2. pc' = "insert" => OnCallInvite /\ pc' = "insert"
    BY <1>2 DEF SipThread, Loop, Leave, TakeEvent, SendInviteResponse, OnCallACK,
         OnCallClosed, OnCallCancelled, OnTeardown, Turn, Done, EventInv, Resting
  <2>3. pc' = "insert" => cur' = cur /\ cur \notin sessions /\ ~Busy
    BY <2>2 DEF OnCallInvite, Done, Known
  <2>4. QED
    BY <2>1, <2>3 DEF TargetInv, OneSessionPerTarget, Busy
<1>3. QED
  BY <1>1, <1>2

LEMMA ThreadOverInv ==
  ASSUME IInv, SipThread, ~TakeEvent, Handling
  PROVE  OverInv'
<1> USE DEF IInv, Handling
<1>1. SUFFICES ASSUME NEW d \in Calls, call'[d] \in Over
               PROVE  \/ Ending(d)
                      \/ Silent(d) /\ cur' = d /\ pc' \in Final
                      \/ Silent(d) /\ cur' # d /\ d \notin sessions'
  BY DEF OverInv, Ending, Silent
<1>2. call[d] \in Over /\ d # None
  BY <1>1, SessionAssumption DEF Over
<1>3. CASE Silent(d) /\ cur = d /\ pc \in Final
  <2>1. OnCallClosed \/ OnCallCancelled
    BY <1>3 DEF Final, SipThread, Loop, Leave, OnCallInvite, InsertSession,
         SendInviteResponse, OnCallACK, OnTeardown, Turn
  <2>2. cur' = None /\ d \notin sessions'
    BY <1>3, <2>1 DEF OnCallClosed, OnCallCancelled, Done, Closed
  <2>3. QED
    BY <1>2, <1>3, <2>2
<1>4. CASE Silent(d) /\ cur # d /\ d \notin sessions
  <2>1. d \notin sessions'
    BY <1>4 DEF SipThread, Loop, Leave, OnCallInvite, InsertSession,
         SendInviteResponse, OnCallACK, OnCallClosed, OnCallCancelled, OnTeardown,
         Respond, table
  <2>2. QED
    BY <1>2, <1>4, <2>1
<1>5. QED
  BY <1>2, <1>3, <1>4 DEF OverInv

-----------------------------------------------------------------------------
(* The invariant and what follows from it *)

LEMMA NextIInv == IInv /\ [Next]_vars => IInv'
<1> SUFFICES ASSUME IInv, [Next]_vars
             PROVE  IInv'
  OBVIOUS
<1>1. TypeOK'
  BY NextTypeOK
<1>2. EventInv' /\ SenderInv' /\ TargetInv' /\ OverInv'
  <2>1. CASE Server
    BY <2>1, ServerStep, ServerEventInv, ServerSenderInv, ServerTargetInv, ServerOverInv
       DEF Server
  <2>2. CASE MediaServer \/ Hooks \/ Main \/ UNCHANGED vars
    BY <2>2, AsideStep, AsideIInv
  <2>3. CASE TakeEvent
    BY <2>3, TakeIInv
  <2>4. CASE SipThread /\ ~TakeEvent
    BY <2>4, HandlingStep, HandlingEventInv, ThreadSenderInv, ThreadTargetInv,
       ThreadOverInv
  <2>5. QED
    BY <2>1, <2>2, <2>3, <2>4 DEF Next
<1>3. QED
  BY <1>1, <1>2 DEF IInv

LEMMA AlwaysIInv == Spec => []IInv
  BY InitIInv, NextIInv, PTL DEF Spec

\* Every variable keeps its type, the sequence of events among them.
THEOREM SessionsTypeCorrect == Spec => []TypeOK
<1>1. IInv => TypeOK
  BY DEF IInv
<1>2. QED
  BY <1>1, AlwaysIInv, PTL

\* The device keeps the session of a live stream until it has asked the media server
\* to stop it: no repeated INVITE or ACK, no hook of another stream, no CANCEL and no
\* answer that comes late takes it away before, for any number of calls.
THEOREM LiveStaysStoppable == Spec => []LiveCanBeStopped
<1>1. IInv => LiveCanBeStopped
  BY DEF IInv, SenderInv, LiveCanBeStopped, SendingLive, Begun
<1>2. QED
  BY <1>1, AlwaysIInv, PTL

\* OnCallInvite reads the table without its mutex and inserts later, yet no two
\* sessions of one channel ever have the same receiver: only the SIP thread inserts.
THEOREM TargetsStayApart == Spec => []OneSessionPerTarget
<1>1. IInv => OneSessionPerTarget
  BY DEF IInv, TargetInv
<1>2. QED
  BY <1>1, AlwaysIInv, PTL

\* A call that is over and fully handled leaves no session behind, in whatever order its
\* INVITE, ACK, CANCEL and BYE were reported and repeated.
THEOREM OverStaysForgotten == Spec => []OverIsForgotten
<1>1. IInv => OverIsForgotten
  BY DEF IInv, OverInv, OverIsForgotten, Over, Ending, Handled
<1>2. QED
  BY <1>1, AlwaysIInv, PTL

-----------------------------------------------------------------------------
(* The contract of a call *)

\* One dialog moves along: the ways a dialog may go.
Moves(c, from, to) ==
  /\ call[c] = from
  /\ call' = [call EXCEPT ![c] = to]
  /\ \/ from = "new" /\ to = "invited"
     \/ from = "invited" /\ to \in {"answered", "refused", "cancelled"}
     \/ from = "answered" /\ to \in {"acked", "ended"}
     \/ from = "acked" /\ to = "ended"

\* No step moves a dialog but along those ways, and one that does starts nothing.
LEMMA DialogMoves ==
  ASSUME IInv, [Next]_vars
  PROVE  \/ call' = call
         \/ /\ sending' = sending
            /\ \E c \in Calls : \E from, to : Moves(c, from, to)
<1> USE DEF IInv, TypeOK, zlm, rtp, dialog
<1>1. ASSUME NEW c \in Calls, \/ ServerInvites(c) \/ ServerCancels(c) \/ ServerAcks(c)
                              \/ ServerHangsUp(c) \/ ReportsAgain(c)
      PROVE  \/ call' = call
             \/ sending' = sending /\ \E from, to : Moves(c, from, to)
  <2>1. CASE ReportsAgain(c)
    BY <2>1 DEF ReportsAgain
  <2>2. CASE ~ReportsAgain(c)
    <3>1. \/ Moves(c, "new", "invited")
          \/ Moves(c, "invited", "cancelled")
          \/ Moves(c, "answered", "acked")
          \/ Moves(c, call[c], "ended")
      BY <1>1, <2>2 DEF ServerInvites, ServerCancels, ServerAcks, ServerHangsUp, Dialog, Moves
    <3>2. sending' = sending
      BY <1>1, <2>2 DEF ServerInvites, ServerCancels, ServerAcks, ServerHangsUp, Dialog
    <3>3. QED
      BY <3>1, <3>2
  <2>3. QED
    BY <2>1, <2>2
<1>2. CASE SipThread /\ ~TakeEvent
  <2>1. CASE OnCallInvite \/ SendInviteResponse
    <3>1. cur \in Calls
      BY <2>1 DEF OnCallInvite, SendInviteResponse, Turn, EventInv, Resting
    <3>2. \/ call' = call
          \/ /\ sending' = sending
             /\ Moves(cur, "invited", "refused") \/ Moves(cur, "invited", "answered")
      BY <2>1 DEF OnCallInvite, SendInviteResponse, Respond, Moves
    <3>3. QED
      BY <3>1, <3>2
  <2>2. CASE ~(OnCallInvite \/ SendInviteResponse)
    BY <1>2, <2>2 DEF SipThread, Loop, Leave, InsertSession, OnCallACK, OnCallClosed,
       OnCallCancelled, OnTeardown
  <2>3. QED
    BY <2>1, <2>2
<1>3. CASE TakeEvent
  BY <1>3, Taken
<1>4. CASE MediaServer \/ Hooks \/ Main \/ UNCHANGED vars
  BY <1>4, AsideStep DEF Aside
<1>5. QED
  BY <1>1, <1>2, <1>3, <1>4 DEF Next, Server

\* What a call that is sent was asked for does not change any more.
LEMMA LivePeriods ==
  ASSUME IInv, [Next]_vars
  PROVE  \A c \in Begun : period'[c] = period[c]
<1>1. \A c \in Begun : c \in Calls /\ call[c] # "new"
  BY DEF IInv, SenderInv, TypeOK, Begun
<1>2. CASE Server
  <2>1. PICK c \in Calls, kind \in EventKinds : Reporting(kind, c)
    BY <1>2, ServerStep DEF Server
  <2>2. QED
    BY <1>1, <2>1 DEF Reporting, invite
<1>3. CASE ~Server
  <2>1. UNCHANGED invite
    <3>1. CASE TakeEvent
      BY <3>1, Taken
    <3>2. CASE SipThread /\ ~TakeEvent
      BY <3>2, HandlingStep DEF Handling
    <3>3. QED
      BY <1>3, <3>1, <3>2, AsideStep DEF Next, Aside
  <2>2. QED
    BY <2>1 DEF invite
<1>4. QED
  BY <1>2, <1>3

\* A step that starts a live stream starts one, of an acknowledged call.
LEMMA LiveStarts ==
  ASSUME IInv, [Next]_vars
  PROVE  \/ SendingLive' \subseteq SendingLive
         \/ \E c \in Calls : /\ call[c] \in {"acked", "ended"}
                             /\ SendingLive' = SendingLive \cup {c}
                             /\ call' = call
<1> USE DEF IInv
<1>1. CASE Server
  <2>1. sending' = sending
    BY <1>1, ServerStep DEF Server, Reporting, rtp
  <2>2. QED
    BY <2>1, LivePeriods DEF SendingLive, Begun
<1>2. ASSUME NEW c \in Calls, SendingStarts(c)
      PROVE  \/ SendingLive' = SendingLive
             \/ /\ call[c] \in {"acked", "ended"} /\ call' = call
                /\ SendingLive' = SendingLive \cup {c}
  <2>1. sending' = sending \cup {c} /\ UNCHANGED <<invite, call>> /\ c \in Begun
    BY <1>2 DEF SendingStarts, dialog, Begun
  <2>2. QED
    BY <2>1 DEF SendingLive, SenderInv, invite
<1>3. CASE \/ Hooks \/ Main
           \/ MediaServer /\ ~(\E c \in Calls : SendingStarts(c))
  <2>1. UNCHANGED invite
    BY <1>3, AsideStep DEF Aside
  <2>2. \A c \in sending' \ sending : period[c] # Live
    <3>1. ASSUME NEW w \in Periods, StreamRegistered(w)
          PROVE  \A c \in sending' \ sending : period[c] = w
      BY <3>1 DEF StreamRegistered, StartSendRtp, Playing, rtp
    <3>2. \A w \in Periods : w # Live
      BY SessionAssumption
    <3>3. CASE sending' \subseteq sending
      BY <3>3
    <3>4. QED
      BY <1>3, <3>1, <3>2, <3>3
         DEF MediaServer, RecordingRegisters, RecordingEnds, SendingEnds, Senders, Hooks,
             StreamUnregistered, Main, Logout, StopSipClient, Join, StopSendRtp, zlm, rtp
  <2>3. QED
    BY <2>1, <2>2 DEF SendingLive, invite
<1>4. CASE UNCHANGED vars
  BY <1>4 DEF vars, zlm, rtp, invite, SendingLive
<1>5. CASE TakeEvent
  BY <1>5, Taken DEF SendingLive, invite, rtp
<1>6. CASE OnCallACK
  <2>1. cur \in Calls /\ call[cur] \in {"acked", "ended"}
    BY <1>6, SessionAssumption DEF OnCallACK, EventInv, Resting, Tells, TypeOK
  <2>2. UNCHANGED <<invite, call>>
    BY <1>6 DEF OnCallACK, Done, dialog
  <2>3. \/ sending' = sending
        \/ period[cur] = Live /\ sending' = sending \cup {cur}
    BY <1>6 DEF OnCallACK, StartSendRtp, rtp
  <2>4. \/ SendingLive' = SendingLive
        \/ SendingLive' = SendingLive \cup {cur}
    BY <2>2, <2>3 DEF SendingLive, invite
  <2>5. QED
    BY <2>1, <2>2, <2>4
<1>7. CASE SipThread /\ ~TakeEvent /\ ~OnCallACK
  <2>1. sending' \subseteq sending /\ UNCHANGED invite
    BY <1>7 DEF SipThread, Loop, Leave, OnCallInvite, InsertSession, SendInviteResponse,
       OnCallClosed, OnCallCancelled, OnTeardown, Respond, Turn, Done, StopSendRtp, Senders,
       zlm, rtp
  <2>2. QED
    BY <2>1 DEF SendingLive, invite
<1>8. QED
  BY <1>1, <1>2, <1>3, <1>4, <1>5, <1>6, <1>7 DEF Next, MediaServer

LEMMA MovesNext ==
  ASSUME TypeOK, NEW c \in Calls, NEW from, NEW to, Moves(c, from, to),
         SendingLive' = SendingLive
  PROVE  Contract!Next
<1> DEFINE phase == [d \in Calls |-> Phase(d)]
<1>1. \A d \in Calls : call'[d] = IF d = c THEN to ELSE call[d]
  BY DEF TypeOK, Moves
<1>2. \A d \in Calls : d # c => Phase(d)' = Phase(d)
  BY <1>1 DEF Phase
<1>3. phase' = [phase EXCEPT ![c] = Phase(c)']
  BY <1>2
<1>4. call[c] = from /\ call'[c] = to /\ phase[c] = Phase(c)
  BY <1>1 DEF Moves
<1>5. CASE to \in {"refused", "cancelled", "ended"}
  <2>1. phase[c] \in Contract!Up /\ Phase(c)' = "over"
    BY <1>4, <1>5 DEF Phase, Moves, Contract!Up
  <2>2. Contract!End(c)
    BY <1>3, <2>1 DEF Contract!End
  <2>3. QED
    BY <2>2 DEF Contract!Next
<1>6. CASE \/ from = "new" /\ to = "invited"
           \/ from = "invited" /\ to = "answered"
           \/ from = "answered" /\ to = "acked"
  <2>1. \/ phase[c] = "none" /\ Phase(c)' = "inviting"
        \/ phase[c] = "inviting" /\ Phase(c)' = "answered"
        \/ phase[c] = "answered" /\ Phase(c)' = "acked"
    BY <1>4, <1>6 DEF Phase
  <2>2. Contract!Invite(c) \/ Contract!Answer(c) \/ Contract!Acknowledge(c)
    BY <1>3, <2>1 DEF Contract!Invite, Contract!Answer, Contract!Acknowledge, Contract!Proceed
  <2>3. QED
    BY <2>2 DEF Contract!Next
<1>7. \/ to \in {"refused", "cancelled", "ended"}
      \/ from = "new" /\ to = "invited"
      \/ from = "invited" /\ to = "answered"
      \/ from = "answered" /\ to = "acked"
  BY DEF Moves
<1> HIDE DEF phase
<1>8. QED
  BY <1>5, <1>6, <1>7

\* Whatever the server, the stack and the hooks repeat or reorder, a call goes the
\* way of the contract, and its live media starts after its acknowledgement: the
\* SIP thread handles an ACK only of a call that was acknowledged.
THEOREM DeviceKeepsContract == Spec => ImplementsContract
<1>1. Init => Contract!Init
  BY DEF Init, Contract!Init, Phase, SendingLive
<1>2. IInv /\ [Next]_vars => [Contract!Next]_Contract!callVars
  <2>1. SUFFICES ASSUME IInv, [Next]_vars
                 PROVE  [Contract!Next]_Contract!callVars
    OBVIOUS
  <2>2. CASE call' = call /\ SendingLive' \subseteq SendingLive
    <3>1. Contract!StopSending
      BY <2>2 DEF Contract!StopSending, Phase
    <3>2. QED
      BY <3>1 DEF Contract!Next
  <2>3. ASSUME NEW c \in Calls, call[c] \in {"acked", "ended"}, call' = call,
               SendingLive' = SendingLive \cup {c}
        PROVE  Contract!Next
    <3>1. Contract!StartSending(c)
      BY <2>3 DEF Contract!StartSending, Phase
    <3>2. QED
      BY <3>1 DEF Contract!Next
  <2>4. ASSUME NEW c \in Calls, NEW from, NEW to, Moves(c, from, to), sending' = sending
        PROVE  Contract!Next
    <3>1. SendingLive' = SendingLive
      <4>1. \A d \in sending : period'[d] = period[d]
        BY <2>1, LivePeriods DEF Begun
      <4>2. QED
        BY <2>4, <4>1 DEF SendingLive
    <3>2. QED
      BY <2>1, <2>4, <3>1, MovesNext DEF IInv
  <2>5. QED
    BY <2>1, <2>2, <2>3, <2>4, DialogMoves, LiveStarts
<1>3. QED
  BY <1>1, <1>2, AlwaysIInv, PTL DEF Spec, ImplementsContract, Contract!Spec

-----------------------------------------------------------------------------
(* The end of the device *)

\* The SIP thread outlives the main thread's wait for it, and no longer.
StopInv ==
  /\ main \in {"joining", "stopped"} => LiveBegun \subseteq told
  /\ main = "stopped" => pc = "exited"

LEMMA MainSteps ==
  ASSUME IInv, [Next]_vars
  PROVE  \/ main' = main
         \/ main' = "logout"
         \/ main = "joining" /\ main' = "stopped"
         \/ StopSipClient
  BY DEF Next, Server, ServerInvites, ServerCancels, ServerAcks, ServerHangsUp, Dialog,
     ReportsAgain, MediaServer, RecordingRegisters, RecordingEnds, SendingStarts,
     SendingEnds, Hooks, StreamRegistered, StreamUnregistered, SipThread, Loop, Leave,
     TakeEvent, OnCallInvite, InsertSession, SendInviteResponse, OnCallACK, OnCallClosed,
     OnCallCancelled, OnTeardown, Turn, Done, Main, Logout, Join, vars

\* Join waits for the end of the SIP thread, which does nothing after it.
LEMMA ExitedSteps ==
  ASSUME IInv, [Next]_vars, main' = "stopped", main = "stopped" => pc = "exited"
  PROVE  pc' = "exited"
<1>1. CASE Server
  BY <1>1, ServerStep DEF Server, Reporting, thread
<1>2. CASE MediaServer
  BY <1>2 DEF MediaServer, RecordingRegisters, RecordingEnds, SendingStarts, SendingEnds, thread
<1>3. CASE Hooks
  BY <1>3 DEF Hooks, StreamRegistered, StreamUnregistered, thread
<1>4. CASE SipThread
  BY <1>4 DEF SipThread, Loop, Leave, TakeEvent, OnCallInvite, InsertSession,
     SendInviteResponse, OnCallACK, OnCallClosed, OnCallCancelled, OnTeardown, Turn, Done
<1>5. CASE Main
  BY <1>5 DEF Main, Logout, StopSipClient, Join, thread
<1>6. CASE UNCHANGED vars
  BY <1>6 DEF vars, thread
<1>7. QED
  BY <1>1, <1>2, <1>3, <1>4, <1>5, <1>6 DEF Next

\* Only the handler of an ACK, which needs the mutex, gives the media server another
\* order than to stop a live stream.
LEMMA OnlyAckStarts ==
  ASSUME IInv, [Next]_vars, ~(OnCallACK /\ Unlocked)
  PROVE  LiveBegun' \ told' \subseteq LiveBegun \ told
<1> USE DEF IInv, LiveBegun
<1>1. CASE Server
  <2>1. UNCHANGED rtp
    BY <1>1, ServerStep DEF Server, Reporting
  <2>2. QED
    BY <2>1, LivePeriods DEF rtp, Begun
<1>2. CASE MediaServer \/ Hooks \/ Main \/ UNCHANGED vars
  BY <1>2, AsideStep DEF Aside, invite
<1>3. CASE TakeEvent
  BY <1>3, Taken DEF invite, rtp, Begun
<1>4. CASE OnCallACK
  BY <1>4 DEF OnCallACK
<1>5. CASE SipThread /\ ~TakeEvent /\ ~OnCallACK
  <2>1. Begun' \subseteq Begun /\ told \subseteq told' /\ UNCHANGED invite
    BY <1>5 DEF SipThread, Loop, Leave, OnCallInvite, InsertSession, SendInviteResponse,
       OnCallClosed, OnCallCancelled, OnTeardown, Respond, Turn, Done, StopSendRtp, Senders,
       zlm, rtp, Begun
  <2>2. QED
    BY <2>1 DEF invite
<1>6. QED
  BY <1>1, <1>2, <1>3, <1>4, <1>5 DEF Next

\* StopSipClient asks for the end of each live stream that has a session; the others
\* are the ones it was told to stop before.
LEMMA AllTold ==
  ASSUME IInv, StopSipClient
  PROVE  LiveBegun' \subseteq told'
<1>1. SUFFICES ASSUME NEW c \in Begun', period[c] = Live
               PROVE  c \in told'
  BY DEF LiveBegun, StopSipClient, invite
<1>2. c \in Begun /\ c \in Calls
  BY <1>1 DEF StopSipClient, StopSendRtp, Senders, Begun, IInv, TypeOK
<1>3. CASE c \in sessions
  BY <1>1, <1>2, <1>3 DEF StopSipClient, StopSendRtp
<1>4. CASE c \in told
  BY <1>4 DEF StopSipClient, StopSendRtp
<1>5. QED
  BY <1>1, <1>2, <1>3, <1>4 DEF IInv, SenderInv

LEMMA NextStopInv ==
  ASSUME IInv, StopInv, [Next]_vars
  PROVE  StopInv'
<1>1. ASSUME main' \in {"joining", "stopped"}
      PROVE  LiveBegun' \subseteq told'
  <2>1. CASE StopSipClient
    BY <2>1, AllTold
  <2>2. CASE main \in {"joining", "stopped"}
    <3>1. ~(OnCallACK /\ Unlocked)
      BY <2>2 DEF StopInv, Unlocked, OnCallACK
    <3>2. QED
      BY <2>2, <3>1, OnlyAckStarts DEF StopInv
  <2>3. QED
    BY <1>1, <2>1, <2>2, MainSteps
<1>2. main' = "stopped" => pc' = "exited"
  BY ExitedSteps DEF StopInv
<1>3. QED
  BY <1>1, <1>2 DEF StopInv

\* Once StopSipClient has gone through the sessions, the media server was last told to
\* stop each live stream that it still sends: the only handler that starts one waits
\* for the mutex that StopSipClient keeps until the SIP thread has ended.
THEOREM StoppedStaysSilent == Spec => []StoppedStartsNothingLive
<1>1. Init => StopInv
  BY DEF Init, StopInv
<1>2. StopInv => StoppedStartsNothingLive
  BY DEF StopInv, StoppedStartsNothingLive, LiveBegun, Begun, SendingLive
<1>3. QED
  BY <1>1, <1>2, AlwaysIInv, NextStopInv, PTL DEF Spec
=============================================================================
