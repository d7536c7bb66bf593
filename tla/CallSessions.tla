---------------------------- MODULE CallSessions ----------------------------
(***************************************************************************)
(* Live play and playback of GB28181 channels in SipService: the stream    *)
(* table (StreamManager), the CallSession objects, the HTTP threads that   *)
(* play and stop, the event pollers that run SIP events and on-demand      *)
(* plays, and the hooks of the media server.                               *)
(*                                                                         *)
(* Threads interleave at every access to shared state.  A CallSession and  *)
(* the SIP call it opens share one identifier, an element of Sessions:     *)
(* SendCall sends at most one INVITE for a session, and the stack gives    *)
(* every call its own cid and dialog id.  What the session object has      *)
(* recorded of them is callId, context and dialogId.                       *)
(***************************************************************************)
EXTENDS Naturals, Sequences, FiniteSets

CONSTANTS
  Workers,          \* HTTP threads (crow)
  Pollers,          \* event pollers (toolkit::EventPollerPool)
  LiveStreams,      \* stream ids of channels
  PlaybackStreams,  \* stream ids of recordings
  Sessions,         \* CallSession objects; their number bounds the INVITEs
  SinglePort,       \* ZlmServer::SinglePortMode
  AddressMayChange, \* may a device re-register from another address?
  MaxPending,       \* bound: no-reader and not-found hooks, and rtp timeouts
                    \* but one, of a stream raised while so many are undelivered
  None

Threads == Workers \cup Pollers
Streams == LiveStreams \cup PlaybackStreams
HookKinds == {"register", "unregister", "noReader", "notFound", "rtpTimeout"}

ASSUME CallAssumption ==
  /\ Workers \cap Pollers = {}
  /\ None \notin Sessions \cup Streams
  /\ SinglePort \in BOOLEAN
  /\ AddressMayChange \in BOOLEAN
  /\ MaxPending \in Nat

VARIABLES
  streams,    \* StreamManager::_streams: the session stored under a stream id
  streamOf,   \* MediaStream::_stream_id; None while the object does not exist
  callId,     \* CallSession::_call_id, None for 0 or a failed send
  context,    \* is MediaStream::exosip_context set? It is null before
  dialogId,   \* CallSession::_dialog_id, None for 0
  connected,  \* CallSession::_is_connected
  call,       \* the SIP call as the stack and the device see it
  sipEvents,  \* events the stack has reported, oldest first
  queue,      \* tasks posted to each poller
  pc, arg, obj, todo,  \* per thread: next step, stream id, session, sessions left
  started,    \* calls whose media has begun to arrive
  media,      \* does the media server have this stream registered?
  rtpOpen,    \* is an RTP port opened by openRtpServer still waiting?
  hooks       \* hook requests of the media server not yet served

heap   == <<streamOf, callId, context, dialogId, connected>>
thread == <<pc, arg, obj, todo>>
sip    == <<call, sipEvents>>
zlm    == <<started, media, rtpOpen, hooks>>
vars   == <<streams, heap, sip, queue, thread, zlm>>

CallStates ==
  {"none", "inviting", "failed", "answered", "acked", "unacked", "ended"}
Live == {"answered", "acked"}
Labels == {"idle", "open", "add", "send", "record", "context", "lookup", "wait",
           "ready", "each", "terminate", "close", "clear", "connect", "ack",
           "disconnect", "down"}
SipEvent == [kind : {"answered", "closed"}, call : Sessions]
Task == SipEvent \cup [kind : {"play"}, stream : Streams]

TypeOK ==
  /\ streams \in [Streams -> Sessions \cup {None}]
  /\ streamOf \in [Sessions -> Streams \cup {None}]
  /\ callId \in [Sessions -> Sessions \cup {None}]
  /\ context \in [Sessions -> BOOLEAN]
  /\ dialogId \in [Sessions -> Sessions \cup {None}]
  /\ connected \in [Sessions -> BOOLEAN]
  /\ call \in [Sessions -> CallStates]
  /\ sipEvents \in Seq(SipEvent)
  /\ queue \in [Pollers -> Seq(Task)]
  /\ pc \in [Threads -> Labels]
  /\ arg \in [Threads -> Streams \cup {None}]
  /\ obj \in [Threads -> Sessions \cup {None}]
  /\ todo \in [Threads -> SUBSET Sessions]
  /\ started \in SUBSET Sessions
  /\ media \in [Streams -> BOOLEAN]
  /\ rtpOpen \in [Streams -> BOOLEAN]
  /\ hooks \in [HookKinds -> [Streams -> Nat]]

Init ==
  /\ streams = [x \in Streams |-> None]
  /\ streamOf = [s \in Sessions |-> None]
  /\ callId = [s \in Sessions |-> None]
  /\ context = [s \in Sessions |-> FALSE]
  /\ dialogId = [s \in Sessions |-> None]
  /\ connected = [s \in Sessions |-> FALSE]
  /\ call = [s \in Sessions |-> "none"]
  /\ sipEvents = <<>>
  /\ queue = [p \in Pollers |-> <<>>]
  /\ pc = [t \in Threads |-> "idle"]
  /\ arg = [t \in Threads |-> None]
  /\ obj = [t \in Threads |-> None]
  /\ todo = [t \in Threads |-> {}]
  /\ started = {}
  /\ media = [x \in Streams |-> FALSE]
  /\ rtpOpen = [x \in Streams |-> FALSE]
  /\ hooks = [k \in HookKinds |-> [x \in Streams |-> 0]]

-----------------------------------------------------------------------------
(* Helpers *)

Stored == {streams[x] : x \in Streams} \ {None}

Unborn == {s \in Sessions : streamOf[s] = None}

Goto(t, label) == pc' = [pc EXCEPT ![t] = label]

Enter(t, label, s) ==
  /\ Goto(t, label)
  /\ obj' = [obj EXCEPT ![t] = s]
  /\ UNCHANGED <<arg, todo>>

Finish(t) ==
  /\ Goto(t, "idle")
  /\ arg' = [arg EXCEPT ![t] = None]
  /\ obj' = [obj EXCEPT ![t] = None]
  /\ todo' = [todo EXCEPT ![t] = {}]

\* The process is gone, with all its threads and tasks.
Crash ==
  /\ pc' = [t \in Threads |-> "down"]
  /\ arg' = [t \in Threads |-> None]
  /\ obj' = [t \in Threads |-> None]
  /\ todo' = [t \in Threads |-> {}]
  /\ queue' = [p \in Pollers |-> <<>>]

Post(p, task) == queue' = [queue EXCEPT ![p] = Append(@, task)]

Dequeue(p, kind) ==
  /\ pc[p] = "idle"
  /\ queue[p] # <<>>
  /\ Head(queue[p]).kind = kind
  /\ queue' = [queue EXCEPT ![p] = Tail(@)]

Raise(kind, x) == hooks' = [hooks EXCEPT ![kind][x] = @ + 1]

\* Plausible bug: a hook request handled again after it was served.
ServeAgain(w, kind, x) ==
  /\ pc[w] = "idle"
  /\ hooks' = [hooks EXCEPT ![kind][x] = @ - 1]

Serve(w, kind, x) ==
  /\ pc[w] = "idle"
  /\ hooks[kind][x] > 0
  /\ hooks' = [hooks EXCEPT ![kind][x] = @ - 1]

\* The device learns of an ACK only if there was one.
HungUp(c) == [call EXCEPT ![c] = IF @ = "acked" THEN "ended" ELSE "unacked"]

\* eXosip_call_terminate: a BYE when the dialog is open; without a dialog id, a
\* CANCEL if a provisional response has arrived, which the device may not have
\* sent; nothing for a call that is answered, over or unknown.
HangUp(cid, did) ==
  \/ /\ did # None
     /\ call' = IF call[did] \in Live THEN HungUp(did) ELSE call
  \/ /\ did = None /\ cid # None /\ call[cid] = "inviting"
     /\ call' \in {call, [call EXCEPT ![cid] = "failed"]}
  \/ /\ did = None /\ (cid # None => call[cid] # "inviting")
     /\ call' = call

-----------------------------------------------------------------------------
(* Play, Playback and InviteRequest::SendCall *)

Exists(x) == streams[x] # None /\ connected[streams[x]]

\* Bound: a play starts only while Sessions has an object left for it, beside
\* those that plays under way or waiting in a queue may still create.
Budget ==
  LET underway == {t \in Threads : pc[t] \in {"open", "add"}}
      plays(p) == {i \in DOMAIN queue[p] : queue[p][i].kind = "play"}
      queued == UNION {{p} \X plays(p) : p \in Pollers}
  IN  Cardinality(underway) + Cardinality(queued) < Cardinality(Unborn)

\* The first half of Play: the request goes on unless the stream is connected.
\* A device that is unknown or offline, or an unknown channel, is refused
\* without any effect.
Play(t, x) ==
  /\ pc[t] = "idle"
  /\ \/ Exists(x) /\ UNCHANGED thread
     \/ /\ ~Exists(x)
        /\ Goto(t, "open")
        /\ arg' = [arg EXCEPT ![t] = x]
        /\ UNCHANGED <<obj, todo>>
  /\ UNCHANGED <<streams, heap, sip, zlm>>

PlayRequest(w) ==
  /\ Budget
  /\ \E x \in LiveStreams : Play(w, x)
  /\ UNCHANGED queue

\* In single-port mode each playback has the stream id of a fresh SSRC.
Fresh(x) ==
  /\ \A s \in Sessions : streamOf[s] # x
  /\ \A t \in Threads : arg[t] # x

PlaybackRequest(w) ==
  /\ Budget
  /\ \E x \in PlaybackStreams : (SinglePort => Fresh(x)) /\ Play(w, x)
  /\ UNCHANGED queue

\* The INVITE is built and, in multi-port mode, openRtpServer called. SendCall
\* returns -1 when either fails, if only because the media server's answer did
\* not arrive in time; Play does not look at the result.
OpenRtp(t) ==
  /\ pc[t] = "open"
  /\ \/ /\ rtpOpen' = [rtpOpen EXCEPT ![arg[t]] = @ \/ ~SinglePort]
        /\ Goto(t, "add")
     \/ /\ rtpOpen' \in {rtpOpen, [rtpOpen EXCEPT ![arg[t]] = @ \/ ~SinglePort]}
        /\ Goto(t, "lookup")
  /\ UNCHANGED <<streams, heap, sip, queue, arg, obj, todo, started, media, hooks>>

AddStream(t) ==
  /\ pc[t] = "add"
  /\ \E s \in Unborn :
       /\ streamOf' = [streamOf EXCEPT ![s] = arg[t]]
       /\ streams' = [streams EXCEPT ![arg[t]] = s]
       /\ Enter(t, "send", s)
  /\ UNCHANGED <<callId, context, dialogId, connected, sip, queue, zlm>>

\* Plausible bug: the session is not kept at hand but looked up again.
SendInviteOfStored(t) ==
  /\ pc[t] = "send"
  /\ LET s == streams[arg[t]]
     IN  \/ s = None /\ UNCHANGED call
         \/ s # None /\ call' \in {call, [call EXCEPT ![s] = "inviting"]}
  /\ Goto(t, "record")
  /\ UNCHANGED <<streams, heap, sipEvents, queue, arg, obj, todo, zlm>>

\* The stack may refuse the INVITE; SendCall goes on regardless.
SendInvite(t) ==
  /\ pc[t] = "send"
  /\ call' \in {call, [call EXCEPT ![obj[t]] = "inviting"]}
  /\ Goto(t, "record")
  /\ UNCHANGED <<streams, heap, sipEvents, queue, arg, obj, todo, zlm>>

SetCallID(t) ==
  /\ pc[t] = "record"
  /\ LET s == obj[t]
     IN  callId' = [callId EXCEPT ![s] = IF call[s] = "none" THEN None ELSE s]
  /\ Goto(t, "context")
  /\ UNCHANGED <<streams, streamOf, context, dialogId, connected, sip, queue, arg,
                 obj, todo, zlm>>

\* From the step before on, handlers find the session by its call id.
SetContext(t) ==
  /\ pc[t] = "context"
  /\ context' = [context EXCEPT ![obj[t]] = TRUE]
  /\ Enter(t, "lookup", None)
  /\ UNCHANGED <<streams, streamOf, callId, dialogId, connected, sip, queue, zlm>>

\* Play reads the table again and waits on what it finds there.
Await(t) ==
  /\ pc[t] = "lookup"
  /\ \/ streams[arg[t]] = None /\ Finish(t)
     \/ streams[arg[t]] # None /\ Enter(t, "wait", streams[arg[t]])
  /\ UNCHANGED <<streams, heap, sip, queue, zlm>>

\* Plausible bug: cv.wait in place of cv.wait_for.
PlayNoTimeout(t) ==
  /\ pc[t] = "wait"
  /\ pc[t] = "ready"
  /\ UNCHANGED vars

PlayTimeout(t) ==
  /\ pc[t] = "wait"
  /\ Finish(t)
  /\ UNCHANGED <<streams, heap, sip, queue, zlm>>

\* wait_for has no predicate: it may return without a notification, and what it
\* returns then is no_timeout.
WakeSpuriously(t) ==
  /\ pc[t] = "wait"
  /\ Goto(t, "ready")
  /\ UNCHANGED <<streams, heap, sip, queue, arg, obj, todo, zlm>>

PlayOk(t) ==
  /\ pc[t] = "ready"
  /\ Finish(t)
  /\ UNCHANGED <<streams, heap, sip, queue, zlm>>

-----------------------------------------------------------------------------
(* Stopping: /play/stop, /record/play/stop, /play/stopall *)

\* Plausible bug: the stop requests look up the stream only, not IsConnected.
StopUnconnected(w) ==
  /\ pc[w] = "idle"
  /\ \E x \in Streams : streams[x] # None /\ Enter(w, "terminate", streams[x])
  /\ UNCHANGED <<streams, heap, sip, queue, zlm>>

Stop(w) ==
  /\ pc[w] = "idle"
  /\ \E x \in Streams : Exists(x) /\ Enter(w, "terminate", streams[x])
  /\ UNCHANGED <<streams, heap, sip, queue, zlm>>

StopAll(w) ==
  /\ pc[w] = "idle"
  /\ Stored # {}
  /\ todo' = [todo EXCEPT ![w] = Stored]
  /\ Goto(w, "each")
  /\ UNCHANGED <<streams, heap, sip, queue, arg, obj, zlm>>

StopNext(w) ==
  /\ pc[w] = "each"
  /\ \/ todo[w] = {} /\ Finish(w)
     \/ \E s \in todo[w] :
          /\ todo' = [todo EXCEPT ![w] = @ \ {s}]
          /\ \/ /\ connected[s]
                /\ Goto(w, "terminate")
                /\ obj' = [obj EXCEPT ![w] = s]
             \/ ~connected[s] /\ UNCHANGED <<pc, obj>>
          /\ UNCHANGED arg
  /\ UNCHANGED <<streams, heap, sip, queue, zlm>>

Ids(s) == {callId[s], dialogId[s]} \ {None}

\* Plausible bug: the dialog id is not passed on.
TerminateByCall(w) ==
  /\ pc[w] \in {"terminate", "close"}
  /\ context[obj[w]] \/ Ids(obj[w]) = {}
  /\ HangUp(callId[obj[w]], None)
  /\ Goto(w, "clear")
  /\ UNCHANGED <<streams, heap, sipEvents, queue, arg, obj, todo, zlm>>

\* From "close" the caller is the no-reader hook, which does not ask whether
\* the session is connected.  The stack refuses a call without ids, and looks
\* for any other through the context: with a null one the process crashes.
Terminate(w) ==
  /\ pc[w] \in {"terminate", "close"}
  /\ LET s == obj[w]
     IN  \/ /\ context[s] \/ Ids(s) = {}
            /\ HangUp(callId[s], dialogId[s])
            /\ Goto(w, "clear")
            /\ UNCHANGED <<queue, arg, obj, todo>>
         \/ /\ ~context[s] /\ Ids(s) # {}
            /\ Crash
            /\ UNCHANGED call
  /\ UNCHANGED <<streams, heap, sipEvents, zlm>>

ClearConnected(w) ==
  /\ pc[w] = "clear"
  /\ connected' = [connected EXCEPT ![obj[w]] = FALSE]
  /\ Enter(w, "each", None)
  /\ UNCHANGED <<streams, streamOf, callId, context, dialogId, sip, queue, zlm>>

-----------------------------------------------------------------------------
(* SIP events: the stack, the receiving thread and CallHandler *)

DeviceAnswers(s) ==
  /\ call[s] = "inviting"
  /\ call' = [call EXCEPT ![s] = "answered"]
  /\ sipEvents' = Append(sipEvents, [kind |-> "answered", call |-> s])
  /\ UNCHANGED <<streams, heap, queue, thread, zlm>>

\* A 4xx-6xx answer or none at all: the handlers of these events are empty.
DeviceRejects(s) ==
  /\ call[s] = "inviting"
  /\ call' = [call EXCEPT ![s] = "failed"]
  /\ UNCHANGED <<streams, heap, sipEvents, queue, thread, zlm>>

\* The device hangs up, or gives up waiting for the ACK.
DeviceHangsUp(s) ==
  /\ call[s] \in Live
  /\ call' = HungUp(s)
  /\ sipEvents' = Append(sipEvents, [kind |-> "closed", call |-> s])
  /\ UNCHANGED <<streams, heap, queue, thread, zlm>>

\* RecvEventThread posts each event to the poller with the least load.
RecvEvent(p) ==
  /\ pc[p] # "down"
  /\ sipEvents # <<>>
  /\ Post(p, Head(sipEvents))
  /\ sipEvents' = Tail(sipEvents)
  /\ UNCHANGED <<streams, heap, call, thread, zlm>>

Matching(c) == {s \in Stored : callId[s] = c}

\* Plausible bug: the answer is acknowledged before the session is looked up.
AnswerAckedFirst(p) ==
  /\ Dequeue(p, "answered")
  /\ AddressMayChange \/ Matching(Head(queue[p]).call) = {}
  /\ call' = [call EXCEPT ![Head(queue[p]).call] = IF @ = "answered" THEN "acked" ELSE @]
  /\ UNCHANGED <<streams, heap, sipEvents, thread, zlm>>

\* The handler finds no device at the address of the call, or no session.
AnswerIgnored(p) ==
  /\ Dequeue(p, "answered")
  /\ AddressMayChange \/ Matching(Head(queue[p]).call) = {}
  /\ UNCHANGED <<streams, heap, sip, thread, zlm>>

\* Plausible bug: SetConnected comes before SetDialogID.
AnswerConnectsFirst(p) ==
  /\ Dequeue(p, "answered")
  /\ \E s \in Matching(Head(queue[p]).call) :
       /\ connected' = [connected EXCEPT ![s] = TRUE]
       /\ Enter(p, "connect", s)
  /\ UNCHANGED <<streams, streamOf, callId, context, dialogId, sip, zlm>>

AnswerMatched(p) ==
  /\ Dequeue(p, "answered")
  /\ LET c == Head(queue[p]).call
     IN  \E s \in Matching(c) :
           /\ dialogId' = [dialogId EXCEPT ![s] = c]
           /\ Enter(p, "connect", s)
  /\ UNCHANGED <<streams, streamOf, callId, context, connected, sip, zlm>>

Connect(p) ==
  /\ pc[p] = "connect"
  /\ connected' = [connected EXCEPT ![obj[p]] = TRUE]
  /\ Goto(p, "ack")
  /\ UNCHANGED <<streams, streamOf, callId, context, dialogId, sip, queue, arg, obj,
                 todo, zlm>>

\* Plausible bug: the 200 is handled but no ACK is sent.
SendNoAck(p) ==
  /\ pc[p] = "ack"
  /\ Finish(p)
  /\ UNCHANGED <<streams, heap, sip, queue, zlm>>

SendCallAck(p) ==
  /\ pc[p] = "ack"
  /\ LET d == dialogId[obj[p]]
     IN  call' = IF call[d] = "answered" THEN [call EXCEPT ![d] = "acked"] ELSE call
  /\ Finish(p)
  /\ UNCHANGED <<streams, heap, sipEvents, queue, zlm>>

CloseIgnored(p) ==
  /\ Dequeue(p, "closed")
  /\ Matching(Head(queue[p]).call) = {}
  /\ UNCHANGED <<streams, heap, sip, thread, zlm>>

CloseMatched(p) ==
  /\ Dequeue(p, "closed")
  /\ LET c == Head(queue[p]).call
     IN  \E s \in Matching(c) :
           /\ dialogId' = [dialogId EXCEPT ![s] = c]
           /\ Enter(p, "disconnect", s)
  /\ UNCHANGED <<streams, streamOf, callId, context, connected, sip, zlm>>

Disconnect(p) ==
  /\ pc[p] = "disconnect"
  /\ connected' = [connected EXCEPT ![obj[p]] = FALSE]
  /\ Finish(p)
  /\ UNCHANGED <<streams, streamOf, callId, context, dialogId, sip, queue, zlm>>

-----------------------------------------------------------------------------
(* The media server and its hooks *)

\* The media of a live call starts after its ACK, and even after the call when the
\* device has not handled the BYE yet (ImplementsContract of DeviceSessions).  A
\* playback may start with any call: SipClient sends a recording when it registers,
\* be it on behalf of another session.
MayStart(s) ==
  IF streamOf[s] \in LiveStreams THEN call[s] \in {"acked", "ended"} ELSE call[s] # "none"

MediaStarts(s) ==
  /\ s \notin started
  /\ MayStart(s)
  /\ started' = started \cup {s}
  /\ \E x \in Streams :
       /\ x = streamOf[s] /\ ~media[x]
       /\ SinglePort \/ rtpOpen[x]
       /\ media' = [media EXCEPT ![x] = TRUE]
       /\ Raise("register", x)
  /\ UNCHANGED <<streams, heap, sip, queue, thread, rtpOpen>>

\* The sender stopped, the packets were lost, or a hook's reply closed it.
MediaStops(x) ==
  /\ media[x]
  /\ media' = [media EXCEPT ![x] = FALSE]
  /\ Raise("unregister", x)
  /\ UNCHANGED <<streams, heap, sip, queue, thread, started, rtpOpen>>

RtpExpires(x) ==
  /\ rtpOpen[x] /\ ~media[x]
  /\ hooks["rtpTimeout"][x] <= MaxPending
  /\ rtpOpen' = [rtpOpen EXCEPT ![x] = FALSE]
  /\ Raise("rtpTimeout", x)
  /\ UNCHANGED <<streams, heap, sip, queue, thread, started, media>>

ViewersLeave(x) ==
  /\ media[x]
  /\ hooks["noReader"][x] < MaxPending
  /\ Raise("noReader", x)
  /\ UNCHANGED <<streams, heap, sip, queue, thread, started, media, rtpOpen>>

ViewerMissesStream(x) ==
  /\ x \in LiveStreams /\ ~media[x]
  /\ hooks["notFound"][x] < MaxPending
  /\ Raise("notFound", x)
  /\ UNCHANGED <<streams, heap, sip, queue, thread, started, media, rtpOpen>>

\* on_stream_changed, regist: NotifyStreamReady on the session stored now.
StreamRegistered(w, x) ==
  /\ Serve(w, "register", x)
  /\ pc' = [t \in Threads |->
              IF pc[t] = "wait" /\ obj[t] = streams[x] THEN "ready" ELSE pc[t]]
  /\ UNCHANGED <<streams, heap, sip, queue, arg, obj, todo, started, media, rtpOpen>>

\* on_stream_changed, not regist, and on_rtp_server_timeout: RemoveStream.
StreamGone(w, x) ==
  /\ Serve(w, "unregister", x) \/ Serve(w, "rtpTimeout", x)
  /\ streams' = [streams EXCEPT ![x] = None]
  /\ UNCHANGED <<heap, sip, queue, thread, started, media, rtpOpen>>

NoReader(w, x) ==
  /\ Serve(w, "noReader", x)
  /\ \/ streams[x] = None /\ UNCHANGED thread
     \/ streams[x] # None /\ Enter(w, "close", streams[x])
  /\ UNCHANGED <<streams, heap, sip, queue, started, media, rtpOpen>>

NotFound(w, x) ==
  /\ Budget
  /\ Serve(w, "notFound", x)
  /\ \E p \in Pollers : Post(p, [kind |-> "play", stream |-> x])
  /\ UNCHANGED <<streams, heap, sip, thread, started, media, rtpOpen>>

\* The task of on_stream_not_found runs Play, and waits, on the poller.
OnDemandPlay(p) ==
  /\ Dequeue(p, "play")
  /\ Play(p, Head(queue[p]).stream)

-----------------------------------------------------------------------------
PlaySteps(t) ==
  \/ OpenRtp(t) \/ AddStream(t) \/ SendInvite(t) \/ SetCallID(t)
  \/ SetContext(t) \/ Await(t) \/ PlayTimeout(t) \/ PlayOk(t)

StopSteps(w) == StopNext(w) \/ Terminate(w) \/ ClearConnected(w)

EventSteps(p) ==
  \/ AnswerIgnored(p) \/ AnswerMatched(p) \/ Connect(p) \/ SendCallAck(p)
  \/ CloseIgnored(p) \/ CloseMatched(p) \/ Disconnect(p) \/ OnDemandPlay(p)

Requests(w) == PlayRequest(w) \/ PlaybackRequest(w) \/ Stop(w) \/ StopAll(w)

Hooks(w) ==
  \E x \in Streams : \/ StreamRegistered(w, x) \/ StreamGone(w, x)
                     \/ NoReader(w, x) \/ NotFound(w, x)

Device ==
  \E s \in Sessions : \/ DeviceAnswers(s) \/ DeviceRejects(s)
                      \/ DeviceHangsUp(s) \/ MediaStarts(s)

MediaServer ==
  \E x \in Streams : \/ MediaStops(x) \/ RtpExpires(x)
                     \/ ViewersLeave(x) \/ ViewerMissesStream(x)

Next ==
  \/ \E t \in Threads : PlaySteps(t) \/ WakeSpuriously(t)
  \/ \E w \in Workers : Requests(w) \/ StopSteps(w) \/ Hooks(w)
  \/ \E p \in Pollers : RecvEvent(p) \/ EventSteps(p)
  \/ Device
  \/ MediaServer

Spec == Init /\ [][Next]_vars

\* Threads and the receiving loop run; waits expire; nothing need wake up without
\* cause; requests arrive, devices answer and media flows when they like.
Fairness ==
  /\ \A t \in Threads : WF_vars(PlaySteps(t))
  /\ \A w \in Workers : WF_vars(StopSteps(w))
  /\ \A p \in Pollers : WF_vars(EventSteps(p))
  /\ WF_vars(\E p \in Pollers : RecvEvent(p))

FairSpec == Spec /\ Fairness

-----------------------------------------------------------------------------
(* The call as both ends see it *)

Phase(s) == IF call[s] \in {"failed", "unacked", "ended"} THEN "over" ELSE call[s]

LiveMedia == {s \in started : streamOf[s] \in LiveStreams}

Contract ==
  INSTANCE MediaCall WITH
    Calls <- Sessions,
    state <- [s \in Sessions |-> Phase(s)],
    sending <- LiveMedia

-----------------------------------------------------------------------------
(* Properties *)

\* The server keeps to the contract of a call: whichever threads play, stop and
\* handle events of it, its INVITE is sent once, and its answer is acknowledged
\* once and only while the call is up.
ImplementsContract == Contract!Spec

\* A session that counts as playing has the dialog id of its own call, and the
\* device did answer that call: /play/stop reads _is_connected first and relies
\* on the dialog id being there already.
ConnectedHasDialog ==
  \A s \in Sessions :
    connected[s] => dialogId[s] = s /\ call[s] \in Live \cup {"unacked", "ended"}

\* An acknowledged call, the only kind that makes a device send live media, is one
\* whose dialog id some session has recorded, so that it can be hung up later.
AckedHasDialog ==
  \A s \in Sessions : call[s] = "acked" => dialogId[s] = s

\* When eXosip_call_terminate returns to /play/stop or /play/stopall, the call
\* they picked is over, whatever ran since they looked at the session.  It does
\* not return when SendCall has not set the context of the session yet.
StopHangsUp ==
  [][\A w \in Workers :
       pc[w] = "terminate" /\ pc'[w] = "clear" => call'[obj[w]] \notin Live]_vars

\* Nothing is under way in the server: every event, task and hook is handled.
Quiescent ==
  /\ sipEvents = <<>>
  /\ \A p \in Pollers : queue[p] = <<>>
  /\ \A t \in Threads : pc[t] = "idle"
  /\ \A k \in HookKinds : \A x \in Streams : hooks[k][x] = 0

\* Once everything is handled, a call whose stream has arrived is one that
\* /play/stopall would hang up (README.md:323: it stops all the video streams).
StreamingIsStoppable ==
  Quiescent =>
    \A s \in started : \A x \in Streams :
      call[s] = "acked" /\ streamOf[s] = x /\ media[x] => s \in Stored /\ connected[s]

Crashed == \E t \in Threads : pc[t] = "down"

\* Every play, stop and event handler ends, be it with the process: no thread
\* waits for ever, not even a poller whose wait holds back the events queued
\* behind it.
OperationsEnd == \A t \in Threads : pc[t] # "idle" ~> pc[t] = "idle" \/ Crashed

Pending(s) ==
  LET e == [kind |-> "answered", call |-> s]
  IN  \/ \E i \in DOMAIN sipEvents : sipEvents[i] = e
      \/ \E p \in Pollers : \E i \in DOMAIN queue[p] : queue[p][i] = e

\* An answer still to be handled, for a session that is stored and knows its
\* call id, is acknowledged in the end, unless the session is dropped, the call
\* ends first or the process crashes.
AnswerIsAcknowledged ==
  \A s \in Sessions :
    Pending(s) /\ s \in Stored /\ callId[s] = s
      ~> s \notin Stored \/ call[s] # "answered" \/ Crashed
=============================================================================
