--------------------------- MODULE DeviceSessions ---------------------------
(***************************************************************************)
(* The media side of a SipClient device: the sessions its SIP thread opens *)
(* for INVITEs and closes for BYEs, the hooks with which the local media   *)
(* server reports the recordings it has loaded, and the main thread that   *)
(* stops the device.                                                       *)
(*                                                                         *)
(* A Session and the dialog of its INVITE share one identifier, an element *)
(* of Calls.  _session_mutex makes a critical section one step; only       *)
(* StopSipClient holds it from one step to another.                        *)
(***************************************************************************)
EXTENDS Naturals, Sequences, FiniteSets

CONSTANTS
  Calls,      \* dialogs, by did
  Channels,   \* channels of the device; a live stream has the name of its channel
  Periods,    \* start and end times of recordings, Session::PlaybackStream
  Targets,    \* addresses and ports of a media receiver
  Live,       \* in place of a period
  Schemas,    \* protocols under which the media server registers a stream
  MaxRepeats, \* bound: INVITEs and ACKs reported again, and TEARDOWNs
  None

ASSUME SessionAssumption ==
  /\ Live \notin Periods
  /\ None \notin Calls \cup Channels \cup Periods \cup Targets \cup {Live}
  /\ Channels \cap Periods = {}
  /\ Schemas \in Nat
  /\ MaxRepeats \in Nat

VARIABLES
  channel, period, target,  \* what an INVITE asks for
  call,       \* its dialog, as the stack sees it
  events,     \* events of the stack, oldest first
  repeats,
  sessions,   \* keys of _session_map
  used,       \* Session::Used
  pc, cur,    \* SIP thread: next step and the dialog of its event
  main,       \* main thread: "running" stands for _is_running too
  recording,  \* the recording under the name record/<period> in the media server
  file,       \* the channel whose file it was loaded from
  sending,    \* calls whose RTP the media server sends
  late,       \* calls whose startSendRtp has timed out, but may still take effect
  told,       \* history: live calls whose stream it was last told to stop, not to send
  hooks,      \* on_stream_changed requests on their way, by regist; they may
              \* overtake each other
  closeAll    \* DeviceInfo::CloseAllWhenBye

invite  == <<channel, period, target>>
dialog  == <<call, events, repeats>>
table   == <<sessions, used>>
thread  == <<pc, cur>>
rtp     == <<sending, late, told>>
zlm     == <<recording, file, rtp, hooks>>
vars    == <<invite, dialog, table, thread, main, zlm, closeAll>>

EventKinds == {"invite", "ack", "closed", "cancelled", "teardown"}
Event == [kind : EventKinds, call : Calls]
CallStates == {"new", "invited", "refused", "cancelled", "answered", "acked", "ended"}

TypeOK ==
  /\ channel \in [Calls -> Channels \cup {None}]
  /\ period \in [Calls -> Periods \cup {Live, None}]
  /\ target \in [Calls -> Targets \cup {None}]
  /\ call \in [Calls -> CallStates]
  /\ events \in Seq(Event)
  /\ repeats \in 0..MaxRepeats
  /\ sessions \in SUBSET Calls
  /\ used \in [Calls -> BOOLEAN]
  /\ pc \in EventKinds \cup {"idle", "wait", "insert", "answer", "exited"}
  /\ cur \in Calls \cup {None}
  /\ main \in {"running", "logout", "joining", "stopped"}
  /\ recording \in [Periods -> {"absent", "loading", "there"}]
  /\ file \in [Periods -> Channels \cup {None}]
  /\ sending \in SUBSET Calls
  /\ late \in SUBSET Calls
  /\ told \in SUBSET Calls
  /\ hooks \in [BOOLEAN -> [Periods -> Nat]]
  /\ closeAll \in BOOLEAN

Init ==
  /\ channel = [c \in Calls |-> None]
  /\ period = [c \in Calls |-> None]
  /\ target = [c \in Calls |-> None]
  /\ call = [c \in Calls |-> "new"]
  /\ events = <<>>
  /\ repeats = 0
  /\ sessions = {}
  /\ used = [c \in Calls |-> FALSE]
  /\ pc = "idle"
  /\ cur = None
  /\ main = "running"
  /\ recording = [w \in Periods |-> "absent"]
  /\ file = [w \in Periods |-> None]
  /\ sending = {}
  /\ late = {}
  /\ told = {}
  /\ hooks = [b \in BOOLEAN |-> [w \in Periods |-> 0]]
  /\ closeAll \in BOOLEAN

-----------------------------------------------------------------------------
(* The SIP server, through the stack *)

Report(kind, c) == events' = Append(events, [kind |-> kind, call |-> c])

Dialog(c, from, to, kind) ==
  /\ main # "stopped"
  /\ call[c] \in from
  /\ call' = [call EXCEPT ![c] = to]
  /\ Report(kind, c)
  /\ UNCHANGED <<repeats, table, thread, main, zlm, closeAll>>

ServerInvites(c) ==
  /\ Dialog(c, {"new"}, "invited", "invite")
  /\ \E h \in Channels : channel' = [channel EXCEPT ![c] = h]
  /\ \E w \in Periods \cup {Live} : period' = [period EXCEPT ![c] = w]
  /\ \E a \in Targets : target' = [target EXCEPT ![c] = a]

ServerCancels(c) ==
  Dialog(c, {"invited"}, "cancelled", "cancelled") /\ UNCHANGED invite

ServerAcks(c) ==
  Dialog(c, {"answered"}, "acked", "ack") /\ UNCHANGED invite

\* A BYE of the server, or of the stack when the ACK does not come.
ServerHangsUp(c) ==
  Dialog(c, {"answered", "acked"}, "ended", "closed") /\ UNCHANGED invite

\* The stack reports an INVITE or an ACK again, or a TEARDOWN.
ReportsAgain(c) ==
  /\ main # "stopped"
  /\ repeats < MaxRepeats
  /\ repeats' = repeats + 1
  /\ \/ call[c] \in {"invited", "answered"} /\ Report("invite", c)
     \/ call[c] = "acked" /\ (Report("ack", c) \/ Report("teardown", c))
  /\ UNCHANGED <<invite, call, table, thread, main, zlm, closeAll>>

-----------------------------------------------------------------------------
(* The media server *)

Stream(c) == IF period[c] = Live THEN channel[c] ELSE period[c]

Announce(w, regist) == hooks' = [hooks EXCEPT ![regist][w] = @ + Schemas]

CanSend(c) == period[c] # Live => recording[period[c]] = "there"

\* startSendRtp fails for a recording that is not there, or for want of an answer
\* in time; then it may take effect all the same, now or later.
StartSendRtp(c) ==
  /\ \/ UNCHANGED <<sending, late>>
     \/ CanSend(c) /\ sending' = sending \cup {c} /\ UNCHANGED late
     \/ late' = late \cup {c} /\ UNCHANGED sending
  /\ told' = told \ {c}

\* stopSendRtp names the stream and no SSRC.
Senders(streams) == {c \in sending : Stream(c) \in streams}

\* One request per stream. Each may fail, and nobody looks at its result.
StopSendRtp(streams) ==
  /\ \E stopped \in SUBSET streams : sending' = sending \ Senders(stopped)
  /\ told' = told \cup {c \in Calls : period[c] = Live /\ Stream(c) \in streams}
  /\ UNCHANGED late

\* loadMP4File, which refuses a name in use.
LoadMP4File(c) ==
  LET w == period[c]
  IN  \/ UNCHANGED <<recording, file>>
      \/ /\ recording[w] = "absent"
         /\ recording' = [recording EXCEPT ![w] = "loading"]
         /\ file' = [file EXCEPT ![w] = channel[c]]

RecordingRegisters(w) ==
  /\ recording[w] = "loading"
  /\ recording' = [recording EXCEPT ![w] = "there"]
  /\ Announce(w, TRUE)
  /\ UNCHANGED <<invite, dialog, table, thread, main, file, rtp, closeAll>>

\* The recording has been played to its end, or has no reader left.
RecordingEnds(w) ==
  /\ recording[w] = "there"
  /\ recording' = [recording EXCEPT ![w] = "absent"]
  /\ file' = [file EXCEPT ![w] = None]
  /\ sending' = sending \ Senders({w})
  /\ Announce(w, FALSE)
  /\ UNCHANGED <<invite, dialog, table, thread, main, late, told, closeAll>>

\* A startSendRtp that the device has given up takes effect.
SendingStarts(c) ==
  /\ c \in late /\ CanSend(c)
  /\ late' = late \ {c}
  /\ sending' = sending \cup {c}
  /\ UNCHANGED <<invite, dialog, table, thread, main, recording, file, told, hooks, closeAll>>

\* The receiver, or the camera, has gone, or a stopSendRtp takes effect late.
SendingEnds(c) ==
  /\ c \in sending
  /\ sending' = sending \ {c}
  /\ UNCHANGED <<invite, dialog, table, thread, main, recording, file, late, told, hooks,
                 closeAll>>

-----------------------------------------------------------------------------
(* The SIP thread *)

Unlocked == main # "joining"

Turn(from, to) ==
  /\ pc = from
  /\ pc' = to
  /\ UNCHANGED <<invite, main, closeAll>>

Done == pc' = "idle" /\ cur' = None /\ UNCHANGED <<invite, main, closeAll>>

\* while (_is_running), then eXosip_event_wait for 50 ms
Loop ==
  /\ \/ main = "running" /\ Turn("idle", "wait")
     \/ events = <<>> /\ Turn("wait", "idle")
  /\ UNCHANGED <<dialog, table, cur, zlm>>

Leave ==
  /\ main # "running"
  /\ Turn("idle", "exited")
  /\ UNCHANGED <<dialog, table, cur, zlm>>

TakeEvent ==
  /\ events # <<>>
  /\ Turn("wait", Head(events).kind)
  /\ cur' = Head(events).call
  /\ events' = Tail(events)
  /\ UNCHANGED <<call, repeats, table, zlm>>

\* SendInviteResponse: it fails for a call that waits for no answer.
Respond(status) ==
  /\ call' \in {call, [call EXCEPT ![cur] = IF @ = "invited" THEN status ELSE @]}
  /\ UNCHANGED <<events, repeats, table, zlm>>

Known == cur \in sessions

Busy == \E c \in sessions : target[c] = target[cur] /\ channel[c] = channel[cur]

\* Plausible bug: the target is not compared with those of other sessions.
InviteUnchecked ==
  /\ pc = "invite"
  /\ \/ Known /\ Done /\ UNCHANGED <<dialog, table, zlm>>
     \/ ~Known /\ Done /\ Respond("refused")
     \/ /\ ~Known
        /\ Turn("invite", "insert")
        /\ UNCHANGED <<dialog, table, cur, zlm>>

\* OnCallInvite, up to the insertion. An INVITE without a channel, an SSRC or a
\* recording that the device has is refused.
OnCallInvite ==
  /\ pc = "invite"
  /\ \/ Known /\ Done /\ UNCHANGED <<dialog, table, zlm>>
     \/ ~Known /\ Done /\ Respond("refused")
     \/ /\ ~Known /\ ~Busy
        /\ Turn("invite", "insert")
        /\ UNCHANGED <<dialog, table, cur, zlm>>

\* Plausible bug: Session::Used has no initial value, as StartTime has none.
InsertUninitialised ==
  /\ Unlocked
  /\ Turn("insert", "answer")
  /\ sessions' = sessions \cup {cur}
  /\ \E b \in BOOLEAN \cup {None} : used' = [used EXCEPT ![cur] = b]
  /\ UNCHANGED <<dialog, cur, zlm>>

InsertSession ==
  /\ Unlocked
  /\ Turn("insert", "answer")
  /\ sessions' = sessions \cup {cur}
  /\ used' = [used EXCEPT ![cur] = FALSE]
  /\ UNCHANGED <<dialog, cur, zlm>>

\* Plausible bug: a live stream is sent with the answer already.
AnswerWithMedia ==
  /\ pc = "answer"
  /\ call' \in {call, [call EXCEPT ![cur] = IF @ = "invited" THEN "answered" ELSE @]}
  /\ IF period[cur] = Live THEN StartSendRtp(cur) ELSE UNCHANGED rtp
  /\ UNCHANGED <<events, repeats, table, recording, file, hooks>>
  /\ Done

SendInviteResponse ==
  /\ pc = "answer"
  /\ Respond("answered")
  /\ Done

\* Plausible bug: the ACK handler does not take the mutex.
AckUnlocked ==
  /\ pc = "ack"
  /\ Done
  /\ \/ /\ Known => used[cur]
        /\ UNCHANGED <<used, recording, file, rtp>>
     \/ /\ Known /\ ~used[cur] /\ period[cur] = Live
        /\ StartSendRtp(cur)
        /\ used' = [used EXCEPT ![cur] = TRUE]
        /\ UNCHANGED <<recording, file>>
     \/ /\ Known /\ ~used[cur] /\ period[cur] # Live
        /\ LoadMP4File(cur)
        /\ UNCHANGED <<used, rtp>>
  /\ UNCHANGED <<dialog, sessions, hooks>>

\* A live stream is sent at once, a recording when its stream registers.
OnCallACK ==
  /\ pc = "ack" /\ Unlocked
  /\ Done
  /\ \/ /\ Known => used[cur]
        /\ UNCHANGED <<used, recording, file, rtp>>
     \/ /\ Known /\ ~used[cur] /\ period[cur] = Live
        /\ StartSendRtp(cur)
        /\ used' = [used EXCEPT ![cur] = TRUE]
        /\ UNCHANGED <<recording, file>>
     \/ /\ Known /\ ~used[cur] /\ period[cur] # Live
        /\ LoadMP4File(cur)
        /\ UNCHANGED <<used, rtp>>
  /\ UNCHANGED <<dialog, sessions, hooks>>

\* Plausible bug: the session goes, and its stream is not stopped.
ForgetClosed ==
  /\ pc = "closed" /\ Unlocked
  /\ Done
  /\ sessions' = sessions \ {cur}
  /\ UNCHANGED <<dialog, used, zlm>>

\* The sessions that a BYE closes.
Closed == IF closeAll THEN sessions ELSE {cur} \cap sessions

OnCallClosed ==
  /\ pc = "closed" /\ Unlocked
  /\ Done
  /\ StopSendRtp({Stream(c) : c \in Closed})
  /\ sessions' = sessions \ Closed
  /\ UNCHANGED <<dialog, used, recording, file, hooks>>

\* Plausible bug: a cancelled INVITE keeps its session.
KeepCancelled ==
  /\ pc = "cancelled" /\ Unlocked
  /\ Done
  /\ UNCHANGED <<dialog, table, zlm>>

\* It stops no stream: one that has been cancelled was not acknowledged.
OnCallCancelled ==
  /\ pc = "cancelled" /\ Unlocked
  /\ Done
  /\ sessions' = sessions \ {cur}
  /\ UNCHANGED <<dialog, used, zlm>>

\* OnCallMessageNew, TEARDOWN: without the mutex.
OnTeardown ==
  /\ pc = "teardown"
  /\ Done
  /\ \/ /\ Known => period[cur] = Live
        /\ UNCHANGED rtp
     \/ Known /\ period[cur] # Live /\ StopSendRtp({Stream(cur)})
  /\ UNCHANGED <<dialog, table, recording, file, hooks>>

-----------------------------------------------------------------------------
(* Hooks, one at a time: HttpServer::_mtx *)

Serve(w, regist) ==
  /\ Unlocked
  /\ hooks[regist][w] > 0
  /\ hooks' = [hooks EXCEPT ![regist][w] = @ - 1]

Playing(w) == {c \in sessions : period[c] = w}

\* OnStreamChangedCallback, regist: the first protocol starts one session.
StreamRegistered(w) ==
  /\ Serve(w, TRUE)
  /\ LET waiting == {c \in Playing(w) : ~used[c]}
     IN  \/ waiting = {} /\ UNCHANGED <<used, rtp>>
         \/ \E c \in waiting :
              StartSendRtp(c) /\ used' = [used EXCEPT ![c] = TRUE]
  /\ UNCHANGED <<invite, dialog, sessions, thread, main, recording, file, closeAll>>

\* OnStreamChangedCallback, not regist: one session of the stream is erased.
StreamUnregistered(w) ==
  /\ Serve(w, FALSE)
  /\ LET playing == Playing(w)
     IN  \/ playing = {} /\ UNCHANGED sessions
         \/ \E c \in playing : sessions' = sessions \ {c}
  /\ UNCHANGED <<invite, dialog, used, thread, main, recording, file, rtp, closeAll>>

-----------------------------------------------------------------------------
(* The main thread stops the device *)

Logout ==
  /\ main = "running"
  /\ main' = "logout"
  /\ UNCHANGED <<invite, dialog, table, thread, zlm, closeAll>>

\* StopSipClient locks the table, stops every session and joins the SIP thread.
StopSipClient ==
  /\ main = "logout"
  /\ main' = "joining"
  /\ StopSendRtp({Stream(c) : c \in sessions})
  /\ UNCHANGED <<invite, dialog, table, thread, recording, file, hooks, closeAll>>

Join ==
  /\ main = "joining"
  /\ pc = "exited"
  /\ main' = "stopped"
  /\ UNCHANGED <<invite, dialog, table, thread, zlm, closeAll>>

-----------------------------------------------------------------------------
Server ==
  \E c \in Calls : \/ ServerInvites(c) \/ ServerCancels(c) \/ ServerAcks(c)
                   \/ ServerHangsUp(c) \/ ReportsAgain(c)

MediaServer ==
  \/ \E w \in Periods : RecordingRegisters(w) \/ RecordingEnds(w)
  \/ \E c \in Calls : SendingStarts(c) \/ SendingEnds(c)

SipThread ==
  \/ Loop \/ Leave \/ TakeEvent
  \/ OnCallInvite \/ InsertSession \/ SendInviteResponse
  \/ OnCallACK \/ OnCallClosed \/ OnCallCancelled \/ OnTeardown

Hooks == \E w \in Periods : StreamRegistered(w) \/ StreamUnregistered(w)

Main == Logout \/ StopSipClient \/ Join

Next == Server \/ MediaServer \/ SipThread \/ Hooks \/ Main

Spec == Init /\ [][Next]_vars

FairSpec ==
  Spec /\ WF_vars(SipThread) /\ WF_vars(StopSipClient) /\ WF_vars(Join)

-----------------------------------------------------------------------------
(* The call as both ends see it *)

Phase(c) ==
  CASE call[c] \in {"refused", "cancelled", "ended"} -> "over"
    [] call[c] = "new" -> "none"
    [] call[c] = "invited" -> "inviting"
    [] OTHER -> call[c]

SendingLive == {c \in sending : period[c] = Live}

Contract ==
  INSTANCE MediaCall WITH
    state <- [c \in Calls |-> Phase(c)],
    sending <- SendingLive

-----------------------------------------------------------------------------
(* Properties *)

\* The device keeps to the contract of a call, which SipService relies on: it
\* answers an INVITE once, though it is told of it again, and no live stream is
\* sent before the answer is acknowledged, whatever was repeated in between.
ImplementsContract == Contract!Spec

\* A live stream that is sent without a session is one that the media server was last
\* told to stop: nothing that hooks, repeated events and late answers do in between has
\* the device lose track of a stream that it has not tried to stop.
LiveCanBeStopped == \A c \in SendingLive : c \in sessions \cup told

\* From the moment StopSipClient has gone through the sessions the media server was
\* last told to stop each live stream that it still sends, whatever the SIP thread was
\* in the middle of: an ACK that it is handling starts its stream before that, or never.
StoppedStartsNothingLive ==
  main \in {"joining", "stopped"} => SendingLive \subseteq told

\* Two sessions never send the streams of one channel to the same receiver:
\* the INVITE handler looks for one without the mutex and inserts later.
OneSessionPerTarget ==
  \A c, d \in sessions :
    channel[c] = channel[d] /\ target[c] = target[d] => c = d

Handled(c) ==
  /\ cur # c
  /\ \A i \in DOMAIN events : events[i].call # c

\* When the device has handled all it was told of a call that is over, it holds
\* no session of it, which would keep its target busy for later calls.
OverIsForgotten ==
  \A c \in Calls :
    call[c] \in {"cancelled", "ended"} /\ Handled(c) => c \notin sessions

\* A device that is told to stop does (SipClient/Device.h:56: StopSipClient
\* stops the SIP interaction).
DeviceStops == main = "logout" ~> main = "stopped"
=============================================================================
