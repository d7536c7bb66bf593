------------------------- MODULE CallSessions_proofs -------------------------
(***************************************************************************)
(* Proofs about CallSessions, for any sets of threads, streams and         *)
(* sessions: type correctness, that a playing or acknowledged session      *)
(* knows its dialog, that a stop which returns has hung up, and that the   *)
(* server keeps to the contract of a call.                                 *)
(***************************************************************************)
EXTENDS CallSessions, TLAPS

Settled(c) == call[c] \in Live \cup {"unacked", "ended"}

\* Which label a thread may be at only with a stream id or a session in hand.
LabelInv ==
  \A t \in Threads :
    /\ pc[t] \in {"open", "add", "send", "record", "context", "lookup", "wait", "ready"}
         => arg[t] \in Streams
    /\ pc[t] \in {"send", "record", "context", "wait", "terminate", "close",
                  "clear", "connect", "ack", "disconnect"}
         => obj[t] \in Sessions

TableInv == \A x \in Streams : streams[x] # None => streamOf[streams[x]] = x

\* A session records no call or dialog but its own.
IdInv ==
  \A s \in Sessions : callId[s] \in {None, s} /\ dialogId[s] \in {None, s}

\* An INVITE is sent once for a session, and not before it is stored.
SendInv ==
  /\ \A s \in Sessions : streamOf[s] = None => call[s] = "none"
  /\ \A t \in Threads :
       pc[t] = "send" =>
         /\ streamOf[obj[t]] # None
         /\ call[obj[t]] = "none"
         /\ \A u \in Threads : pc[u] = "send" /\ obj[u] = obj[t] => u = t

\* Events are about calls the device answered.
EventInv ==
  /\ \A i \in 1..Len(sipEvents) : Settled(sipEvents[i].call)
  /\ \A p \in Pollers : \A i \in 1..Len(queue[p]) :
       queue[p][i].kind # "play" => Settled(queue[p][i].call)

ThreadInv ==
  \A t \in Threads :
    /\ pc[t] \in {"connect", "ack"} => dialogId[obj[t]] = obj[t] /\ Settled(obj[t])
    /\ pc[t] = "terminate" => dialogId[obj[t]] = obj[t]

\* Media comes from sessions that are there.
StartedInv == \A s \in started : streamOf[s] # None

TInv == TypeOK /\ LabelInv

IInv ==
  /\ TInv
  /\ TableInv
  /\ IdInv
  /\ SendInv
  /\ EventInv
  /\ ThreadInv
  /\ ConnectedHasDialog
  /\ AckedHasDialog

-----------------------------------------------------------------------------
(* Type correctness *)

LEMMA NoneOutside == None \notin Sessions /\ None \notin Streams
  BY CallAssumption DEF Streams

LEMMA InitTInv == Init => TInv
  BY DEF Init, TInv, TypeOK, LabelInv, CallStates, Labels, HookKinds

LEMMA PlayTInv ==
  ASSUME TInv, NEW t \in Threads, NEW x \in Streams, Play(t, x),
         queue' \in [Pollers -> Seq(Task)]
  PROVE  TInv'
  BY DEF Play, TInv, TypeOK, LabelInv, Goto, Labels, heap, thread, sip, zlm

LEMMA PlayStepsTInv ==
  ASSUME TInv, NEW t \in Threads, PlaySteps(t)
  PROVE  TInv'
<1> USE DEF TInv, TypeOK, LabelInv, Labels, Goto, heap, thread, sip, zlm
<1>1. CASE OpenRtp(t)
  BY <1>1 DEF OpenRtp
<1>2. CASE AddStream(t)
  BY <1>2 DEF AddStream, Enter, Unborn
<1>3. CASE SendInvite(t)
  BY <1>3 DEF SendInvite, CallStates
<1>4. CASE SetCallID(t)
  BY <1>4 DEF SetCallID
<1>9. CASE SetContext(t)
  BY <1>9 DEF SetContext, Enter
<1>5. CASE Await(t)
  <2>1. CASE streams[arg[t]] = None
    BY <1>5, <2>1 DEF Await, Finish
  <2>2. CASE streams[arg[t]] # None
    <3>1. streams[arg[t]] \in Sessions
      BY <1>5, <2>2 DEF Await
    <3>2. QED
      BY <1>5, <2>2, <3>1 DEF Await, Enter
  <2>3. QED
    BY <2>1, <2>2
<1>6. CASE PlayTimeout(t)
  BY <1>6 DEF PlayTimeout, Finish
<1>7. CASE PlayOk(t)
  BY <1>7 DEF PlayOk, Finish
<1>8. QED
  BY <1>1, <1>2, <1>3, <1>4, <1>5, <1>6, <1>7, <1>9 DEF PlaySteps

LEMMA WakeTInv ==
  ASSUME TInv, NEW t \in Threads, WakeSpuriously(t)
  PROVE  TInv'
  BY DEF WakeSpuriously, TInv, TypeOK, LabelInv, Labels, Goto, heap, thread, sip, zlm

LEMMA HangUpType ==
  ASSUME TInv, NEW c \in Sessions \cup {None}, NEW d \in Sessions \cup {None},
         HangUp(c, d)
  PROVE  /\ call' \in [Sessions -> CallStates]
         /\ \A s \in Sessions :
              \/ call'[s] = call[s]
              \/ call'[s] \in {"unacked", "ended"} /\ call[s] \in Live
              \/ call'[s] = "failed" /\ call[s] = "inviting"
         /\ d # None => call'[d] \notin Live
<1> USE NoneOutside DEF TInv, TypeOK, CallStates, Live
<1>1. CASE d # None
  BY <1>1 DEF HangUp, HungUp
<1>2. CASE d = None /\ c # None /\ call[c] = "inviting"
  BY <1>2 DEF HangUp
<1>3. CASE d = None /\ (c # None => call[c] # "inviting")
  BY <1>3 DEF HangUp
<1>4. QED
  BY <1>1, <1>2, <1>3

LEMMA WorkerTInv ==
  ASSUME TInv, NEW w \in Workers, Requests(w) \/ StopSteps(w)
  PROVE  TInv'
<1> USE DEF TInv, TypeOK, LabelInv, Labels, Goto, heap, thread, sip, zlm, Threads
<1>1. CASE PlayRequest(w)
  BY <1>1, PlayTInv DEF PlayRequest, Streams
<1>2. CASE PlaybackRequest(w)
  BY <1>2, PlayTInv DEF PlaybackRequest, Streams
<1>3. CASE Stop(w)
  BY <1>3 DEF Stop, Exists, Enter
<1>4. CASE StopAll(w)
  BY <1>4 DEF StopAll, Stored
<1>5. CASE StopNext(w)
  <2>1. CASE todo[w] = {} /\ Finish(w)
    BY <1>5, <2>1 DEF StopNext, Finish
  <2>2. ASSUME NEW s \in todo[w], connected[s],
               Goto(w, "terminate") /\ obj' = [obj EXCEPT ![w] = s],
               todo' = [todo EXCEPT ![w] = @ \ {s}], UNCHANGED arg
        PROVE  TInv'
    BY <1>5, <2>2 DEF StopNext
  <2>3. ASSUME NEW s \in todo[w], UNCHANGED <<pc, obj>>,
               todo' = [todo EXCEPT ![w] = @ \ {s}], UNCHANGED arg
        PROVE  TInv'
    BY <1>5, <2>3 DEF StopNext
  <2>4. QED
    BY <1>5, <2>1, <2>2, <2>3 DEF StopNext
<1>6. CASE Terminate(w)
  <2>1. obj[w] \in Sessions
    BY <1>6 DEF Terminate
  <2>2. CASE HangUp(callId[obj[w]], dialogId[obj[w]]) /\ Goto(w, "clear")
             /\ UNCHANGED <<queue, arg, obj, todo>>
    <3>1. call' \in [Sessions -> CallStates]
      BY <2>1, <2>2, HangUpType
    <3>2. QED
      BY <1>6, <2>2, <3>1 DEF Terminate
  <2>3. CASE Crash /\ UNCHANGED call
    BY <1>6, <2>3 DEF Terminate, Crash
  <2>4. QED
    BY <1>6, <2>2, <2>3 DEF Terminate
<1>7. CASE ClearConnected(w)
  BY <1>7 DEF ClearConnected, Enter
<1>8. QED
  BY <1>1, <1>2, <1>3, <1>4, <1>5, <1>6, <1>7 DEF Requests, StopSteps

LEMMA HookType ==
  ASSUME TInv, NEW k \in HookKinds, NEW x \in Streams,
         Raise(k, x) \/ \E w \in Workers : Serve(w, k, x)
  PROVE  /\ hooks' \in [HookKinds -> [Streams -> Nat]]
         /\ \A j \in HookKinds, y \in Streams :
              hooks'[j][y] > hooks[j][y] => j = k /\ y = x /\ Raise(k, x)
<1> USE DEF TInv, TypeOK
<1>1. CASE Raise(k, x)
  BY <1>1 DEF Raise
<1>3. CASE \E w \in Workers : Serve(w, k, x)
  <2>1. hooks[k][x] \in Nat /\ hooks[k][x] > 0
    BY <1>3 DEF Serve
  <2>2. hooks' = [hooks EXCEPT ![k][x] = hooks[k][x] - 1]
    BY <1>3 DEF Serve
  <2>3. hooks[k][x] - 1 \in Nat
    BY <2>1
  <2>4. hooks' \in [HookKinds -> [Streams -> Nat]]
    BY <2>2, <2>3
  <2>5. ASSUME NEW j \in HookKinds, NEW y \in Streams
        PROVE  hooks'[j][y] <= hooks[j][y]
    BY <2>1, <2>2, <2>3
  <2>6. QED
    BY <2>4, <2>5
<1>4. QED
  BY <1>1, <1>3

LEMMA HooksTInv ==
  ASSUME TInv, NEW w \in Workers, Hooks(w)
  PROVE  TInv'
<1> USE DEF TInv, TypeOK, LabelInv, Labels, Goto, heap, thread, sip, zlm, Threads
<1> PICK x \in Streams : \/ StreamRegistered(w, x) \/ StreamGone(w, x)
                         \/ NoReader(w, x) \/ NotFound(w, x)
  BY DEF Hooks
<1>0. hooks' \in [HookKinds -> [Streams -> Nat]]
  BY HookType DEF StreamRegistered, StreamGone, NoReader, NotFound, HookKinds
<1>1. CASE StreamRegistered(w, x)
  BY <1>0, <1>1 DEF StreamRegistered
<1>2. CASE StreamGone(w, x)
  BY <1>0, <1>2 DEF StreamGone
<1>3. CASE NoReader(w, x)
  <2>1. CASE streams[x] = None
    BY <1>0, <1>3, <2>1 DEF NoReader
  <2>2. CASE streams[x] # None
    <3>1. streams[x] \in Sessions
      BY <2>2
    <3>2. /\ Enter(w, "close", streams[x])
          /\ UNCHANGED <<streams, heap, sip, queue, started, media, rtpOpen>>
      BY <1>3, <2>2 DEF NoReader
    <3>3. QED
      BY <1>0, <3>1, <3>2 DEF Enter
  <2>3. QED
    BY <2>1, <2>2
<1>4. CASE NotFound(w, x)
  BY <1>0, <1>4 DEF NotFound, Post, Task
<1>5. QED
  BY <1>1, <1>2, <1>3, <1>4

LEMMA DequeueType ==
  ASSUME TInv, NEW p \in Pollers, NEW kind, Dequeue(p, kind)
  PROVE  /\ queue' \in [Pollers -> Seq(Task)]
         /\ pc[p] = "idle"
         /\ Head(queue[p]) \in Task
         /\ kind # "play" => Head(queue[p]) \in SipEvent
         /\ kind = "play" => Head(queue[p]).stream \in Streams
<1>1. /\ queue' \in [Pollers -> Seq(Task)]
      /\ pc[p] = "idle"
      /\ Head(queue[p]) \in Task
      /\ Head(queue[p]).kind = kind
  BY DEF Dequeue, TInv, TypeOK
<1>2. QED
  BY <1>1 DEF Task, SipEvent

LEMMA MatchingType ==
  ASSUME TInv, NEW c
  PROVE  /\ Matching(c) \subseteq Sessions
         /\ \A s \in Matching(c) :
              callId[s] = c /\ \E x \in Streams : streams[x] = s
  BY DEF Matching, Stored, TInv, TypeOK

LEMMA PollerTInv ==
  ASSUME TInv, NEW p \in Pollers, RecvEvent(p) \/ EventSteps(p)
  PROVE  TInv'
<1> USE DEF TInv, TypeOK, LabelInv, Labels, Goto, heap, thread, sip, zlm, Threads
<1>1. CASE RecvEvent(p)
  <2>1. Head(sipEvents) \in Task /\ Tail(sipEvents) \in Seq(SipEvent)
    BY <1>1 DEF RecvEvent, Task
  <2>2. QED
    BY <1>1, <2>1 DEF RecvEvent, Post
<1>2. CASE AnswerIgnored(p) \/ CloseIgnored(p)
  BY <1>2, DequeueType DEF AnswerIgnored, CloseIgnored
<1>3. CASE AnswerMatched(p)
  <2>1. PICK s \in Matching(Head(queue[p]).call) :
          /\ dialogId' = [dialogId EXCEPT ![s] = Head(queue[p]).call]
          /\ Enter(p, "connect", s)
    BY <1>3 DEF AnswerMatched
  <2>2. s \in Sessions /\ Head(queue[p]).call \in Sessions
    <3>1. Dequeue(p, "answered")
      BY <1>3 DEF AnswerMatched
    <3>2. QED
      BY <2>1, <3>1, MatchingType, DequeueType DEF SipEvent
  <2>3. /\ queue' \in [Pollers -> Seq(Task)]
        /\ UNCHANGED <<streams, streamOf, callId, context, connected, sip, zlm>>
    BY <1>3, DequeueType DEF AnswerMatched
  <2>4. QED
    BY <2>1, <2>2, <2>3 DEF Enter
<1>4. CASE Connect(p)
  BY <1>4 DEF Connect
<1>5. CASE SendCallAck(p)
  BY <1>5 DEF SendCallAck, Finish, CallStates
<1>6. CASE CloseMatched(p)
  <2>1. PICK s \in Matching(Head(queue[p]).call) :
          /\ dialogId' = [dialogId EXCEPT ![s] = Head(queue[p]).call]
          /\ Enter(p, "disconnect", s)
    BY <1>6 DEF CloseMatched
  <2>2. s \in Sessions /\ Head(queue[p]).call \in Sessions
    <3>1. Dequeue(p, "closed")
      BY <1>6 DEF CloseMatched
    <3>2. QED
      BY <2>1, <3>1, MatchingType, DequeueType DEF SipEvent
  <2>3. /\ queue' \in [Pollers -> Seq(Task)]
        /\ UNCHANGED <<streams, streamOf, callId, context, connected, sip, zlm>>
    BY <1>6, DequeueType DEF CloseMatched
  <2>4. QED
    BY <2>1, <2>2, <2>3 DEF Enter
<1>7. CASE Disconnect(p)
  BY <1>7 DEF Disconnect, Finish
<1>8. CASE OnDemandPlay(p)
  <2>1. Head(queue[p]).stream \in Streams
    BY <1>8, DequeueType DEF OnDemandPlay
  <2>2. queue' \in [Pollers -> Seq(Task)]
    BY <1>8, DequeueType DEF OnDemandPlay
  <2>3. QED
    BY <1>8, <2>1, <2>2, PlayTInv DEF OnDemandPlay
<1>9. QED
  BY <1>1, <1>2, <1>3, <1>4, <1>5, <1>6, <1>7, <1>8 DEF EventSteps

LEMMA EnvTInv ==
  ASSUME TInv, Device \/ MediaServer
  PROVE  TInv'
<1> USE DEF TInv, TypeOK, LabelInv, heap, thread, sip, zlm, CallStates
<1>1. ASSUME NEW s \in Sessions, DeviceAnswers(s)
      PROVE  TInv'
  BY <1>1 DEF DeviceAnswers, SipEvent
<1>2. ASSUME NEW s \in Sessions, DeviceHangsUp(s)
      PROVE  TInv'
  BY <1>2 DEF DeviceHangsUp, HungUp, SipEvent
<1>3. ASSUME NEW s \in Sessions, DeviceRejects(s)
      PROVE  TInv'
  BY <1>3 DEF DeviceRejects
<1>9. ASSUME NEW s \in Sessions, MediaStarts(s)
      PROVE  TInv'
  <2>1. hooks' \in [HookKinds -> [Streams -> Nat]]
    BY <1>9, HookType DEF MediaStarts, HookKinds
  <2>2. QED
    BY <1>9, <2>1 DEF MediaStarts
<1>4. ASSUME NEW x \in Streams, MediaStops(x)
      PROVE  TInv'
  BY <1>4, HookType DEF MediaStops, HookKinds
<1>5. ASSUME NEW x \in Streams, RtpExpires(x)
      PROVE  TInv'
  BY <1>5, HookType DEF RtpExpires, HookKinds
<1>6. ASSUME NEW x \in Streams, ViewersLeave(x)
      PROVE  TInv'
  BY <1>6, HookType DEF ViewersLeave, HookKinds
<1>7. ASSUME NEW x \in Streams, ViewerMissesStream(x)
      PROVE  TInv'
  BY <1>7, HookType DEF ViewerMissesStream, HookKinds
<1>8. QED
  BY <1>1, <1>2, <1>3, <1>9, <1>4, <1>5, <1>6, <1>7 DEF Device, MediaServer

LEMMA NextTInv == TInv /\ [Next]_vars => TInv'
<1> SUFFICES ASSUME TInv, [Next]_vars PROVE TInv'
  OBVIOUS
<1>1. CASE UNCHANGED vars
  BY <1>1 DEF vars, heap, thread, sip, zlm, TInv, TypeOK, LabelInv
<1>2. CASE Next
  BY <1>2, PlayStepsTInv, WakeTInv, WorkerTInv, HooksTInv, PollerTInv, EnvTInv DEF Next
<1>3. QED
  BY <1>1, <1>2

\* Every variable keeps its type: in particular no step uses a session that was
\* never created, and hook counts never go below zero.
THEOREM TypeCorrect == Spec => []TypeOK
<1>1. Spec => []TInv
  BY InitTInv, NextTInv, PTL DEF Spec
<1>2. TInv => TypeOK
  BY DEF TInv
<1>3. QED
  BY <1>1, <1>2, PTL

-----------------------------------------------------------------------------
(* The inductive invariant *)

LEMMA InitIInv == Init => IInv
<1> SUFFICES ASSUME Init PROVE IInv
  OBVIOUS
<1>1. TInv
  BY InitTInv
<1>2. QED
  BY <1>1, NoneOutside DEF Init, IInv, TableInv, IdInv, SendInv, EventInv, ThreadInv,
     ConnectedHasDialog, AckedHasDialog

\* Labels that carry no obligation; a thread may go to one in any step.
Harmless == Labels \ {"send", "connect", "ack", "terminate"}

\* Threads that are elsewhere stay as they are.
Staying ==
  \A u \in Threads :
    pc'[u] \in Harmless \/ (pc'[u] = pc[u] /\ obj'[u] = obj[u])

\* A step that moves calls forward, and threads only to harmless labels, and
\* leaves the table and the session objects alone.
LEMMA CallStep ==
  ASSUME IInv, TInv', EventInv', Staying,
         UNCHANGED <<streams, heap>>,
         \A s \in Sessions :
           \/ call'[s] = call[s]
           \/ call[s] = "inviting" /\ call'[s] \in {"answered", "failed"}
           \/ call[s] = "answered" /\ call'[s] = "acked" /\ dialogId[s] = s
           \/ call[s] \in Live /\ call'[s] \in {"unacked", "ended"}
  PROVE  IInv'
<1> USE DEF IInv, heap
<1>1. \A s \in Sessions : Settled(s) => Settled(s)'
  BY DEF Settled, Live
<1>2. TableInv' /\ IdInv'
  BY DEF TableInv, IdInv
<1>3. ConnectedHasDialog'
  BY DEF ConnectedHasDialog, Live
<1>4. AckedHasDialog'
  BY DEF AckedHasDialog, Live
<1>5. SendInv'
  <2>1. ASSUME NEW s \in Sessions, streamOf[s] = None
        PROVE  call'[s] = "none"
    BY <2>1 DEF SendInv, Live
  <2>2. ASSUME NEW t \in Threads, pc'[t] = "send"
        PROVE  /\ streamOf[obj'[t]] # None
               /\ call'[obj'[t]] = "none"
               /\ \A u \in Threads : pc'[u] = "send" /\ obj'[u] = obj'[t] => u = t
    <3>1. pc[t] = "send" /\ obj'[t] = obj[t]
      BY <2>2 DEF Staying, Harmless
    <3>2. obj[t] \in Sessions /\ call[obj[t]] = "none" /\ streamOf[obj[t]] # None
      BY <3>1 DEF SendInv, TInv, LabelInv
    <3>3. ASSUME NEW u \in Threads, pc'[u] = "send", obj'[u] = obj'[t]
          PROVE  u = t
      BY <3>1, <3>3 DEF Staying, Harmless, SendInv
    <3>4. QED
      BY <3>1, <3>2, <3>3 DEF Live
  <2>3. QED
    BY <2>1, <2>2 DEF SendInv
<1>6. ThreadInv'
  <2>1. ASSUME NEW t \in Threads, pc'[t] \notin Harmless
        PROVE  pc'[t] = pc[t] /\ obj'[t] = obj[t]
    BY <2>1 DEF Staying
  <2>2. \A t \in Threads : pc[t] \in {"connect", "ack"} => obj[t] \in Sessions
    BY DEF TInv, LabelInv
  <2>3. QED
    BY <1>1, <2>1, <2>2 DEF ThreadInv, Harmless
<1>7. QED
  BY <1>2, <1>3, <1>4, <1>5, <1>6

LEMMA QuietStep ==
  ASSUME IInv, TInv', EventInv', Staying, UNCHANGED <<streams, heap, call>>
  PROVE  IInv'
  BY CallStep

\* Taking a task from a queue, dropping them all, or leaving the queues alone, keeps
\* EventInv.
LEMMA DequeueEvents ==
  ASSUME IInv, TInv', UNCHANGED <<call, sipEvents>>,
         \A p \in Pollers : \/ queue'[p] \in {queue[p], <<>>}
                            \/ queue[p] # <<>> /\ queue'[p] = Tail(queue[p])
  PROVE  EventInv'
<1> USE DEF IInv, Settled
<1>1. ASSUME NEW p \in Pollers, NEW i \in 1..Len(queue'[p]), queue'[p][i].kind # "play"
      PROVE  Settled(queue'[p][i].call)
  <2>1. CASE queue'[p] = queue[p]
    BY <1>1, <2>1 DEF EventInv
  <2>2. CASE queue[p] # <<>> /\ queue'[p] = Tail(queue[p])
    <3>1. queue[p] \in Seq(Task)
      BY DEF TInv, TypeOK
    <3>2. i + 1 \in 1..Len(queue[p]) /\ queue'[p][i] = queue[p][i + 1]
      BY <1>1, <2>2, <3>1
    <3>3. QED
      BY <1>1, <3>2 DEF EventInv
  <2>3. queue'[p] # <<>>
    BY <1>1
  <2>4. QED
    BY <2>1, <2>2, <2>3
<1>2. QED
  BY <1>1 DEF EventInv

LEMMA EventsKept ==
  ASSUME IInv, TInv', UNCHANGED <<call, sipEvents, queue>>
  PROVE  EventInv'
<1>1. \A p \in Pollers : \/ queue'[p] = queue[p]
                         \/ queue[p] # <<>> /\ queue'[p] = Tail(queue[p])
  OBVIOUS
<1>2. QED
  BY <1>1, DequeueEvents

LEMMA PlayIInv ==
  ASSUME IInv, TInv', NEW t \in Threads, NEW x \in Streams, Play(t, x), EventInv'
  PROVE  IInv'
<1>1. Staying
  BY DEF Staying, Harmless, Labels, Play, Goto, thread, IInv, TInv, TypeOK
<1>2. UNCHANGED <<streams, heap, call>>
  BY DEF Play, sip
<1>3. QED
  BY <1>1, <1>2, QuietStep

\* A thread that takes one of the steps below goes to a harmless label.
LEMMA OneMoves ==
  ASSUME TInv, NEW t \in Threads, NEW label \in Harmless, Goto(t, label),
         \A u \in Threads : u # t => obj'[u] = obj[u]
  PROVE  Staying
  BY DEF Staying, Goto, TInv, TypeOK

LEMMA FinishStays ==
  ASSUME TInv, NEW t \in Threads, Finish(t)
  PROVE  Staying
<1>1. \A u \in Threads : u # t => obj'[u] = obj[u]
  BY DEF Finish, TInv, TypeOK
<1>2. "idle" \in Harmless
  BY DEF Harmless, Labels
<1>3. QED
  BY <1>1, <1>2, OneMoves DEF Finish

\* AddStream stores a session that no thread, table entry or call refers to.
LEMMA AddStreamIInv ==
  ASSUME IInv, TInv', NEW t \in Threads, AddStream(t)
  PROVE  IInv'
<1> USE NoneOutside DEF IInv
<1>1. PICK s \in Sessions :
        /\ streamOf[s] = None
        /\ streamOf' = [streamOf EXCEPT ![s] = arg[t]]
        /\ streams' = [streams EXCEPT ![arg[t]] = s]
        /\ pc' = [pc EXCEPT ![t] = "send"]
        /\ obj' = [obj EXCEPT ![t] = s]
        /\ UNCHANGED <<callId, dialogId, connected, call, sipEvents, queue>>
  BY DEF AddStream, Unborn, Enter, Goto, sip, zlm
<1>2. arg[t] \in Streams /\ arg[t] # None
  BY DEF AddStream, TInv, LabelInv
<1> USE <1>1, <1>2
<1>3. /\ streamOf'[s] = arg[t]
      /\ \A r \in Sessions : r # s => streamOf'[r] = streamOf[r]
      /\ \A r \in Sessions : streamOf[r] # None => r # s
  BY DEF TInv, TypeOK
<1>4. /\ pc'[t] = "send" /\ obj'[t] = s
      /\ \A u \in Threads : u # t => pc'[u] = pc[u] /\ obj'[u] = obj[u]
  BY DEF TInv, TypeOK
<1>5. TableInv'
  <2>1. ASSUME NEW x \in Streams, streams'[x] # None
        PROVE  streamOf'[streams'[x]] = x
    <3>1. CASE x = arg[t]
      BY <1>3, <3>1 DEF TInv, TypeOK
    <3>2. CASE x # arg[t]
      BY <1>3, <2>1, <3>2 DEF TInv, TypeOK, TableInv
    <3>3. QED
      BY <3>1, <3>2
  <2>2. QED
    BY <2>1 DEF TableInv
<1>6. \A r \in Sessions : Settled(r) <=> Settled(r)'
  BY DEF Settled
<1>7. IdInv' /\ ConnectedHasDialog' /\ AckedHasDialog'
  BY DEF IdInv, ConnectedHasDialog, AckedHasDialog
<1>8. EventInv'
  BY DEF EventInv, Settled
<1>9. SendInv'
  <2>1. ASSUME NEW r \in Sessions, streamOf'[r] = None
        PROVE  call'[r] = "none"
    BY <1>3, <2>1 DEF SendInv
  <2>2. ASSUME NEW u \in Threads, pc'[u] = "send"
        PROVE  /\ streamOf'[obj'[u]] # None
               /\ call'[obj'[u]] = "none"
               /\ \A v \in Threads : pc'[v] = "send" /\ obj'[v] = obj'[u] => v = u
    <3>1. \A v \in Threads : v # t /\ pc'[v] = "send" =>
             /\ obj'[v] = obj[v] /\ obj[v] \in Sessions /\ obj[v] # s
             /\ streamOf[obj[v]] # None /\ call[obj[v]] = "none" /\ pc[v] = "send"
      BY <1>3, <1>4 DEF SendInv, TInv, LabelInv
    <3>2. CASE u = t
      BY <1>3, <1>4, <3>1, <3>2 DEF SendInv
    <3>3. CASE u # t
      BY <1>3, <1>4, <2>2, <3>1, <3>3 DEF SendInv
    <3>4. QED
      BY <3>2, <3>3
  <2>3. QED
    BY <2>1, <2>2 DEF SendInv
<1>10. ThreadInv'
  <2>1. ASSUME NEW u \in Threads, pc'[u] # "send"
        PROVE  u # t /\ pc'[u] = pc[u] /\ obj'[u] = obj[u]
    BY <1>4, <2>1
  <2>2. QED
    BY <2>1 DEF ThreadInv, Settled
<1>11. QED
  BY <1>5, <1>7, <1>8, <1>9, <1>10

LEMMA EventCalls ==
  ASSUME TInv
  PROVE  /\ \A i \in 1..Len(sipEvents) : sipEvents[i].call \in Sessions
         /\ \A p \in Pollers : \A i \in 1..Len(queue[p]) :
              queue[p][i].kind # "play" => queue[p][i].call \in Sessions
<1>1. \A i \in 1..Len(sipEvents) : sipEvents[i] \in SipEvent
  BY DEF TInv, TypeOK
<1>2. \A p \in Pollers : \A i \in 1..Len(queue[p]) : queue[p][i] \in Task
  BY DEF TInv, TypeOK
<1>3. QED
  BY <1>1, <1>2 DEF SipEvent, Task

\* No thread is at "send" with a session in hand that another one would send.
LEMMA SendInviteIInv ==
  ASSUME IInv, TInv', NEW t \in Threads, SendInvite(t)
  PROVE  IInv'
<1> USE NoneOutside DEF IInv
<1> DEFINE s == obj[t]
<1>1. /\ pc[t] = "send" /\ s \in Sessions /\ call[s] = "none"
      /\ streamOf[s] # None
  BY DEF SendInvite, SendInv, TInv, LabelInv
<1>2. /\ \A r \in Sessions : r # s => call'[r] = call[r]
      /\ call'[s] \in {"none", "inviting"}
      /\ pc' = [pc EXCEPT ![t] = "record"]
      /\ UNCHANGED <<streams, streamOf, callId, dialogId, connected, sipEvents,
                     queue, obj>>
  BY <1>1 DEF SendInvite, Goto, heap, zlm, TInv, TypeOK
<1>3. /\ pc'[t] = "record"
      /\ \A u \in Threads : u # t => pc'[u] = pc[u]
  BY <1>2 DEF TInv, TypeOK
<1>4. \A r \in Sessions : Settled(r) => r # s /\ Settled(r)'
  BY <1>1, <1>2 DEF Settled, Live
<1>5. TableInv' /\ IdInv'
  BY <1>2 DEF TableInv, IdInv
<1>6. SendInv'
  <2>1. ASSUME NEW r \in Sessions, streamOf'[r] = None
        PROVE  call'[r] = "none"
    BY <1>1, <1>2, <2>1 DEF SendInv
  <2>2. ASSUME NEW u \in Threads, pc'[u] = "send"
        PROVE  /\ pc[u] = "send" /\ obj[u] \in Sessions /\ obj[u] # s
               /\ streamOf[obj[u]] # None /\ call[obj[u]] = "none"
    BY <1>1, <1>3, <2>2 DEF SendInv, TInv, LabelInv
  <2>3. ASSUME NEW u \in Threads, pc'[u] = "send"
        PROVE  /\ streamOf'[obj'[u]] # None
               /\ call'[obj'[u]] = "none"
               /\ \A v \in Threads : pc'[v] = "send" /\ obj'[v] = obj'[u] => v = u
    BY <1>2, <2>2, <2>3 DEF SendInv
  <2>4. QED
    BY <2>1, <2>3 DEF SendInv
<1>7. EventInv'
  BY <1>2, EventCalls, <1>4 DEF EventInv
<1>8. ThreadInv'
  <2>1. \A u \in Threads : pc[u] \in {"connect", "ack"} => obj[u] \in Sessions
    BY DEF TInv, LabelInv
  <2>2. QED
    BY <1>2, <1>3, <1>4, <2>1 DEF ThreadInv
<1>9. ConnectedHasDialog' /\ AckedHasDialog'
  <2>1. \A r \in Sessions : connected[r] => Settled(r)'
    BY <1>4 DEF ConnectedHasDialog, Settled
  <2>2. QED
    BY <1>2, <2>1 DEF ConnectedHasDialog, AckedHasDialog, Settled
<1>10. QED
  BY <1>5, <1>6, <1>7, <1>8, <1>9

\* What a thread relies on at its label.
Justified(u) ==
  /\ pc[u] \in {"connect", "ack"} => dialogId[obj[u]] = obj[u] /\ Settled(obj[u])
  /\ pc[u] = "terminate" => dialogId[obj[u]] = obj[u]

Moving ==
  \A u \in Threads :
    \/ pc'[u] \in Harmless
    \/ pc'[u] = pc[u] /\ obj'[u] = obj[u]
    \/ pc'[u] # "send" /\ Justified(u)'

LEMMA StayingMoving == Staying => Moving
  BY DEF Staying, Moving

\* Steps that change only the local state of threads and the identifiers and
\* flags of session objects, where the flags that rise are justified.
LEMMA RecordStep ==
  ASSUME IInv, TInv', Moving, IdInv', EventInv', ConnectedHasDialog',
         UNCHANGED <<streamOf, call>>,
         \A x \in Streams : streams'[x] \in {streams[x], None},
         \A s \in Sessions : dialogId[s] = s => dialogId'[s] = s
  PROVE  IInv'
<1> USE NoneOutside DEF IInv
<1>1. TableInv'
  BY DEF TableInv
<1>2. \A s \in Sessions : Settled(s) => Settled(s)'
  BY DEF Settled
<1>3. SendInv'
  BY DEF SendInv, Moving, Harmless
<1>4. AckedHasDialog'
  BY DEF AckedHasDialog
<1>5. ASSUME NEW u \in Threads
      PROVE  Justified(u)'
  <2>1. CASE pc'[u] \in Harmless
    BY <2>1 DEF Justified, Harmless
  <2>2. CASE pc'[u] = pc[u] /\ obj'[u] = obj[u]
    <3>1. Justified(u)
      BY DEF Justified, ThreadInv
    <3>2. pc[u] \in {"connect", "ack", "terminate"} => obj[u] \in Sessions
      BY DEF TInv, LabelInv
    <3>3. QED
      BY <1>2, <2>2, <3>1, <3>2 DEF Justified
  <2>3. QED
    BY <2>1, <2>2 DEF Moving
<1>6. ThreadInv'
  BY <1>5 DEF ThreadInv, Justified
<1>7. QED
  BY <1>1, <1>3, <1>4, <1>6

LEMMA EnterMoves ==
  ASSUME TInv, NEW t \in Threads, NEW label \in Labels, NEW s, Enter(t, label, s)
  PROVE  /\ pc'[t] = label /\ obj'[t] = s
         /\ \A u \in Threads : u # t => pc'[u] = pc[u] /\ obj'[u] = obj[u]
         /\ label \in Harmless => Staying
  BY DEF Enter, Goto, TInv, TypeOK, Staying

LEMMA SetCallIDIInv ==
  ASSUME IInv, TInv', NEW t \in Threads, SetCallID(t)
  PROVE  IInv'
<1> USE NoneOutside DEF IInv
<1>1. Moving
  <2>1. Staying
    BY OneMoves DEF SetCallID, Harmless, Labels
  <2>2. QED
    BY <2>1, StayingMoving
<1>2. UNCHANGED <<call, sipEvents, streams, streamOf, dialogId, connected, queue>>
  BY DEF SetCallID, sip
<1>3. EventInv'
  BY <1>2, EventsKept
<1>4. IdInv'
  BY <1>2 DEF SetCallID, IdInv, TInv, TypeOK
<1>5. ConnectedHasDialog'
  BY <1>2 DEF ConnectedHasDialog
<1>6. QED
  BY <1>1, <1>2, <1>3, <1>4, <1>5, RecordStep

LEMMA SetContextIInv ==
  ASSUME IInv, TInv', NEW t \in Threads, SetContext(t)
  PROVE  IInv'
<1>1. Moving
  BY EnterMoves, StayingMoving DEF SetContext, Harmless, Labels, IInv
<1>2. UNCHANGED <<call, sipEvents, streams, streamOf, callId, dialogId, connected,
                  queue>>
  BY DEF SetContext, sip
<1>3. EventInv'
  BY <1>2, EventsKept
<1>4. IdInv' /\ ConnectedHasDialog'
  BY <1>2 DEF IInv, IdInv, ConnectedHasDialog
<1>5. QED
  BY <1>1, <1>2, <1>3, <1>4, RecordStep

LEMMA ClearIInv ==
  ASSUME IInv, TInv', NEW t \in Threads, ClearConnected(t) \/ Disconnect(t)
  PROVE  IInv'
<1> USE NoneOutside DEF IInv
<1>1. Moving
  <2>1. Enter(t, "each", None) \/ Finish(t)
    BY DEF ClearConnected, Disconnect
  <2>2. QED
    BY <2>1, EnterMoves, FinishStays, StayingMoving DEF Harmless, Labels
<1>2. /\ UNCHANGED <<call, sipEvents, streams, streamOf, callId, dialogId, queue>>
      /\ connected' = [connected EXCEPT ![obj[t]] = FALSE]
  BY DEF ClearConnected, Disconnect, sip
<1>3. EventInv'
  BY <1>2, EventsKept
<1>4. IdInv'
  BY <1>2 DEF IdInv
<1>5. ConnectedHasDialog'
  BY <1>2 DEF ConnectedHasDialog, TInv, TypeOK
<1>6. QED
  BY <1>1, <1>2, <1>3, <1>4, <1>5, RecordStep

\* Steps of one thread that touch nothing but its own state.
LEMMA ThreadStep ==
  ASSUME IInv, TInv', Moving,
         UNCHANGED <<streams, heap, sip, queue>>
  PROVE  IInv'
<1>1. UNCHANGED <<call, sipEvents, queue, streams, streamOf, callId, dialogId,
                  connected>>
  BY DEF sip, heap
<1>2. EventInv'
  BY <1>1, EventsKept
<1>3. IdInv' /\ ConnectedHasDialog'
  BY <1>1 DEF IInv, IdInv, ConnectedHasDialog
<1>4. QED
  BY <1>1, <1>2, <1>3, RecordStep

LEMMA AwaitIInv ==
  ASSUME IInv, TInv', NEW t \in Threads,
         Await(t) \/ PlayTimeout(t) \/ WakeSpuriously(t) \/ PlayOk(t)
  PROVE  IInv'
<1>1. Staying
  <2>1. CASE Finish(t)
    BY <2>1, FinishStays DEF IInv
  <2>2. CASE Enter(t, "wait", streams[arg[t]])
    BY <2>2, EnterMoves DEF Harmless, Labels, IInv
  <2>3. CASE WakeSpuriously(t)
    BY <2>3, OneMoves DEF WakeSpuriously, Harmless, Labels, IInv
  <2>4. QED
    BY <2>1, <2>2, <2>3 DEF Await, PlayTimeout, PlayOk
<1>2. UNCHANGED <<streams, heap, sip, queue>>
  BY DEF Await, PlayTimeout, WakeSpuriously, PlayOk
<1>3. QED
  BY <1>1, <1>2, StayingMoving, ThreadStep

LEMMA PlayStepsIInv ==
  ASSUME IInv, NEW t \in Threads, PlaySteps(t) \/ WakeSpuriously(t)
  PROVE  IInv'
<1>1. TInv'
  BY PlayStepsTInv, WakeTInv DEF IInv
<1>2. CASE OpenRtp(t)
  <2>1. Goto(t, "add") \/ Goto(t, "lookup")
    BY <1>2 DEF OpenRtp
  <2>2. Staying
    BY <1>2, <2>1, OneMoves DEF OpenRtp, Harmless, Labels, IInv
  <2>3. QED
    BY <1>1, <1>2, <2>2, StayingMoving, ThreadStep DEF OpenRtp
<1>3. QED
  BY <1>1, <1>2, AddStreamIInv, SendInviteIInv, SetCallIDIInv, SetContextIInv, AwaitIInv
     DEF PlaySteps

\* A connected session knows its dialog, so that the one about to be hung up does.
LEMMA PickIInv ==
  ASSUME IInv, TInv', NEW w \in Workers, Stop(w) \/ StopAll(w) \/ StopNext(w)
  PROVE  IInv'
<1>1. w \in Threads
  BY DEF Threads
<1>2. UNCHANGED <<streams, heap, sip, queue>>
  BY DEF Stop, StopAll, StopNext
<1>3. ASSUME NEW s \in Sessions, connected[s], Goto(w, "terminate"),
             obj' = [obj EXCEPT ![w] = s]
      PROVE  Moving
  <2>1. dialogId'[s] = s
    BY <1>2, <1>3 DEF IInv, ConnectedHasDialog, heap
  <2>2. /\ pc'[w] = "terminate" /\ obj'[w] = s
        /\ \A u \in Threads : u # w => pc'[u] = pc[u] /\ obj'[u] = obj[u]
    BY <1>1, <1>3 DEF Goto, IInv, TInv, TypeOK
  <2>3. QED
    BY <1>3, <2>1, <2>2 DEF Moving, Justified
<1>4. CASE Stop(w)
  <2>1. PICK x \in Streams : Exists(x) /\ Enter(w, "terminate", streams[x])
    BY <1>4 DEF Stop
  <2>2. streams[x] \in Sessions /\ connected[streams[x]]
    BY <2>1 DEF Exists, IInv, TInv, TypeOK
  <2>3. Moving
    BY <1>3, <2>1, <2>2 DEF Enter
  <2>4. QED
    BY <1>2, <2>3, ThreadStep
<1>5. CASE StopAll(w)
  <2>1. Staying
    BY <1>1, <1>5, OneMoves DEF StopAll, Harmless, Labels, IInv
  <2>2. QED
    BY <1>2, <2>1, StayingMoving, ThreadStep
<1>6. CASE StopNext(w)
  <2>1. CASE Finish(w)
    BY <1>1, <1>2, <2>1, FinishStays, StayingMoving, ThreadStep DEF IInv
  <2>2. ASSUME NEW s \in todo[w], connected[s], Goto(w, "terminate"),
               obj' = [obj EXCEPT ![w] = s]
        PROVE  IInv'
    <3>1. s \in Sessions
      BY <1>1 DEF IInv, TInv, TypeOK
    <3>2. QED
      BY <1>2, <1>3, <2>2, <3>1, ThreadStep
  <2>3. CASE UNCHANGED <<pc, obj>>
    <3>1. Staying
      BY <2>3 DEF Staying
    <3>2. QED
      BY <1>2, <3>1, StayingMoving, ThreadStep
  <2>4. QED
    BY <1>6, <2>1, <2>2, <2>3 DEF StopNext
<1>7. QED
  BY <1>4, <1>5, <1>6

LEMMA TerminateIInv ==
  ASSUME IInv, TInv', NEW w \in Workers, Terminate(w)
  PROVE  IInv'
<1>1. w \in Threads /\ obj[w] \in Sessions
  BY DEF Threads, Terminate, IInv, TInv, LabelInv
<1>2. CASE /\ HangUp(callId[obj[w]], dialogId[obj[w]])
           /\ Goto(w, "clear")
           /\ UNCHANGED <<queue, arg, obj, todo>>
  <2>1. Staying
    BY <1>1, <1>2, OneMoves DEF Harmless, Labels, IInv
  <2>2. \A s \in Sessions :
          \/ call'[s] = call[s]
          \/ call'[s] \in {"unacked", "ended"} /\ call[s] \in Live
          \/ call'[s] = "failed" /\ call[s] = "inviting"
    <3>1. /\ callId[obj[w]] \in Sessions \cup {None}
          /\ dialogId[obj[w]] \in Sessions \cup {None}
      BY <1>1 DEF IInv, TInv, TypeOK
    <3>2. QED
      BY <1>2, <3>1, HangUpType DEF IInv
  <2>3. EventInv'
    BY <1>2, <2>2, EventCalls DEF Terminate, IInv, EventInv, Settled, Live
  <2>4. QED
    BY <2>1, <2>2, <2>3, CallStep DEF Terminate
<1>3. CASE Crash /\ UNCHANGED call
  <2>1. Staying
    BY <1>3 DEF Crash, Staying, Harmless, Labels
  <2>2. \A p \in Pollers : queue'[p] = <<>>
    BY <1>3 DEF Crash
  <2>3. EventInv'
    BY <1>3, <2>2, DequeueEvents DEF Terminate
  <2>4. QED
    BY <1>3, <2>1, <2>3, QuietStep DEF Terminate
<1>4. QED
  BY <1>2, <1>3 DEF Terminate

LEMMA WorkerIInv ==
  ASSUME IInv, NEW w \in Workers, Requests(w) \/ StopSteps(w)
  PROVE  IInv'
<1>1. TInv' /\ w \in Threads
  BY WorkerTInv DEF IInv, Threads
<1>2. ASSUME NEW x \in Streams, Play(w, x), UNCHANGED queue
      PROVE  IInv'
  <2>1. UNCHANGED <<call, sipEvents, queue>>
    BY <1>2 DEF Play, sip
  <2>2. QED
    BY <1>1, <1>2, <2>1, EventsKept, PlayIInv
<1>3. CASE PlayRequest(w) \/ PlaybackRequest(w)
  BY <1>2, <1>3 DEF PlayRequest, PlaybackRequest, Streams
<1>4. CASE ClearConnected(w)
  BY <1>1, <1>4, ClearIInv
<1>5. QED
  BY <1>1, <1>3, <1>4, PickIInv, TerminateIInv DEF Requests, StopSteps

LEMMA HooksIInv ==
  ASSUME IInv, NEW w \in Workers, Hooks(w)
  PROVE  IInv'
<1> PICK x \in Streams : \/ StreamRegistered(w, x) \/ StreamGone(w, x)
                         \/ NoReader(w, x) \/ NotFound(w, x)
  BY DEF Hooks
<1>1. TInv' /\ TInv /\ w \in Threads
  BY HooksTInv DEF IInv, Threads
<1>2. CASE StreamRegistered(w, x)
  <2>1. Staying
    BY <1>2 DEF StreamRegistered, Staying, Harmless, Labels
  <2>2. QED
    BY <1>1, <1>2, <2>1, StayingMoving, ThreadStep DEF StreamRegistered
<1>3. CASE StreamGone(w, x)
  <2>1. /\ UNCHANGED <<call, sipEvents, queue, streamOf, callId, dialogId, connected,
                       pc, obj>>
        /\ streams' = [streams EXCEPT ![x] = None]
    BY <1>3 DEF StreamGone, heap, sip, thread
  <2>2. Moving
    BY <2>1 DEF Moving
  <2>3. \A y \in Streams : streams'[y] \in {streams[y], None}
    BY <1>1, <2>1 DEF TInv, TypeOK
  <2>4. EventInv' /\ IdInv' /\ ConnectedHasDialog'
    BY <1>1, <2>1, EventsKept DEF IInv, IdInv, ConnectedHasDialog
  <2>5. QED
    BY <1>1, <2>1, <2>2, <2>3, <2>4, RecordStep
<1>4. CASE NoReader(w, x)
  <2>1. Staying
    <3>1. CASE UNCHANGED thread
      BY <3>1 DEF Staying, thread
    <3>2. CASE Enter(w, "close", streams[x])
      BY <1>1, <3>2, EnterMoves DEF Harmless, Labels
    <3>3. QED
      BY <1>4, <3>1, <3>2 DEF NoReader
  <2>2. QED
    BY <1>1, <1>4, <2>1, StayingMoving, ThreadStep DEF NoReader
<1>5. CASE NotFound(w, x)
  <2>1. Staying
    BY <1>5 DEF NotFound, Staying, thread
  <2>2. PICK p \in Pollers :
          queue' = [queue EXCEPT ![p] = Append(@, [kind |-> "play", stream |-> x])]
    BY <1>5 DEF NotFound, Post
  <2>3. EventInv'
    <3>1. \A q \in Pollers : \A i \in 1..Len(queue'[q]) :
            \/ i \in 1..Len(queue[q]) /\ queue'[q][i] = queue[q][i]
            \/ queue'[q][i] = [kind |-> "play", stream |-> x]
      BY <1>1, <2>2 DEF TInv, TypeOK
    <3>2. UNCHANGED <<call, sipEvents>>
      BY <1>5 DEF NotFound, sip
    <3>3. ASSUME NEW q \in Pollers, NEW i \in 1..Len(queue'[q]),
                 queue'[q][i].kind # "play"
          PROVE  call'[queue'[q][i].call] \in Live \cup {"unacked", "ended"}
      <4>1. i \in 1..Len(queue[q]) /\ queue'[q][i] = queue[q][i]
        BY <3>1, <3>3
      <4>2. QED
        BY <3>2, <3>3, <4>1 DEF IInv, EventInv, Settled
    <3>4. QED
      BY <3>2, <3>3 DEF IInv, EventInv, Settled
  <2>4. QED
    BY <1>1, <1>5, <2>1, <2>3, QuietStep DEF NotFound, sip
<1>6. QED
  BY <1>2, <1>3, <1>4, <1>5

\* An event that is handled is about a call the device answered.
LEMMA DequeueSettled ==
  ASSUME IInv, NEW p \in Pollers, NEW kind \in {"answered", "closed"},
         Dequeue(p, kind)
  PROVE  /\ Settled(Head(queue[p]).call)
         /\ Head(queue[p]).call \in Sessions
<1>1. queue[p] # <<>> /\ queue[p] \in Seq(Task) /\ Head(queue[p]).kind # "play"
  BY DEF Dequeue, IInv, TInv, TypeOK
<1>2. 1 \in 1..Len(queue[p]) /\ Head(queue[p]) = queue[p][1]
  BY <1>1
<1>3. QED
  BY <1>1, <1>2, EventCalls DEF IInv, EventInv

LEMMA MatchedIInv ==
  ASSUME IInv, TInv', NEW p \in Pollers, AnswerMatched(p) \/ CloseMatched(p)
  PROVE  IInv'
<1> USE NoneOutside
<1> DEFINE c == Head(queue[p]).call
<1>1. Settled(c) /\ c \in Sessions /\ p \in Threads /\ TInv
  BY DequeueSettled DEF AnswerMatched, CloseMatched, Threads, IInv
<1>2. PICK s \in Matching(c), label \in {"connect", "disconnect"} :
        /\ dialogId' = [dialogId EXCEPT ![s] = c]
        /\ Enter(p, label, s)
  BY DEF AnswerMatched, CloseMatched
<1>3. s = c
  BY <1>1, <1>2, MatchingType DEF IInv, IdInv
<1>4. UNCHANGED <<call, sipEvents, streams, streamOf, callId, connected>>
  BY DEF AnswerMatched, CloseMatched, sip
<1>5. /\ dialogId'[c] = c
      /\ \A r \in Sessions : r # c => dialogId'[r] = dialogId[r]
  BY <1>1, <1>2, <1>3 DEF TInv, TypeOK
<1>6. Moving
  <2>1. /\ pc'[p] = label /\ obj'[p] = c
        /\ \A u \in Threads : u # p => pc'[u] = pc[u] /\ obj'[u] = obj[u]
    BY <1>1, <1>2, <1>3, EnterMoves DEF Labels
  <2>2. QED
    BY <1>1, <1>4, <1>5, <2>1 DEF Moving, Justified, Settled
<1>7. EventInv'
  <2>1. queue' = [queue EXCEPT ![p] = Tail(@)] /\ queue[p] # <<>>
    BY DEF AnswerMatched, CloseMatched, Dequeue
  <2>2. \A q \in Pollers : \/ queue'[q] = queue[q]
                           \/ queue[q] # <<>> /\ queue'[q] = Tail(queue[q])
    BY <1>1, <2>1 DEF TInv, TypeOK
  <2>3. QED
    BY <1>4, <2>2, DequeueEvents
<1>8. IdInv' /\ ConnectedHasDialog'
  BY <1>4, <1>5 DEF IInv, IdInv, ConnectedHasDialog
<1>9. QED
  BY <1>4, <1>5, <1>6, <1>7, <1>8, RecordStep

LEMMA ConnectIInv ==
  ASSUME IInv, TInv', NEW p \in Pollers, Connect(p)
  PROVE  IInv'
<1>1. /\ p \in Threads /\ obj[p] \in Sessions /\ pc[p] = "connect" /\ TInv
      /\ dialogId[obj[p]] = obj[p] /\ Settled(obj[p])
  BY DEF Connect, Threads, IInv, TInv, LabelInv, ThreadInv
<1>2. /\ UNCHANGED <<call, sipEvents, queue, streams, streamOf, callId, dialogId,
                     obj>>
      /\ connected' = [connected EXCEPT ![obj[p]] = TRUE]
      /\ pc' = [pc EXCEPT ![p] = "ack"]
  BY DEF Connect, Goto, sip
<1>3. Moving
  <2>1. pc'[p] = "ack" /\ \A u \in Threads : u # p => pc'[u] = pc[u]
    BY <1>1, <1>2 DEF TInv, TypeOK
  <2>2. QED
    BY <1>1, <1>2, <2>1 DEF Moving, Justified, Settled
<1>4. EventInv'
  BY <1>2, EventsKept
<1>5. IdInv'
  BY <1>2 DEF IInv, IdInv
<1>6. ConnectedHasDialog'
  BY <1>1, <1>2 DEF IInv, TInv, TypeOK, ConnectedHasDialog, Settled
<1>7. QED
  BY <1>2, <1>3, <1>4, <1>5, <1>6, RecordStep

LEMMA AckIInv ==
  ASSUME IInv, TInv', NEW p \in Pollers, SendCallAck(p)
  PROVE  IInv'
<1>1. /\ p \in Threads /\ obj[p] \in Sessions /\ dialogId[obj[p]] = obj[p] /\ TInv
  BY DEF SendCallAck, Threads, IInv, TInv, LabelInv, ThreadInv
<1>2. Staying
  BY <1>1, FinishStays DEF SendCallAck
<1>3. \A s \in Sessions :
        \/ call'[s] = call[s]
        \/ call[s] = "answered" /\ call'[s] = "acked" /\ dialogId[s] = s
  BY <1>1 DEF SendCallAck, TInv, TypeOK
<1>4. EventInv'
  BY <1>1, <1>3, EventCalls DEF SendCallAck, IInv, EventInv, Settled, Live
<1>5. QED
  BY <1>2, <1>3, <1>4, CallStep DEF SendCallAck

LEMMA PollerIInv ==
  ASSUME IInv, NEW p \in Pollers, RecvEvent(p) \/ EventSteps(p)
  PROVE  IInv'
<1>1. TInv' /\ TInv /\ p \in Threads
  BY PollerTInv DEF IInv, Threads
<1>2. CASE RecvEvent(p)
  <2>1. UNCHANGED call /\ Staying
    BY <1>2 DEF RecvEvent, Staying, thread
  <2>2. EventInv'
    <3>1. \A i \in 1..Len(sipEvents') :
            i + 1 \in 1..Len(sipEvents) /\ sipEvents'[i] = sipEvents[i + 1]
      BY <1>1, <1>2 DEF RecvEvent, TInv, TypeOK
    <3>2. 1 \in 1..Len(sipEvents) /\ Head(sipEvents) = sipEvents[1]
      BY <1>1, <1>2 DEF RecvEvent, TInv, TypeOK
    <3>3. queue' = [queue EXCEPT ![p] = Append(@, sipEvents[1])]
      BY <1>2, <3>2 DEF RecvEvent, Post
    <3>4. \A q \in Pollers : \A i \in 1..Len(queue'[q]) :
            \/ i \in 1..Len(queue[q]) /\ queue'[q][i] = queue[q][i]
            \/ queue'[q][i] = sipEvents[1]
      BY <1>1, <3>3 DEF TInv, TypeOK
    <3>5. QED
      BY <2>1, <3>1, <3>2, <3>4 DEF IInv, EventInv, Settled
  <2>3. QED
    BY <1>1, <1>2, <2>1, <2>2, QuietStep DEF RecvEvent
<1>3. ASSUME NEW kind, Dequeue(p, kind), UNCHANGED sip
      PROVE  EventInv'
  <2>1. queue' = [queue EXCEPT ![p] = Tail(@)] /\ queue[p] # <<>>
    BY <1>3 DEF Dequeue
  <2>2. \A q \in Pollers : \/ queue'[q] = queue[q]
                           \/ queue[q] # <<>> /\ queue'[q] = Tail(queue[q])
    BY <1>1, <2>1 DEF TInv, TypeOK
  <2>3. UNCHANGED <<call, sipEvents>>
    BY <1>3 DEF sip
  <2>4. QED
    BY <1>1, <2>2, <2>3, DequeueEvents
<1>4. CASE AnswerIgnored(p) \/ CloseIgnored(p)
  <2>1. EventInv'
    BY <1>3, <1>4 DEF AnswerIgnored, CloseIgnored
  <2>2. Staying /\ UNCHANGED <<streams, heap, call>>
    BY <1>4 DEF AnswerIgnored, CloseIgnored, Staying, thread, sip
  <2>3. QED
    BY <1>1, <2>1, <2>2, QuietStep
<1>5. CASE OnDemandPlay(p)
  <2>1. EventInv'
    BY <1>3, <1>5 DEF OnDemandPlay, Play
  <2>2. Head(queue[p]).stream \in Streams
    BY <1>1, <1>5, DequeueType DEF OnDemandPlay
  <2>3. QED
    BY <1>1, <1>5, <2>1, <2>2, PlayIInv DEF OnDemandPlay
<1>6. CASE Disconnect(p)
  BY <1>1, <1>6, ClearIInv
<1>7. QED
  BY <1>1, <1>2, <1>4, <1>5, <1>6, MatchedIInv, ConnectIInv, AckIInv DEF EventSteps

LEMMA DeviceIInv ==
  ASSUME IInv, Device
  PROVE  IInv'
<1>1. TInv' /\ TInv
  BY EnvTInv DEF IInv
<1>2. PICK s \in Sessions : \/ DeviceAnswers(s) \/ DeviceRejects(s)
                            \/ DeviceHangsUp(s) \/ MediaStarts(s)
  BY DEF Device
<1>3. Staying /\ UNCHANGED <<streams, heap, queue>>
  BY <1>2 DEF DeviceAnswers, DeviceRejects, DeviceHangsUp, MediaStarts, Staying, thread
<1>4. /\ \A r \in Sessions : r # s => call'[r] = call[r]
      /\ \/ call[s] = "inviting" /\ call'[s] \in {"answered", "failed"}
         \/ call'[s] = call[s]
         \/ call[s] \in Live /\ call'[s] \in {"unacked", "ended"}
  BY <1>1, <1>2 DEF DeviceAnswers, DeviceRejects, DeviceHangsUp, HungUp, MediaStarts, sip,
     TInv, TypeOK
<1> DEFINE Reported == {"answered", "unacked", "ended"}
<1>5. \A i \in 1..Len(sipEvents') :
        \/ i \in 1..Len(sipEvents) /\ sipEvents'[i] = sipEvents[i]
        \/ sipEvents'[i].call = s /\ call'[s] \in Reported
  <2>1. CASE UNCHANGED sipEvents
    BY <2>1
  <2>2. ASSUME NEW k \in {"answered", "closed"}, call'[s] \in Reported,
               sipEvents' = Append(sipEvents, [kind |-> k, call |-> s])
        PROVE  \A i \in 1..Len(sipEvents') :
                 \/ i \in 1..Len(sipEvents) /\ sipEvents'[i] = sipEvents[i]
                 \/ sipEvents'[i].call = s /\ call'[s] \in Reported
    <3> DEFINE e == [kind |-> k, call |-> s]
    <3>1. e \in SipEvent /\ e.call = s
      BY <2>2 DEF SipEvent
    <3> HIDE DEF e
    <3>2. \A i \in 1..Len(sipEvents') :
            \/ i \in 1..Len(sipEvents) /\ sipEvents'[i] = sipEvents[i]
            \/ sipEvents'[i] = e
      <4>1. sipEvents' = Append(sipEvents, e) /\ sipEvents \in Seq(SipEvent)
        BY <1>1, <2>2 DEF TInv, TypeOK, e
      <4>2. QED
        BY <3>1, <4>1
    <3>3. QED
      BY <2>2, <3>1, <3>2
  <2>3. QED
    BY <1>1, <1>2, <2>1, <2>2 DEF DeviceAnswers, DeviceRejects, DeviceHangsUp, HungUp,
       MediaStarts, sip, TInv, TypeOK
<1>6. EventInv'
  <2>1. \A r \in Sessions : Settled(r) => Settled(r)'
    BY <1>4 DEF Settled, Live
  <2>2. QED
    BY <1>1, <1>3, <1>5, <2>1, EventCalls DEF IInv, EventInv, Settled, Live
<1>7. QED
  BY <1>1, <1>3, <1>4, <1>6, CallStep

LEMMA MediaServerIInv ==
  ASSUME IInv, MediaServer
  PROVE  IInv'
<1>1. TInv' /\ TInv
  BY EnvTInv DEF IInv
<1>2. PICK x \in Streams : \/ MediaStops(x) \/ RtpExpires(x)
                           \/ ViewersLeave(x) \/ ViewerMissesStream(x)
  BY DEF MediaServer
<1>3. /\ Staying /\ UNCHANGED <<streams, heap, call>>
      /\ UNCHANGED <<call, sipEvents, queue>>
  BY <1>2 DEF MediaStops, RtpExpires, ViewersLeave, ViewerMissesStream, Staying,
     thread, sip
<1>4. QED
  BY <1>1, <1>3, EventsKept, QuietStep

LEMMA NextIInv == IInv /\ [Next]_vars => IInv'
<1> SUFFICES ASSUME IInv, [Next]_vars PROVE IInv'
  OBVIOUS
<1>1. CASE UNCHANGED vars
  BY <1>1 DEF vars, heap, thread, sip, zlm, IInv, TInv, TypeOK, LabelInv, TableInv,
     IdInv, SendInv, EventInv, Settled, ThreadInv, ConnectedHasDialog, AckedHasDialog
<1>2. CASE Next
  BY <1>2, PlayStepsIInv, WorkerIInv, HooksIInv, PollerIInv, DeviceIInv,
     MediaServerIInv DEF Next
<1>3. QED
  BY <1>1, <1>2

LEMMA AlwaysIInv == Spec => []IInv
  BY InitIInv, NextIInv, PTL DEF Spec

-----------------------------------------------------------------------------
(* The theorems *)

\* Whenever _is_connected is set, the dialog id of the session's own call has
\* been stored in it: HandleResponseSuccess stores the id before the flag, no
\* other handler lowers it, and no session is given the id of another call.
THEOREM PlayingCanBeStopped == Spec => []ConnectedHasDialog
<1>1. IInv => ConnectedHasDialog
  BY DEF IInv
<1>2. QED
  BY <1>1, AlwaysIInv, PTL

\* The server acknowledges no call that it could not hang up later.
THEOREM AcknowledgedIsRecorded == Spec => []AckedHasDialog
<1>1. IInv => AckedHasDialog
  BY DEF IInv
<1>2. QED
  BY <1>1, AlwaysIInv, PTL

\* eXosip_call_terminate, called by a stop, leaves its call over when it returns,
\* though the session may have been answered again, closed or replaced since it
\* was picked, and though SendCall may still be at work on it: without a context
\* the call is not left up, the process is gone.
THEOREM StopEndsCall == Spec => StopHangsUp
<1> DEFINE Ends(w) ==
      pc[w] = "terminate" /\ pc'[w] = "clear" => call'[obj[w]] \notin Live
<1>1. ASSUME IInv, [Next]_vars, NEW w \in Workers,
             pc[w] = "terminate", pc'[w] = "clear"
      PROVE  call'[obj[w]] \notin Live
  <2> USE DEF IInv, TInv, TypeOK, Goto, Threads
  <2>1. CASE \E t \in Threads : PlaySteps(t) \/ WakeSpuriously(t)
    BY <1>1, <2>1 DEF PlaySteps, OpenRtp, AddStream, SendInvite, SetCallID, SetContext,
       Await, PlayTimeout, WakeSpuriously, PlayOk, Enter, Finish
  <2>2. CASE \E v \in Workers : Requests(v)
    BY <1>1, <2>2 DEF Requests, PlayRequest, PlaybackRequest, Play, Stop, StopAll,
       Enter, thread
  <2>3. ASSUME NEW v \in Workers, StopSteps(v)
        PROVE  call'[obj[w]] \notin Live
    <3>1. CASE StopNext(v) \/ ClearConnected(v)
      BY <1>1, <3>1 DEF StopNext, ClearConnected, Enter, Finish
    <3>2. CASE Terminate(v)
      <4>1. v = w /\ ~Crash
        BY <1>1, <3>2 DEF Terminate, Crash
      <4>2. obj[w] \in Sessions /\ dialogId[obj[w]] = obj[w]
        BY <1>1 DEF LabelInv, ThreadInv
      <4>3. HangUp(callId[obj[w]], obj[w])
        BY <3>2, <4>1, <4>2 DEF Terminate
      <4>4. QED
        BY <1>1, <4>2, <4>3, HangUpType, NoneOutside
    <3>3. QED
      BY <2>3, <3>1, <3>2 DEF StopSteps
  <2>4. CASE \E v \in Workers : Hooks(v)
    BY <1>1, <2>4 DEF Hooks, StreamRegistered, StreamGone, NoReader, NotFound, Enter,
       thread
  <2>5. CASE \E p \in Pollers : RecvEvent(p) \/ EventSteps(p)
    BY <1>1, <2>5 DEF EventSteps, RecvEvent, AnswerIgnored, AnswerMatched, Connect,
       SendCallAck, CloseIgnored, CloseMatched, Disconnect, OnDemandPlay, Play, Enter,
       Finish, thread
  <2>6. CASE Device \/ MediaServer \/ UNCHANGED vars
    BY <1>1, <2>6 DEF Device, MediaServer, DeviceAnswers, DeviceRejects,
       DeviceHangsUp, MediaStarts, MediaStops, RtpExpires, ViewersLeave,
       ViewerMissesStream, thread, vars
  <2>7. QED
    BY <1>1, <2>1, <2>2, <2>3, <2>4, <2>5, <2>6 DEF Next
<1>2. IInv /\ [Next]_vars => \A w \in Workers : Ends(w)
  BY <1>1
<1>3. QED
  BY <1>2, AlwaysIInv, PTL DEF Spec, StopHangsUp
-----------------------------------------------------------------------------
(* The contract of a call *)

\* One call moves along: the ways a call may go.
Moves(s, from, to) ==
  /\ call[s] = from
  /\ call' = [call EXCEPT ![s] = to]
  /\ \/ from = "none" /\ to = "inviting"
     \/ from = "inviting" /\ to \in {"answered", "failed"}
     \/ from = "answered" /\ to = "acked"
     \/ from \in Live /\ to \in {"unacked", "ended"}

\* In the contract, only the phase of that call changes.
LEMMA PhaseMoves ==
  ASSUME TypeOK, NEW s \in Sessions, NEW from, NEW to, Moves(s, from, to)
  PROVE  /\ [r \in Sessions |-> Phase(r)]' =
              [[r \in Sessions |-> Phase(r)] EXCEPT ![s] = Phase(s)']
         /\ call'[s] = to
<1> DEFINE phase == [r \in Sessions |-> Phase(r)]
<1>1. \A r \in Sessions : call'[r] = IF r = s THEN to ELSE call[r]
  BY DEF TypeOK, Moves
<1>2. \A r \in Sessions : r # s => Phase(r)' = Phase(r)
  BY <1>1 DEF Phase
<1>3. phase' = [phase EXCEPT ![s] = Phase(s)']
  BY <1>2
<1>4. QED
  BY <1>1, <1>3

LEMMA MovesNext ==
  ASSUME TypeOK, NEW s \in Sessions, NEW from, NEW to, Moves(s, from, to),
         LiveMedia' = LiveMedia
  PROVE  Contract!Next
<1> DEFINE phase == [r \in Sessions |-> Phase(r)]
<1>1. /\ phase' = [phase EXCEPT ![s] = Phase(s)']
      /\ call[s] = from /\ call'[s] = to /\ phase[s] = Phase(s)
  BY PhaseMoves DEF Moves
<1>2. CASE \/ from \in Live /\ to \in {"unacked", "ended"}
           \/ from = "inviting" /\ to = "failed"
  <2>1. phase[s] \in Contract!Up /\ Phase(s)' = "over"
    BY <1>1, <1>2 DEF Phase, Live, Contract!Up
  <2>2. Contract!End(s)
    BY <1>1, <2>1 DEF Contract!End
  <2>3. QED
    BY <2>2 DEF Contract!Next
<1>3. CASE \/ from = "none" /\ to = "inviting"
           \/ from = "inviting" /\ to = "answered"
           \/ from = "answered" /\ to = "acked"
  <2>1. phase[s] = from /\ Phase(s)' = to
    BY <1>1, <1>3 DEF Phase
  <2>2. Contract!Proceed(s, from, to)
    BY <1>1, <2>1 DEF Contract!Proceed
  <2>3. Contract!Invite(s) \/ Contract!Answer(s) \/ Contract!Acknowledge(s)
    BY <1>3, <2>2 DEF Contract!Invite, Contract!Answer, Contract!Acknowledge
  <2>4. QED
    BY <2>3 DEF Contract!Next
<1>4. \/ from = "none" /\ to = "inviting"
      \/ from = "inviting" /\ to \in {"answered", "failed"}
      \/ from = "answered" /\ to = "acked"
      \/ from \in Live /\ to \in {"unacked", "ended"}
  BY DEF Moves
<1> HIDE DEF phase
<1>5. QED
  BY <1>2, <1>3, <1>4

\* No step moves a call but along those ways: an INVITE is for the session that the
\* thread has just added, and an ACK for the dialog that its handler has recorded.
LEMMA StepMoves ==
  ASSUME IInv, [Next]_vars
  PROVE  \/ call' = call
         \/ \E s \in Sessions : \E from, to : Moves(s, from, to)
<1> USE DEF IInv, TInv, TypeOK, sip
<1>1. CASE \E t \in Threads : PlaySteps(t) \/ WakeSpuriously(t)
  <2>1. PICK t \in Threads : PlaySteps(t) \/ WakeSpuriously(t)
    BY <1>1
  <2>2. CASE SendInvite(t)
    <3>1. obj[t] \in Sessions /\ call[obj[t]] = "none"
      BY <2>2 DEF SendInvite, LabelInv, SendInv
    <3>2. call' = call \/ Moves(obj[t], "none", "inviting")
      BY <2>2, <3>1 DEF SendInvite, Moves
    <3>3. QED
      BY <3>1, <3>2
  <2>3. CASE ~SendInvite(t)
    BY <2>1, <2>3 DEF PlaySteps, OpenRtp, AddStream, SetCallID, SetContext, Await,
       PlayTimeout, WakeSpuriously, PlayOk
  <2>4. QED
    BY <2>2, <2>3
<1>2. ASSUME NEW w \in Workers, Terminate(w)
      PROVE  call' = call \/ \E s \in Sessions : \E from, to : Moves(s, from, to)
  <2> DEFINE s == obj[w]
  <2>1. s \in Sessions /\ callId[s] \in {None, s} /\ dialogId[s] \in {None, s}
    BY <1>2 DEF Terminate, LabelInv, IdInv, Threads
  <2>2. HangUp(callId[s], dialogId[s]) \/ UNCHANGED call
    BY <1>2 DEF Terminate
  <2> HIDE DEF s
  <2>3. CASE call[s] \in Live /\ call' = HungUp(s)
    <3>1. Moves(s, call[s], "ended") \/ Moves(s, call[s], "unacked")
      BY <2>3 DEF Moves, HungUp
    <3>2. QED
      BY <2>1, <3>1
  <2>4. CASE call[s] = "inviting" /\ call' = [call EXCEPT ![s] = "failed"]
    <3>1. Moves(s, "inviting", "failed")
      BY <2>4 DEF Moves
    <3>2. QED
      BY <2>1, <3>1
  <2>5. QED
    BY <2>1, <2>2, <2>3, <2>4, NoneOutside DEF HangUp
<1>3. CASE \E w \in Workers : \/ Requests(w) \/ Hooks(w)
                              \/ StopNext(w) \/ ClearConnected(w)
  BY <1>3 DEF Requests, Hooks, PlayRequest, PlaybackRequest, Play, Stop, StopAll, StopNext,
     ClearConnected, StreamRegistered, StreamGone, NoReader, NotFound
<1>4. ASSUME NEW p \in Pollers, RecvEvent(p) \/ EventSteps(p)
      PROVE  call' = call \/ \E s \in Sessions : \E from, to : Moves(s, from, to)
  <2>1. CASE SendCallAck(p)
    <3> DEFINE d == dialogId[obj[p]]
    <3>1. d \in Sessions
      BY <2>1 DEF SendCallAck, LabelInv, ThreadInv, Threads
    <3>2. call' = IF call[d] = "answered" THEN [call EXCEPT ![d] = "acked"] ELSE call
      BY <2>1 DEF SendCallAck
    <3> HIDE DEF d
    <3>3. call' = call \/ Moves(d, "answered", "acked")
      BY <3>2 DEF Moves
    <3>4. QED
      BY <3>1, <3>3
  <2>2. CASE ~SendCallAck(p)
    BY <1>4, <2>2 DEF RecvEvent, EventSteps, AnswerIgnored, AnswerMatched, Connect,
       CloseIgnored, CloseMatched, Disconnect, OnDemandPlay, Play
  <2>3. QED
    BY <2>1, <2>2
<1>5. ASSUME NEW s \in Sessions, \/ DeviceAnswers(s) \/ DeviceRejects(s)
                                \/ DeviceHangsUp(s) \/ MediaStarts(s)
      PROVE  call' = call \/ \E from, to : Moves(s, from, to)
  <2>1. \/ Moves(s, "inviting", "answered")
        \/ Moves(s, "inviting", "failed")
        \/ Moves(s, call[s], "ended")
        \/ Moves(s, call[s], "unacked")
        \/ call' = call
    BY <1>5 DEF DeviceAnswers, DeviceRejects, DeviceHangsUp, HungUp, MediaStarts, Moves
  <2>2. QED
    BY <2>1
<1>6. CASE MediaServer \/ UNCHANGED vars
  BY <1>6 DEF MediaServer, MediaStops, RtpExpires, ViewersLeave, ViewerMissesStream, vars
<1>7. QED
  BY <1>1, <1>2, <1>3, <1>4, <1>5, <1>6 DEF Next, StopSteps, Device

\* Nor does any step touch the media of a session, or the stream it is of, but the
\* one that starts it.
LEMMA StepMedia ==
  ASSUME IInv, StartedInv, [Next]_vars,
         ~ \E s \in Sessions : MediaStarts(s)
  PROVE  LiveMedia' = LiveMedia /\ StartedInv'
<1> USE DEF heap, zlm
<1>1. /\ started' = started /\ started \subseteq Sessions
      /\ \A s \in Sessions : streamOf[s] # None => streamOf'[s] = streamOf[s]
  <2> USE DEF IInv, TInv, TypeOK
  <2>1. CASE \E t \in Threads : PlaySteps(t) \/ WakeSpuriously(t)
    BY <2>1 DEF PlaySteps, OpenRtp, AddStream, Unborn, SendInvite, SetCallID, SetContext,
       Await, PlayTimeout, WakeSpuriously, PlayOk
  <2>2. CASE \E w \in Workers : Requests(w) \/ StopSteps(w) \/ Hooks(w)
    BY <2>2 DEF Requests, StopSteps, Hooks, PlayRequest, PlaybackRequest, Play, Stop,
       StopAll, StopNext, Terminate, ClearConnected, StreamRegistered, StreamGone,
       NoReader, NotFound
  <2>3. CASE \E p \in Pollers : RecvEvent(p) \/ EventSteps(p)
    BY <2>3 DEF RecvEvent, EventSteps, AnswerIgnored, AnswerMatched, Connect,
       SendCallAck, CloseIgnored, CloseMatched, Disconnect, OnDemandPlay, Play
  <2>4. CASE Device
    BY <2>4 DEF Device, DeviceAnswers, DeviceRejects, DeviceHangsUp
  <2>5. CASE MediaServer \/ UNCHANGED vars
    BY <2>5 DEF MediaServer, MediaStops, RtpExpires, ViewersLeave, ViewerMissesStream,
       vars
  <2>6. QED
    BY <2>1, <2>2, <2>3, <2>4, <2>5 DEF Next
<1>2. \A s \in started : streamOf'[s] = streamOf[s]
  BY <1>1 DEF StartedInv
<1>3. QED
  BY <1>1, <1>2 DEF LiveMedia, StartedInv

\* Media that starts is that of a call which was sent, and acknowledged if live.
LEMMA MediaStartsKeeps ==
  ASSUME IInv, StartedInv, NEW s \in Sessions, MediaStarts(s)
  PROVE  /\ call' = call
         /\ LiveMedia' = LiveMedia \/ Contract!StartSending(s)
         /\ StartedInv'
<1>1. /\ call' = call /\ streamOf' = streamOf /\ started' = started \cup {s}
      /\ MayStart(s)
  BY DEF MediaStarts, sip, heap
<1>2. StartedInv'
  BY <1>1 DEF StartedInv, MayStart, IInv, SendInv
<1>3. CASE streamOf[s] \in LiveStreams
  <2>1. LiveMedia' = LiveMedia \cup {s}
    BY <1>1, <1>3 DEF LiveMedia
  <2>2. call[s] \in {"acked", "ended"}
    BY <1>1, <1>3 DEF MayStart
  <2>3. \A r \in Sessions : Phase(r)' = Phase(r)
    BY <1>1 DEF Phase
  <2>4. Contract!StartSending(s)
    BY <2>1, <2>2, <2>3 DEF Contract!StartSending, Phase
  <2>5. QED
    BY <1>1, <1>2, <2>4
<1>4. CASE streamOf[s] \notin LiveStreams
  BY <1>1, <1>2, <1>4 DEF LiveMedia
<1>5. QED
  BY <1>3, <1>4

\* Whatever threads do to a call, it goes the way of the contract: one INVITE, one
\* answer, one ACK while the call is up, and an end.
THEOREM ServerKeepsContract == Spec => ImplementsContract
<1>1. Init => Contract!Init /\ StartedInv
  BY DEF Init, Contract!Init, Phase, LiveMedia, StartedInv
<1>2. IInv /\ StartedInv /\ [Next]_vars
        => [Contract!Next]_Contract!callVars /\ StartedInv'
  <2> SUFFICES ASSUME IInv, StartedInv, [Next]_vars
               PROVE  [Contract!Next]_Contract!callVars /\ StartedInv'
    OBVIOUS
  <2>1. ASSUME NEW s \in Sessions, MediaStarts(s)
        PROVE  [Contract!Next]_Contract!callVars /\ StartedInv'
    <3>1. /\ call' = call /\ StartedInv'
          /\ LiveMedia' = LiveMedia \/ Contract!StartSending(s)
      BY <2>1, MediaStartsKeeps
    <3>2. CASE LiveMedia' = LiveMedia
      BY <3>1, <3>2 DEF Contract!callVars, Phase
    <3>3. CASE Contract!StartSending(s)
      BY <3>1, <3>3 DEF Contract!Next
    <3>4. QED
      BY <3>1, <3>2, <3>3
  <2>2. CASE ~ \E s \in Sessions : MediaStarts(s)
    <3>1. LiveMedia' = LiveMedia /\ StartedInv'
      BY <2>2, StepMedia
    <3>2. CASE call' = call
      BY <3>1, <3>2 DEF Contract!callVars, Phase
    <3>3. ASSUME NEW s \in Sessions, NEW from, NEW to, Moves(s, from, to)
          PROVE  Contract!Next
      BY <3>1, <3>3, MovesNext DEF IInv, TInv
    <3>4. QED
      BY <3>1, <3>2, <3>3, StepMoves
  <2>3. QED
    BY <2>1, <2>2
<1>3. QED
  BY <1>1, <1>2, AlwaysIInv, PTL DEF Spec, ImplementsContract, Contract!Spec
=============================================================================
