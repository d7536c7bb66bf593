----------------------------- MODULE DeviceQueries -----------------------------
(***************************************************************************)
(* Queries for the recordings and presets of a channel: HTTP threads of    *)
(* SipService send a MESSAGE, put the request into the RequestPool and     *)
(* wait on its condition variable; the device sends its answer in batches; *)
(* pollers find the request by its SN, insert the records and wake the     *)
(* thread. A request is represented by its SN, from an atomic counter.     *)
(*                                                                         *)
(* The network delays, reorders and loses messages. Threads interleave     *)
(* between any two accesses to the pool or to the fields of a request. The *)
(* vector of records has no lock: what becomes of it when two pollers      *)
(* insert at the same time is a choice. A thread may wake up from its wait *)
(* though nobody has notified it.                                          *)
(***************************************************************************)
EXTENDS Naturals, FiniteSets

CONSTANTS
  MaxQueries, \* bound: how many queries are asked
  Workers,    \* HTTP threads
  Pollers,    \* event pollers
  MaxFiles,   \* bound: records that a device has for a query
  BatchSize,  \* records in a MESSAGE of the device
  MaxLost,    \* bound: queries when the network stops losing batches
  MaxFailed,  \* bound: MESSAGEs that fail
  None

ASSUME QueryAssumption ==
  /\ None \notin Nat /\ None \notin {"record", "preset"}
  /\ MaxQueries \in Nat
  /\ MaxFiles \in Nat \ {0}
  /\ BatchSize \in Nat \ {0}
  /\ MaxLost \in Nat /\ MaxFailed \in Nat

Queries == 0 .. MaxQueries - 1

VARIABLES
  sn,        \* MessageRequest::_sn
  kind,      \* of a query that has been asked: "record" or "preset"
  size,      \* how many records the device has for it: SumNum
  requests,  \* MESSAGEs on their way to the device
  messages,  \* batches on their way to SipService
  failures,  \* failed MESSAGEs whose event has not been handled
  failed,    \* queries whose MESSAGE has failed: 4xx or no answer
  lost,      \* queries a batch of which got lost or was refused
  pool,      \* RequestPool::_requests
  records,   \* _record_items or _preset_list
  waiting,   \* _b_wait
  finished,  \* _b_finished
  torn,      \* queries whose vector has lost records to a data race
  answered,  \* queries that have been answered
  answer,    \* the records the HTTP client got
  wpc, asked,            \* per HTTP thread: next step, query
  pc, req, items, seen   \* per poller: next step, query, records of the batch,
                         \* the vector as it was when the insertion began

network == <<requests, messages, failures, failed, lost>>
request == <<sn, kind, size, pool, records, waiting, finished, torn>>
worker  == <<wpc, asked, answered, answer>>
poller  == <<pc, req, items, seen>>
vars    == <<network, request, worker, poller>>

Record == Queries \X (1 .. MaxFiles)

TypeOK ==
  /\ sn \in 0 .. MaxQueries
  /\ kind \in [Queries -> {"record", "preset", None}]
  /\ size \in [Queries -> 0 .. MaxFiles \cup {None}]
  /\ requests \subseteq Queries /\ failures \subseteq Queries
  /\ messages \subseteq [query : Queries, records : SUBSET Record]
  /\ failed \subseteq Queries /\ lost \subseteq Queries
  /\ pool \subseteq Queries /\ torn \subseteq Queries
  /\ records \in [Queries -> SUBSET Record]
  /\ waiting \in [Queries -> BOOLEAN] /\ finished \in [Queries -> BOOLEAN]
  /\ answered \subseteq Queries
  /\ answer \in [Queries -> SUBSET Record]
  /\ wpc \in [Workers -> {"idle", "add", "setwait", "result", "lock", "wait",
                         "return"}]
  /\ asked \in [Workers -> Queries \cup {None}]
  /\ pc \in [Pollers -> {"idle", "insert", "store", "count", "check", "finish",
                         "notify", "clear"}]
  /\ req \in [Pollers -> Queries \cup {None}]
  /\ items \in [Pollers -> SUBSET Record]
  /\ seen \in [Pollers -> SUBSET Record]

Init ==
  /\ sn = 0
  /\ kind = [q \in Queries |-> None]
  /\ size = [q \in Queries |-> None]
  /\ requests = {} /\ messages = {} /\ failures = {}
  /\ failed = {} /\ lost = {} /\ pool = {} /\ torn = {}
  /\ records = [q \in Queries |-> {}]
  /\ waiting = [q \in Queries |-> FALSE]
  /\ finished = [q \in Queries |-> FALSE]
  /\ answered = {}
  /\ answer = [q \in Queries |-> {}]
  /\ wpc = [w \in Workers |-> "idle"]
  /\ asked = [w \in Workers |-> None]
  /\ pc = [p \in Pollers |-> "idle"]
  /\ req = [p \in Pollers |-> None]
  /\ items = [p \in Pollers |-> {}]
  /\ seen = [p \in Pollers |-> {}]

-----------------------------------------------------------------------------
(* Helpers *)

Records(q) == {q} \X (1 .. size[q])

\* The worker w goes from one step of its query to another.
WorkerStep(w, from, to) ==
  /\ wpc[w] = from
  /\ wpc' = [wpc EXCEPT ![w] = to]

PollerStep(p, from, to) ==
  /\ pc[p] = from
  /\ pc' = [pc EXCEPT ![p] = to]

-----------------------------------------------------------------------------
(* HTTP threads: /record/query and /preset/query *)

\* The MESSAGE is sent before anybody can find its request.
SendMessage(w) ==
  /\ WorkerStep(w, "idle", "add")
  /\ sn < MaxQueries
  /\ sn' = sn + 1
  /\ \/ /\ kind' = [kind EXCEPT ![sn] = "record"]
        /\ \E n \in 0 .. MaxFiles : size' = [size EXCEPT ![sn] = n]
     \/ /\ kind' = [kind EXCEPT ![sn] = "preset"]
        /\ size' = [size EXCEPT ![sn] = 1]
  /\ asked' = [asked EXCEPT ![w] = sn]
  /\ requests' = requests \cup {sn}
  /\ UNCHANGED <<messages, failures, failed, lost, pool, records, waiting,
                 finished, torn, answered, answer, poller>>

AddRequest(w) ==
  /\ WorkerStep(w, "add", "setwait")
  /\ pool' = pool \cup {asked[w]}
  /\ UNCHANGED <<network, sn, kind, size, records, waiting, finished, torn,
                 asked, answered, answer, poller>>

SetWait(w) ==
  /\ WorkerStep(w, "setwait", "result")
  /\ waiting' = [waiting EXCEPT ![asked[w]] = TRUE]
  /\ UNCHANGED <<network, sn, kind, size, pool, records, finished, torn, asked,
                 answered, answer, poller>>

WaitResult(w) ==
  /\ \/ WorkerStep(w, "result", "lock") /\ waiting[asked[w]]
     \/ WorkerStep(w, "result", "return") /\ ~waiting[asked[w]]
  /\ UNCHANGED <<network, request, asked, answered, answer, poller>>

\* _cv.wait, with no predicate and no time limit.
Wait(w) ==
  /\ WorkerStep(w, "lock", "wait")
  /\ UNCHANGED <<network, request, asked, answered, answer, poller>>

\* Such a wait may end for no reason, and the thread does not ask for one.
WakeSpuriously(w) ==
  /\ WorkerStep(w, "wait", "return")
  /\ UNCHANGED <<network, request, asked, answered, answer, poller>>

\* A record query returns what there is, a preset query that is not finished
\* "query timeout".
Reply(q) == IF kind[q] = "record" \/ finished[q] THEN records[q] ELSE {}

Return(w) ==
  /\ WorkerStep(w, "return", "idle")
  /\ answer' = [answer EXCEPT ![asked[w]] = Reply(asked[w])]
  /\ answered' = answered \cup {asked[w]}
  /\ asked' = [asked EXCEPT ![w] = None]
  /\ UNCHANGED <<network, request, poller>>

-----------------------------------------------------------------------------
(* The device and the network *)

\* Plausible bug: the last batch is as long as the others.
PartFull(n, i) == (i - 1) * BatchSize + 1 .. i * BatchSize

\* Batch number i of n records: BatchSize of them, or in the last one the rest.
Part(n, i) ==
  {k \in 1 .. n : (i - 1) * BatchSize < k /\ k <= i * BatchSize}

\* SendRecordInfo sends ceil(n / BatchSize) batches, or a single empty one; the
\* one preset of a device comes in one MESSAGE.
Parts(q) ==
  IF kind[q] = "record" /\ size[q] > 0
    THEN {Part(size[q], i) : i \in 1 .. (size[q] + BatchSize - 1) \div BatchSize}
    ELSE {1 .. size[q]}

\* The device has handled the MESSAGE, though its 200 may not arrive.
DeviceAnswers(q) ==
  /\ q \in requests
  /\ requests' = requests \ {q}
  /\ messages' = messages \cup
       {[query |-> q, records |-> {q} \X part] : part \in Parts(q)}
  /\ UNCHANGED <<failures, failed, lost, request, worker, poller>>

\* A batch gets lost.
LoseBatch(m) ==
  /\ Cardinality(lost) < MaxLost
  /\ messages' = messages \ {m}
  /\ lost' = lost \cup {m.query}
  /\ UNCHANGED <<requests, failures, failed, request, worker, poller>>

\* The MESSAGE is refused with a 4xx, or eXosip gives up waiting for an answer.
MessageFails(q) ==
  /\ kind[q] # None /\ q \notin failed
  /\ Cardinality(failed) < MaxFailed
  /\ failures' = failures \cup {q}
  /\ failed' = failed \cup {q}
  /\ UNCHANGED <<requests, messages, lost, request, worker, poller>>

-----------------------------------------------------------------------------
(* Pollers: PresetQueryHandler, RecordQueryHandler, HandleResponseFailure *)

\* Plausible bug: any request of the type will do.
MatchingType(q) == {r \in pool : kind[r] = kind[q]}

\* GetMessageRequestBySN: the request with the SN and the type of the answer.
Matching(q) == {q} \cap pool

FindRequest(p, m) ==
  /\ PollerStep(p, "idle", "insert")
  /\ \E q \in Matching(m.query) : req' = [req EXCEPT ![p] = q]
  /\ items' = [items EXCEPT ![p] = m.records]
  /\ messages' = messages \ {m}
  /\ UNCHANGED <<requests, failures, failed, lost, request, worker, seen>>

\* No request has the SN: a 500 to the device.
FindNoRequest(p, m) ==
  /\ pc[p] = "idle"
  /\ Matching(m.query) = {}
  /\ messages' = messages \ {m}
  /\ lost' = lost \cup {m.query}
  /\ UNCHANGED <<requests, failures, failed, request, worker, poller>>

\* InsertRecord, InsertPreset: the vector is read, and written after that.
BeginInsert(p) ==
  /\ PollerStep(p, "insert", "store")
  /\ seen' = [seen EXCEPT ![p] = records[req[p]]]
  /\ UNCHANGED <<network, request, worker, req, items>>

\* What another poller has inserted meanwhile may get lost.
EndInsert(p) ==
  /\ PollerStep(p, "store", "count")
  /\ \E kept \in SUBSET (records[req[p]] \ seen[p]) :
       /\ records' = [records EXCEPT ![req[p]] = seen[p] \cup kept \cup items[p]]
       /\ torn' = IF seen[p] \cup kept = records[req[p]] THEN torn
                                                         ELSE torn \cup {req[p]}
  /\ seen' = [seen EXCEPT ![p] = {}]
  /\ items' = [items EXCEPT ![p] = {}]
  /\ UNCHANGED <<network, sn, kind, size, pool, waiting, finished, worker, req>>

\* Plausible bug: an empty answer does not count.
CompleteNonempty(q) ==
  kind[q] = "record" => records[q] # {} /\ Cardinality(records[q]) = size[q]

\* Plausible bug: the first records are taken for the whole answer.
CompleteAtOnce(q) == kind[q] = "record" => records[q] # {} \/ size[q] = 0

\* Is the answer complete? That to a preset query always is.
Complete(q) == kind[q] = "record" => Cardinality(records[q]) = size[q]

Incomplete(p) ==
  /\ PollerStep(p, "count", "idle")
  /\ ~Complete(req[p])
  /\ req' = [req EXCEPT ![p] = None]
  /\ UNCHANGED <<network, request, worker, items, seen>>

\* Plausible bug: the flag is set, but nobody is woken.
FlagOnly(p) ==
  /\ PollerStep(p, "count", "idle")
  /\ Complete(req[p])
  /\ finished' = [finished EXCEPT ![req[p]] = TRUE]
  /\ req' = [req EXCEPT ![p] = None]
  /\ UNCHANGED <<network, sn, kind, size, pool, records, waiting, torn, worker,
                 items, seen>>

OnRequestFinished(p) ==
  /\ PollerStep(p, "count", "check")
  /\ Complete(req[p])
  /\ finished' = [finished EXCEPT ![req[p]] = TRUE]
  /\ UNCHANGED <<network, sn, kind, size, pool, records, waiting, torn, worker,
                 req, items, seen>>

\* OnRequestFinished and Finish both look whether somebody waits.
NobodyWaits(p) ==
  /\ PollerStep(p, "check", "idle") \/ PollerStep(p, "finish", "idle")
  /\ ~waiting[req[p]]
  /\ req' = [req EXCEPT ![p] = None]
  /\ UNCHANGED <<network, request, worker, items, seen>>

SomebodyWaits(p) ==
  /\ PollerStep(p, "check", "finish") \/ PollerStep(p, "finish", "notify")
  /\ waiting[req[p]]
  /\ UNCHANGED <<network, request, worker, req, items, seen>>

\* notify_one wakes the thread if it waits already.
Notify(p) ==
  /\ PollerStep(p, "notify", "clear")
  /\ wpc' = [w \in Workers |->
       IF wpc[w] = "wait" /\ asked[w] = req[p] THEN "return" ELSE wpc[w]]
  /\ UNCHANGED <<network, request, asked, answered, answer, req, items, seen>>

ClearWait(p) ==
  /\ PollerStep(p, "clear", "idle")
  /\ waiting' = [waiting EXCEPT ![req[p]] = FALSE]
  /\ req' = [req EXCEPT ![p] = None]
  /\ UNCHANGED <<network, sn, kind, size, pool, records, finished, torn, worker,
                 items, seen>>

\* RequestPool::HandleResponse finishes a request whose MESSAGE has failed.
HandleFailure(p, q) ==
  /\ q \in failures
  /\ failures' = failures \ {q}
  /\ \/ /\ q \in pool
        /\ PollerStep(p, "idle", "finish")
        /\ req' = [req EXCEPT ![p] = q]
     \/ /\ q \notin pool /\ pc[p] = "idle"
        /\ UNCHANGED <<pc, req>>
  /\ UNCHANGED <<requests, messages, failed, lost, request, worker, items,
                 seen>>

-----------------------------------------------------------------------------
Ask(w) ==
  \/ SendMessage(w) \/ AddRequest(w) \/ SetWait(w) \/ WaitResult(w) \/ Wait(w)
  \/ WakeSpuriously(w) \/ Return(w)

Receive(p) ==
  \/ \E m \in messages : FindRequest(p, m) \/ FindNoRequest(p, m)
  \/ \E q \in Queries : HandleFailure(p, q)

Handle(p) ==
  \/ BeginInsert(p) \/ EndInsert(p) \/ Incomplete(p) \/ OnRequestFinished(p)
  \/ NobodyWaits(p) \/ SomebodyWaits(p) \/ Notify(p) \/ ClearWait(p)

Network ==
  \/ \E q \in Queries : DeviceAnswers(q) \/ MessageFails(q)
  \/ \E m \in messages : LoseBatch(m)

Next ==
  \/ \E w \in Workers : Ask(w)
  \/ \E p \in Pollers : Receive(p) \/ Handle(p)
  \/ Network

Spec == Init /\ [][Next]_vars

\* A thread goes on with the query it has begun, the device answers, and each
\* poller handles what it is given. Nobody need ask, nothing need get lost, and
\* nobody need wake up who has not been notified.
Fairness ==
  /\ \A w \in Workers : WF_vars(wpc[w] \notin {"idle", "wait"} /\ Ask(w))
  /\ \A p \in Pollers : WF_vars(Receive(p) \/ Handle(p))
  /\ WF_vars(\E q \in Queries : DeviceAnswers(q))

FairSpec == Spec /\ Fairness

-----------------------------------------------------------------------------
(* Properties *)

\* A request is finished with all its records in it and no others, and stays so,
\* though batches come in any order, on several pollers, together with those of
\* other queries.
FinishedIsWhole ==
  \A q \in Queries : finished[q] => records[q] = Records(q)

\* The queries implement the service: seen from outside, each is asked, completed and
\* answered in one step, once, with what there is of its own records and of no other's,
\* and with all once they have come, whatever wakes its thread.
Service ==
  INSTANCE QueryService WITH
    size <- size, complete <- finished, answered <- answered, answer <- answer
ImplementsService == Service!Spec

\* Some batch of the query is still to come.
Coming(q) == \E m \in messages : m.query = q

\* A poller has found the request and has not counted its records yet.
Counting(q) == \E p \in Pollers : req[p] = q /\ pc[p] \in {"insert", "store", "count"}

\* No answer is left behind: as long as a query is not finished, the device has yet
\* to answer, a batch is still to come, or a poller is about to count the records,
\* unless some got lost. The last batch finishes its query, in whatever order and
\* on however many pollers they come.
UnfinishedIsUnderway ==
  \A q \in Queries :
    kind[q] # None /\ ~finished[q] /\ q \notin lost \cup torn
      => q \in requests \/ Coming(q) \/ Counting(q)

\* The query is not finished yet, or a poller has still to look whether somebody waits
\* for it; that poller finds _b_wait set, and nobody is about to clear it.
WakesUp(q) ==
  /\ waiting[q]
  /\ \/ ~finished[q]
     \/ \E p \in Pollers : req[p] = q /\ pc[p] \in {"check", "finish", "notify"}
  /\ \A p \in Pollers : ~(req[p] = q /\ pc[p] = "clear")

\* No wake-up is lost on a thread that waits already when its query is finished: from
\* then on until it returns some poller is on the way to wake it, whatever other
\* pollers do with the flags of the request, unless its MESSAGE fails.
NoWakeupLost ==
  [][\A w \in Workers : \A q \in Queries :
       wpc[w] = "wait" /\ asked[w] = q /\ q \notin failed' /\ (~finished[q] \/ WakesUp(q))
         => wpc'[w] = "return" \/ WakesUp(q)']_vars

\* A thread that is waiting before the last batch comes returns, unless batches
\* get lost on the way, in the vector, or the MESSAGE itself fails.
WaitersReturn ==
  \A w \in Workers :
    (wpc[w] = "wait" /\ Coming(asked[w]))
      ~> (wpc[w] # "wait" \/ asked[w] \in lost \cup torn \cup failed)

\* HttpServer.cpp:471 has the thread wait for a time and then return what has been
\* received (等待时间完成之后，无论数据接收是否完成，都返回现有数据): no wait lasts for ever.
WaitsEnd ==
  \A w \in Workers : (wpc[w] = "wait") ~> (wpc[w] # "wait")
=============================================================================
