------------------------- MODULE DeviceQueries_proofs -------------------------
(***************************************************************************)
(* DeviceQueries implements QueryService, for any number of queries,       *)
(* records, batches, HTTP threads and pollers.                             *)
(***************************************************************************)
EXTENDS DeviceQueries, FiniteSetTheorems, TLAPS

\* SNs below the counter are in use, and only those.
NumberInv ==
  /\ \A q \in Queries : IF q < sn
       THEN kind[q] # None /\ size[q] # None /\ (kind[q] = "preset" => size[q] = 1)
       ELSE size[q] = None /\ kind[q] = None /\ records[q] = {}
  /\ \A q \in requests \cup failures \cup failed \cup pool \cup answered : q < sn
  /\ failures \subseteq failed
  /\ \A m \in messages : m.query < sn
  /\ \A q \in Queries : finished[q] => q < sn

\* A thread that has asked has a query of its own, which is not answered yet.
AskInv ==
  /\ \A w \in Workers : wpc[w] = "idle" <=> asked[w] = None
  /\ \A w \in Workers : asked[w] # None => asked[w] < sn /\ asked[w] \notin answered
  /\ \A v, w \in Workers : asked[v] # None /\ asked[v] = asked[w] => v = w

\* A poller with something to do has a request.
HandInv ==
  \A p \in Pollers :
    /\ pc[p] = "idle" <=> req[p] = None
    /\ req[p] # None => req[p] < sn

Holds(p) == pc[p] \in {"insert", "store"}

\* Records and batches are of the query they are with, and batches are not empty
\* unless the answer is; that of a preset query has all.
Proper(q, part) ==
  /\ part \subseteq Records(q)
  /\ part = {} => size[q] = 0
  /\ kind[q] = "preset" => part = Records(q)

PartInv ==
  /\ \A q \in Queries : q < sn => records[q] \subseteq Records(q)
  /\ \A m \in messages : Proper(m.query, m.records)
  /\ \A p \in Pollers : Holds(p) => Proper(req[p], items[p])
  /\ \A p \in Pollers : pc[p] = "store" => seen[p] \subseteq Records(req[p])

\* What is still to be inserted is in no vector yet, and in one place only.
FreshInv ==
  /\ \A m \in messages : m.query \notin requests /\ m.records \cap records[m.query] = {}
  /\ \A m, n \in messages : m # n /\ m.query = n.query => m.records \cap n.records = {}
  /\ \A q \in requests : records[q] = {}
  /\ \A p \in Pollers : Holds(p) =>
       /\ req[p] \notin requests
       /\ items[p] \cap records[req[p]] = {}
       /\ \A m \in messages : m.query = req[p] => m.records \cap items[p] = {}
       /\ \A r \in Pollers : Holds(r) /\ r # p /\ req[r] = req[p] =>
            items[r] \cap items[p] = {}
  /\ \A p \in Pollers : pc[p] = "store" =>
       /\ items[p] \cap seen[p] = {}
       /\ \A m \in messages : m.query = req[p] => m.records \cap seen[p] = {}
       /\ \A r \in Pollers : Holds(r) /\ req[r] = req[p] => items[r] \cap seen[p] = {}

\* Who is about to wake a thread, or is woken, has a finished or failed request.
Over(q) == finished[q] \/ q \in failed

WakeInv ==
  /\ FinishedIsWhole
  /\ \A p \in Pollers :
       /\ pc[p] = "count" /\ kind[req[p]] = "preset" => records[req[p]] = Records(req[p])
       /\ pc[p] \in {"check", "finish", "notify", "clear"} => Over(req[p])
  /\ \A w \in Workers :
       /\ wpc[w] \in {"result", "lock", "wait"} => waiting[asked[w]] \/ Over(asked[w])

IInv == TypeOK /\ NumberInv /\ AskInv /\ HandInv /\ PartInv /\ FreshInv /\ WakeInv

-----------------------------------------------------------------------------
(* Batches *)

LEMMA Monotone ==
  ASSUME NEW a \in Nat, NEW b \in Nat, a < b
  PROVE  a * BatchSize + BatchSize <= b * BatchSize
<1>1. PICK d \in Nat : b = a + 1 + d
  <2>1. b - a - 1 \in Nat /\ b = a + 1 + (b - a - 1)
    OBVIOUS
  <2>2. QED
    BY <2>1
<1>2. b * BatchSize = a * BatchSize + BatchSize + d * BatchSize
  BY <1>1, QueryAssumption
<1>3. a * BatchSize \in Nat /\ d * BatchSize \in Nat
  BY QueryAssumption
<1>4. QED
  BY <1>2, <1>3, QueryAssumption

\* No record is in two batches.
LEMMA PartsDisjoint ==
  ASSUME NEW n \in Nat, NEW i \in Nat \ {0}, NEW j \in Nat \ {0}, i # j
  PROVE  Part(n, i) \cap Part(n, j) = {}
<1>1. i - 1 \in Nat /\ j - 1 \in Nat
  OBVIOUS
<1>2. CASE i < j
  <2>1. i * BatchSize <= (j - 1) * BatchSize
    <3>1. (i - 1) * BatchSize + BatchSize <= (j - 1) * BatchSize
      BY <1>1, <1>2, Monotone
    <3>2. (i - 1) * BatchSize + BatchSize = i * BatchSize
      BY QueryAssumption
    <3>3. QED
      BY <3>1, <3>2
  <2>2. i * BatchSize \in Int /\ (j - 1) * BatchSize \in Int
    BY QueryAssumption
  <2>3. QED
    BY <2>1, <2>2 DEF Part
<1>3. CASE j < i
  <2>1. j * BatchSize <= (i - 1) * BatchSize
    <3>1. (j - 1) * BatchSize + BatchSize <= (i - 1) * BatchSize
      BY <1>1, <1>3, Monotone
    <3>2. (j - 1) * BatchSize + BatchSize = j * BatchSize
      BY QueryAssumption
    <3>3. QED
      BY <3>1, <3>2
  <2>2. j * BatchSize \in Int /\ (i - 1) * BatchSize \in Int
    BY QueryAssumption
  <2>3. QED
    BY <2>1, <2>2 DEF Part
<1>4. QED
  BY <1>2, <1>3

Batches(n) == (n + BatchSize - 1) \div BatchSize

LEMMA Ceiling ==
  ASSUME NEW n \in Nat \ {0}
  PROVE  /\ Batches(n) \in Nat \ {0}
         /\ (Batches(n) - 1) * BatchSize < n
         /\ n <= Batches(n) * BatchSize
<1> DEFINE t == Batches(n)
           r == (n + BatchSize - 1) % BatchSize
<1>1. n + BatchSize - 1 = t * BatchSize + r /\ r \in 0 .. BatchSize - 1 /\ t \in Int
  BY QueryAssumption DEF Batches
<1>2. (t - 1) * BatchSize = t * BatchSize - BatchSize
  BY <1>1, QueryAssumption
<1>3. t * BatchSize \in Int
  BY <1>1, QueryAssumption
<1>4. QED
  BY <1>1, <1>2, <1>3, QueryAssumption

LEMMA PartsNonempty ==
  ASSUME NEW n \in Nat \ {0}, NEW i \in 1 .. Batches(n)
  PROVE  Part(n, i) # {}
<1> DEFINE k == (i - 1) * BatchSize + 1
<1>1. i \in Nat \ {0} /\ i - 1 \in Nat /\ Batches(n) - 1 \in Nat /\ i - 1 <= Batches(n) - 1
  BY Ceiling
<1>2. (i - 1) * BatchSize \in Nat /\ (Batches(n) - 1) * BatchSize \in Nat
  BY <1>1, QueryAssumption
<1>3. (i - 1) * BatchSize <= (Batches(n) - 1) * BatchSize
  <2>1. CASE i - 1 = Batches(n) - 1
    BY <2>1, <1>2
  <2>2. CASE i - 1 < Batches(n) - 1
    BY <2>2, <1>1, <1>2, Monotone, QueryAssumption
  <2>3. QED
    BY <1>1, <2>1, <2>2
<1>4. k \in 1 .. n
  BY <1>2, <1>3, Ceiling
<1>5. i * BatchSize = (i - 1) * BatchSize + BatchSize
  BY <1>1, QueryAssumption
<1>6. (i - 1) * BatchSize < k /\ k <= i * BatchSize
  BY <1>2, <1>5, QueryAssumption
<1>7. k \in Part(n, i)
  BY <1>4, <1>6 DEF Part
<1>8. QED
  BY <1>7

\* The batches that the device sends hold each record of an answer, and each one
\* once, whatever the number of records and the size of a batch.
THEOREM BatchesPartition ==
  ASSUME NEW n \in Nat \ {0}
  PROVE  \A k \in 1 .. n : \E i \in 1 .. Batches(n) :
           /\ k \in Part(n, i)
           /\ \A j \in 1 .. Batches(n) : k \in Part(n, j) => j = i
<1> SUFFICES ASSUME NEW k \in 1 .. n
             PROVE  \E i \in 1 .. Batches(n) :
                      /\ k \in Part(n, i)
                      /\ \A j \in 1 .. Batches(n) : k \in Part(n, j) => j = i
  OBVIOUS
<1> DEFINE i == Batches(k)
<1>1. k \in Nat \ {0} /\ i \in Nat \ {0}
  BY Ceiling
<1>2. k \in Part(n, i)
  BY <1>1, Ceiling DEF Part
<1>3. i <= Batches(n)
  <2>1. Batches(n) \in Nat \ {0} /\ n <= Batches(n) * BatchSize
    BY Ceiling
  <2>2. SUFFICES ASSUME Batches(n) < i PROVE FALSE
    BY <1>1, <2>1
  <2>3. Batches(n) <= i - 1 /\ i - 1 \in Nat /\ Batches(n) \in Nat
    BY <1>1, <2>1, <2>2
  <2>4. Batches(n) * BatchSize <= (i - 1) * BatchSize
    <3>1. CASE Batches(n) = i - 1
      BY <3>1, <2>3, QueryAssumption
    <3>2. CASE Batches(n) < i - 1
      <4>1. Batches(n) * BatchSize \in Nat /\ (i - 1) * BatchSize \in Nat
        BY <2>3, QueryAssumption
      <4>2. Batches(n) * BatchSize + BatchSize <= (i - 1) * BatchSize
        BY <3>2, <2>3, Monotone
      <4>3. QED
        BY <4>1, <4>2, QueryAssumption
    <3>3. QED
      BY <2>3, <3>1, <3>2
  <2>5. Batches(n) * BatchSize \in Nat /\ (i - 1) * BatchSize \in Nat
    BY <2>3, QueryAssumption
  <2>6. (i - 1) * BatchSize < k
    BY <1>1, Ceiling
  <2>7. QED
    BY <2>1, <2>4, <2>5, <2>6
<1>4. i \in 1 .. Batches(n)
  BY <1>1, <1>3, Ceiling
<1>5. \A j \in 1 .. Batches(n) : k \in Part(n, j) => j = i
  <2>1. SUFFICES ASSUME NEW j \in 1 .. Batches(n), k \in Part(n, j), j # i PROVE FALSE
    OBVIOUS
  <2>2. j \in Nat \ {0} /\ n \in Nat
    BY Ceiling
  <2>3. Part(n, i) \cap Part(n, j) = {}
    BY <1>1, <2>1, <2>2, PartsDisjoint
  <2>4. QED
    BY <1>2, <2>1, <2>3
<1>6. QED
  BY <1>2, <1>4, <1>5

-----------------------------------------------------------------------------
(* Initial states and type correctness *)

LEMMA InitIInv == Init => IInv
<1> SUFFICES ASSUME Init PROVE IInv
  OBVIOUS
<1> USE QueryAssumption DEF Init, Queries
<1>1. TypeOK
  BY DEF TypeOK
<1>2. NumberInv
  BY DEF NumberInv
<1>3. AskInv /\ HandInv
  BY DEF AskInv, HandInv
<1>4. PartInv /\ FreshInv
  BY DEF PartInv, FreshInv, Holds
<1>5. WakeInv
  BY DEF WakeInv, FinishedIsWhole
<1>6. QED
  BY <1>1, <1>2, <1>3, <1>4, <1>5 DEF IInv

LEMMA CurrentRequest ==
  ASSUME IInv
  PROVE  /\ \A w \in Workers : wpc[w] # "idle" => asked[w] \in Queries /\ asked[w] < sn
         /\ \A p \in Pollers : pc[p] # "idle" => req[p] \in Queries /\ req[p] < sn
         /\ \A q \in Queries : q < sn => kind[q] # None /\ size[q] \in 0 .. MaxFiles
  BY DEF IInv, TypeOK, AskInv, HandInv, NumberInv

LEMMA RecordsType ==
  ASSUME IInv, NEW q \in Queries, q < sn
  PROVE  Records(q) \subseteq Record
  BY CurrentRequest, QueryAssumption DEF Records, Record

LEMMA AskTypeOK ==
  ASSUME IInv, NEW w \in Workers, Ask(w)
  PROVE  TypeOK'
<1> USE QueryAssumption DEF network, request, worker, poller, WorkerStep, Queries
<1>1. CASE SendMessage(w)
  <2>1. sn \in Queries /\ sn' \in 0 .. MaxQueries
    BY <1>1 DEF SendMessage, IInv, TypeOK
  <2>2. size' \in [Queries -> 0 .. MaxFiles \cup {None}]
    BY <1>1, <2>1 DEF SendMessage, IInv, TypeOK
  <2>3. kind' \in [Queries -> {"record", "preset", None}]
    BY <1>1, <2>1 DEF SendMessage, IInv, TypeOK
  <2>4. asked' \in [Workers -> Queries \cup {None}] /\ requests' \subseteq Queries
    BY <1>1, <2>1 DEF SendMessage, IInv, TypeOK
  <2>5. QED
    BY <1>1, <2>1, <2>2, <2>3, <2>4 DEF SendMessage, IInv, TypeOK
<1>2. CASE AddRequest(w)
  BY <1>2, CurrentRequest DEF AddRequest, IInv, TypeOK
<1>3. CASE SetWait(w)
  BY <1>3, CurrentRequest DEF SetWait, IInv, TypeOK
<1>4. CASE WaitResult(w) \/ Wait(w) \/ WakeSpuriously(w)
  BY <1>4 DEF WaitResult, Wait, WakeSpuriously, IInv, TypeOK
<1>5. CASE Return(w)
  <2>1. asked[w] \in Queries
    BY <1>5, CurrentRequest DEF Return
  <2>2. Reply(asked[w]) \in SUBSET Record
    BY <2>1 DEF Reply, IInv, TypeOK
  <2>3. QED
    BY <1>5, <2>1, <2>2 DEF Return, IInv, TypeOK
<1>6. QED
  BY <1>1, <1>2, <1>3, <1>4, <1>5 DEF Ask

LEMMA NetworkTypeOK ==
  ASSUME IInv, Network
  PROVE  TypeOK'
<1> USE DEF network, request, worker, poller
<1>1. ASSUME NEW q \in Queries, DeviceAnswers(q) PROVE TypeOK'
  <2>1. q < sn
    BY <1>1 DEF DeviceAnswers, IInv, NumberInv
  <2>2. \A part \in Parts(q) : part \subseteq 1 .. MaxFiles
    BY <2>1, CurrentRequest, QueryAssumption DEF Parts, Part
  <2>3. \A part \in Parts(q) : {q} \X part \in SUBSET Record
    BY <2>2 DEF Record
  <2>4. messages' \subseteq [query : Queries, records : SUBSET Record]
    BY <1>1, <2>3 DEF DeviceAnswers, IInv, TypeOK
  <2>5. QED
    BY <1>1, <2>4 DEF DeviceAnswers, IInv, TypeOK
<1>2. ASSUME NEW q \in Queries, MessageFails(q) PROVE TypeOK'
  BY <1>2 DEF MessageFails, IInv, TypeOK
<1>3. ASSUME NEW m \in messages, LoseBatch(m) PROVE TypeOK'
  BY <1>3 DEF LoseBatch, IInv, TypeOK
<1>4. QED
  BY <1>1, <1>2, <1>3 DEF Network

LEMMA ReceiveTypeOK ==
  ASSUME IInv, NEW p \in Pollers, Receive(p)
  PROVE  TypeOK'
<1> USE DEF network, request, worker, poller, PollerStep
<1>1. ASSUME NEW m \in messages, FindRequest(p, m) PROVE TypeOK'
  <2>1. m.query \in Queries /\ m.records \in SUBSET Record
    BY DEF IInv, TypeOK
  <2>2. req' = [req EXCEPT ![p] = m.query]
    BY <1>1, <2>1 DEF FindRequest, Matching
  <2>3. QED
    BY <1>1, <2>1, <2>2 DEF FindRequest, IInv, TypeOK
<1>2. ASSUME NEW m \in messages, FindNoRequest(p, m) PROVE TypeOK'
  BY <1>2 DEF FindNoRequest, IInv, TypeOK
<1>3. ASSUME NEW q \in Queries, HandleFailure(p, q) PROVE TypeOK'
  BY <1>3 DEF HandleFailure, IInv, TypeOK
<1>4. QED
  BY <1>1, <1>2, <1>3 DEF Receive

LEMMA HandleTypeOK ==
  ASSUME IInv, NEW p \in Pollers, Handle(p)
  PROVE  TypeOK'
<1> USE DEF network, request, worker, poller, PollerStep
<1>1. req[p] \in Queries
  BY CurrentRequest DEF Handle, BeginInsert, EndInsert, Incomplete, OnRequestFinished,
     NobodyWaits, SomebodyWaits, Notify, ClearWait
<1>2. CASE BeginInsert(p)
  BY <1>1, <1>2 DEF BeginInsert, IInv, TypeOK
<1>3. CASE EndInsert(p)
  <2>1. PICK kept \in SUBSET (records[req[p]] \ seen[p]) :
          records' = [records EXCEPT ![req[p]] = seen[p] \cup kept \cup items[p]]
    BY <1>3 DEF EndInsert
  <2>2. seen[p] \cup kept \cup items[p] \in SUBSET Record
    BY <1>1, <2>1 DEF IInv, TypeOK
  <2>3. records' \in [Queries -> SUBSET Record]
    BY <1>1, <2>1, <2>2 DEF IInv, TypeOK
  <2>4. torn' \subseteq Queries
    BY <1>1, <1>3 DEF EndInsert, IInv, TypeOK
  <2>5. QED
    BY <1>3, <2>3, <2>4 DEF EndInsert, IInv, TypeOK
<1>4. CASE Incomplete(p)
  BY <1>4 DEF Incomplete, IInv, TypeOK
<1>5. CASE OnRequestFinished(p)
  BY <1>1, <1>5 DEF OnRequestFinished, IInv, TypeOK
<1>6. CASE NobodyWaits(p)
  BY <1>6 DEF NobodyWaits, IInv, TypeOK
<1>7. CASE SomebodyWaits(p)
  BY <1>7 DEF SomebodyWaits, IInv, TypeOK
<1>8. CASE Notify(p)
  BY <1>8 DEF Notify, IInv, TypeOK
<1>9. CASE ClearWait(p)
  BY <1>1, <1>9 DEF ClearWait, IInv, TypeOK
<1>10. QED
  BY <1>2, <1>3, <1>4, <1>5, <1>6, <1>7, <1>8, <1>9 DEF Handle

LEMMA NextTypeOK ==
  ASSUME IInv, [Next]_vars
  PROVE  TypeOK'
<1>1. CASE UNCHANGED vars
  BY <1>1 DEF vars, network, request, worker, poller, IInv, TypeOK
<1>2. CASE Next
  BY <1>2, AskTypeOK, NetworkTypeOK, ReceiveTypeOK, HandleTypeOK DEF Next
<1>3. QED
  BY <1>1, <1>2

-----------------------------------------------------------------------------
(* Numbers and control *)

LEMMA NextNumberInv ==
  ASSUME IInv, [Next]_vars
  PROVE  NumberInv'
<1> USE QueryAssumption DEF network, request, worker, poller
<1>1. ASSUME NEW w \in Workers, SendMessage(w) PROVE NumberInv'
  <2>1. sn \in Nat /\ sn' = sn + 1 /\ sn \in Queries
    BY <1>1 DEF SendMessage, IInv, TypeOK, Queries
  <2>2. /\ kind'[sn] \in {"record", "preset"} /\ size'[sn] # None
        /\ kind'[sn] = "preset" => size'[sn] = 1
        /\ \A q \in Queries \ {sn} : kind'[q] = kind[q] /\ size'[q] = size[q]
    <3>1. CASE /\ kind' = [kind EXCEPT ![sn] = "record"]
               /\ \E n \in 0 .. MaxFiles : size' = [size EXCEPT ![sn] = n]
      BY <2>1, <3>1 DEF IInv, TypeOK
    <3>2. CASE kind' = [kind EXCEPT ![sn] = "preset"] /\ size' = [size EXCEPT ![sn] = 1]
      BY <2>1, <3>2 DEF IInv, TypeOK
    <3>3. QED
      BY <1>1, <3>1, <3>2 DEF SendMessage
  <2>3. \A q \in Queries : q < sn' <=> q < sn \/ q = sn
    BY <2>1 DEF Queries
  <2>4. kind'[sn] # None
    BY <2>2
  <2>5. \A q \in Queries : IF q < sn'
          THEN kind'[q] # None /\ size'[q] # None /\ (kind'[q] = "preset" => size'[q] = 1)
          ELSE size'[q] = None /\ kind'[q] = None /\ records'[q] = {}
    BY <1>1, <2>2, <2>3, <2>4 DEF SendMessage, IInv, NumberInv
  <2>6. \A q \in requests' \cup failures' \cup failed' \cup pool' \cup answered' : q < sn'
    <3>1. requests \cup failures \cup failed \cup pool \cup answered \subseteq Queries
      BY DEF IInv, TypeOK
    <3>2. /\ requests' = requests \cup {sn}
          /\ UNCHANGED <<failures, failed, pool, answered>>
      BY <1>1 DEF SendMessage
    <3>3. QED
      BY <2>1, <2>3, <3>1, <3>2 DEF IInv, NumberInv
  <2>7. failures' \subseteq failed' /\ \A m \in messages' : m.query < sn'
    <3>1. \A m \in messages : m.query \in Queries
      BY DEF IInv, TypeOK
    <3>2. QED
      BY <1>1, <2>3, <3>1 DEF SendMessage, IInv, NumberInv
  <2>8. \A q \in Queries : finished'[q] => q < sn'
    BY <1>1, <2>3 DEF SendMessage, IInv, NumberInv
  <2>9. QED
    BY <2>5, <2>6, <2>7, <2>8 DEF NumberInv
<1>2. ASSUME NEW w \in Workers,
             \/ AddRequest(w) \/ SetWait(w) \/ WaitResult(w) \/ Wait(w)
             \/ WakeSpuriously(w) \/ Return(w)
      PROVE  NumberInv'
  <2>1. asked[w] < sn
    BY <1>2, CurrentRequest DEF AddRequest, SetWait, WaitResult, Wait, WakeSpuriously,
       Return, WorkerStep
  <2>2. CASE AddRequest(w)
    BY <2>1, <2>2 DEF AddRequest, IInv, NumberInv
  <2>3. CASE Return(w)
    BY <2>1, <2>3 DEF Return, IInv, NumberInv
  <2>4. CASE SetWait(w) \/ WaitResult(w) \/ Wait(w) \/ WakeSpuriously(w)
    BY <2>4 DEF SetWait, WaitResult, Wait, WakeSpuriously, IInv, NumberInv
  <2>5. QED
    BY <1>2, <2>2, <2>3, <2>4
<1>3. ASSUME NEW q \in Queries, DeviceAnswers(q) PROVE NumberInv'
  BY <1>3 DEF DeviceAnswers, IInv, NumberInv
<1>4. ASSUME NEW q \in Queries, MessageFails(q) PROVE NumberInv'
  BY <1>4 DEF MessageFails, IInv, NumberInv
<1>5. ASSUME NEW m \in messages, LoseBatch(m) PROVE NumberInv'
  BY <1>5 DEF LoseBatch, IInv, NumberInv
<1>6. ASSUME NEW p \in Pollers, Receive(p) PROVE NumberInv'
  BY <1>6 DEF Receive, FindRequest, FindNoRequest, HandleFailure, IInv, NumberInv
<1>7. ASSUME NEW p \in Pollers, EndInsert(p) PROVE NumberInv'
  <2>1. req[p] \in Queries /\ req[p] < sn
    BY <1>7, CurrentRequest DEF EndInsert, PollerStep
  <2>2. \A q \in Queries \ {req[p]} : records'[q] = records[q]
    BY <1>7 DEF EndInsert, IInv, TypeOK
  <2>3. QED
    BY <1>7, <2>1, <2>2 DEF EndInsert, IInv, NumberInv
<1>8. ASSUME NEW p \in Pollers, OnRequestFinished(p) PROVE NumberInv'
  <2>1. req[p] \in Queries /\ req[p] < sn
    BY <1>8, CurrentRequest DEF OnRequestFinished, PollerStep
  <2>2. QED
    BY <1>8, <2>1 DEF OnRequestFinished, IInv, TypeOK, NumberInv
<1>9. ASSUME NEW p \in Pollers, \/ BeginInsert(p) \/ Incomplete(p) \/ NobodyWaits(p)
                                \/ SomebodyWaits(p) \/ Notify(p) \/ ClearWait(p)
      PROVE  NumberInv'
  BY <1>9 DEF BeginInsert, Incomplete, NobodyWaits, SomebodyWaits, Notify, ClearWait,
              IInv, NumberInv
<1>10. CASE UNCHANGED vars
  BY <1>10 DEF vars, IInv, NumberInv
<1>11. QED
  BY <1>1, <1>2, <1>3, <1>4, <1>5, <1>6, <1>7, <1>8, <1>9, <1>10
     DEF Next, Ask, Handle, Network

LEMMA NextAskInv ==
  ASSUME IInv, [Next]_vars
  PROVE  AskInv'
<1> USE QueryAssumption DEF network, request, worker, poller, WorkerStep
<1>1. ASSUME NEW w \in Workers, SendMessage(w) PROVE AskInv'
  <2>1. sn \in Nat /\ sn' = sn + 1 /\ sn # None /\ sn \notin answered
    BY <1>1 DEF SendMessage, IInv, TypeOK, NumberInv
  <2>2. /\ wpc'[w] = "add" /\ asked'[w] = sn /\ answered' = answered
        /\ \A v \in Workers \ {w} : wpc'[v] = wpc[v] /\ asked'[v] = asked[v]
    BY <1>1 DEF SendMessage, IInv, TypeOK
  <2>3. \A v \in Workers : asked[v] # None => asked[v] < sn /\ asked[v] \in Nat
    BY DEF IInv, TypeOK, AskInv, Queries
  <2>4. QED
    BY <2>1, <2>2, <2>3 DEF IInv, AskInv
<1>2. ASSUME NEW w \in Workers,
             AddRequest(w) \/ SetWait(w) \/ WaitResult(w) \/ Wait(w) \/ WakeSpuriously(w)
      PROVE  AskInv'
  <2>1. UNCHANGED <<sn, asked, answered>> /\ wpc[w] # "idle" /\ wpc'[w] # "idle"
        /\ \A v \in Workers \ {w} : wpc'[v] = wpc[v]
    BY <1>2 DEF AddRequest, SetWait, WaitResult, Wait, WakeSpuriously, IInv, TypeOK
  <2>2. QED
    BY <2>1 DEF IInv, AskInv
<1>3. ASSUME NEW w \in Workers, Return(w) PROVE AskInv'
  <2>1. /\ sn' = sn /\ wpc'[w] = "idle" /\ asked'[w] = None
        /\ answered' = answered \cup {asked[w]} /\ asked[w] # None
        /\ \A v \in Workers \ {w} : wpc'[v] = wpc[v] /\ asked'[v] = asked[v]
    BY <1>3, CurrentRequest DEF Return, IInv, TypeOK, AskInv
  <2>2. QED
    BY <2>1 DEF IInv, AskInv
<1>4. ASSUME NEW p \in Pollers, Notify(p) PROVE AskInv'
  <2>1. UNCHANGED <<sn, asked, answered>>
        /\ \A v \in Workers : wpc'[v] = "idle" <=> wpc[v] = "idle"
    BY <1>4 DEF Notify, IInv, TypeOK
  <2>2. QED
    BY <2>1 DEF IInv, AskInv
<1>5. CASE UNCHANGED <<sn, wpc, asked, answered>>
  BY <1>5 DEF IInv, AskInv
<1>6. QED
  BY <1>1, <1>2, <1>3, <1>4, <1>5
     DEF Next, Ask, Handle, Network, Receive, FindRequest, FindNoRequest, HandleFailure,
         DeviceAnswers, MessageFails, LoseBatch, BeginInsert, EndInsert, Incomplete,
         OnRequestFinished, NobodyWaits, SomebodyWaits, ClearWait, vars

\* A poller step, as far as its control is concerned.
LEMMA HandFrame ==
  ASSUME IInv, NEW p \in Pollers, sn' = sn,
         \A r \in Pollers \ {p} : pc'[r] = pc[r] /\ req'[r] = req[r],
         pc'[p] = "idle" <=> req'[p] = None,
         req'[p] # None => req'[p] < sn
  PROVE  HandInv'
  BY DEF IInv, HandInv

LEMMA NextHandInv ==
  ASSUME IInv, [Next]_vars
  PROVE  HandInv'
<1> USE QueryAssumption DEF network, request, worker, poller, PollerStep
<1>1. ASSUME NEW w \in Workers, SendMessage(w) PROVE HandInv'
  <2>1. sn \in Nat /\ sn' = sn + 1 /\ UNCHANGED <<pc, req>>
    BY <1>1 DEF SendMessage, IInv, TypeOK
  <2>2. \A p \in Pollers : req[p] # None => req[p] \in Nat
    BY DEF IInv, TypeOK, Queries
  <2>3. QED
    BY <2>1, <2>2 DEF IInv, HandInv
<1>2. ASSUME NEW p \in Pollers, NEW m \in messages, FindRequest(p, m) PROVE HandInv'
  <2>1. req' = [req EXCEPT ![p] = m.query] /\ m.query \in Queries /\ m.query < sn
    BY <1>2 DEF FindRequest, Matching, IInv, TypeOK, NumberInv
  <2>2. QED
    BY <1>2, <2>1, HandFrame DEF FindRequest, IInv, TypeOK, Queries
<1>3. ASSUME NEW p \in Pollers, NEW q \in Queries, HandleFailure(p, q) PROVE HandInv'
  <2>1. q < sn /\ q # None
    BY <1>3 DEF HandleFailure, IInv, NumberInv, Queries
  <2>2. CASE q \in pool
    BY <1>3, <2>1, <2>2, HandFrame DEF HandleFailure, IInv, TypeOK
  <2>3. CASE q \notin pool
    BY <1>3, <2>3 DEF HandleFailure, IInv, HandInv
  <2>4. QED
    BY <2>2, <2>3
<1>4. ASSUME NEW p \in Pollers, Handle(p) PROVE HandInv'
  <2>1. req[p] # None /\ req[p] < sn
    BY <1>4, CurrentRequest
       DEF Handle, BeginInsert, EndInsert, Incomplete, OnRequestFinished, NobodyWaits,
           SomebodyWaits, Notify, ClearWait, Queries
  <2>2. CASE BeginInsert(p) \/ EndInsert(p) \/ OnRequestFinished(p) \/ SomebodyWaits(p)
             \/ Notify(p)
    BY <2>1, <2>2, HandFrame
       DEF BeginInsert, EndInsert, OnRequestFinished, SomebodyWaits, Notify, IInv, TypeOK
  <2>3. CASE Incomplete(p) \/ NobodyWaits(p) \/ ClearWait(p)
    BY <2>1, <2>3, HandFrame DEF Incomplete, NobodyWaits, ClearWait, IInv, TypeOK
  <2>4. QED
    BY <1>4, <2>2, <2>3 DEF Handle
<1>5. CASE UNCHANGED <<sn, pc, req>>
  BY <1>5 DEF IInv, HandInv
<1>6. QED
  BY <1>1, <1>2, <1>3, <1>4, <1>5
     DEF Next, Ask, Network, Receive, FindNoRequest, AddRequest, SetWait, WaitResult,
         Wait, WakeSpuriously, Return, DeviceAnswers, MessageFails, LoseBatch, vars
-----------------------------------------------------------------------------
(* Records and batches *)

\* A query that has been asked keeps its kind and its size.
LEMMA KindFrame ==
  ASSUME IInv, [Next]_vars
  PROVE  /\ \A q \in Queries : q < sn => kind'[q] = kind[q] /\ size'[q] = size[q]
         /\ \A q \in Queries : q < sn => q < sn'
         /\ \A q \in Queries : q < sn => Records(q)' = Records(q)
<1> USE DEF network, request, worker, poller
<1>1. /\ \A q \in Queries : q < sn => kind'[q] = kind[q] /\ size'[q] = size[q]
      /\ \A q \in Queries : q < sn => q < sn'
  <2>1. CASE \E w \in Workers : SendMessage(w)
    <3>1. sn \in Nat /\ sn' = sn + 1 /\ kind \in [Queries -> {"record", "preset", None}]
          /\ size \in [Queries -> 0 .. MaxFiles \cup {None}]
      BY <2>1 DEF SendMessage, IInv, TypeOK
    <3>2. \A q \in Queries : q < sn => q \in Nat /\ q # sn
      BY <3>1 DEF Queries
    <3>3. \/ kind' = [kind EXCEPT ![sn] = "record"]
          \/ kind' = [kind EXCEPT ![sn] = "preset"]
      BY <2>1 DEF SendMessage
    <3>4. \E n : size' = [size EXCEPT ![sn] = n]
      BY <2>1 DEF SendMessage
    <3>5. QED
      BY <3>1, <3>2, <3>3, <3>4
  <2>2. CASE UNCHANGED <<sn, kind, size>>
    BY <2>2
  <2>3. QED
    BY <2>1, <2>2
       DEF Next, Ask, Network, Receive, Handle, AddRequest, SetWait, WaitResult, Wait,
           WakeSpuriously, Return, FindRequest, FindNoRequest, HandleFailure,
           DeviceAnswers, MessageFails, LoseBatch, BeginInsert, EndInsert, Incomplete,
           OnRequestFinished, NobodyWaits, SomebodyWaits, Notify, ClearWait, vars
<1>2. QED
  BY <1>1 DEF Records

LEMMA PartsProper ==
  ASSUME IInv, NEW q \in Queries, q < sn, NEW part \in Parts(q)
  PROVE  Proper(q, {q} \X part)
<1>1. kind[q] \in {"record", "preset"} /\ size[q] \in Nat
      /\ (kind[q] = "preset" => size[q] = 1)
  BY CurrentRequest, QueryAssumption DEF IInv, TypeOK, NumberInv
<1>2. CASE kind[q] = "record" /\ size[q] > 0
  <2>1. PICK i \in 1 .. Batches(size[q]) : part = Part(size[q], i)
    BY <1>2 DEF Parts, Batches
  <2>2. part # {} /\ part \subseteq 1 .. size[q]
    BY <1>1, <1>2, <2>1, PartsNonempty DEF Part
  <2>3. {q} \X part # {}
    <3>1. PICK k \in part : TRUE
      BY <2>2
    <3>2. <<q, k>> \in {q} \X part
      BY <3>1
    <3>3. QED
      BY <3>2
  <2>4. QED
    BY <1>2, <2>2, <2>3 DEF Proper, Records
<1>3. CASE ~(kind[q] = "record" /\ size[q] > 0)
  <2>1. part = 1 .. size[q]
    BY <1>3 DEF Parts
  <2>2. size[q] # 0 => 1 \in part
    BY <1>1, <2>1
  <2>3. {q} \X part = {} => size[q] = 0
    <3>1. 1 \in part => <<q, 1>> \in {q} \X part
      OBVIOUS
    <3>2. QED
      BY <2>2, <3>1
  <2>4. QED
    BY <2>1, <2>3 DEF Proper, Records
<1>4. QED
  BY <1>2, <1>3

LEMMA PartsApart ==
  ASSUME IInv, NEW q \in Queries, q < sn, NEW a \in Parts(q), NEW b \in Parts(q), a # b
  PROVE  ({q} \X a) \cap ({q} \X b) = {}
<1>1. CASE kind[q] = "record" /\ size[q] > 0
  <2>1. PICK i \in 1 .. Batches(size[q]) : a = Part(size[q], i)
    BY <1>1 DEF Parts, Batches
  <2>2. PICK j \in 1 .. Batches(size[q]) : b = Part(size[q], j)
    BY <1>1 DEF Parts, Batches
  <2>3. size[q] \in Nat \ {0}
    BY <1>1, CurrentRequest
  <2>4. i \in Nat \ {0} /\ j \in Nat \ {0} /\ i # j
    BY <2>1, <2>2, <2>3, Ceiling
  <2>5. a \cap b = {}
    BY <2>1, <2>2, <2>3, <2>4, PartsDisjoint
  <2>6. QED
    BY <2>5
<1>2. CASE ~(kind[q] = "record" /\ size[q] > 0)
  BY <1>2 DEF Parts
<1>3. QED
  BY <1>1, <1>2

\* The parts of PartInv that a step leaves alone.
LEMMA RecordsFrame ==
  ASSUME IInv, [Next]_vars, records' = records
  PROVE  \A q \in Queries : q < sn' => records'[q] \subseteq Records(q)'
<1>1. SUFFICES ASSUME NEW q \in Queries, q < sn' PROVE records'[q] \subseteq Records(q)'
  OBVIOUS
<1>2. CASE q < sn
  BY <1>2, KindFrame DEF IInv, PartInv
<1>3. CASE ~(q < sn)
  BY <1>3 DEF IInv, NumberInv
<1>4. QED
  BY <1>2, <1>3

LEMMA MessagesFrame ==
  ASSUME IInv, [Next]_vars, messages' \subseteq messages
  PROVE  \A m \in messages' : Proper(m.query, m.records)'
<1>1. SUFFICES ASSUME NEW m \in messages, Proper(m.query, m.records)
               PROVE Proper(m.query, m.records)'
  BY DEF IInv, PartInv, Proper
<1>2. m.query \in Queries /\ m.query < sn
  BY DEF IInv, TypeOK, NumberInv
<1>3. QED
  BY <1>1, <1>2, KindFrame DEF Proper

LEMMA PollersFrame ==
  ASSUME IInv, [Next]_vars, NEW p \in Pollers, pc'[p] # "idle",
         UNCHANGED <<pc[p], req[p], items[p], seen[p]>>
  PROVE  /\ Holds(p)' => Proper(req[p], items[p])'
         /\ (pc[p] = "store")' => (seen[p] \subseteq Records(req[p]))'
<1>1. pc'[p] = pc[p] /\ req'[p] = req[p] /\ items'[p] = items[p] /\ seen'[p] = seen[p]
  OBVIOUS
<1>2. req[p] \in Queries /\ req[p] < sn
  BY <1>1, CurrentRequest
<1>3. Holds(p) => Proper(req[p], items[p])
  BY DEF IInv, PartInv
<1>4. pc[p] = "store" => seen[p] \subseteq Records(req[p])
  BY DEF IInv, PartInv
<1>5. kind'[req[p]] = kind[req[p]] /\ size'[req[p]] = size[req[p]]
  BY <1>2, KindFrame
<1>6. QED
  BY <1>1, <1>3, <1>4, <1>5 DEF Holds, Proper, Records

\* A poller's batch and what it has read of the vector.
Carried(p) ==
  /\ Holds(p) => Proper(req[p], items[p])
  /\ pc[p] = "store" => seen[p] \subseteq Records(req[p])

LEMMA CarriedFrame ==
  ASSUME IInv, [Next]_vars, NEW S \in SUBSET Pollers,
         \A p \in S : UNCHANGED <<pc[p], req[p], items[p], seen[p]>>
  PROVE  \A p \in S : Carried(p)'
<1>1. SUFFICES ASSUME NEW p \in S PROVE Carried(p)'
  OBVIOUS
<1>2. UNCHANGED <<pc[p], req[p], items[p], seen[p]>>
  OBVIOUS
<1>3. CASE pc'[p] = "idle"
  BY <1>3 DEF Carried, Holds
<1>4. CASE pc'[p] # "idle"
  BY <1>2, <1>4, PollersFrame DEF Carried
<1>5. QED
  BY <1>3, <1>4

LEMMA PartFromParts ==
  ASSUME \A q \in Queries : q < sn' => records'[q] \subseteq Records(q)',
         \A m \in messages' : Proper(m.query, m.records)',
         \A p \in Pollers : Carried(p)'
  PROVE  PartInv'
  BY DEF PartInv, Carried

LEMMA NextPartInv ==
  ASSUME IInv, [Next]_vars
  PROVE  PartInv'
<1> USE DEF network, request, worker, poller, PollerStep
<1>1. CASE messages' \subseteq messages /\ UNCHANGED <<records, pc, req, items, seen>>
  <2>1. \A p \in Pollers : Carried(p)'
    BY <1>1, CarriedFrame
  <2>2. QED
    BY <1>1, <2>1, RecordsFrame, MessagesFrame, PartFromParts
<1>2. ASSUME NEW q \in Queries, DeviceAnswers(q) PROVE PartInv'
  <2>1. UNCHANGED <<records, pc, req, items, seen>>
    BY <1>2 DEF DeviceAnswers
  <2>2. q < sn
    BY <1>2 DEF DeviceAnswers, IInv, NumberInv
  <2>3. \A m \in messages : Proper(m.query, m.records)'
    <3>1. SUFFICES ASSUME NEW m \in messages PROVE Proper(m.query, m.records)'
      OBVIOUS
    <3>2. m.query \in Queries /\ m.query < sn /\ Proper(m.query, m.records)
      BY DEF IInv, TypeOK, NumberInv, PartInv
    <3>3. kind'[m.query] = kind[m.query] /\ size'[m.query] = size[m.query]
      BY <3>2, KindFrame
    <3>4. QED
      BY <3>2, <3>3 DEF Proper, Records
  <2>4. \A part \in Parts(q) : Proper(q, {q} \X part)'
    <3>1. SUFFICES ASSUME NEW part \in Parts(q) PROVE Proper(q, {q} \X part)'
      OBVIOUS
    <3>2. Proper(q, {q} \X part)
      BY <2>2, PartsProper
    <3>3. QED
      BY <2>2, <3>2, KindFrame DEF Proper, Records
  <2>5. \A m \in messages' : Proper(m.query, m.records)'
    <3>1. SUFFICES ASSUME NEW m \in messages' PROVE Proper(m.query, m.records)'
      OBVIOUS
    <3>2. m \in messages \/ \E part \in Parts(q) : m = [query |-> q, records |-> {q} \X part]
      BY <1>2 DEF DeviceAnswers
    <3>3. QED
      BY <2>3, <2>4, <3>2 DEF Proper, Records
  <2>6. \A p \in Pollers : Carried(p)'
    BY <2>1, CarriedFrame
  <2>7. QED
    BY <2>1, <2>5, <2>6, RecordsFrame, PartFromParts
<1>3. ASSUME NEW p \in Pollers, messages' \subseteq messages, records' = records, Carried(p)',
             \A r \in Pollers \ {p} : UNCHANGED <<pc[r], req[r], items[r], seen[r]>>
      PROVE  PartInv'
  <2>1. \A r \in Pollers \ {p} : Carried(r)'
    BY <1>3, CarriedFrame
  <2>2. \A r \in Pollers : Carried(r)'
    BY <1>3, <2>1
  <2>3. QED
    BY <1>3, <2>2, RecordsFrame, MessagesFrame, PartFromParts
<1>4. ASSUME NEW p \in Pollers, NEW m \in messages, FindRequest(p, m) PROVE PartInv'
  <2>1. m.query \in Queries /\ m.query < sn /\ Proper(m.query, m.records)
    BY DEF IInv, TypeOK, NumberInv, PartInv
  <2>2. req' = [req EXCEPT ![p] = m.query]
    BY <1>4 DEF FindRequest, Matching
  <2>3. pc'[p] = "insert" /\ req'[p] = m.query /\ items'[p] = m.records
    BY <1>4, <2>2 DEF FindRequest, IInv, TypeOK
  <2>4. kind'[m.query] = kind[m.query] /\ size'[m.query] = size[m.query]
    BY <2>1, KindFrame
  <2>5. Carried(p)'
    BY <2>1, <2>3, <2>4 DEF Carried, Proper, Records
  <2>6. QED
    BY <1>3, <1>4, <2>2, <2>5 DEF FindRequest
<1>5. ASSUME NEW p \in Pollers, NEW q \in Queries, HandleFailure(p, q) PROVE PartInv'
  <2>1. CASE q \in pool
    <3>1. pc'[p] = "finish"
      BY <1>5, <2>1 DEF HandleFailure, IInv, TypeOK
    <3>2. \A r \in Pollers \ {p} : UNCHANGED <<pc[r], req[r], items[r], seen[r]>>
      BY <1>5, <2>1 DEF HandleFailure, IInv, TypeOK
    <3>3. Carried(p)'
      BY <3>1 DEF Carried, Holds
    <3>4. QED
      BY <1>3, <1>5, <3>2, <3>3 DEF HandleFailure
  <2>2. CASE q \notin pool
    BY <1>1, <1>5, <2>2 DEF HandleFailure
  <2>3. QED
    BY <2>1, <2>2
<1>6. ASSUME NEW p \in Pollers, BeginInsert(p) PROVE PartInv'
  <2>1. req[p] \in Queries /\ req[p] < sn
    BY <1>6, CurrentRequest DEF BeginInsert
  <2>2. /\ pc[p] = "insert" /\ pc'[p] = "store"
        /\ req'[p] = req[p] /\ items'[p] = items[p] /\ seen'[p] = records[req[p]]
    BY <1>6 DEF BeginInsert, IInv, TypeOK
  <2>3. Proper(req[p], items[p]) /\ records[req[p]] \subseteq Records(req[p])
    BY <2>1, <2>2 DEF IInv, PartInv, Holds
  <2>4. kind'[req[p]] = kind[req[p]] /\ size'[req[p]] = size[req[p]]
    BY <2>1, KindFrame
  <2>5. Carried(p)'
    BY <2>2, <2>3, <2>4 DEF Carried, Proper, Records
  <2>6. QED
    BY <1>3, <1>6, <2>5 DEF BeginInsert
<1>7. ASSUME NEW p \in Pollers, EndInsert(p) PROVE PartInv'
  <2>1. req[p] \in Queries /\ req[p] < sn
    BY <1>7, CurrentRequest DEF EndInsert
  <2>2. PICK kept \in SUBSET (records[req[p]] \ seen[p]) :
          records' = [records EXCEPT ![req[p]] = seen[p] \cup kept \cup items[p]]
    BY <1>7 DEF EndInsert
  <2>3. /\ records[req[p]] \subseteq Records(req[p])
        /\ seen[p] \subseteq Records(req[p]) /\ items[p] \subseteq Records(req[p])
    BY <1>7, <2>1 DEF EndInsert, IInv, PartInv, Holds, Proper
  <2>4. seen[p] \cup kept \cup items[p] \subseteq Records(req[p])
    BY <2>2, <2>3
  <2>5. \A q \in Queries : q < sn => records'[q] \subseteq Records(q)
    BY <2>1, <2>2, <2>4 DEF IInv, TypeOK, PartInv
  <2>6. UNCHANGED <<sn, kind, size, messages>>
    BY <1>7 DEF EndInsert
  <2>7. \A q \in Queries : q < sn' => records'[q] \subseteq Records(q)'
    BY <2>5, <2>6 DEF Records
  <2>8. pc'[p] = "count"
    BY <1>7 DEF EndInsert, IInv, TypeOK
  <2>9. Carried(p)'
    BY <2>8 DEF Carried, Holds
  <2>10. \A r \in Pollers \ {p} : Carried(r)'
    <3>1. \A r \in Pollers \ {p} : UNCHANGED <<pc[r], req[r], items[r], seen[r]>>
      BY <1>7 DEF EndInsert, IInv, TypeOK
    <3>2. Pollers \ {p} \in SUBSET Pollers
      OBVIOUS
    <3>3. QED
      BY <3>1, <3>2, CarriedFrame
  <2>11. \A r \in Pollers : Carried(r)'
    BY <2>9, <2>10
  <2>12. QED
    BY <2>6, <2>7, <2>11, MessagesFrame, PartFromParts
<1>8. ASSUME NEW p \in Pollers, \/ Incomplete(p) \/ OnRequestFinished(p) \/ NobodyWaits(p)
                                \/ SomebodyWaits(p) \/ Notify(p) \/ ClearWait(p)
      PROVE  PartInv'
  <2>1. pc'[p] \notin {"insert", "store"}
    BY <1>8 DEF Incomplete, OnRequestFinished, NobodyWaits, SomebodyWaits, Notify, ClearWait,
                IInv, TypeOK
  <2>2. /\ UNCHANGED <<messages, records, items, seen>>
        /\ \A r \in Pollers \ {p} : UNCHANGED <<pc[r], req[r], items[r], seen[r]>>
    BY <1>8 DEF Incomplete, OnRequestFinished, NobodyWaits, SomebodyWaits, Notify, ClearWait,
                IInv, TypeOK
  <2>3. QED
    BY <1>3, <2>1, <2>2 DEF Carried, Holds
<1>9. QED
  BY <1>1, <1>2, <1>4, <1>5, <1>6, <1>7, <1>8
     DEF Next, Ask, Network, Receive, Handle, FindNoRequest, SendMessage, AddRequest,
         SetWait, WaitResult, Wait, WakeSpuriously, Return, MessageFails, LoseBatch, vars

-----------------------------------------------------------------------------
(* No record is inserted twice *)

LEMMA NextFreshInv ==
  ASSUME IInv, [Next]_vars
  PROVE  FreshInv'
<1> USE DEF network, request, worker, poller, PollerStep
<1> FreshInv
  BY DEF IInv
<1>1. CASE UNCHANGED <<requests, messages, records, pc, req, items, seen>>
  BY <1>1 DEF FreshInv, Holds
<1>2. ASSUME NEW w \in Workers, SendMessage(w) PROVE FreshInv'
  <2>1. /\ sn \in Nat /\ sn \in Queries /\ records[sn] = {}
        /\ \A m \in messages : m.query # sn
        /\ \A p \in Pollers : Holds(p) => req[p] # sn
    <3>1. sn \in Nat /\ sn \in Queries
      BY <1>2, QueryAssumption DEF SendMessage, IInv, TypeOK, Queries
    <3>2. records[sn] = {}
      BY <3>1 DEF IInv, NumberInv
    <3>3. \A m \in messages : m.query # sn
      BY <3>1 DEF IInv, NumberInv
    <3>4. \A p \in Pollers : Holds(p) => req[p] # sn
      BY <3>1, CurrentRequest DEF Holds
    <3>5. QED
      BY <3>1, <3>2, <3>3, <3>4
  <2>2. /\ requests' = requests \cup {sn}
        /\ UNCHANGED <<messages, records, pc, req, items, seen>>
    BY <1>2 DEF SendMessage
  <2>3. QED
    BY <2>1, <2>2 DEF FreshInv, Holds
<1>3. ASSUME NEW q \in Queries, DeviceAnswers(q) PROVE FreshInv'
  <2>1. q < sn /\ q \in requests
    BY <1>3 DEF DeviceAnswers, IInv, NumberInv
  <2>2. /\ requests' = requests \ {q}
        /\ UNCHANGED <<records, pc, req, items, seen>>
    BY <1>3 DEF DeviceAnswers
  <2>3. \A m \in messages' : \/ m \in messages /\ m.query # q
                             \/ m \notin messages /\ m.query = q
    BY <1>3, <2>1 DEF DeviceAnswers, FreshInv
  <2>4. \A m, n \in messages' : m # n /\ m.query = q /\ n.query = q =>
          m.records \cap n.records = {}
    <3>1. SUFFICES ASSUME NEW m \in messages', NEW n \in messages',
                          m # n, m.query = q, n.query = q
                   PROVE  m.records \cap n.records = {}
      OBVIOUS
    <3>2. PICK a \in Parts(q) : m = [query |-> q, records |-> {q} \X a]
      BY <1>3, <2>3, <3>1 DEF DeviceAnswers
    <3>3. PICK b \in Parts(q) : n = [query |-> q, records |-> {q} \X b]
      BY <1>3, <2>3, <3>1 DEF DeviceAnswers
    <3>4. a # b
      BY <3>1, <3>2, <3>3
    <3>5. ({q} \X a) \cap ({q} \X b) = {}
      BY <2>1, <3>4, PartsApart
    <3>6. QED
      BY <3>2, <3>3, <3>5
  <2>5. \A m, n \in messages' : m # n /\ m.query = n.query => m.records \cap n.records = {}
    BY <2>3, <2>4 DEF FreshInv
  <2>6. records[q] = {} /\ \A p \in Pollers : Holds(p) => req[p] # q
    BY <2>1 DEF FreshInv
  <2>7. \A m \in messages' : /\ m.query \notin requests'
                             /\ m.records \cap records'[m.query] = {}
    BY <2>1, <2>2, <2>3, <2>6 DEF FreshInv
  <2>8. QED
    BY <2>1, <2>2, <2>3, <2>5, <2>6, <2>7 DEF FreshInv, Holds
<1>4. CASE /\ messages' \subseteq messages
           /\ UNCHANGED <<requests, records, pc, req, items, seen>>
  BY <1>4 DEF FreshInv, Holds
<1>5. ASSUME NEW p \in Pollers, NEW m \in messages, FindRequest(p, m) PROVE FreshInv'
  <2>1. req' = [req EXCEPT ![p] = m.query]
    BY <1>5 DEF FindRequest, Matching
  <2>2. /\ pc[p] = "idle" /\ pc'[p] = "insert"
        /\ req'[p] = m.query /\ items'[p] = m.records
        /\ \A r \in Pollers \ {p} : UNCHANGED <<pc[r], req[r], items[r]>>
        /\ messages' = messages \ {m} /\ UNCHANGED <<requests, records, seen>>
    BY <1>5, <2>1 DEF FindRequest, IInv, TypeOK
  <2>3. \A n \in messages' : n # m /\ n \in messages
    BY <2>2
  <2>4. \A r \in Pollers : Holds(r)' <=> r = p \/ Holds(r)
    BY <2>2 DEF Holds
  <2>5. \A r \in Pollers : (pc[r] = "store")' => r # p /\ pc[r] = "store"
    BY <2>2
  <2>6. \A n \in messages' : /\ n.query \notin requests'
                             /\ n.records \cap records'[n.query] = {}
    BY <2>2, <2>3 DEF FreshInv
  <2>7. \A n, o \in messages' : n # o /\ n.query = o.query => n.records \cap o.records = {}
    BY <2>2, <2>3 DEF FreshInv
  <2>8. \A r \in Pollers : Holds(r)' =>
          /\ req'[r] \notin requests'
          /\ items'[r] \cap records'[req'[r]] = {}
          /\ \A n \in messages' : n.query = req'[r] => n.records \cap items'[r] = {}
    BY <2>2, <2>3, <2>4 DEF FreshInv
  <2>9. \A r \in Pollers : Holds(r)' =>
          \A s \in Pollers : Holds(s)' /\ s # r /\ req'[s] = req'[r] =>
            items'[s] \cap items'[r] = {}
    BY <2>2, <2>4 DEF FreshInv
  <2>10. \A r \in Pollers : (pc[r] = "store")' =>
           /\ items'[r] \cap seen'[r] = {}
           /\ \A n \in messages' : n.query = req'[r] => n.records \cap seen'[r] = {}
    BY <2>2, <2>3, <2>5 DEF FreshInv
  <2>11. \A r \in Pollers : (pc[r] = "store")' =>
           \A s \in Pollers : Holds(s)' /\ req'[s] = req'[r] => items'[s] \cap seen'[r] = {}
    BY <2>2, <2>4, <2>5 DEF FreshInv
  <2>12. \A q \in requests' : records'[q] = {}
    BY <2>2 DEF FreshInv
  <2>13. QED
    BY <2>6, <2>7, <2>8, <2>9, <2>10, <2>11, <2>12 DEF FreshInv
<1>6. ASSUME NEW p \in Pollers, NEW q \in Queries, HandleFailure(p, q) PROVE FreshInv'
  <2>1. CASE q \in pool
    <3>1. /\ pc[p] = "idle" /\ pc'[p] = "finish"
          /\ \A r \in Pollers \ {p} : UNCHANGED <<pc[r], req[r]>>
          /\ UNCHANGED <<requests, messages, records, items, seen>>
      BY <1>6, <2>1 DEF HandleFailure, IInv, TypeOK
    <3>2. \A r \in Pollers : /\ Holds(r)' => r # p /\ Holds(r)
                             /\ (pc[r] = "store")' => r # p /\ pc[r] = "store"
      BY <3>1 DEF Holds
    <3>3. QED
      BY <3>1, <3>2 DEF FreshInv
  <2>2. CASE q \notin pool
    BY <1>1, <1>6, <2>2 DEF HandleFailure
  <2>3. QED
    BY <2>1, <2>2
<1>7. ASSUME NEW p \in Pollers, BeginInsert(p) PROVE FreshInv'
  <2>1. /\ pc[p] = "insert" /\ pc'[p] = "store" /\ seen'[p] = records[req[p]]
        /\ \A r \in Pollers \ {p} : UNCHANGED <<pc[r], seen[r]>>
        /\ UNCHANGED <<requests, messages, records, items, req>>
    BY <1>7 DEF BeginInsert, IInv, TypeOK
  <2>2. \A r \in Pollers : Holds(r)' <=> Holds(r)
    BY <2>1 DEF Holds
  <2>3. Holds(p)
    BY <2>1 DEF Holds
  <2>4. \A r \in Pollers : (pc[r] = "store")' =>
          /\ items'[r] \cap seen'[r] = {}
          /\ \A n \in messages' : n.query = req'[r] => n.records \cap seen'[r] = {}
          /\ \A s \in Pollers : Holds(s)' /\ req'[s] = req'[r] => items'[s] \cap seen'[r] = {}
    <3>1. SUFFICES ASSUME NEW r \in Pollers, pc'[r] = "store"
                   PROVE  /\ items[r] \cap seen'[r] = {}
                          /\ \A n \in messages : n.query = req[r] => n.records \cap seen'[r] = {}
                          /\ \A s \in Pollers : Holds(s) /\ req[s] = req[r] =>
                               items[s] \cap seen'[r] = {}
      BY <2>1, <2>2
    <3>2. CASE r = p
      BY <2>1, <2>3, <3>2 DEF FreshInv
    <3>3. CASE r # p
      BY <2>1, <3>1, <3>3 DEF FreshInv
    <3>4. QED
      BY <3>2, <3>3
  <2>5. QED
    BY <2>1, <2>2, <2>4 DEF FreshInv
<1>8. ASSUME NEW p \in Pollers, EndInsert(p) PROVE FreshInv'
  <2> DEFINE q == req[p]
  <2>1. req[p] \in Queries /\ Holds(p) /\ pc[p] = "store"
    BY <1>8, CurrentRequest DEF EndInsert, Holds
  <2>2. PICK kept \in SUBSET (records[q] \ seen[p]) :
          records' = [records EXCEPT ![q] = seen[p] \cup kept \cup items[p]]
    BY <1>8 DEF EndInsert
  <2>3. /\ records'[q] = seen[p] \cup kept \cup items[p]
        /\ \A r \in Queries \ {q} : records'[r] = records[r]
    BY <2>1, <2>2 DEF IInv, TypeOK
  <2>4. /\ pc'[p] = "count"
        /\ \A r \in Pollers \ {p} : UNCHANGED <<pc[r], seen[r], items[r]>>
        /\ UNCHANGED <<requests, messages, req>>
    BY <1>8 DEF EndInsert, IInv, TypeOK
  <2>5. \A r \in Pollers : /\ Holds(r)' => r # p /\ Holds(r)
                           /\ (pc[r] = "store")' => r # p /\ pc[r] = "store"
    BY <2>4 DEF Holds
  <2>6. \A m \in messages : m.query \in Queries
    BY DEF IInv, TypeOK
  <2>7. \A m \in messages' : /\ m.query \notin requests'
                             /\ m.records \cap records'[m.query] = {}
    <3>1. SUFFICES ASSUME NEW m \in messages PROVE m.records \cap records'[m.query] = {}
      BY <2>4 DEF FreshInv
    <3>2. CASE m.query = q
      <4>1. /\ m.records \cap seen[p] = {} /\ m.records \cap records[q] = {}
            /\ m.records \cap items[p] = {}
        BY <2>1, <3>2 DEF FreshInv
      <4>2. QED
        BY <2>2, <2>3, <3>2, <4>1
    <3>3. CASE m.query # q
      BY <2>3, <2>6, <3>3 DEF FreshInv
    <3>4. QED
      BY <3>2, <3>3
  <2>8. \A r \in requests' : records'[r] = {}
    <3>1. q \notin requests /\ requests \subseteq Queries
      BY <2>1 DEF FreshInv, IInv, TypeOK
    <3>2. QED
      BY <2>3, <2>4, <3>1 DEF FreshInv
  <2>9. \A r \in Pollers : Holds(r)' => items'[r] \cap records'[req'[r]] = {}
    <3>1. SUFFICES ASSUME NEW r \in Pollers, r # p, Holds(r)
                   PROVE  items[r] \cap records'[req[r]] = {}
      BY <2>4, <2>5
    <3>2. CASE req[r] = q
      <4>1. /\ items[r] \cap seen[p] = {} /\ items[r] \cap records[q] = {}
            /\ items[r] \cap items[p] = {}
        BY <2>1, <3>1, <3>2 DEF FreshInv
      <4>2. QED
        BY <2>2, <2>3, <3>2, <4>1
    <3>3. CASE req[r] # q
      <4>1. req[r] \in Queries
        BY <3>1, CurrentRequest DEF Holds
      <4>2. QED
        BY <2>3, <3>1, <3>3, <4>1 DEF FreshInv
    <3>4. QED
      BY <3>2, <3>3
  <2> HIDE DEF q
  <2>10. \A r \in Pollers : Holds(r)' =>
           /\ req'[r] \notin requests'
           /\ \A n \in messages' : n.query = req'[r] => n.records \cap items'[r] = {}
           /\ \A s \in Pollers : Holds(s)' /\ s # r /\ req'[s] = req'[r] =>
                items'[s] \cap items'[r] = {}
    BY <2>4, <2>5 DEF FreshInv
  <2>11. \A r \in Pollers : (pc[r] = "store")' =>
           /\ items'[r] \cap seen'[r] = {}
           /\ \A n \in messages' : n.query = req'[r] => n.records \cap seen'[r] = {}
           /\ \A s \in Pollers : Holds(s)' /\ req'[s] = req'[r] => items'[s] \cap seen'[r] = {}
    BY <2>4, <2>5 DEF FreshInv
  <2>12. \A n, o \in messages' : n # o /\ n.query = o.query => n.records \cap o.records = {}
    BY <2>4 DEF FreshInv
  <2>13. QED
    BY <2>7, <2>8, <2>9, <2>10, <2>11, <2>12 DEF FreshInv
<1>9. ASSUME NEW p \in Pollers, \/ Incomplete(p) \/ OnRequestFinished(p) \/ NobodyWaits(p)
                                \/ SomebodyWaits(p) \/ Notify(p) \/ ClearWait(p)
      PROVE  FreshInv'
  <2>1. /\ pc'[p] \notin {"insert", "store"}
        /\ \A r \in Pollers \ {p} : UNCHANGED <<pc[r], req[r]>>
        /\ UNCHANGED <<requests, messages, records, items, seen>>
    BY <1>9 DEF Incomplete, OnRequestFinished, NobodyWaits, SomebodyWaits, Notify, ClearWait,
                IInv, TypeOK
  <2>2. \A r \in Pollers : /\ Holds(r)' => r # p /\ Holds(r)
                           /\ (pc[r] = "store")' => r # p /\ pc[r] = "store"
    BY <2>1 DEF Holds
  <2>3. QED
    BY <2>1, <2>2 DEF FreshInv
<1>10. QED
  BY <1>1, <1>2, <1>3, <1>4, <1>5, <1>6, <1>7, <1>8, <1>9
     DEF Next, Ask, Network, Receive, Handle, FindNoRequest, AddRequest, SetWait,
         WaitResult, Wait, WakeSpuriously, Return, MessageFails, LoseBatch, vars

-----------------------------------------------------------------------------
(* Who is woken has a whole answer, or a failed MESSAGE *)

\* As many records of a query as there are are all of them.
LEMMA WholeSet ==
  ASSUME NEW q, NEW n \in Nat, NEW S \in SUBSET ({q} \X (1 .. n)), Cardinality(S) = n
  PROVE  S = {q} \X (1 .. n)
<1>1. IsFiniteSet({q}) /\ Cardinality({q}) = 1
  BY FS_Singleton
<1>2. IsFiniteSet(1 .. n) /\ Cardinality(1 .. n) = n
  BY FS_Interval
<1>3. IsFiniteSet({q} \X (1 .. n)) /\ Cardinality({q} \X (1 .. n)) = 1 * n
  BY <1>1, <1>2, FS_Product
<1>4. Cardinality({q} \X (1 .. n)) = Cardinality(S)
  BY <1>3
<1>5. QED
  BY <1>3, <1>4, FS_Subset

LEMMA CompleteIsWhole ==
  ASSUME IInv, NEW p \in Pollers, OnRequestFinished(p)
  PROVE  records[req[p]] = Records(req[p])
<1>1. pc[p] = "count" /\ Complete(req[p]) /\ req[p] \in Queries /\ req[p] < sn
  BY CurrentRequest DEF OnRequestFinished, PollerStep
<1>2. kind[req[p]] \in {"record", "preset"} /\ size[req[p]] \in Nat
      /\ records[req[p]] \in SUBSET Records(req[p])
  BY <1>1, CurrentRequest, QueryAssumption DEF IInv, TypeOK, PartInv
<1>3. CASE kind[req[p]] = "record"
  <2>1. Cardinality(records[req[p]]) = size[req[p]]
    BY <1>1, <1>3 DEF Complete
  <2>2. QED
    BY <1>2, <2>1, WholeSet DEF Records
<1>4. CASE kind[req[p]] = "preset"
  BY <1>1, <1>4 DEF IInv, WakeInv
<1>5. QED
  BY <1>2, <1>3, <1>4

\* A vector that is whole is not changed any more; that of a preset query is whole
\* after the insertion.
LEMMA WholeStays ==
  ASSUME IInv, NEW p \in Pollers, EndInsert(p),
         records[req[p]] = Records(req[p]) \/ kind[req[p]] = "preset"
  PROVE  records'[req[p]] = Records(req[p])
<1>1. req[p] \in Queries /\ req[p] < sn /\ pc[p] = "store" /\ Holds(p)
  BY CurrentRequest DEF EndInsert, PollerStep, Holds
<1>2. PICK kept \in SUBSET (records[req[p]] \ seen[p]) :
        records'[req[p]] = seen[p] \cup kept \cup items[p]
  BY <1>1 DEF EndInsert, IInv, TypeOK
<1>3. /\ records[req[p]] \subseteq Records(req[p])
      /\ seen[p] \subseteq Records(req[p]) /\ Proper(req[p], items[p])
      /\ items[p] \cap records[req[p]] = {}
  BY <1>1 DEF IInv, PartInv, FreshInv
<1>4. CASE kind[req[p]] = "preset"
  BY <1>2, <1>3, <1>4 DEF Proper
<1>5. CASE records[req[p]] = Records(req[p])
  <2>1. items[p] = {}
    BY <1>3, <1>5 DEF Proper
  <2>2. size[req[p]] = 0
    BY <1>3, <2>1 DEF Proper
  <2>3. Records(req[p]) = {}
    BY <2>2 DEF Records
  <2>4. QED
    BY <1>2, <1>3, <2>1, <2>3
<1>6. QED
  BY <1>4, <1>5

\* The conditions of WakeInv on a poller and on a thread.
Announces(p) ==
  /\ pc[p] = "count" /\ kind[req[p]] = "preset" => records[req[p]] = Records(req[p])
  /\ pc[p] \in {"check", "finish", "notify", "clear"} => Over(req[p])

Awaits(w) ==
  /\ wpc[w] \in {"result", "lock", "wait"} => waiting[asked[w]] \/ Over(asked[w])

LEMMA WakeFromParts ==
  ASSUME FinishedIsWhole', \A p \in Pollers : Announces(p)', \A w \in Workers : Awaits(w)'
  PROVE  WakeInv'
  BY DEF WakeInv, Announces, Awaits

LEMMA WholeFrame ==
  ASSUME IInv, [Next]_vars, UNCHANGED <<finished, records>>
  PROVE  FinishedIsWhole'
<1>1. SUFFICES ASSUME NEW q \in Queries, finished[q] PROVE records[q] = Records(q)'
  BY DEF FinishedIsWhole
<1>2. q < sn /\ records[q] = Records(q)
  BY <1>1 DEF IInv, NumberInv, WakeInv, FinishedIsWhole
<1>3. QED
  BY <1>2, KindFrame

LEMMA AnnouncesFrame ==
  ASSUME IInv, [Next]_vars, NEW S \in SUBSET Pollers, failed \subseteq failed',
         UNCHANGED <<finished, records>>,
         \A p \in S : UNCHANGED <<pc[p], req[p]>>
  PROVE  \A p \in S : Announces(p)'
<1>1. SUFFICES ASSUME NEW p \in S PROVE Announces(p)'
  OBVIOUS
<1>2. pc'[p] = pc[p] /\ req'[p] = req[p]
  OBVIOUS
<1>3. CASE pc[p] = "idle"
  BY <1>2, <1>3 DEF Announces
<1>4. CASE pc[p] # "idle"
  <2>1. req[p] \in Queries /\ req[p] < sn
    BY <1>4, CurrentRequest
  <2>2. kind'[req[p]] = kind[req[p]] /\ size'[req[p]] = size[req[p]]
    BY <2>1, KindFrame
  <2>3. Announces(p)
    BY DEF IInv, WakeInv, Announces
  <2>4. QED
    BY <1>2, <2>2, <2>3 DEF Announces, Over, Records
<1>5. QED
  BY <1>3, <1>4

LEMMA AwaitsFrame ==
  ASSUME IInv, NEW S \in SUBSET Workers, failed \subseteq failed',
         \A q \in Queries : finished[q] => finished'[q],
         \A q \in Queries : waiting[q] => waiting'[q],
         \A w \in S : UNCHANGED <<wpc[w], asked[w]>>
  PROVE  \A w \in S : Awaits(w)'
<1>1. SUFFICES ASSUME NEW w \in S PROVE Awaits(w)'
  OBVIOUS
<1>2. wpc'[w] = wpc[w] /\ asked'[w] = asked[w] /\ Awaits(w)
  BY DEF IInv, WakeInv, Awaits
<1>3. wpc[w] # "idle" => asked[w] \in Queries
  BY CurrentRequest
<1>4. QED
  BY <1>2, <1>3 DEF Awaits, Over

LEMMA NextWakeInv ==
  ASSUME IInv, [Next]_vars
  PROVE  WakeInv'
<1> USE DEF network, request, worker, poller, PollerStep, WorkerStep
<1>1. CASE failed \subseteq failed' /\ UNCHANGED <<finished, waiting, records, pc, req, wpc, asked>>
  <2>1. \A p \in Pollers : Announces(p)'
    BY <1>1, AnnouncesFrame
  <2>2. \A w \in Workers : Awaits(w)'
    BY <1>1, AwaitsFrame
  <2>3. QED
    BY <1>1, <2>1, <2>2, WholeFrame, WakeFromParts
<1>2. ASSUME NEW w \in Workers, Ask(w) PROVE WakeInv'
  <2>1. UNCHANGED <<failed, finished, records, pc, req>>
    BY <1>2 DEF Ask, SendMessage, AddRequest, SetWait, WaitResult, Wait, WakeSpuriously,
       Return
  <2>2. \A p \in Pollers : Announces(p)'
    BY <2>1, AnnouncesFrame
  <2>3. /\ \A v \in Workers \ {w} : UNCHANGED <<wpc[v], asked[v]>>
        /\ \A q \in Queries : waiting[q] => waiting'[q]
    BY <1>2 DEF Ask, SendMessage, AddRequest, SetWait, WaitResult, Wait, WakeSpuriously,
       Return, IInv, TypeOK
  <2>4. \A v \in Workers \ {w} : Awaits(v)'
    BY <2>1, <2>3, AwaitsFrame
  <2>5. Awaits(w)
    BY DEF IInv, WakeInv, Awaits
  <2>6. Awaits(w)'
    <3>1. CASE SendMessage(w) \/ AddRequest(w) \/ Return(w)
      BY <3>1 DEF SendMessage, AddRequest, Return, Awaits, IInv, TypeOK
    <3>2. CASE SetWait(w)
      <4>1. asked[w] \in Queries
        BY <3>2, CurrentRequest DEF SetWait
      <4>2. QED
        BY <3>2, <4>1 DEF SetWait, Awaits, IInv, TypeOK
    <3>3. CASE WaitResult(w) \/ Wait(w) \/ WakeSpuriously(w)
      BY <2>1, <2>5, <3>3 DEF WaitResult, Wait, WakeSpuriously, Awaits, Over, IInv, TypeOK
    <3>4. QED
      BY <1>2, <3>1, <3>2, <3>3 DEF Ask
  <2>7. \A v \in Workers : Awaits(v)'
    BY <2>4, <2>6
  <2>8. QED
    BY <2>1, <2>2, <2>7, WholeFrame, WakeFromParts
<1>3. ASSUME NEW p \in Pollers, Announces(p)',
             \A r \in Pollers \ {p} : UNCHANGED <<pc[r], req[r]>>,
             UNCHANGED <<failed, finished, waiting, records, wpc, asked>>
      PROVE  WakeInv'
  <2>1. \A r \in Pollers \ {p} : Announces(r)'
    BY <1>3, AnnouncesFrame
  <2>2. \A r \in Pollers : Announces(r)'
    BY <1>3, <2>1
  <2>3. \A w \in Workers : Awaits(w)'
    BY <1>3, AwaitsFrame
  <2>4. QED
    BY <1>3, <2>2, <2>3, WholeFrame, WakeFromParts
<1>4. ASSUME NEW p \in Pollers, Receive(p) PROVE WakeInv'
  <2>1. CASE \E m \in messages : FindRequest(p, m)
    <3>1. /\ pc'[p] = "insert" /\ \A r \in Pollers \ {p} : UNCHANGED <<pc[r], req[r]>>
          /\ UNCHANGED <<failed, finished, waiting, records, wpc, asked>>
      BY <2>1 DEF FindRequest, IInv, TypeOK
    <3>2. QED
      BY <1>3, <3>1 DEF Announces
  <2>2. CASE \E m \in messages : FindNoRequest(p, m)
    BY <1>1, <2>2 DEF FindNoRequest
  <2>3. ASSUME NEW q \in Queries, HandleFailure(p, q) PROVE WakeInv'
    <3>1. q \in failed
      BY <2>3 DEF HandleFailure, IInv, NumberInv
    <3>2. CASE q \in pool
      <4>1. /\ pc'[p] = "finish" /\ req'[p] = q
            /\ \A r \in Pollers \ {p} : UNCHANGED <<pc[r], req[r]>>
            /\ UNCHANGED <<failed, finished, waiting, records, wpc, asked>>
        BY <2>3, <3>2 DEF HandleFailure, IInv, TypeOK
      <4>2. QED
        BY <1>3, <3>1, <4>1 DEF Announces, Over
    <3>3. CASE q \notin pool
      BY <1>1, <2>3, <3>3 DEF HandleFailure
    <3>4. QED
      BY <3>2, <3>3
  <2>4. QED
    BY <1>4, <2>1, <2>2, <2>3 DEF Receive
<1>5. ASSUME NEW p \in Pollers, BeginInsert(p) \/ Incomplete(p) \/ NobodyWaits(p)
                                \/ SomebodyWaits(p)
      PROVE  WakeInv'
  <2>1. /\ \A r \in Pollers \ {p} : UNCHANGED <<pc[r], req[r]>>
        /\ UNCHANGED <<failed, finished, waiting, records, wpc, asked>>
    BY <1>5 DEF BeginInsert, Incomplete, NobodyWaits, SomebodyWaits, IInv, TypeOK
  <2>2. Announces(p)
    BY DEF IInv, WakeInv, Announces
  <2>3. CASE BeginInsert(p) \/ Incomplete(p) \/ NobodyWaits(p)
    <3>1. pc'[p] \in {"store", "idle"}
      BY <2>3 DEF BeginInsert, Incomplete, NobodyWaits, IInv, TypeOK
    <3>2. QED
      BY <1>3, <2>1, <3>1 DEF Announces
  <2>4. CASE SomebodyWaits(p)
    <3>1. pc[p] \in {"check", "finish"} /\ pc'[p] \in {"finish", "notify"} /\ req' = req
      BY <2>4 DEF SomebodyWaits, IInv, TypeOK
    <3>2. QED
      BY <1>3, <2>1, <2>2, <3>1 DEF Announces, Over
  <2>5. QED
    BY <1>5, <2>3, <2>4
<1>6. ASSUME NEW p \in Pollers, EndInsert(p) PROVE WakeInv'
  <2>1. req[p] \in Queries
    BY <1>6, CurrentRequest DEF EndInsert
  <2>2. /\ UNCHANGED <<kind, size, failed, finished, waiting, req, wpc, asked>>
        /\ pc'[p] = "count" /\ \A r \in Pollers \ {p} : pc'[r] = pc[r]
        /\ \A q \in Queries \ {req[p]} : records'[q] = records[q]
    BY <1>6, <2>1 DEF EndInsert, IInv, TypeOK
  <2>3. \A q \in Queries : records[q] = Records(q) => records'[q] = Records(q)
    BY <1>6, <2>1, <2>2, WholeStays
  <2>4. FinishedIsWhole'
    BY <2>2, <2>3 DEF IInv, WakeInv, FinishedIsWhole, Records
  <2>5. \A r \in Pollers : Announces(r)'
    <3>1. SUFFICES ASSUME NEW r \in Pollers PROVE Announces(r)'
      OBVIOUS
    <3>2. CASE r = p
      BY <1>6, <2>2, <3>2, WholeStays DEF Announces, Records
    <3>3. CASE r # p
      <4>1. Announces(r)
        BY DEF IInv, WakeInv, Announces
      <4>2. pc[r] # "idle" => req[r] \in Queries
        BY CurrentRequest
      <4>3. QED
        BY <2>2, <2>3, <3>3, <4>1, <4>2 DEF Announces, Over, Records
    <3>4. QED
      BY <3>2, <3>3
  <2>6. \A w \in Workers : Awaits(w)'
    BY <2>2, AwaitsFrame
  <2>7. QED
    BY <2>4, <2>5, <2>6, WakeFromParts
<1>7. ASSUME NEW p \in Pollers, OnRequestFinished(p) PROVE WakeInv'
  <2>1. req[p] \in Queries
    BY <1>7, CurrentRequest DEF OnRequestFinished
  <2>2. /\ UNCHANGED <<kind, size, records, failed, waiting, req, wpc, asked>>
        /\ pc'[p] = "check" /\ \A r \in Pollers \ {p} : pc'[r] = pc[r]
        /\ finished'[req[p]] /\ \A q \in Queries \ {req[p]} : finished'[q] = finished[q]
    BY <1>7, <2>1 DEF OnRequestFinished, IInv, TypeOK
  <2>3. FinishedIsWhole'
    BY <1>7, <2>1, <2>2, CompleteIsWhole DEF IInv, WakeInv, FinishedIsWhole, Records
  <2>4. \A q \in Queries : finished[q] => finished'[q]
    BY <2>2
  <2>5. \A r \in Pollers : Announces(r)'
    <3>1. SUFFICES ASSUME NEW r \in Pollers PROVE Announces(r)'
      OBVIOUS
    <3>2. CASE r = p
      BY <2>2, <3>2 DEF Announces, Over
    <3>3. CASE r # p
      <4>1. Announces(r)
        BY DEF IInv, WakeInv, Announces
      <4>2. pc[r] # "idle" => req[r] \in Queries
        BY CurrentRequest
      <4>3. QED
        BY <2>2, <2>4, <3>3, <4>1, <4>2 DEF Announces, Over, Records
    <3>4. QED
      BY <3>2, <3>3
  <2>6. \A w \in Workers : Awaits(w)'
    BY <2>2, <2>4, AwaitsFrame
  <2>7. QED
    BY <2>3, <2>5, <2>6, WakeFromParts
<1>8. ASSUME NEW p \in Pollers, Notify(p) PROVE WakeInv'
  <2>1. /\ UNCHANGED <<failed, finished, waiting, records, req, asked>>
        /\ pc[p] = "notify" /\ pc'[p] = "clear"
        /\ \A r \in Pollers \ {p} : UNCHANGED <<pc[r], req[r]>>
    BY <1>8 DEF Notify, IInv, TypeOK
  <2>2. Over(req[p])
    BY <2>1 DEF IInv, WakeInv
  <2>3. \A r \in Pollers : Announces(r)'
    <3>1. \A r \in Pollers \ {p} : Announces(r)'
      BY <2>1, AnnouncesFrame
    <3>2. Announces(p)'
      BY <2>1, <2>2 DEF Announces, Over
    <3>3. QED
      BY <3>1, <3>2
  <2>4. ASSUME NEW w \in Workers PROVE Awaits(w)'
    <3>1. Awaits(w)
      BY DEF IInv, WakeInv, Awaits
    <3>2. wpc'[w] = IF wpc[w] = "wait" /\ asked[w] = req[p] THEN "return" ELSE wpc[w]
      BY <1>8 DEF Notify
    <3>3. QED
      BY <2>1, <2>2, <3>1, <3>2 DEF Awaits, Over
  <2>5. QED
    BY <2>1, <2>3, <2>4, WholeFrame, WakeFromParts
<1>9. ASSUME NEW p \in Pollers, ClearWait(p) PROVE WakeInv'
  <2>1. /\ UNCHANGED <<failed, finished, records, wpc, asked>>
        /\ pc[p] = "clear" /\ pc'[p] = "idle"
        /\ \A r \in Pollers \ {p} : UNCHANGED <<pc[r], req[r]>>
        /\ \A q \in Queries \ {req[p]} : waiting'[q] = waiting[q]
    BY <1>9 DEF ClearWait, IInv, TypeOK
  <2>2. Over(req[p])
    BY <2>1 DEF IInv, WakeInv
  <2>3. \A r \in Pollers : Announces(r)'
    <3>1. \A r \in Pollers \ {p} : Announces(r)'
      BY <2>1, AnnouncesFrame
    <3>2. Announces(p)'
      BY <2>1 DEF Announces
    <3>3. QED
      BY <3>1, <3>2
  <2>4. ASSUME NEW w \in Workers PROVE Awaits(w)'
    <3>1. Awaits(w)
      BY DEF IInv, WakeInv, Awaits
    <3>2. wpc[w] # "idle" => asked[w] \in Queries
      BY CurrentRequest
    <3>3. QED
      BY <2>1, <2>2, <3>1, <3>2 DEF Awaits, Over
  <2>5. QED
    BY <2>1, <2>3, <2>4, WholeFrame, WakeFromParts
<1>10. QED
  BY <1>1, <1>2, <1>4, <1>5, <1>6, <1>7, <1>8, <1>9
     DEF Next, Network, Handle, DeviceAnswers, MessageFails, LoseBatch, vars

-----------------------------------------------------------------------------
(* The theorems *)

LEMMA NextIInv == IInv /\ [Next]_vars => IInv'
  BY NextTypeOK, NextNumberInv, NextAskInv, NextHandInv, NextPartInv, NextFreshInv, NextWakeInv
     DEF IInv

LEMMA AlwaysIInv == Spec => []IInv
  BY InitIInv, NextIInv, PTL DEF Spec

\* Every variable keeps its type, whatever gets lost and however pollers interleave.
THEOREM QueriesTypeCorrect == Spec => []TypeOK
<1>1. IInv => TypeOK
  BY DEF IInv
<1>2. QED
  BY <1>1, AlwaysIInv, PTL

\* RecordQueryHandler calls a request finished only when the vector holds every record
\* that the device has for it, for any number of queries, batches and pollers.
THEOREM FinishedAreWhole == Spec => []FinishedIsWhole
<1>1. IInv => FinishedIsWhole
  BY DEF IInv, WakeInv
<1>2. QED
  BY <1>1, AlwaysIInv, PTL

-----------------------------------------------------------------------------
(* The refinement *)

LEMMA ServiceInit == Init => Service!Init
  BY DEF Init, Service!Init

LEMMA SendMessageAsks ==
  ASSUME IInv, NEW w \in Workers, SendMessage(w)
  PROVE  Service!Ask(sn)
<1> USE DEF poller
<1>1. sn \in Queries /\ size[sn] = None
  BY QueryAssumption DEF SendMessage, IInv, TypeOK, NumberInv, Queries
<1>2. \E n \in 0 .. MaxFiles : size' = [size EXCEPT ![sn] = n]
  <2>1. CASE size' = [size EXCEPT ![sn] = 1]
    <3>1. 1 \in 0 .. MaxFiles
      BY QueryAssumption
    <3>2. QED
      BY <2>1, <3>1
  <2>2. CASE \E n \in 0 .. MaxFiles : size' = [size EXCEPT ![sn] = n]
    BY <2>2
  <2>3. QED
    BY <2>1, <2>2 DEF SendMessage
<1>3. UNCHANGED <<finished, answered, answer>>
  BY DEF SendMessage
<1>4. QED
  BY <1>1, <1>2, <1>3 DEF Service!Ask

LEMMA FinishedCompletes ==
  ASSUME IInv, NEW p \in Pollers, OnRequestFinished(p)
  PROVE  Service!Complete(req[p])
<1>1. req[p] \in Queries /\ size[req[p]] # None
  BY CurrentRequest, QueryAssumption DEF OnRequestFinished, PollerStep
<1>2. QED
  BY <1>1 DEF OnRequestFinished, worker, Service!Complete

LEMMA ReturnAnswers ==
  ASSUME IInv, NEW w \in Workers, Return(w)
  PROVE  Service!Answer(asked[w])
<1> DEFINE q == asked[w]
<1>1. wpc[w] = "return" /\ q \in Queries /\ q < sn
  BY CurrentRequest DEF Return, WorkerStep
<1>2. records[q] \subseteq Records(q) /\ q \notin answered /\ size[q] # None
  BY <1>1, QueryAssumption DEF IInv, PartInv, AskInv, NumberInv, Queries
<1>3. Service!Records(q) = Records(q)
  BY DEF Records, Service!Records
<1>4. Reply(q) \in SUBSET Service!Records(q)
  BY <1>2, <1>3 DEF Reply
<1>5. finished[q] => Reply(q) = Service!Records(q)
  BY <1>1, <1>3 DEF Reply, IInv, WakeInv, FinishedIsWhole
<1>6. /\ answer' = [answer EXCEPT ![q] = Reply(q)]
      /\ answered' = answered \cup {q} /\ UNCHANGED <<size, finished>>
  BY DEF Return, network, request
<1> HIDE DEF q
<1>7. Service!Answer(q)
  BY <1>2, <1>4, <1>5, <1>6 DEF Service!Answer
<1>8. QED
  BY <1>7 DEF q

LEMMA ServiceNext ==
  ASSUME IInv, [Next]_vars
  PROVE  [Service!Next]_Service!serviceVars
<1>1. ASSUME NEW w \in Workers, SendMessage(w) PROVE Service!Next
  <2>1. sn \in Queries
    BY <1>1, QueryAssumption DEF SendMessage, IInv, TypeOK, Queries
  <2>2. QED
    BY <1>1, <2>1, SendMessageAsks DEF Service!Next
<1>2. ASSUME NEW p \in Pollers, OnRequestFinished(p) PROVE Service!Next
  <2>1. req[p] \in Queries
    BY <1>2, CurrentRequest DEF OnRequestFinished, PollerStep
  <2>2. QED
    BY <1>2, <2>1, FinishedCompletes DEF Service!Next
<1>3. ASSUME NEW w \in Workers, Return(w) PROVE Service!Next
  <2>1. asked[w] \in Queries
    BY <1>3, CurrentRequest DEF Return, WorkerStep
  <2>2. QED
    BY <1>3, <2>1, ReturnAnswers DEF Service!Next
<1>4. CASE UNCHANGED <<size, finished, answered, answer>>
  BY <1>4 DEF Service!serviceVars
<1>5. QED
  BY <1>1, <1>2, <1>3, <1>4
     DEF Next, Ask, Network, Receive, Handle, AddRequest, SetWait, WaitResult, Wait,
         WakeSpuriously, FindRequest, FindNoRequest, HandleFailure, DeviceAnswers,
         MessageFails, LoseBatch, BeginInsert, EndInsert, Incomplete, OnRequestFinished,
         NobodyWaits, SomebodyWaits,
         Notify, ClearWait, vars, network, request, worker, poller

\* Seen from outside, a query is asked, completed and answered in one step each, once,
\* with records of its own only, and with all when they have come by then. It may be
\* answered with fewer, as HttpServer.cpp:471 has it, when a failure or nothing at all
\* wakes its thread.
THEOREM QueriesImplementService == Spec => ImplementsService
<1>1. Init => Service!Init
  BY ServiceInit
<1>2. IInv /\ [Next]_vars => [Service!Next]_Service!serviceVars
  BY ServiceNext
<1>3. QED
  BY <1>1, <1>2, AlwaysIInv, PTL DEF Spec, ImplementsService, Service!Spec

-----------------------------------------------------------------------------
(* No answer is left behind *)

\* A record that the device has for a query is in its vector, in a batch on its way,
\* or with a poller.
Carries(p, q, k) == Holds(p) /\ req[p] = q /\ k \in items[p]

Somewhere(q, k) ==
  \/ k \in records[q]
  \/ \E m \in messages : m.query = q /\ k \in m.records
  \/ \E p \in Pollers : Carries(p, q, k)

Underway(q) ==
  /\ \A k \in Records(q) : Somewhere(q, k)
  /\ ~finished[q] => Coming(q) \/ Counting(q)

\* The property holds because no record is missing: a poller that finds a vector
\* incomplete knows that one is with a batch, or with another poller.
UnderwayInv ==
  \A q \in Queries : q < sn /\ q \notin requests \cup lost \cup torn => Underway(q)

Bears(p, q) == req[p] = q /\ pc[p] \in {"insert", "store", "count"}

\* Any step that takes nothing away from the query.
LEMMA UnderwayFrame ==
  ASSUME IInv, [Next]_vars, NEW q \in Queries, q < sn, Underway(q),
         records[q] \subseteq records'[q],
         \A m \in messages : m.query = q => m \in messages',
         \A p \in Pollers : Bears(p, q) =>
           Bears(p, q)' /\ (Holds(p) => Holds(p)' /\ items'[p] = items[p]),
         finished'[q] = finished[q]
  PROVE  Underway(q)'
<1>1. Records(q)' = Records(q)
  BY KindFrame
<1>2. ASSUME NEW k \in Records(q) PROVE Somewhere(q, k)'
  <2>1. Somewhere(q, k)
    BY DEF Underway
  <2>2. CASE \E p \in Pollers : Carries(p, q, k)
    <3>1. PICK p \in Pollers : Carries(p, q, k)
      BY <2>2
    <3>2. Bears(p, q) /\ Holds(p)
      BY <3>1 DEF Bears, Carries, Holds
    <3>3. Carries(p, q, k)'
      BY <3>1, <3>2 DEF Bears, Carries
    <3>4. QED
      BY <3>3 DEF Somewhere
  <2>3. CASE k \in records[q] \/ \E m \in messages : m.query = q /\ k \in m.records
    BY <2>3 DEF Somewhere
  <2>4. QED
    BY <2>1, <2>2, <2>3 DEF Somewhere
<1>3. Coming(q) => Coming(q)'
  BY DEF Coming
<1>4. Counting(q) => Counting(q)'
  BY DEF Counting, Bears
<1>5. QED
  BY <1>1, <1>2, <1>3, <1>4 DEF Underway

\* The device sends every record, and one batch at least.
LEMMA AnswerUnderway ==
  ASSUME IInv, NEW q \in Queries, DeviceAnswers(q)
  PROVE  Underway(q)'
<1>1. q < sn
  BY DEF DeviceAnswers, IInv, NumberInv
<1>2. size[q] \in Nat /\ UNCHANGED <<size, records, finished>>
  BY <1>1, CurrentRequest DEF DeviceAnswers, request
<1>3. \A part \in Parts(q) : [query |-> q, records |-> {q} \X part] \in messages'
  BY DEF DeviceAnswers
<1>4. \A i \in 1 .. size[q] : \E part \in Parts(q) : i \in part
  <2>1. CASE kind[q] = "record" /\ size[q] > 0
    <3>1. size[q] \in Nat \ {0}
      BY <1>2, <2>1
    <3>2. \A i \in 1 .. size[q] : \E b \in 1 .. Batches(size[q]) : i \in Part(size[q], b)
      BY <3>1, BatchesPartition
    <3>3. \A b \in 1 .. Batches(size[q]) : Part(size[q], b) \in Parts(q)
      BY <2>1 DEF Parts, Batches
    <3>4. QED
      BY <3>2, <3>3
  <2>2. CASE ~(kind[q] = "record" /\ size[q] > 0)
    BY <2>2 DEF Parts
  <2>3. QED
    BY <2>1, <2>2
<1>5. Parts(q) # {}
  <2>1. CASE size[q] > 0
    BY <1>2, <1>4, <2>1
  <2>2. CASE ~(size[q] > 0)
    BY <2>2 DEF Parts
  <2>3. QED
    BY <2>1, <2>2
<1>6. ASSUME NEW k \in Records(q) PROVE Somewhere(q, k)'
  <2>1. PICK i \in 1 .. size[q] : k = <<q, i>>
    BY DEF Records
  <2>2. PICK part \in Parts(q) : i \in part
    BY <1>4
  <2>3. DEFINE m == [query |-> q, records |-> {q} \X part]
  <2>4. m \in messages' /\ m.query = q /\ k \in m.records
    BY <1>3, <2>1, <2>2
  <2>5. QED
    BY <2>4 DEF Somewhere
<1>7. Coming(q)'
  <2>1. PICK part \in Parts(q) : TRUE
    BY <1>5
  <2>2. [query |-> q, records |-> {q} \X part].query = q
    OBVIOUS
  <2>3. QED
    BY <1>3, <2>2 DEF Coming
<1>8. QED
  BY <1>2, <1>6, <1>7 DEF Underway, Records

\* A batch goes from the network to a poller.
LEMMA FoundUnderway ==
  ASSUME IInv, [Next]_vars, NEW p \in Pollers, NEW m \in messages, FindRequest(p, m),
         NEW q \in Queries, q < sn, Underway(q)
  PROVE  Underway(q)'
<1>1. req' = [req EXCEPT ![p] = m.query]
  BY DEF FindRequest, Matching
<1>2. /\ pc[p] = "idle" /\ pc'[p] = "insert" /\ req'[p] = m.query /\ items'[p] = m.records
      /\ \A r \in Pollers \ {p} : UNCHANGED <<pc[r], req[r], items[r]>>
      /\ messages' = messages \ {m} /\ UNCHANGED <<records, finished, size>>
  BY <1>1 DEF FindRequest, PollerStep, IInv, TypeOK, request
<1>3. CASE m.query = q
  <2>1. ASSUME NEW k \in Records(q) PROVE Somewhere(q, k)'
    <3>1. Somewhere(q, k)
      BY DEF Underway
    <3>2. CASE \E n \in messages : n.query = q /\ k \in n.records
      <4>1. PICK n \in messages : n.query = q /\ k \in n.records
        BY <3>2
      <4>2. CASE n = m
        BY <1>2, <1>3, <4>1, <4>2 DEF Somewhere, Carries, Holds
      <4>3. CASE n # m
        BY <1>2, <4>1, <4>3 DEF Somewhere
      <4>4. QED
        BY <4>2, <4>3
    <3>3. CASE \E r \in Pollers : Carries(r, q, k)
      <4>1. PICK r \in Pollers : Carries(r, q, k)
        BY <3>3
      <4>2. r # p
        BY <1>2, <4>1 DEF Carries, Holds
      <4>3. Carries(r, q, k)'
        BY <1>2, <4>1, <4>2 DEF Carries, Holds
      <4>4. QED
        BY <4>3 DEF Somewhere
    <3>4. CASE k \in records[q]
      BY <1>2, <3>4 DEF Somewhere
    <3>5. QED
      BY <3>1, <3>2, <3>3, <3>4 DEF Somewhere
  <2>2. Counting(q)'
    BY <1>2, <1>3 DEF Counting
  <2>3. QED
    BY <1>2, <2>1, <2>2 DEF Underway, Records
<1>4. CASE m.query # q
  <2>1. \A r \in Pollers : Bears(r, q) =>
          Bears(r, q)' /\ (Holds(r) => Holds(r)' /\ items'[r] = items[r])
    BY <1>2 DEF Bears, Holds
  <2>2. QED
    BY <1>2, <1>4, <2>1, UnderwayFrame
<1>5. QED
  BY <1>3, <1>4

\* What a poller inserts goes into the vector, unless the vector is torn.
LEMMA InsertUnderway ==
  ASSUME IInv, [Next]_vars, NEW p \in Pollers, EndInsert(p),
         NEW q \in Queries, q < sn, Underway(q), q \notin torn'
  PROVE  Underway(q)'
<1>1. /\ req[p] \in Queries /\ pc[p] = "store" /\ pc'[p] = "count"
      /\ \A r \in Pollers \ {p} : UNCHANGED <<pc[r], items[r]>>
      /\ UNCHANGED <<req, messages, finished, size>>
  BY CurrentRequest DEF EndInsert, PollerStep, IInv, TypeOK, network
<1>2. PICK kept \in SUBSET (records[req[p]] \ seen[p]) :
        /\ records' = [records EXCEPT ![req[p]] = seen[p] \cup kept \cup items[p]]
        /\ torn' = IF seen[p] \cup kept = records[req[p]] THEN torn
                                                         ELSE torn \cup {req[p]}
  BY DEF EndInsert
<1>3. CASE req[p] = q
  <2>1. records'[q] = records[q] \cup items[p]
    BY <1>1, <1>2, <1>3 DEF IInv, TypeOK
  <2>2. ASSUME NEW k \in Records(q) PROVE Somewhere(q, k)'
    <3>1. Somewhere(q, k)
      BY DEF Underway
    <3>2. CASE \E r \in Pollers : Carries(r, q, k)
      <4>1. PICK r \in Pollers : Carries(r, q, k)
        BY <3>2
      <4>2. CASE r = p
        BY <2>1, <4>1, <4>2 DEF Somewhere, Carries
      <4>3. CASE r # p
        <5>1. Carries(r, q, k)'
          BY <1>1, <4>1, <4>3 DEF Carries, Holds
        <5>2. QED
          BY <5>1 DEF Somewhere
      <4>4. QED
        BY <4>2, <4>3
    <3>3. CASE k \in records[q] \/ \E m \in messages : m.query = q /\ k \in m.records
      BY <1>1, <2>1, <3>3 DEF Somewhere
    <3>4. QED
      BY <3>1, <3>2, <3>3 DEF Somewhere
  <2>3. Counting(q)'
    BY <1>1, <1>3 DEF Counting
  <2>4. QED
    BY <1>1, <2>2, <2>3 DEF Underway, Records
<1>4. CASE req[p] # q
  <2>1. records'[q] = records[q]
    BY <1>2, <1>4 DEF IInv, TypeOK
  <2>2. \A r \in Pollers : Bears(r, q) =>
          Bears(r, q)' /\ (Holds(r) => Holds(r)' /\ items'[r] = items[r])
    BY <1>1, <1>4 DEF Bears, Holds
  <2>3. QED
    BY <1>1, <2>1, <2>2, UnderwayFrame
<1>5. QED
  BY <1>3, <1>4

\* Who counts too few records leaves the rest to those that have them.
LEMMA CountUnderway ==
  ASSUME IInv, [Next]_vars, NEW p \in Pollers, Incomplete(p),
         NEW q \in Queries, q < sn, Underway(q)
  PROVE  Underway(q)'
<1>1. /\ pc[p] = "count" /\ pc'[p] = "idle"
      /\ \A r \in Pollers \ {p} : UNCHANGED <<pc[r], req[r]>>
      /\ UNCHANGED <<items, messages, records, finished, size>>
  BY DEF Incomplete, PollerStep, IInv, TypeOK, network, request
<1>2. \A r \in Pollers \ {p} : /\ Bears(r, q) => Bears(r, q)'
                               /\ \A k : Carries(r, q, k) => Carries(r, q, k)'
  BY <1>1 DEF Bears, Carries, Holds
<1>3. \A k : ~Carries(p, q, k)
  BY <1>1 DEF Carries, Holds
<1>4. \A k : Somewhere(q, k) => Somewhere(q, k)'
  BY <1>1, <1>2, <1>3 DEF Somewhere
<1>5. Coming(q) => Coming(q)'
  BY <1>1 DEF Coming
<1>6. CASE req[p] = q
  <2>1. ~Complete(q)
    BY <1>6 DEF Incomplete
  <2>2. records[q] # Records(q)
    <3>1. size[q] \in Nat
      BY CurrentRequest
    <3>2. Cardinality(Records(q)) = size[q]
      <4>1. IsFiniteSet({q}) /\ Cardinality({q}) = 1
        BY FS_Singleton
      <4>2. IsFiniteSet(1 .. size[q]) /\ Cardinality(1 .. size[q]) = size[q]
        BY <3>1, FS_Interval
      <4>3. QED
        BY <3>1, <4>1, <4>2, FS_Product DEF Records
    <3>3. QED
      BY <2>1, <3>2 DEF Complete
  <2>3. PICK k \in Records(q) : k \notin records[q]
    BY <2>2 DEF IInv, PartInv
  <2>4. Somewhere(q, k)'
    BY <1>4 DEF Underway
  <2>5. CASE \E m \in messages : m.query = q /\ k \in m.records
    BY <1>1, <1>4, <2>5 DEF Underway, Coming, Records
  <2>6. CASE \E r \in Pollers : Carries(r, q, k)
    <3>1. PICK r \in Pollers : Carries(r, q, k)
      BY <2>6
    <3>2. r # p /\ Bears(r, q)
      BY <1>3, <3>1 DEF Carries, Bears, Holds
    <3>3. Bears(r, q)'
      BY <1>2, <3>2
    <3>4. Counting(q)'
      BY <3>3 DEF Counting, Bears
    <3>5. QED
      BY <1>1, <1>4, <3>4 DEF Underway, Records
  <2>7. QED
    BY <2>3, <2>5, <2>6 DEF Underway, Somewhere
<1>7. CASE req[p] # q
  <2>1. \A r \in Pollers : Bears(r, q) =>
          Bears(r, q)' /\ (Holds(r) => Holds(r)' /\ items'[r] = items[r])
    BY <1>1, <1>7 DEF Bears, Holds
  <2>2. QED
    BY <1>1, <2>1, UnderwayFrame
<1>8. QED
  BY <1>6, <1>7

\* Who counts enough finishes the query.
LEMMA FinishUnderway ==
  ASSUME IInv, [Next]_vars, NEW p \in Pollers, OnRequestFinished(p),
         NEW q \in Queries, q < sn, Underway(q)
  PROVE  Underway(q)'
<1>1. /\ pc[p] = "count" /\ req[p] \in Queries
      /\ \A r \in Pollers \ {p} : UNCHANGED <<pc[r]>>
      /\ finished' = [finished EXCEPT ![req[p]] = TRUE]
      /\ UNCHANGED <<req, items, messages, records, size>>
  BY CurrentRequest DEF OnRequestFinished, PollerStep, IInv, TypeOK, network
<1>2. CASE req[p] = q
  <2>1. finished'[q]
    BY <1>1, <1>2 DEF IInv, TypeOK
  <2>2. \A k : \A r \in Pollers : Carries(r, q, k) => Carries(r, q, k)'
    BY <1>1 DEF Carries, Holds
  <2>3. \A k : Somewhere(q, k) => Somewhere(q, k)'
    BY <1>1, <2>2 DEF Somewhere
  <2>4. QED
    BY <1>1, <2>1, <2>3 DEF Underway, Records
<1>3. CASE req[p] # q
  <2>1. \A r \in Pollers : Bears(r, q) =>
          Bears(r, q)' /\ (Holds(r) => Holds(r)' /\ items'[r] = items[r])
    BY <1>1, <1>3 DEF Bears, Holds
  <2>2. finished'[q] = finished[q]
    BY <1>1, <1>3 DEF IInv, TypeOK
  <2>3. QED
    BY <1>1, <2>1, <2>2, UnderwayFrame
<1>4. QED
  BY <1>2, <1>3

\* The other steps of a poller, or of the network, concern no record of the query.
LEMMA AsideUnderway ==
  ASSUME IInv, [Next]_vars, NEW q \in Queries, q < sn, Underway(q), q \notin lost',
         \/ \E w \in Workers : Ask(w)
         \/ \E r \in Queries : MessageFails(r) \/ DeviceAnswers(r)
         \/ \E m \in messages : LoseBatch(m)
         \/ \E p \in Pollers : \E m \in messages : FindNoRequest(p, m)
         \/ \E p \in Pollers : \E r \in Queries : HandleFailure(p, r)
         \/ \E p \in Pollers : \/ BeginInsert(p) \/ NobodyWaits(p) \/ SomebodyWaits(p)
                               \/ Notify(p) \/ ClearWait(p)
         \/ UNCHANGED vars
  PROVE  Underway(q)'
<1> USE DEF network, request, worker, poller, PollerStep
<1>1. records' = records /\ finished' = finished
  BY DEF Ask, SendMessage, AddRequest, SetWait, WaitResult, Wait, WakeSpuriously, Return,
     MessageFails, DeviceAnswers, LoseBatch, FindNoRequest, HandleFailure, BeginInsert,
     NobodyWaits, SomebodyWaits, Notify, ClearWait, vars
<1>2. \A m \in messages : m.query = q => m \in messages'
  BY DEF Ask, SendMessage, AddRequest, SetWait, WaitResult, Wait, WakeSpuriously, Return,
     MessageFails, DeviceAnswers, LoseBatch, FindNoRequest, HandleFailure, BeginInsert,
     NobodyWaits, SomebodyWaits, Notify, ClearWait, vars
<1>3. ASSUME NEW p \in Pollers, Bears(p, q)
      PROVE  Bears(p, q)' /\ (Holds(p) => Holds(p)' /\ items'[p] = items[p])
  <2>1. CASE UNCHANGED <<pc, req, items>>
    BY <1>3, <2>1 DEF Bears, Holds
  <2>2. ASSUME NEW r \in Pollers, BeginInsert(r)
        PROVE  Bears(p, q)' /\ (Holds(p) => Holds(p)' /\ items'[p] = items[p])
    BY <1>3, <2>2 DEF BeginInsert, Bears, Holds, IInv, TypeOK
  <2>3. ASSUME NEW r \in Pollers,
               \/ NobodyWaits(r) \/ SomebodyWaits(r) \/ Notify(r) \/ ClearWait(r)
               \/ \E d \in Queries : HandleFailure(r, d)
        PROVE  Bears(p, q)' /\ (Holds(p) => Holds(p)' /\ items'[p] = items[p])
    <3>1. pc[r] \in {"idle", "check", "finish", "notify", "clear"} /\ items' = items
      BY <2>3 DEF NobodyWaits, SomebodyWaits, Notify, ClearWait, HandleFailure
    <3>2. r # p
      BY <1>3, <3>1 DEF Bears
    <3>3. pc'[p] = pc[p] /\ req'[p] = req[p]
      BY <2>3, <3>2
         DEF NobodyWaits, SomebodyWaits, Notify, ClearWait, HandleFailure, IInv, TypeOK
    <3>4. QED
      BY <1>3, <3>1, <3>3 DEF Bears, Holds
  <2>4. QED
    BY <2>1, <2>2, <2>3
       DEF Ask, SendMessage, AddRequest, SetWait, WaitResult, Wait, WakeSpuriously,
           Return, MessageFails, DeviceAnswers, LoseBatch, FindNoRequest, vars
<1>4. QED
  BY <1>1, <1>2, <1>3, UnderwayFrame

LEMMA NextUnderwayInv ==
  ASSUME IInv, UnderwayInv, [Next]_vars
  PROVE  UnderwayInv'
<1>1. SUFFICES ASSUME NEW q \in Queries, q < sn', q \notin requests' \cup lost' \cup torn'
               PROVE  Underway(q)'
  BY DEF UnderwayInv
<1>2. CASE DeviceAnswers(q)
  BY <1>2, AnswerUnderway
<1>3. CASE ~DeviceAnswers(q)
  <2>1. q < sn /\ q \notin requests
    <3>1. CASE \E w \in Workers : SendMessage(w)
      <4>1. requests' = requests \cup {sn} /\ sn' = sn + 1 /\ sn \in Nat
        BY <3>1 DEF SendMessage, IInv, TypeOK
      <4>2. q # sn /\ q \notin requests /\ q \in Nat
        BY <1>1, <4>1 DEF Queries
      <4>3. QED
        BY <1>1, <4>1, <4>2
    <3>2. CASE /\ sn' = sn
               /\ \A r \in requests : r \notin requests' => DeviceAnswers(r)
      BY <1>1, <1>3, <3>2
    <3>3. QED
      BY <3>1, <3>2
         DEF Next, Ask, Network, Receive, Handle, AddRequest, SetWait, WaitResult, Wait,
             WakeSpuriously, Return, FindRequest, FindNoRequest, HandleFailure,
             DeviceAnswers, MessageFails, LoseBatch, BeginInsert, EndInsert, Incomplete,
             OnRequestFinished, NobodyWaits, SomebodyWaits, Notify, ClearWait, vars,
             network, request
  <2>2. lost \subseteq lost' /\ torn \subseteq torn'
    BY DEF Next, Ask, Network, Receive, Handle, SendMessage, AddRequest, SetWait,
       WaitResult, Wait, WakeSpuriously, Return, FindRequest, FindNoRequest,
       HandleFailure, DeviceAnswers, MessageFails, LoseBatch, BeginInsert, EndInsert,
       Incomplete, OnRequestFinished, NobodyWaits, SomebodyWaits, Notify, ClearWait, vars,
       network, request
  <2>3. Underway(q)
    BY <1>1, <2>1, <2>2 DEF UnderwayInv
  <2>4. CASE \E p \in Pollers : \/ EndInsert(p) \/ Incomplete(p) \/ OnRequestFinished(p)
                                \/ \E m \in messages : FindRequest(p, m)
    BY <1>1, <2>1, <2>3, <2>4, InsertUnderway, CountUnderway, FinishUnderway, FoundUnderway
  <2>5. CASE ~\E p \in Pollers : \/ EndInsert(p) \/ Incomplete(p) \/ OnRequestFinished(p)
                                 \/ \E m \in messages : FindRequest(p, m)
    BY <1>1, <2>1, <2>3, <2>5, AsideUnderway DEF Next, Network, Receive, Handle
  <2>6. QED
    BY <2>4, <2>5
<1>4. QED
  BY <1>2, <1>3

LEMMA InitUnderwayInv == Init => UnderwayInv
  BY DEF Init, UnderwayInv, Queries

\* No answer is left behind, for any number of queries, batches and pollers: until a
\* query is finished, its MESSAGE or a batch of its answer is on the way, or a poller
\* is about to count the records. The vector is looked at after every insertion, and
\* the last one finds all records.
THEOREM NoAnswerLeftBehind == Spec => []UnfinishedIsUnderway
<1>1. IInv /\ UnderwayInv => UnfinishedIsUnderway
  <2>1. SUFFICES ASSUME IInv, UnderwayInv, NEW q \in Queries, kind[q] # None, ~finished[q],
                        q \notin lost \cup torn, q \notin requests
                 PROVE  Coming(q) \/ Counting(q)
    BY DEF UnfinishedIsUnderway
  <2>2. q < sn
    BY <2>1 DEF IInv, NumberInv
  <2>3. QED
    BY <2>1, <2>2 DEF UnderwayInv, Underway
<1>2. QED
  BY <1>1, AlwaysIInv, InitUnderwayInv, NextUnderwayInv, PTL DEF Spec

-----------------------------------------------------------------------------
(* No wake-up is lost on a thread that waits already *)

\* A poller that is on the way to wake whoever waits for q.
Waker(p, q) == req[p] = q /\ pc[p] \in {"check", "finish", "notify"}

\* A thread that waits for a query which is neither finished nor failed is sure to be
\* woken: nobody has touched _b_wait since the thread set it.
LEMMA SureToWake ==
  ASSUME IInv, NEW w \in Workers, NEW q \in Queries,
         wpc[w] = "wait", asked[w] = q, ~finished[q], q \notin failed
  PROVE  WakesUp(q)
<1>1. waiting[q]
  BY DEF IInv, WakeInv, Over
<1>2. \A p \in Pollers : ~(req[p] = q /\ pc[p] = "clear")
  BY DEF IInv, WakeInv, Over
<1>3. QED
  BY <1>1, <1>2 DEF WakesUp

LEMMA WakesUpFrame ==
  ASSUME NEW q \in Queries, WakesUp(q), waiting'[q], finished'[q] = finished[q],
         \A p \in Pollers : /\ Waker(p, q) => Waker(p, q)'
                            /\ req'[p] = q /\ pc'[p] = "clear" => req[p] = q /\ pc[p] = "clear"
  PROVE  WakesUp(q)'
  BY DEF WakesUp, Waker

\* A step of one poller, which may be another's waker or no waker at all.
LEMMA PollerWakes ==
  ASSUME IInv, NEW p \in Pollers, Receive(p) \/ Handle(p), NEW q \in Queries,
         WakesUp(q), q \notin failed, NEW w \in Workers, wpc[w] = "wait", asked[w] = q
  PROVE  wpc'[w] = "return" \/ WakesUp(q)'
<1> USE DEF network, request, worker, PollerStep
<1>1. waiting[q] /\ ~(req[p] = q /\ pc[p] = "clear")
  BY DEF WakesUp
<1>2. CASE \/ BeginInsert(p) \/ EndInsert(p) \/ Incomplete(p)
           \/ \E m \in messages : FindRequest(p, m) \/ FindNoRequest(p, m)
  <2>1. UNCHANGED <<waiting, finished>>
    BY <1>2 DEF BeginInsert, EndInsert, Incomplete, FindRequest, FindNoRequest
  <2>2. \A r \in Pollers \ {p} : UNCHANGED <<pc[r], req[r]>>
    BY <1>2 DEF BeginInsert, EndInsert, Incomplete, FindRequest, FindNoRequest, IInv, TypeOK,
                poller
  <2>3. ~Waker(p, q) /\ pc'[p] # "clear"
    BY <1>2 DEF BeginInsert, EndInsert, Incomplete, FindRequest, FindNoRequest, Waker, IInv,
                TypeOK, poller
  <2>4. QED
    BY <1>1, <2>1, <2>2, <2>3, WakesUpFrame DEF Waker
<1>3. CASE OnRequestFinished(p)
  <2>1. /\ UNCHANGED <<waiting, req>>
        /\ pc[p] = "count" /\ pc' = [pc EXCEPT ![p] = "check"]
        /\ finished' = [finished EXCEPT ![req[p]] = TRUE]
    BY <1>3 DEF OnRequestFinished
  <2>2. CASE req[p] = q
    <3>1. pc'[p] = "check" /\ \A r \in Pollers \ {p} : pc'[r] = pc[r]
      BY <2>1 DEF IInv, TypeOK
    <3>2. QED
      BY <1>1, <2>1, <2>2, <3>1 DEF WakesUp
  <2>3. CASE req[p] # q
    <3>1. finished'[q] = finished[q]
      BY <2>1, <2>3 DEF IInv, TypeOK
    <3>2. QED
      BY <1>1, <2>1, <2>3, <3>1, WakesUpFrame DEF Waker, IInv, TypeOK
  <2>4. QED
    BY <2>2, <2>3
<1>4. CASE NobodyWaits(p)
  <2>1. req[p] # q
    BY <1>1, <1>4 DEF NobodyWaits
  <2>2. UNCHANGED <<waiting, finished>>
    BY <1>4 DEF NobodyWaits
  <2>3. \A r \in Pollers \ {p} : UNCHANGED <<pc[r], req[r]>>
    BY <1>4 DEF NobodyWaits, IInv, TypeOK
  <2>4. pc'[p] = "idle"
    BY <1>4 DEF NobodyWaits, IInv, TypeOK
  <2>5. QED
    BY <1>1, <2>1, <2>2, <2>3, <2>4, WakesUpFrame DEF Waker
<1>5. CASE SomebodyWaits(p)
  <2>1. UNCHANGED <<waiting, finished, req>>
    BY <1>5 DEF SomebodyWaits
  <2>2. pc'[p] \in {"finish", "notify"} /\ \A r \in Pollers \ {p} : pc'[r] = pc[r]
    BY <1>5 DEF SomebodyWaits, IInv, TypeOK
  <2>3. QED
    BY <1>1, <2>1, <2>2, WakesUpFrame DEF Waker
<1>6. CASE Notify(p)
  <2>1. CASE req[p] = q
    BY <1>6, <2>1 DEF Notify
  <2>2. CASE req[p] # q
    <3>1. UNCHANGED <<waiting, finished, req>>
      BY <1>6 DEF Notify
    <3>2. \A r \in Pollers \ {p} : pc'[r] = pc[r]
      BY <1>6 DEF Notify, IInv, TypeOK
    <3>3. QED
      BY <1>1, <2>2, <3>1, <3>2, WakesUpFrame DEF Waker
  <2>3. QED
    BY <2>1, <2>2
<1>7. CASE ClearWait(p)
  <2>1. /\ pc[p] = "clear" /\ req[p] # q
        /\ waiting' = [waiting EXCEPT ![req[p]] = FALSE] /\ finished' = finished
    BY <1>1, <1>7 DEF ClearWait
  <2>2. waiting'[q]
    BY <1>1, <2>1 DEF IInv, TypeOK
  <2>3. pc'[p] = "idle" /\ \A r \in Pollers \ {p} : UNCHANGED <<pc[r], req[r]>>
    BY <1>7 DEF ClearWait, IInv, TypeOK
  <2>4. QED
    BY <2>1, <2>2, <2>3, WakesUpFrame DEF Waker
<1>8. ASSUME NEW d \in Queries, HandleFailure(p, d)
      PROVE  WakesUp(q)'
  <2>1. pc[p] = "idle" /\ UNCHANGED <<waiting, finished>>
    BY <1>8 DEF HandleFailure
  <2>2. pc'[p] # "clear" /\ \A r \in Pollers \ {p} : UNCHANGED <<pc[r], req[r]>>
    BY <1>8 DEF HandleFailure, IInv, TypeOK
  <2>3. QED
    BY <1>1, <2>1, <2>2, WakesUpFrame DEF Waker
<1>9. QED
  BY <1>2, <1>3, <1>4, <1>5, <1>6, <1>7, <1>8 DEF Receive, Handle

\* The steps of threads and of the network touch neither pollers nor the flags, but to
\* set _b_wait.
LEMMA OthersWake ==
  ASSUME IInv, (\E v \in Workers : Ask(v)) \/ Network \/ UNCHANGED vars,
         NEW q \in Queries, WakesUp(q)
  PROVE  WakesUp(q)'
<1> USE DEF network, request, worker, poller
<1>1. waiting[q] /\ UNCHANGED <<pc, req, finished>>
  BY DEF WakesUp, Ask, SendMessage, AddRequest, SetWait, WaitResult, Wait, WakeSpuriously,
     Return, Network, DeviceAnswers, MessageFails, LoseBatch, vars
<1>2. waiting'[q]
  <2>1. ASSUME NEW v \in Workers, SetWait(v) PROVE waiting'[q]
    BY <1>1, <2>1 DEF SetWait, IInv, TypeOK
  <2>2. CASE waiting' = waiting
    BY <1>1, <2>2
  <2>3. QED
    BY <2>1, <2>2 DEF Ask, SendMessage, AddRequest, WaitResult, Wait, WakeSpuriously,
       Return, Network, DeviceAnswers, MessageFails, LoseBatch, vars
<1>3. QED
  BY <1>1, <1>2, WakesUpFrame DEF Waker

\* No wake-up is lost on a thread that waits already when its query is finished, for any
\* number of pollers and threads: Finish clears _b_wait after it has notified, and a
\* second poller that finds it cleared comes too late to matter.
THEOREM WakeupsArrive == Spec => NoWakeupLost
<1>1. ASSUME IInv, [Next]_vars, NEW w \in Workers, NEW q \in Queries,
             wpc[w] = "wait", asked[w] = q, q \notin failed', ~finished[q] \/ WakesUp(q)
      PROVE  wpc'[w] = "return" \/ WakesUp(q)'
  <2>1. q \notin failed
    BY <1>1 DEF Next, Ask, Network, Receive, Handle, SendMessage, AddRequest, SetWait,
       WaitResult, Wait, WakeSpuriously, Return, FindRequest, FindNoRequest,
       HandleFailure, DeviceAnswers, MessageFails, LoseBatch, BeginInsert, EndInsert,
       Incomplete, OnRequestFinished, NobodyWaits, SomebodyWaits, Notify, ClearWait, vars,
       network
  <2>2. WakesUp(q)
    BY <1>1, <2>1, SureToWake
  <2>3. QED
    BY <1>1, <2>1, <2>2, PollerWakes, OthersWake DEF Next
<1>2. IInv /\ [Next]_vars =>
        [\A w \in Workers : \A q \in Queries :
           wpc[w] = "wait" /\ asked[w] = q /\ q \notin failed' /\ (~finished[q] \/ WakesUp(q))
             => wpc'[w] = "return" \/ WakesUp(q)']_vars
  BY <1>1
<1>3. QED
  BY <1>2, AlwaysIInv, PTL DEF Spec, NoWakeupLost
=============================================================================
