----------------------------- MODULE QueryService -----------------------------
(***************************************************************************)
(* What /record/query and /preset/query of SipService promise, without the *)
(* threads and messages of DeviceQueries: a query is answered at most      *)
(* once, with records of its own only, and with all of them when they have *)
(* been received by then.  Otherwise it is answered with what there is,    *)
(* whether or not that is all.                                             *)
(***************************************************************************)
EXTENDS Naturals

CONSTANTS
  Queries,
  MaxFiles,  \* bound: how many records a device has for a query
  None

VARIABLES
  size,      \* of a query that has been asked: how many records there are
  complete,  \* have they all been received?
  answered,  \* the queries that have been answered
  answer     \* with which records

serviceVars == <<size, complete, answered, answer>>

Records(q) == {q} \X (1 .. size[q])

Init ==
  /\ size = [q \in Queries |-> None]
  /\ complete = [q \in Queries |-> FALSE]
  /\ answered = {}
  /\ answer = [q \in Queries |-> {}]

Ask(q) ==
  /\ size[q] = None
  /\ \E n \in 0 .. MaxFiles : size' = [size EXCEPT ![q] = n]
  /\ UNCHANGED <<complete, answered, answer>>

Complete(q) ==
  /\ size[q] # None
  /\ complete' = [complete EXCEPT ![q] = TRUE]
  /\ UNCHANGED <<size, answered, answer>>

Answer(q) ==
  /\ size[q] # None /\ q \notin answered
  /\ \E records \in SUBSET Records(q) :
       /\ complete[q] => records = Records(q)
       /\ answer' = [answer EXCEPT ![q] = records]
  /\ answered' = answered \cup {q}
  /\ UNCHANGED <<size, complete>>

Next == \E q \in Queries : Ask(q) \/ Complete(q) \/ Answer(q)

Spec == Init /\ [][Next]_serviceVars
=============================================================================
