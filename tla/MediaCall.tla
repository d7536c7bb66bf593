------------------------------ MODULE MediaCall ------------------------------
(***************************************************************************)
(* What the two ends of a GB28181 call rely on, without the threads,       *)
(* tables and hooks of either: an INVITE is sent once, answered once and   *)
(* acknowledged once, each of them only while the call is up, and media    *)
(* does not start before the acknowledgement.  It may start, and go on,    *)
(* after the call is over: the device learns of that later.                *)
(*                                                                         *)
(* CallSessions implements this for the calls that SipService opens, and   *)
(* DeviceSessions for the calls that reach SipClient and their live media. *)
(***************************************************************************)
CONSTANT Calls

VARIABLES
  state,   \* how far each call has come
  sending  \* the calls whose media flows

callVars == <<state, sending>>

Up == {"inviting", "answered", "acked"}

Init ==
  /\ state = [c \in Calls |-> "none"]
  /\ sending = {}

Proceed(c, from, to) ==
  /\ state[c] = from
  /\ state' = [state EXCEPT ![c] = to]
  /\ UNCHANGED sending

Invite(c) == Proceed(c, "none", "inviting")

Answer(c) == Proceed(c, "inviting", "answered")

Acknowledge(c) == Proceed(c, "answered", "acked")

\* Rejected, cancelled or hung up; with it, its media may stop.
End(c) ==
  /\ state[c] \in Up
  /\ state' = [state EXCEPT ![c] = "over"]
  /\ sending' \in {sending, sending \ {c}}

StartSending(c) ==
  /\ state[c] \in {"acked", "over"}
  /\ sending' = sending \cup {c}
  /\ UNCHANGED state

StopSending ==
  /\ sending' \in SUBSET sending
  /\ UNCHANGED state

Next ==
  \/ StopSending
  \/ \E c \in Calls : \/ Invite(c) \/ Answer(c) \/ Acknowledge(c) \/ End(c)
                      \/ StartSending(c)

Spec == Init /\ [][Next]_callVars
=============================================================================
