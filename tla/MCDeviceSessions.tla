-------------------------- MODULE MCDeviceSessions --------------------------
(* Small instances of DeviceSessions for TLC. *)
EXTENDS DeviceSessions, TLC

\* Calls, channels and targets are interchangeable.
Symmetry ==
  Permutations(Calls) \cup Permutations(Channels) \cup Permutations(Targets)
=============================================================================
