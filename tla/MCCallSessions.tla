--------------------------- MODULE MCCallSessions ---------------------------
(* Small instances of CallSessions for TLC. *)
EXTENDS CallSessions, TLC

\* Threads of a kind and session objects are interchangeable.
Symmetry ==
  Permutations(Workers) \cup Permutations(Pollers) \cup Permutations(Sessions)
=============================================================================
