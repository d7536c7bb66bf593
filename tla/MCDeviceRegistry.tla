-------------------------- MODULE MCDeviceRegistry --------------------------
(* Small instances of DeviceRegistry for TLC. *)
EXTENDS DeviceRegistry, TLC

\* Pollers and Device objects are interchangeable.
Symmetry ==
  Permutations(Pollers) \cup Permutations(Objects)
=============================================================================
