----------------------- MODULE MCDeviceRegistration -----------------------
(* Small instances of DeviceRegistration for TLC. *)
EXTENDS DeviceRegistration, TLC

\* Pollers and Device objects are interchangeable.
Symmetry == Permutations(Pollers) \cup Permutations(Objects)
=============================================================================
