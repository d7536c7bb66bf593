--------------------------- MODULE MCDeviceQueries ---------------------------
(* Small instances of DeviceQueries for TLC. *)
EXTENDS DeviceQueries, TLC
=============================================================================
