---------------------------- MODULE MCPtzCommands ----------------------------
(* An instance of PtzCommands for TLC: all values of a byte and some beyond. *)
EXTENDS PtzCommands

MCValues == (-3 .. 300) \cup {4095, 4096, 65536, -256, -1073741000, 1073741000}
=============================================================================
