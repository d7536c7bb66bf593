-------------------------- MODULE MCChannelCatalog --------------------------
(* Small instances of ChannelCatalog for TLC. *)
EXTENDS ChannelCatalog, TLC

\* Devices, their objects, channels and threads of a kind are interchangeable.
Symmetry ==
  Permutations(Devices) \cup Permutations(Objects) \cup Permutations(Channels)
    \cup Permutations(Pollers) \cup Permutations(Workers)
=============================================================================
