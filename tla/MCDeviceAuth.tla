---------------------------- MODULE MCDeviceAuth ----------------------------
(* Instances of DeviceAuth for TLC. *)
EXTENDS DeviceAuth, TLC

Symmetry == Permutations(Flows) \cup Permutations(Codes) \cup Permutations(Tokens)
=============================================================================
