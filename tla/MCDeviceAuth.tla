---------------------------- MODULE MCDeviceAuth ----------------------------
(***************************************************************************)
(* Instances of DeviceAuth for TLC.  Redemption calls, clients and token   *)
(* checks are interchangeable; code ids are ordered, so they are not.      *)
(***************************************************************************)
EXTENDS DeviceAuth, TLC

MCSymmetry ==
  Permutations(Calls) \cup Permutations(Clients) \cup Permutations(Checks)

=============================================================================
