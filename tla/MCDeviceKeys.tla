---------------------------- MODULE MCDeviceKeys ----------------------------
(***************************************************************************)
(* DeviceKeys for TLC: two locks, which are alike, a flow of config_flow   *)
(* and, beside it, a second flow or what is started from the lock's device *)
(* page.                                                                   *)
(***************************************************************************)
EXTENDS DeviceKeys, TLC

CONSTANTS lockA, lockB, flow, button

MCMac == {lockA, lockB}
MCSymmetry == Permutations(MCMac)
MCTask == {flow, button}
MCOps == (flow   :> {"add", "activate", "import"}) @@
         (button :> {"activate", "refresh", "refreshAll", "sync", "route"})
=============================================================================
