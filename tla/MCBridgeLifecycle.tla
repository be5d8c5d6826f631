-------------------------- MODULE MCBridgeLifecycle --------------------------
(* Instances of BridgeLifecycle for TLC: commands are alike. *)
EXTENDS BridgeLifecycle, TLC

Symmetry == Permutations(Commands)
=============================================================================
