---------------------------- MODULE MCPluginLife ----------------------------
(* The instance of PluginLife that TLC checks.                             *)
EXTENDS PluginLife, TLC

(* Nothing compares hosts, addresses and handles but by equality.          *)
HostSymmetry ==
  Permutations(Hosts) \union Permutations(Objects) \union Permutations(Handles)
=============================================================================
