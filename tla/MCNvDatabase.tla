---------------------------- MODULE MCNvDatabase ----------------------------
(* The instances of NvDatabase that TLC checks.                            *)
EXTENDS NvDatabase, TLC

(* Nothing compares processes and files but by equality.                   *)
ProcessSymmetry == Permutations(Processes) \union Permutations(Files)

(* What follows an orphan is not explored where the properties do not      *)
(* speak of it.                                                            *)
NoOrphan == ~orphaned
=============================================================================
