---------------------------- MODULE MCUsageStats ----------------------------
(* A small instance of UsageStats for TLC.                                 *)
EXTENDS UsageStats

CONSTANTS u1, u2

(* "-1", "010" and "5x".                                                   *)
Texts == {<<45, 49>>, <<48, 49, 48>>, <<53, 120>>}
Users == Permutations({u1, u2})
=============================================================================
