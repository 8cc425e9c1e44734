------------------------------ MODULE MCInstall -------------------------------
(* Three releases, installed in any order over each starting layout.        *)
EXTENDS Install, TLC

CONSTANTS r1, r2, r3

Alike == Permutations(Releases)
==============================================================================
