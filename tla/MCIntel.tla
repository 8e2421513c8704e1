------------------------------ MODULE MCIntel ------------------------------
(***************************************************************************)
(* An instance of Intel for TLC: two runs with a key each, and one that    *)
(* shares both and whose least key is a new one.                           *)
(***************************************************************************)
EXTENDS Intel

CONSTANTS r1, r2, r3

MCKeysOf == [r \in Runs |-> CASE r = r1 -> {2} [] r = r2 -> {3} [] r = r3 -> {1, 2, 3}]
=============================================================================
