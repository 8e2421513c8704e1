---------------------------- MODULE MCAdmission ----------------------------
(***************************************************************************)
(* Instances of Admission for TLC: two windows, two quotas that differ in  *)
(* the longer one, and one block, which expires.                           *)
(***************************************************************************)
EXTENDS Admission, TLC

CONSTANTS block, peer

MCShape == block :> [type |-> "peer_block_put", value |-> peer, expires |-> TRUE]

MCLength == [minute |-> 1, day |-> 2]

MCLow == [minute |-> 1, day |-> 1]

MCLimits == {MCLow, [minute |-> 1, day |-> 2]}

MCSymmetry == Permutations(Handlers) \cup Permutations(Addresses)
=============================================================================
