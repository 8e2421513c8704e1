------------------------------ MODULE MCPolicy ------------------------------
(***************************************************************************)
(* Instances of Policy for TLC: an allowlist rule, which the legacy file   *)
(* has too, and a block that expires.                                      *)
(***************************************************************************)
EXTENDS Policy, TLC

CONSTANTS s1, s2, a1, c1, c2, k1, k2, t1, t2, r1, r2, example, peer, low, high

MCShape == [r \in Rules |->
    IF r = r1 THEN [type |-> "subject_allowlist_put", value |-> example, expires |-> FALSE]
    ELSE [type |-> "peer_block_put", value |-> peer, expires |-> TRUE]]

MCImported == {r1}

MCSymmetry == Permutations(Submitters) \cup Permutations(Codes) \cup Permutations(Secrets)
              \cup Permutations(Tokens) \cup Permutations(Keys)
=============================================================================
