----------------------------- MODULE MCCollector -----------------------------
(***************************************************************************)
(* Instances of Collector for TLC: copies carry the same stamp, m3 carries *)
(* none.                                                                   *)
(***************************************************************************)
EXTENDS Collector, TLC

CONSTANTS c1, c2, m1, m2, m3, a1

OneMail == m1 :> a1

TwoCopies == m1 :> a1 @@ m2 :> a1

TwoCopiesAndBare == m1 :> a1 @@ m2 :> a1 @@ m3 :> NoStamp
=============================================================================
