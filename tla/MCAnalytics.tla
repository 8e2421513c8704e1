---------------------------- MODULE MCAnalytics ----------------------------
(***************************************************************************)
(* Instances of Analytics for TLC: days of two units of time, hours and    *)
(* minutes of one.  Retention drops a minute as soon as it is over, an     *)
(* hour one unit later, and no day within the bound on the clock.          *)
(***************************************************************************)
EXTENDS Analytics

MCLength == [minute |-> 1, hour |-> 1, day |-> 2]

MCTruncate == [l \in Levels |-> [t \in Time |-> t - (t % MCLength[l])]]

MCKeep == [minute |-> 0, hour |-> 1, day |-> 4]
=============================================================================
