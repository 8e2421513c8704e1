---------------------------- MODULE EvidenceTrail ----------------------------
(***************************************************************************)
(* What the pipeline promises about each run to the submitter and to an    *)
(* auditor, whatever the queue goes through: the durable evidence of a run *)
(* grows in one order (analysis, signed bundle, result record, announced   *)
(* reply), the reply is mailed only after all of it is on disk, it is      *)
(* mailed at most once, and the attempt is closed as accepted only if it   *)
(* was mailed.                                                             *)
(***************************************************************************)
EXTENDS Naturals

CONSTANT Runs

VARIABLES
    stage,      \* how far the durable evidence of each run has grown
    replies,    \* per run: the messages that were mailed
    outcome     \* per run: the recorded outcome of the reply attempt

trail == <<stage, replies, outcome>>

Stage == <<"none", "analysed", "sealed", "recorded", "announced">>

TrailInit ==
    /\ stage = [r \in Runs |-> 1]
    /\ replies = [r \in Runs |-> 0]
    /\ outcome = [r \in Runs |-> "started"]

Advance(r) ==
    /\ stage[r] < 5
    /\ stage' = [stage EXCEPT ![r] = @ + 1]
    /\ UNCHANGED <<replies, outcome>>

Mail(r) ==
    /\ Stage[stage[r]] = "announced"
    /\ outcome[r] = "started"
    /\ replies[r] = 0
    /\ replies' = [replies EXCEPT ![r] = 1]
    /\ UNCHANGED <<stage, outcome>>

Close(r) ==
    /\ Stage[stage[r]] = "announced"
    /\ outcome[r] = "started"
    /\ \E o \in {"accepted", "failed", "unknown"} :
         /\ o = "accepted" => replies[r] = 1
         /\ outcome' = [outcome EXCEPT ![r] = o]
    /\ UNCHANGED <<stage, replies>>

TrailNext == \E r \in Runs : Advance(r) \/ Mail(r) \/ Close(r)

TrailSpec == TrailInit /\ [][TrailNext]_trail
=============================================================================
