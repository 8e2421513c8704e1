------------------------------- MODULE Intake -------------------------------
(***************************************************************************)
(* What the collector promises about a message in the Maildir, however     *)
(* many collectors run and wherever they stop: the message is sealed, then *)
(* it gets one outcome for ever, a run or a rejection, and a run needs a   *)
(* stamp that was spent on that message and on no other.                   *)
(***************************************************************************)
CONSTANTS Mails, Decisions, Stamp, NoMail

VARIABLES
    sealed,     \* messages in the artifact store
    outcome,    \* per message: "none", "run" or "rejected"
    spent       \* per decision: the message its stamp was spent on

intake == <<sealed, outcome, spent>>

IntakeInit ==
    /\ sealed = {}
    /\ outcome = [m \in Mails |-> "none"]
    /\ spent = [d \in Decisions |-> NoMail]

SealMail(m) ==
    /\ sealed' = sealed \cup {m}
    /\ UNCHANGED <<outcome, spent>>

Spend(m) ==
    /\ m \in sealed
    /\ Stamp[m] \in Decisions
    /\ spent[Stamp[m]] = NoMail
    /\ spent' = [spent EXCEPT ![Stamp[m]] = m]
    /\ UNCHANGED <<sealed, outcome>>

Accept(m) ==
    /\ outcome[m] = "none"
    /\ Stamp[m] \in Decisions
    /\ spent[Stamp[m]] = m
    /\ outcome' = [outcome EXCEPT ![m] = "run"]
    /\ UNCHANGED <<sealed, spent>>

Refuse(m) ==
    /\ m \in sealed
    /\ outcome[m] = "none"
    /\ outcome' = [outcome EXCEPT ![m] = "rejected"]
    /\ UNCHANGED <<sealed, spent>>

IntakeNext == \E m \in Mails : SealMail(m) \/ Spend(m) \/ Accept(m) \/ Refuse(m)

IntakeSpec == IntakeInit /\ [][IntakeNext]_intake
=============================================================================
