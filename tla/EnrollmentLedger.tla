-------------------------- MODULE EnrollmentLedger --------------------------
(***************************************************************************)
(* What enrollment promises, with no requests, transactions or versions:   *)
(* a register of seats in which each change happens at once.               *)
(* Enrollment implements it: see Ledger in Enrollment.                     *)
(***************************************************************************)
EXTENDS Domain, FiniteSets, Naturals

CONSTANTS Students, Sessions, Capacity, OldEnough, Minor

VARIABLES
    status,     \* of each session
    confirmed,  \* the students who have a seat in it
    owed,       \* the students it owes a make-up
    consent, certified, qualified   \* what others say of students and coaches

facts == <<consent, certified, qualified>>

LedgerInit ==
    /\ status = [s \in Sessions |-> "scheduled"]
    /\ confirmed = [s \in Sessions |-> {}]
    /\ owed = [s \in Sessions |-> {}]
    /\ consent = Students \X Sessions
    /\ certified = Students \X Sessions
    /\ qualified = Sessions

\* A student gets one of the seats that are left, being entitled to it now.
Confirm(st, s) ==
    /\ status[s] = "scheduled"
    /\ st \notin confirmed[s]
    /\ Cardinality(confirmed[s]) < Capacity[s]
    /\ <<st, s>> \in OldEnough \cap certified
    /\ <<st, s>> \in Minor => <<st, s>> \in consent
    /\ s \in qualified
    /\ confirmed' = [confirmed EXCEPT ![s] = @ \cup {st}]
    /\ UNCHANGED <<status, owed, facts>>

\* Everybody who had a seat is owed a make-up.
Cancel(s) ==
    /\ status[s] = "scheduled"
    /\ status' = [status EXCEPT ![s] = "canceled"]
    /\ owed' = [owed EXCEPT ![s] = confirmed[s]]
    /\ confirmed' = [confirmed EXCEPT ![s] = {}]
    /\ UNCHANGED facts

Progress(s, to) ==
    /\ to # "canceled"
    /\ ValidTransition("course", status[s], to)
    /\ status' = [status EXCEPT ![s] = to]
    /\ UNCHANGED <<confirmed, owed, facts>>

FactsMove ==
    /\ consent' \subseteq Students \X Sessions
    /\ certified' \subseteq Students \X Sessions
    /\ qualified' \subseteq Sessions
    /\ UNCHANGED <<status, confirmed, owed>>

LedgerNext ==
    \/ \E s \in Sessions :
        \/ \E st \in Students : Confirm(st, s)
        \/ Cancel(s)
        \/ \E to \in {"in_progress", "completed"} : Progress(s, to)
    \/ FactsMove

LedgerSpec == LedgerInit /\ [][LedgerNext]_<<status, confirmed, owed, facts>>
=============================================================================
