--------------------------- MODULE TrainingLedger ---------------------------
(***************************************************************************)
(* What training promises, with no requests, transactions or versions:     *)
(* rosters that students are put on one at a time.  Training implements    *)
(* it: see Rosters in Training.                                            *)
(***************************************************************************)
EXTENDS FiniteSets, Naturals, Sequences

CONSTANTS
    Groups, Enrollments, GroupSession, GroupCoach, Places, EnrollmentSession, Admin

VARIABLES
    roster,     \* of each group, the enrollments on it
    journal,    \* of each group, who put whom on its roster
    confirmed   \* the enrollments that are

\* By the coach of the group or the administrator, on the one roster it is on.
Assign(by, e, g) ==
    /\ by \in {GroupCoach[g], Admin}
    /\ e \in confirmed
    /\ EnrollmentSession[e] = GroupSession[g]
    /\ \A h \in Groups : e \notin roster[h]
    /\ Cardinality(roster[g]) < Places[g]
    /\ roster' = [roster EXCEPT ![g] = @ \cup {e}]
    /\ journal' = [journal EXCEPT ![g] = Append(@, [actor |-> by, enrollment |-> e])]
    /\ UNCHANGED confirmed

FactsMove ==
    /\ confirmed' \subseteq Enrollments
    /\ UNCHANGED <<roster, journal>>

LedgerInit ==
    /\ roster = [g \in Groups |-> {}]
    /\ journal = [g \in Groups |-> <<>>]
    /\ confirmed = Enrollments

LedgerNext ==
    \/ \E e \in Enrollments, g \in Groups, by \in {GroupCoach[h] : h \in Groups} \cup {Admin} :
        Assign(by, e, g)
    \/ FactsMove

LedgerSpec == LedgerInit /\ [][LedgerNext]_<<roster, journal, confirmed>>
=============================================================================
