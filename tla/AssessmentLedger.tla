-------------------------- MODULE AssessmentLedger --------------------------
(***************************************************************************)
(* What assessment promises, with no requests, transactions or versions:   *)
(* a verdict is given, certified and written down at once.  Assessment     *)
(* implements it: see Verdicts in Assessment.                              *)
(***************************************************************************)
EXTENDS Domain, Sequences

CONSTANTS
    Assessments, Certificates, CertificateOf, ExaminerOf, Admin, NoExaminer

VARIABLES
    status,     \* of each assessment
    granted,    \* of each certificate, who granted it last
    journal,    \* of each assessment, its verdicts and who published them
    qualified   \* the assessments whose examiner is

\* The examiner, who has to be qualified now, or the administrator publishes.
Publish(by, a, verdict) ==
    /\ status[a] = "submitted"
    /\ a \in qualified
    /\ by \in {ExaminerOf[a], Admin}
    /\ status' = [status EXCEPT ![a] = verdict]
    /\ granted' = IF verdict = "passed"
                  THEN [granted EXCEPT ![CertificateOf[a]] = ExaminerOf[a]]
                  ELSE granted
    /\ journal' = [journal EXCEPT ![a] = Append(@, [actor |-> by, status |-> verdict])]
    /\ UNCHANGED qualified

\* What has passed is never submitted again.
Submit(a) ==
    /\ status[a] \in {"draft", "failed"}
    /\ status' = [status EXCEPT ![a] = "submitted"]
    /\ UNCHANGED <<granted, journal, qualified>>

FactsMove ==
    /\ qualified' \subseteq Assessments
    /\ UNCHANGED <<status, granted, journal>>

LedgerInit ==
    /\ status = [a \in Assessments |-> "draft"]
    /\ granted = [c \in Certificates |-> NoExaminer]
    /\ journal = [a \in Assessments |-> <<>>]
    /\ qualified = Assessments

LedgerNext ==
    \/ \E a \in Assessments, verdict \in {"passed", "failed"} :
        \E by \in {ExaminerOf[a], Admin} : Publish(by, a, verdict)
    \/ \E a \in Assessments : Submit(a)
    \/ FactsMove

LedgerSpec == LedgerInit /\ [][LedgerNext]_<<status, granted, journal, qualified>>
=============================================================================
