----------------------------- MODULE Assessment -----------------------------
(***************************************************************************)
(* internal/assessment: Service.Publish, which turns a submitted           *)
(* assessment into a passed or a failed one and grants the certification   *)
(* of a passed one in the same transaction.                                *)
(*                                                                         *)
(* A certificate is a key of the certifications table: student, sport and  *)
(* level.  db.qualified holds the assessments whose examiner has an active *)
(* qualification for their sport and level now.  Other programs create and *)
(* submit assessments and edit qualifications.  Ids without a row are not  *)
(* among Assessments: they are refused.                                    *)
(***************************************************************************)
EXTENDS Requests, Domain, FiniteSets, Naturals, Sequences

CONSTANTS
    Assessments, Certificates, Examiners,
    CertificateOf,      \* of each assessment
    ExaminerOf,         \* of each assessment
    Admin, NoExaminer,
    Callers,            \* accounts that publish: examiners' and the administrator's
    Scores,
    MaxVersion          \* bound: the last version that is submitted again

ASSUME PeopleAssumption ==
    /\ CertificateOf \in [Assessments -> Certificates]
    /\ ExaminerOf \in [Assessments -> Examiners]
    /\ Callers \subseteq Examiners \cup {Admin}
    /\ Admin \notin Examiners /\ NoExaminer \notin Examiners
ASSUME ScoreAssumption == Scores \subseteq 0..100
ASSUME VersionAssumption == MaxVersion \in Nat

vars == <<storeVars, requestVars>>

AssessmentStates == {"draft", "submitted", "passed", "failed"}
AssessmentRows == [status: AssessmentStates, version: Nat]
Events == [actor: Callers, status: {"passed", "failed"}]
Databases ==
    [assessment: [Assessments -> AssessmentRows],
     granted: [Certificates -> Examiners \cup {NoExaminer}],    \* granted_by
     qualified: SUBSET Assessments,
     audit: [Assessments -> Seq(Events)]]

\* PublishRequest, with the account that sends it.
PublishRequests ==
    [assessment: Assessments, score: Scores, version: 1..MaxVersion + 1, as: Callers]
Points == {"idle", "begin", "checked", "granting", "written"}

-----------------------------------------------------------------------------
Target(score) == IF score >= 70 THEN "passed" ELSE "failed"

\* The role and a score out of range are refused before the transaction.
Rejected(p, role, score) ==
    /\ pc[p] = "idle"
    /\ role \notin {"coach", "administrator"} \/ score \notin 0..100
    /\ Answer(p, "refused")
    /\ UNCHANGED storeVars

Begin(p, r) ==
    /\ Take(p, r, "begin")
    /\ UNCHANGED <<storeVars, seen>>

\* The examiner or an administrator publishes, the edge exists, and it is the
\* examiner who has to be qualified, whoever publishes.
Publishable(d, r) ==
    /\ r.as \in {ExaminerOf[r.assessment], Admin}
    /\ ValidTransition("assessment", d.assessment[r.assessment].status, Target(r.score))
    /\ r.assessment \in d.qualified

\* Mutant: the rows are read on the pool and not in the transaction.
PublishReadOutside(p) ==
    /\ pc[p] = "begin"
    /\ Publishable(db, req[p])
    /\ Saw(p, db.assessment[req[p].assessment], "checked")
    /\ UNCHANGED storeVars

\* The two SELECTs, of one snapshot, and the checks on them.
PublishRead(p) ==
    /\ pc[p] = "begin"
    /\ Publishable(db, req[p])
    /\ TakeSnapshot(p)
    /\ Saw(p, db.assessment[req[p].assessment], "checked")

PublishRefused(p) ==
    /\ pc[p] = "begin"
    /\ ~Publishable(db, req[p])
    /\ GiveUp(p, "refused")

\* Mutant: the status alone guards the UPDATE.
UnpublishedOnly(d, r) == d.assessment[r.assessment].status = "submitted"

\* The UPDATE, under the version that the request expects and not the one
\* that was read.
Unpublished(d, r) ==
    /\ d.assessment[r.assessment].version = r.version
    /\ d.assessment[r.assessment].status = "submitted"

SetVerdict(d, r) ==
    [d EXCEPT !.assessment[r.assessment] =
        [status |-> Target(r.score), version |-> @.version + 1]]

PublishUpdate(p) ==
    /\ pc[p] = "checked"
    /\ Unpublished(db, req[p])
    /\ Write(p, SetVerdict(db, req[p]))
    /\ Goto(p, "granting")

PublishConflict(p) ==
    /\ pc[p] = "checked"
    /\ MayWrite(p)
    /\ ~Unpublished(db, req[p])
    /\ GiveUp(p, "version_conflict")

\* Mutant: a failed assessment renews the certificate too.
GrantAlways(d, r) ==
    [d EXCEPT !.granted[CertificateOf[r.assessment]] = ExaminerOf[r.assessment]]

\* Mutant: the certificate bears who publishes and not who examined.
GrantByCaller(d, r) ==
    IF Target(r.score) = "passed"
    THEN [d EXCEPT !.granted[CertificateOf[r.assessment]] = r.as]
    ELSE d

\* The upsert of the certification: of an existing row it sets granted_by and
\* granted_at.  It leaves expires_at, which nothing in the repository sets.
Grant(d, r) ==
    IF Target(r.score) = "passed"
    THEN [d EXCEPT !.granted[CertificateOf[r.assessment]] = ExaminerOf[r.assessment]]
    ELSE d

\* Mutant: only a pass is worth an event.
RecordPasses(d, r) ==
    IF Target(r.score) = "passed"
    THEN [d EXCEPT !.audit[r.assessment] = Append(@, [actor |-> r.as, status |-> "passed"])]
    ELSE d

Record(d, r) ==
    [d EXCEPT !.audit[r.assessment] = Append(@, [actor |-> r.as, status |-> Target(r.score)])]

PublishGrant(p) ==
    /\ pc[p] = "granting"
    /\ Write(p, Record(Grant(staged, req[p]), req[p]))
    /\ Goto(p, "written")

-----------------------------------------------------------------------------
\* Store.InTx

TxBusy(p) == GiveUpBusy(p, {"checked"})

TxFail(p) == GiveUpAnywhere(p)

TxCommit(p) == \E outcome \in Outcomes : CommitAndAnswer(p, outcome)

-----------------------------------------------------------------------------
\* The environment

Crash == Die

\* A draft is submitted, or a failed assessment is submitted again.
Submit(a) ==
    /\ db.assessment[a].version <= MaxVersion
    /\ ValidTransition("assessment", db.assessment[a].status, "submitted")
    /\ AutoCommit([db EXCEPT !.assessment[a].status = "submitted"])
    /\ UNCHANGED requestVars

QualificationChanges(a) ==
    /\ AutoCommit([db EXCEPT !.qualified = Toggle(@, a)])
    /\ UNCHANGED requestVars

-----------------------------------------------------------------------------
EmptyDatabase ==
    [assessment |-> [a \in Assessments |-> [status |-> "draft", version |-> 1]],
     granted |-> [c \in Certificates |-> NoExaminer],
     qualified |-> Assessments,
     audit |-> [a \in Assessments |-> <<>>]]

Init ==
    /\ InitStore(EmptyDatabase)
    /\ InitRequests

Step(p) ==
    \/ \E role \in Roles, score \in Scores \cup {101} : Rejected(p, role, score)
    \/ \E r \in PublishRequests : Begin(p, r)
    \/ PublishRead(p) \/ PublishRefused(p)
    \/ PublishUpdate(p) \/ PublishConflict(p)
    \/ PublishGrant(p)
    \/ TxBusy(p) \/ TxFail(p) \/ TxCommit(p)

Environment ==
    \/ Crash
    \/ \E a \in Assessments : Submit(a) \/ QualificationChanges(a)

Next == (\E p \in Procs : Step(p)) \/ Environment

Spec == Init /\ [][Next]_vars

-----------------------------------------------------------------------------
\* Properties

\* Rows, requests and points keep to the states the code gives them.
TypeOK ==
    /\ db \in Databases
    /\ staged \in Databases
    /\ writer \in Procs \cup {NoProc}
    /\ snapshot \in [Procs -> SnapshotStates]
    /\ pc \in [Procs -> Points]
    /\ req \in [Procs -> PublishRequests \cup {NoRequest}]
    /\ seen \in [Procs -> AssessmentRows \cup {NoRow}]
    /\ answer \in [Procs -> Outcomes]

Granted(d) ==
    \A c \in Certificates :
        LET passed == {a \in Assessments : CertificateOf[a] = c /\ d.assessment[a].status = "passed"} IN
        IF passed = {} THEN d.granted[c] = NoExaminer
        ELSE d.granted[c] \in {ExaminerOf[a] : a \in passed}

\* A student holds a certificate exactly when one of the assessments for it
\* has passed, and from the examiner of such a one: the verdict and the
\* certification are two statements of Publish, and examinations of one
\* student for one certificate interleave.
PassedIsGranted == Granted(db)

Audited(d) ==
    \A a \in Assessments :
        LET events == d.audit[a] IN
        /\ Len(events) + 1 = d.assessment[a].version
        /\ \A n \in DOMAIN events :
            /\ events[n].actor \in {ExaminerOf[a], Admin}
            /\ events[n].status = "passed" <=>
                    n = Len(events) /\ d.assessment[a].status = "passed"

\* The audit trail of an assessment is its history: one event per version, all
\* but the last a failure, the last what the row says, and each by the
\* examiner or the administrator.  No publication is lost or counted twice,
\* however often one is sent.
AuditIsTheHistory == Audited(db)

\* README: "Assessment publication validates the examiner".  The examiner is
\* qualified, and the assessment submitted, in the very database that the
\* verdict is committed to.
QualifiedAtCommit ==
    [][\A a \in Assessments : db'.assessment[a].version # db.assessment[a].version =>
            /\ a \in db.qualified
            /\ db.assessment[a].status = "submitted"]_vars

\* A caller who is told "ok" has published the version it asked for, and the
\* one it expected is gone: a verdict on an assessment that was submitted
\* again since the caller read it is never published.
ExpectedVersionOnly ==
    [][\A p \in Procs : pc[p] # "idle" /\ answer'[p] = "ok" =>
            /\ db.assessment[req[p].assessment].version = req[p].version
            /\ db'.assessment[req[p].assessment] =
                    [status |-> Target(req[p].score), version |-> req[p].version + 1]]_vars

-----------------------------------------------------------------------------
\* What makes PassedIsGranted and AuditIsTheHistory inductive

Consistent(d) == Granted(d) /\ Audited(d)

\* The writer, and nobody else, is between its first statement and its commit.
Locked ==
    /\ writer = NoProc => staged = db
    /\ \A p \in Procs : writer = p <=> pc[p] \in {"granting", "written"}

\* What a request has found out holds as long as its snapshot is that of the
\* committed database, which it is from its first write on; and it has staged
\* its own statements on that database and nothing else.
ChecksHold ==
    \A p \in Procs :
        /\ pc[p] # "idle" => req[p] \in PublishRequests /\ answer[p] = "none"
        /\ pc[p] = "checked" => snapshot[p] # "none"
        /\ pc[p] = "checked" /\ snapshot[p] = "fresh" => Publishable(db, req[p])
        /\ pc[p] \in {"granting", "written"} =>
            Publishable(db, req[p]) /\ Unpublished(db, req[p])
        /\ pc[p] = "granting" => staged = SetVerdict(db, req[p])
        /\ pc[p] = "written" =>
            staged = Record(Grant(SetVerdict(db, req[p]), req[p]), req[p])

\* What is committed is consistent; what is staged is the verdict of the one
\* writer on it, statement by statement.  Publish writes verdict, certificate
\* and event of the assessment it has read, which nobody has touched since.
Inductive ==
    /\ TypeOK
    /\ Locked
    /\ ChecksHold
    /\ Consistent(db)

-----------------------------------------------------------------------------
\* What Assessment implements
Verdicts == INSTANCE AssessmentLedger WITH
    status    <- [a \in Assessments |-> db.assessment[a].status],
    granted   <- db.granted,
    journal   <- db.audit,
    qualified <- db.qualified

\* README: "Assessment publication validates the examiner".  Publish, statement
\* by statement, implements verdicts in which that check, the verdict, the
\* certificate and the event are one step: the examiner is qualified, and the
\* assessment submitted, in the database that all of them are committed to.
ImplementsVerdicts == Verdicts!LedgerSpec
=============================================================================
