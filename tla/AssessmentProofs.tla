--------------------------- MODULE AssessmentProofs ---------------------------
(***************************************************************************)
(* Proofs about Assessment, for any requests, assessments, certificates,   *)
(* examiners and scores.  First what the statements of Publish do to a     *)
(* consistent database, then one lemma per shape of step, then the         *)
(* invariant.                                                              *)
(***************************************************************************)
EXTENDS Assessment, TLAPS

\* The edges of the assessment machine that Publish and its callers rely on.
LEMMA Edges ==
    /\ \A from \in AssessmentStates, to \in {"passed", "failed"} :
            ValidTransition("assessment", from, to) <=> from = "submitted"
    /\ \A from \in AssessmentStates :
            ValidTransition("assessment", from, "submitted") => from # "passed"
BY DEF ValidTransition, Transitions, AssessmentStates

LEMMA TargetType == \A score : Target(score) \in {"passed", "failed"}
BY DEF Target

LEMMA RequestParts ==
    ASSUME NEW r \in PublishRequests
    PROVE  /\ r.assessment \in Assessments /\ r.as \in Callers
           /\ CertificateOf[r.assessment] \in Certificates
           /\ ExaminerOf[r.assessment] \in Examiners
BY PeopleAssumption DEF PublishRequests

LEMMA SetVerdictType ==
    ASSUME NEW d \in Databases, NEW r \in PublishRequests
    PROVE  SetVerdict(d, r) \in Databases
<1> DEFINE row == [status |-> Target(r.score), version |-> d.assessment[r.assessment].version + 1]
<1>1. row \in AssessmentRows
  BY RequestParts, TargetType DEF Databases, AssessmentRows, AssessmentStates
<1>2. [d.assessment EXCEPT ![r.assessment] = row] \in [Assessments -> AssessmentRows]
  BY <1>1 DEF Databases
<1> QED BY <1>2 DEF SetVerdict, Databases

LEMMA GrantType ==
    ASSUME NEW d \in Databases, NEW r \in PublishRequests
    PROVE  Grant(d, r) \in Databases
<1>1. [d.granted EXCEPT ![CertificateOf[r.assessment]] = ExaminerOf[r.assessment]]
        \in [Certificates -> Examiners \cup {NoExaminer}]
  BY RequestParts DEF Databases
<1> QED BY <1>1 DEF Grant, Databases

LEMMA RecordType ==
    ASSUME NEW d \in Databases, NEW r \in PublishRequests
    PROVE  Record(d, r) \in Databases
<1> DEFINE event == [actor |-> r.as, status |-> Target(r.score)]
<1>1. event \in Events
  BY RequestParts, TargetType DEF Events
<1>2. d.audit[r.assessment] \in Seq(Events)
  BY RequestParts DEF Databases
<1>3. Append(d.audit[r.assessment], event) \in Seq(Events)
  BY <1>1, <1>2
<1>4. [d.audit EXCEPT ![r.assessment] = Append(d.audit[r.assessment], event)]
        \in [Assessments -> Seq(Events)]
  BY <1>3 DEF Databases
<1> QED BY <1>4 DEF Record, Databases

\* The verdict, the upsert and the event together keep a database consistent.
LEMMA PublishConsistent ==
    ASSUME NEW d \in Databases, Consistent(d), NEW r \in PublishRequests,
           Publishable(d, r), Unpublished(d, r)
    PROVE  Consistent(Record(Grant(SetVerdict(d, r), r), r))
<1> DEFINE a == r.assessment
           verdict == Target(r.score)
           event == [actor |-> r.as, status |-> verdict]
           e == Record(Grant(SetVerdict(d, r), r), r)
<1>1. /\ a \in Assessments /\ CertificateOf[a] \in Certificates /\ ExaminerOf[a] \in Examiners
      /\ verdict \in {"passed", "failed"} /\ event \in Events
      /\ event.actor \in {ExaminerOf[a], Admin} /\ event.status = verdict
      /\ d.assessment[a].status = "submitted"
  BY RequestParts, TargetType DEF Publishable, Unpublished, Events
<1>2. /\ d.assessment \in [Assessments -> AssessmentRows]
      /\ d.granted \in [Certificates -> Examiners \cup {NoExaminer}]
      /\ d.audit \in [Assessments -> Seq(Events)]
      /\ Granted(d) /\ Audited(d)
  BY DEF Databases, Consistent
<1>3. /\ e.assessment = [d.assessment EXCEPT ![a] =
                [status |-> verdict, version |-> d.assessment[a].version + 1]]
      /\ e.granted = IF verdict = "passed"
                     THEN [d.granted EXCEPT ![CertificateOf[a]] = ExaminerOf[a]] ELSE d.granted
      /\ e.audit = [d.audit EXCEPT ![a] = Append(d.audit[a], event)]
  BY DEF Record, Grant, SetVerdict, Databases
<1> HIDE DEF event, e, verdict, a
<1>4. \A b \in Assessments : b # a =>
        e.assessment[b] = d.assessment[b] /\ e.audit[b] = d.audit[b]
  BY <1>1, <1>2, <1>3
<1>5. /\ e.assessment[a].status = verdict /\ e.audit[a] = Append(d.audit[a], event)
      /\ e.assessment[a].version = d.assessment[a].version + 1
  BY <1>1, <1>2, <1>3
<1>6. Granted(e)
  <2> DEFINE PassedIn(f, c) ==
                {b \in Assessments : CertificateOf[b] = c /\ f.assessment[b].status = "passed"}
  <2> SUFFICES ASSUME NEW c \in Certificates
               PROVE  IF PassedIn(e, c) = {} THEN e.granted[c] = NoExaminer
                      ELSE e.granted[c] \in {ExaminerOf[b] : b \in PassedIn(e, c)}
    BY DEF Granted
  <2>1. IF PassedIn(d, c) = {} THEN d.granted[c] = NoExaminer
        ELSE d.granted[c] \in {ExaminerOf[b] : b \in PassedIn(d, c)}
    BY <1>2 DEF Granted
  <2>2. CASE verdict = "passed" /\ CertificateOf[a] = c
    <3>1. a \in PassedIn(e, c) /\ e.granted[c] = ExaminerOf[a]
      BY <1>1, <1>2, <1>3, <1>5, <2>2
    <3> QED BY <3>1
  <2>3. CASE ~(verdict = "passed" /\ CertificateOf[a] = c)
    <3>1. PassedIn(e, c) = PassedIn(d, c)
      BY <1>1, <1>4, <1>5, <2>3
    <3>2. e.granted[c] = d.granted[c]
      BY <1>1, <1>2, <1>3, <2>3
    <3> QED BY <2>1, <3>1, <3>2
  <2> QED BY <2>2, <2>3
<1>7. Audited(e)
  <2> SUFFICES ASSUME NEW b \in Assessments
               PROVE  /\ Len(e.audit[b]) + 1 = e.assessment[b].version
                      /\ \A n \in DOMAIN e.audit[b] :
                            /\ e.audit[b][n].actor \in {ExaminerOf[b], Admin}
                            /\ e.audit[b][n].status = "passed" <=>
                                n = Len(e.audit[b]) /\ e.assessment[b].status = "passed"
    BY DEF Audited
  <2>1. /\ Len(d.audit[b]) + 1 = d.assessment[b].version
        /\ \A n \in DOMAIN d.audit[b] :
              /\ d.audit[b][n].actor \in {ExaminerOf[b], Admin}
              /\ d.audit[b][n].status = "passed" <=>
                  n = Len(d.audit[b]) /\ d.assessment[b].status = "passed"
    BY <1>2 DEF Audited
  <2>2. CASE b # a
    BY <1>4, <2>1, <2>2
  <2>3. CASE b = a
    <3>1. d.audit[a] \in Seq(Events)
      BY <1>1, <1>2
    <3>2. /\ Len(e.audit[a]) = Len(d.audit[a]) + 1 /\ Len(d.audit[a]) \in Nat
          /\ \A n \in DOMAIN e.audit[a] :
                \/ n = Len(e.audit[a]) /\ e.audit[a][n] = event
                \/ n # Len(e.audit[a]) /\ n \in DOMAIN d.audit[a] /\ e.audit[a][n] = d.audit[a][n]
      BY <1>1, <1>5, <3>1
    <3> QED BY <1>1, <1>5, <2>1, <2>3, <3>2
  <2> QED BY <2>2, <2>3
<1> QED BY <1>6, <1>7 DEF Consistent, e

-----------------------------------------------------------------------------
\* The shapes of a step

LEMMA GiveUpStep ==
    ASSUME Inductive, NEW p \in Procs, NEW outcome \in Outcomes, GiveUp(p, outcome)
    PROVE  Inductive'
<1>1. /\ db' = db /\ pc' = [pc EXCEPT ![p] = "idle"] /\ req' = [req EXCEPT ![p] = NoRequest]
      /\ seen' = [seen EXCEPT ![p] = NoRow] /\ answer' = [answer EXCEPT ![p] = outcome]
      /\ snapshot' = [snapshot EXCEPT ![p] = "none"]
      /\ staged' = IF writer = p THEN db ELSE staged
      /\ writer' = IF writer = p THEN NoProc ELSE writer
  BY DEF GiveUp, Rollback, Answer
<1>2. TypeOK'
  BY <1>1 DEF Inductive, TypeOK, Points, SnapshotStates
<1>3. Locked'
  BY <1>1, ProcAssumption DEF Inductive, TypeOK, Locked
<1>4. ChecksHold'
  BY <1>1 DEF Inductive, TypeOK, Locked, ChecksHold
<1> QED BY <1>1, <1>2, <1>3, <1>4 DEF Inductive

LEMMA RejectedStep ==
    ASSUME Inductive, NEW p \in Procs, NEW role, NEW score, Rejected(p, role, score)
    PROVE  Inductive'
<1>1. /\ UNCHANGED storeVars /\ pc[p] = "idle"
      /\ pc' = [pc EXCEPT ![p] = "idle"] /\ req' = [req EXCEPT ![p] = NoRequest]
      /\ seen' = [seen EXCEPT ![p] = NoRow] /\ answer' = [answer EXCEPT ![p] = "refused"]
  BY DEF Rejected, Answer
<1>2. TypeOK'
  BY <1>1 DEF Inductive, TypeOK, storeVars, Points, Outcomes
<1>3. Locked' /\ ChecksHold'
  BY <1>1 DEF Inductive, TypeOK, Locked, ChecksHold, storeVars
<1> QED BY <1>1, <1>2, <1>3 DEF Inductive, storeVars

LEMMA BeginStep ==
    ASSUME Inductive, NEW p \in Procs, NEW r \in PublishRequests, Begin(p, r)
    PROVE  Inductive'
<1>1. /\ UNCHANGED <<storeVars, seen>> /\ pc[p] = "idle"
      /\ pc' = [pc EXCEPT ![p] = "begin"] /\ req' = [req EXCEPT ![p] = r]
      /\ answer' = [answer EXCEPT ![p] = "none"]
  BY DEF Begin, Take
<1>2. TypeOK'
  BY <1>1 DEF Inductive, TypeOK, storeVars, Points, Outcomes
<1>3. Locked' /\ ChecksHold'
  BY <1>1 DEF Inductive, TypeOK, Locked, ChecksHold, storeVars
<1> QED BY <1>1, <1>2, <1>3 DEF Inductive, storeVars

LEMMA ReadStep ==
    ASSUME Inductive, NEW p \in Procs, PublishRead(p)
    PROVE  Inductive'
<1>1. /\ pc[p] = "begin" /\ Publishable(db, req[p]) /\ pc' = [pc EXCEPT ![p] = "checked"]
      /\ snapshot' = [snapshot EXCEPT ![p] = "fresh"]
      /\ seen' = [seen EXCEPT ![p] = db.assessment[req[p].assessment]]
      /\ UNCHANGED <<db, staged, writer, req, answer>>
  BY DEF PublishRead, TakeSnapshot, Saw
<1>2. db.assessment[req[p].assessment] \in AssessmentRows
  BY <1>1, RequestParts DEF Inductive, TypeOK, ChecksHold, Databases
<1>3. TypeOK'
  BY <1>1, <1>2 DEF Inductive, TypeOK, Points, SnapshotStates
<1>4. Locked' /\ ChecksHold'
  BY <1>1 DEF Inductive, TypeOK, Locked, ChecksHold
<1> QED BY <1>1, <1>3, <1>4 DEF Inductive

\* The first write is let in on a snapshot that is not stale: the checks hold
\* of what is committed.
LEMMA UpdateStep ==
    ASSUME Inductive, NEW p \in Procs, PublishUpdate(p)
    PROVE  Inductive'
<1>1. /\ pc[p] = "checked" /\ pc' = [pc EXCEPT ![p] = "granting"] /\ Unpublished(db, req[p])
      /\ MayWrite(p) /\ writer' = p /\ staged' = SetVerdict(db, req[p])
      /\ snapshot' = [snapshot EXCEPT ![p] = "fresh"]
      /\ UNCHANGED <<db, req, seen, answer>>
  BY DEF PublishUpdate, Write, Goto
<1>2. req[p] \in PublishRequests /\ writer = NoProc /\ Publishable(db, req[p])
  BY <1>1 DEF Inductive, TypeOK, Locked, ChecksHold, MayWrite, SnapshotStates
<1>3. TypeOK'
  BY <1>1, <1>2, SetVerdictType DEF Inductive, TypeOK, Points, SnapshotStates
<1>4. Locked'
  BY <1>1, <1>2, ProcAssumption DEF Inductive, TypeOK, Locked
<1>5. ChecksHold'
  BY <1>1, <1>2, ProcAssumption DEF Inductive, TypeOK, Locked, ChecksHold
<1> QED BY <1>1, <1>3, <1>4, <1>5 DEF Inductive

LEMMA GrantStep ==
    ASSUME Inductive, NEW p \in Procs, PublishGrant(p)
    PROVE  Inductive'
<1>1. /\ pc[p] = "granting" /\ pc' = [pc EXCEPT ![p] = "written"]
      /\ writer' = p /\ staged' = Record(Grant(staged, req[p]), req[p])
      /\ snapshot' = [snapshot EXCEPT ![p] = "fresh"]
      /\ UNCHANGED <<db, req, seen, answer>>
  BY DEF PublishGrant, Write, Goto
<1>2. /\ req[p] \in PublishRequests /\ writer = p /\ staged = SetVerdict(db, req[p])
      /\ Publishable(db, req[p]) /\ Unpublished(db, req[p])
  BY <1>1 DEF Inductive, Locked, ChecksHold
<1>3. staged' \in Databases
  BY <1>1, <1>2, GrantType, RecordType DEF Inductive, TypeOK
<1>4. TypeOK'
  BY <1>1, <1>3 DEF Inductive, TypeOK, Points, SnapshotStates
<1>5. Locked'
  BY <1>1, <1>2, ProcAssumption DEF Inductive, TypeOK, Locked
<1>6. ChecksHold'
  BY <1>1, <1>2 DEF Inductive, TypeOK, Locked, ChecksHold
<1> QED BY <1>1, <1>4, <1>5, <1>6 DEF Inductive

LEMMA CommitStep ==
    ASSUME Inductive, NEW p \in Procs, NEW outcome, CommitAndAnswer(p, outcome)
    PROVE  Inductive'
<1>1. /\ pc[p] = "written" /\ writer = p /\ db' = staged /\ staged' = staged /\ writer' = NoProc
      /\ snapshot' = [Outdated EXCEPT ![p] = "none"] /\ outcome \in Outcomes
      /\ pc' = [pc EXCEPT ![p] = "idle"] /\ req' = [req EXCEPT ![p] = NoRequest]
      /\ seen' = [seen EXCEPT ![p] = NoRow] /\ answer' = [answer EXCEPT ![p] = outcome]
  BY DEF CommitAndAnswer, Commit, Answer, Outcomes
<1>2. Consistent(db')
  BY <1>1, PublishConsistent DEF Inductive, TypeOK, ChecksHold
<1>3. /\ snapshot' \in [Procs -> SnapshotStates]
      /\ \A q \in Procs : q # p => snapshot'[q] # "fresh"
                                  /\ (snapshot[q] # "none" => snapshot'[q] # "none")
  BY <1>1 DEF Inductive, TypeOK, Outdated, SnapshotStates
<1>4. TypeOK'
  BY <1>1, <1>3 DEF Inductive, TypeOK, Points
<1>5. Locked'
  BY <1>1, ProcAssumption DEF Inductive, TypeOK, Locked
<1>6. ChecksHold'
  BY <1>1, <1>3 DEF Inductive, TypeOK, Locked, ChecksHold
<1> QED BY <1>2, <1>4, <1>5, <1>6 DEF Inductive

\* Other programs write when no request does, and leave its snapshot outdated.
LEMMA AutoCommitStep ==
    ASSUME Inductive, NEW contents \in Databases, Consistent(contents),
           AutoCommit(contents), UNCHANGED requestVars
    PROVE  Inductive'
<1>1. /\ writer = NoProc /\ writer' = writer /\ db' = contents /\ staged' = contents
      /\ snapshot' = Outdated
  BY DEF AutoCommit
<1>2. /\ snapshot' \in [Procs -> SnapshotStates]
      /\ \A q \in Procs : snapshot'[q] # "fresh" /\ (snapshot[q] # "none" => snapshot'[q] # "none")
  BY <1>1 DEF Inductive, TypeOK, Outdated, SnapshotStates
<1>3. TypeOK'
  BY <1>1, <1>2 DEF Inductive, TypeOK, requestVars
<1>4. Locked'
  BY <1>1 DEF Inductive, Locked, requestVars
<1>5. \A q \in Procs : pc[q] \notin {"granting", "written"}
  BY <1>1, ProcAssumption DEF Inductive, Locked
<1>6. ChecksHold'
  BY <1>2, <1>5 DEF Inductive, ChecksHold, requestVars
<1> QED BY <1>1, <1>3, <1>4, <1>6 DEF Inductive

\* What is submitted has not passed, and passes to no other state by that.
LEMMA SubmitStep ==
    ASSUME Inductive, NEW a \in Assessments, Submit(a)
    PROVE  Inductive'
<1> DEFINE e == [db EXCEPT !.assessment[a].status = "submitted"]
<1>1. db.assessment \in [Assessments -> AssessmentRows] /\ db.assessment[a].status # "passed"
  BY Edges DEF Submit, Inductive, TypeOK, Databases, AssessmentRows
<1>2. /\ e.granted = db.granted /\ e.audit = db.audit /\ e.qualified = db.qualified
      /\ e.assessment = [db.assessment EXCEPT ![a].status = "submitted"]
      /\ \A b \in Assessments :
            /\ e.assessment[b].version = db.assessment[b].version
            /\ e.assessment[b].status = "passed" <=> db.assessment[b].status = "passed"
  BY <1>1 DEF Inductive, TypeOK, Databases, AssessmentRows
<1>3. e \in Databases
  <2>1. [db.assessment[a] EXCEPT !.status = "submitted"] \in AssessmentRows
    BY <1>1 DEF AssessmentRows, AssessmentStates
  <2>2. e.assessment \in [Assessments -> AssessmentRows]
    BY <1>1, <1>2, <2>1
  <2> QED BY <2>2 DEF Inductive, TypeOK, Databases
<1>4. AutoCommit(e) /\ UNCHANGED requestVars
  BY DEF Submit
<1> HIDE DEF e
<1>5. Granted(e)
  <2>1. \A c \in Certificates :
            {b \in Assessments : CertificateOf[b] = c /\ e.assessment[b].status = "passed"}
            = {b \in Assessments : CertificateOf[b] = c /\ db.assessment[b].status = "passed"}
    BY <1>2
  <2> QED BY <1>2, <2>1 DEF Inductive, Consistent, Granted
<1>6. Audited(e)
  BY <1>2 DEF Inductive, Consistent, Audited
<1> QED BY <1>3, <1>4, <1>5, <1>6, AutoCommitStep DEF Consistent

LEMMA QualificationStep ==
    ASSUME Inductive, NEW a \in Assessments, QualificationChanges(a)
    PROVE  Inductive'
<1> DEFINE e == [db EXCEPT !.qualified = Toggle(@, a)]
<1>1. e.granted = db.granted /\ e.audit = db.audit /\ e.assessment = db.assessment
  BY DEF Inductive, TypeOK, Databases
<1>2. e \in Databases
  BY DEF Inductive, TypeOK, Databases, Toggle
<1>3. AutoCommit(e) /\ UNCHANGED requestVars
  BY DEF QualificationChanges
<1> HIDE DEF e
<1>4. Granted(e)
  BY <1>1 DEF Inductive, Consistent, Granted
<1>5. Audited(e)
  BY <1>1 DEF Inductive, Consistent, Audited
<1> QED BY <1>2, <1>3, <1>4, <1>5, AutoCommitStep DEF Consistent

LEMMA CrashStep ==
    ASSUME Inductive, Crash
    PROVE  Inductive'
<1>1. /\ db' = db /\ staged' = db /\ writer' = NoProc /\ snapshot' = [p \in Procs |-> "none"]
      /\ pc' = [p \in Procs |-> "idle"] /\ req' = [p \in Procs |-> NoRequest]
      /\ seen' = [p \in Procs |-> NoRow] /\ answer' = [p \in Procs |-> "none"]
  BY DEF Crash, Die, LoseTransactions
<1>2. TypeOK'
  BY <1>1 DEF Inductive, TypeOK, Points, SnapshotStates, Outcomes
<1>3. Locked' /\ ChecksHold'
  BY <1>1, ProcAssumption DEF Locked, ChecksHold
<1> QED BY <1>1, <1>2, <1>3 DEF Inductive

-----------------------------------------------------------------------------
\* The invariant

LEMMA InitInductive == Init => Inductive
<1> SUFFICES ASSUME Init PROVE Inductive
  OBVIOUS
<1>1. /\ db = EmptyDatabase /\ staged = db /\ writer = NoProc
      /\ snapshot = [p \in Procs |-> "none"] /\ pc = [p \in Procs |-> "idle"]
      /\ req = [p \in Procs |-> NoRequest] /\ seen = [p \in Procs |-> NoRow]
      /\ answer = [p \in Procs |-> "none"]
  BY DEF Init, InitStore, InitRequests
<1>2. /\ \A a \in Assessments :
            /\ db.assessment[a].status = "draft" /\ db.assessment[a].version = 1
            /\ db.audit[a] = <<>> /\ Len(db.audit[a]) = 0
      /\ \A c \in Certificates : db.granted[c] = NoExaminer
      /\ db \in Databases
  BY <1>1 DEF EmptyDatabase, Databases, AssessmentRows, AssessmentStates
<1>3. Granted(db)
  <2>1. \A c \in Certificates :
            {a \in Assessments : CertificateOf[a] = c /\ db.assessment[a].status = "passed"} = {}
    BY <1>2
  <2> QED BY <1>2, <2>1 DEF Granted
<1>4. Audited(db)
  BY <1>2 DEF Audited
<1>5. TypeOK
  BY <1>1, <1>2 DEF TypeOK, Points, SnapshotStates, Outcomes
<1>6. Locked /\ ChecksHold
  BY <1>1, ProcAssumption DEF Locked, ChecksHold
<1> QED BY <1>3, <1>4, <1>5, <1>6 DEF Inductive, Consistent

LEMMA RequestStep ==
    ASSUME Inductive, NEW p \in Procs, Step(p)
    PROVE  Inductive'
<1>1. CASE PublishRefused(p) \/ PublishConflict(p) \/ TxBusy(p) \/ TxFail(p)
  BY <1>1, GiveUpStep
  DEF PublishRefused, PublishConflict, TxBusy, TxFail, GiveUpBusy, GiveUpAnywhere, Outcomes
<1> QED BY <1>1, RejectedStep, BeginStep, ReadStep, UpdateStep, GrantStep, CommitStep
        DEF Step, TxCommit

LEMMA NextInductive == Inductive /\ [Next]_vars => Inductive'
<1> SUFFICES ASSUME Inductive, [Next]_vars PROVE Inductive'
  OBVIOUS
<1>1. CASE Next
  BY <1>1, RequestStep, CrashStep, SubmitStep, QualificationStep DEF Next, Environment
<1>2. CASE UNCHANGED vars
  BY <1>2 DEF vars, storeVars, requestVars, Inductive, TypeOK, Locked, ChecksHold
<1> QED BY <1>1, <1>2

-----------------------------------------------------------------------------
\* What is committed is consistent, and what is staged is one publication on it
\* whose checks still hold.
THEOREM InductiveInvariant == Spec => []Inductive
BY InitInductive, NextInductive, PTL DEF Spec

\* The variables keep to their domains.
THEOREM TypeCorrect == Spec => []TypeOK
<1>1. Inductive => TypeOK
  BY DEF Inductive
<1> QED BY <1>1, InductiveInvariant, PTL

\* Who has passed is certified, by an examiner of a passed assessment, and
\* nobody else.
THEOREM CertificatesAreEarned == Spec => []PassedIsGranted
<1>1. Inductive => PassedIsGranted
  BY DEF Inductive, Consistent, PassedIsGranted
<1> QED BY <1>1, InductiveInvariant, PTL

\* The audit trail tells every publication, in order.
THEOREM HistoryIsAudited == Spec => []AuditIsTheHistory
<1>1. Inductive => AuditIsTheHistory
  BY DEF Inductive, Consistent, AuditIsTheHistory
<1> QED BY <1>1, InductiveInvariant, PTL

\* What is not a commit or a submission changes no assessment.
LEMMA AssessmentsKept ==
    ASSUME Inductive, Next, ~\E p \in Procs : TxCommit(p), NEW a \in Assessments
    PROVE  db'.assessment[a].version = db.assessment[a].version
<1>1. db \in Databases
  BY DEF Inductive, TypeOK
<1>2. CASE Environment
  <2>1. CASE Crash
    BY <2>1 DEF Crash, Die, LoseTransactions
  <2>2. ASSUME NEW b \in Assessments, Submit(b)
        PROVE  db'.assessment[a].version = db.assessment[a].version
    <3>1. db' = [db EXCEPT !.assessment[b].status = "submitted"]
      BY <2>2 DEF Submit, AutoCommit
    <3>2. db'.assessment = [db.assessment EXCEPT ![b].status = "submitted"]
      BY <1>1, <3>1 DEF Databases
    <3> QED BY <1>1, <3>2 DEF Databases, AssessmentRows
  <2>3. ASSUME NEW b \in Assessments, QualificationChanges(b)
        PROVE  db'.assessment = db.assessment
    BY <1>1, <2>3 DEF QualificationChanges, AutoCommit, Databases
  <2> QED BY <1>2, <2>1, <2>2, <2>3 DEF Environment
<1>3. CASE \E p \in Procs : Step(p)
  BY <1>3 DEF Step, Rejected, Begin, PublishRead, PublishRefused, PublishUpdate,
              PublishConflict, PublishGrant, TxBusy, TxFail, GiveUpBusy, GiveUpAnywhere,
              GiveUp, Rollback, Write, TakeSnapshot, storeVars
<1> QED BY <1>2, <1>3 DEF Next

\* A commit publishes the verdict of its request, whose checks still hold.
LEMMA CommitPublishes ==
    ASSUME Inductive, NEW p \in Procs, TxCommit(p)
    PROVE  /\ req[p] \in PublishRequests /\ Publishable(db, req[p]) /\ Unpublished(db, req[p])
           /\ db'.assessment = [db.assessment EXCEPT ![req[p].assessment] =
                [status |-> Target(req[p].score),
                 version |-> db.assessment[req[p].assessment].version + 1]]
<1>1. pc[p] = "written" /\ db' = staged
  BY DEF TxCommit, CommitAndAnswer, Commit
<1>2. /\ req[p] \in PublishRequests /\ Publishable(db, req[p]) /\ Unpublished(db, req[p])
      /\ db' = Record(Grant(SetVerdict(db, req[p]), req[p]), req[p]) /\ db \in Databases
  BY <1>1 DEF Inductive, TypeOK, ChecksHold
<1> QED BY <1>2 DEF Record, Grant, SetVerdict, Databases

\* The examiner is qualified, and the assessment submitted, in the database
\* that the verdict is committed to.
THEOREM ChecksHoldAtCommit == Spec => QualifiedAtCommit
<1>1. Inductive /\ [Next]_vars =>
        [\A a \in Assessments : db'.assessment[a].version # db.assessment[a].version =>
            /\ a \in db.qualified
            /\ db.assessment[a].status = "submitted"]_vars
  <2> SUFFICES ASSUME Inductive, Next, NEW a \in Assessments,
                      db'.assessment[a].version # db.assessment[a].version
               PROVE  a \in db.qualified /\ db.assessment[a].status = "submitted"
    OBVIOUS
  <2>1. PICK p \in Procs : TxCommit(p)
    BY AssessmentsKept
  <2>2. db.assessment \in [Assessments -> AssessmentRows]
    BY DEF Inductive, TypeOK, Databases
  <2>3. req[p].assessment = a
    BY <2>1, <2>2, CommitPublishes
  <2> QED BY <2>1, <2>3, CommitPublishes DEF Publishable, Unpublished
<1> QED BY <1>1, InductiveInvariant, PTL DEF Spec, QualifiedAtCommit


\* Nothing but a commit answers "ok".
LEMMA OkByCommit ==
    ASSUME Inductive, Next, NEW p \in Procs, pc[p] # "idle", answer'[p] = "ok"
    PROVE  TxCommit(p)
<1>1. answer \in [Procs -> Outcomes] /\ answer[p] = "none"
  BY DEF Inductive, TypeOK, ChecksHold
<1>2. CASE Environment
  BY <1>1, <1>2 DEF Environment, Crash, Die, Submit, QualificationChanges, requestVars
<1>3. ASSUME NEW q \in Procs, NEW outcome, Answer(q, outcome)
      PROVE  q = p /\ outcome = "ok"
  BY <1>1, <1>3 DEF Answer
<1>4. ASSUME NEW q \in Procs, Step(q) PROVE TxCommit(q) /\ q = p
  <2>1. ASSUME NEW outcome, GiveUp(q, outcome), outcome # "ok" PROVE FALSE
    BY <1>3, <2>1 DEF GiveUp
  <2>2. CASE \/ PublishRefused(q) \/ PublishConflict(q) \/ TxBusy(q) \/ TxFail(q)
    BY <2>1, <2>2
    DEF PublishRefused, PublishConflict, TxBusy, TxFail, GiveUpBusy, GiveUpAnywhere
  <2>3. CASE \E role \in Roles, score \in Scores \cup {101} : Rejected(q, role, score)
    BY <1>3, <2>3 DEF Rejected
  <2>4. CASE \E r \in PublishRequests : Begin(q, r)
    BY <1>1, <2>4 DEF Begin, Take
  <2>5. CASE PublishRead(q) \/ PublishUpdate(q) \/ PublishGrant(q)
    BY <1>1, <2>5 DEF PublishRead, PublishUpdate, PublishGrant, Saw, Goto
  <2>6. CASE TxCommit(q)
    BY <1>3, <2>6 DEF TxCommit, CommitAndAnswer
  <2> QED BY <1>4, <2>2, <2>3, <2>4, <2>5, <2>6 DEF Step
<1> QED BY <1>2, <1>4 DEF Next

\* Who is told "ok" has published its verdict on the version it expected.
THEOREM ExpectedIsPublished == Spec => ExpectedVersionOnly
<1>1. Inductive /\ [Next]_vars =>
        [\A p \in Procs : pc[p] # "idle" /\ answer'[p] = "ok" =>
            /\ db.assessment[req[p].assessment].version = req[p].version
            /\ db'.assessment[req[p].assessment] =
                    [status |-> Target(req[p].score), version |-> req[p].version + 1]]_vars
  <2> SUFFICES ASSUME Inductive, Next, NEW p \in Procs, pc[p] # "idle", answer'[p] = "ok"
               PROVE  /\ db.assessment[req[p].assessment].version = req[p].version
                      /\ db'.assessment[req[p].assessment] =
                            [status |-> Target(req[p].score), version |-> req[p].version + 1]
    OBVIOUS
  <2>1. TxCommit(p)
    BY OkByCommit
  <2>2. /\ db.assessment \in [Assessments -> AssessmentRows]
        /\ req[p].assessment \in Assessments
    BY <2>1, CommitPublishes, RequestParts DEF Inductive, TypeOK, Databases
  <2>3. /\ db.assessment[req[p].assessment].version = req[p].version
        /\ db'.assessment = [db.assessment EXCEPT ![req[p].assessment] =
                [status |-> Target(req[p].score),
                 version |-> db.assessment[req[p].assessment].version + 1]]
    BY <2>1, CommitPublishes DEF Unpublished
  <2> QED BY <2>2, <2>3
<1> QED BY <1>1, InductiveInvariant, PTL DEF Spec, ExpectedVersionOnly

-----------------------------------------------------------------------------
\* The verdicts: what the tables stand for in AssessmentLedger

StatusesOf(d) == [a \in Assessments |-> d.assessment[a].status]

\* What becomes of the committed database in a step.
LEMMA WhatIsCommitted ==
    ASSUME Inductive, Next
    PROVE  /\ db \in Databases
           /\ \/ db' = db
              \/ \E r \in PublishRequests :
                    /\ Publishable(db, r) /\ Unpublished(db, r)
                    /\ db' = Record(Grant(SetVerdict(db, r), r), r)
              \/ \E a \in Assessments :
                    /\ ValidTransition("assessment", db.assessment[a].status, "submitted")
                    /\ db' = [db EXCEPT !.assessment[a].status = "submitted"]
              \/ \E a \in Assessments : db' = [db EXCEPT !.qualified = Toggle(@, a)]
<1>1. db \in Databases
  BY DEF Inductive, TypeOK
<1>2. ASSUME NEW p \in Procs, TxCommit(p)
      PROVE  \E r \in PublishRequests :
                /\ Publishable(db, r) /\ Unpublished(db, r)
                /\ db' = Record(Grant(SetVerdict(db, r), r), r)
  <2>1. pc[p] = "written" /\ db' = staged
    BY <1>2 DEF TxCommit, CommitAndAnswer, Commit
  <2>2. /\ req[p] \in PublishRequests /\ Publishable(db, req[p]) /\ Unpublished(db, req[p])
        /\ staged = Record(Grant(SetVerdict(db, req[p]), req[p]), req[p])
    BY <2>1 DEF Inductive, ChecksHold
  <2> QED BY <2>1, <2>2
<1>3. ASSUME NEW p \in Procs, Step(p), ~TxCommit(p)
      PROVE  db' = db
  BY <1>3 DEF Step, Rejected, Begin, PublishRead, PublishRefused, PublishUpdate,
              PublishConflict, PublishGrant, TxBusy, TxFail, GiveUpBusy, GiveUpAnywhere,
              GiveUp, Rollback, Write, TakeSnapshot, storeVars
<1>4. ASSUME NEW a \in Assessments, Submit(a)
      PROVE  /\ ValidTransition("assessment", db.assessment[a].status, "submitted")
             /\ db' = [db EXCEPT !.assessment[a].status = "submitted"]
  BY <1>4 DEF Submit, AutoCommit
<1>5. ASSUME NEW a \in Assessments, QualificationChanges(a)
      PROVE  db' = [db EXCEPT !.qualified = Toggle(@, a)]
  BY <1>5 DEF QualificationChanges, AutoCommit
<1>6. Crash => db' = db
  BY DEF Crash, Die, LoseTransactions
<1> QED BY <1>1, <1>2, <1>3, <1>4, <1>5, <1>6 DEF Next, Environment

\* The three statements of Publish together: verdict, certificate and event.
LEMMA PublishWrites ==
    ASSUME NEW d \in Databases, NEW r \in PublishRequests
    PROVE  LET e == Record(Grant(SetVerdict(d, r), r), r)
               a == r.assessment
               verdict == Target(r.score)
           IN
           /\ StatusesOf(e) = [StatusesOf(d) EXCEPT ![a] = verdict]
           /\ e.granted = IF verdict = "passed"
                          THEN [d.granted EXCEPT ![CertificateOf[a]] = ExaminerOf[a]]
                          ELSE d.granted
           /\ e.audit = [d.audit EXCEPT ![a] =
                            Append(d.audit[a], [actor |-> r.as, status |-> verdict])]
           /\ e.qualified = d.qualified
<1> DEFINE f == SetVerdict(d, r)
           g == Grant(f, r)
           e == Record(g, r)
           a == r.assessment
           verdict == Target(r.score)
<1>1. a \in Assessments /\ d.assessment \in [Assessments -> AssessmentRows]
  BY RequestParts DEF Databases
<1>2. /\ f.assessment = [d.assessment EXCEPT ![a] =
            [status |-> verdict, version |-> d.assessment[a].version + 1]]
      /\ f.granted = d.granted /\ f.audit = d.audit /\ f.qualified = d.qualified
      /\ f \in Databases
  BY SetVerdictType DEF SetVerdict, Databases
<1> HIDE DEF f
<1>3. /\ g.assessment = f.assessment /\ g.audit = f.audit /\ g.qualified = f.qualified
      /\ g.granted = IF verdict = "passed"
                     THEN [f.granted EXCEPT ![CertificateOf[a]] = ExaminerOf[a]]
                     ELSE f.granted
      /\ g \in Databases
  BY <1>2, GrantType DEF Grant, Databases
<1> HIDE DEF g
<1>4. /\ e.assessment = g.assessment /\ e.granted = g.granted /\ e.qualified = g.qualified
      /\ e.audit = [g.audit EXCEPT ![a] =
                        Append(g.audit[a], [actor |-> r.as, status |-> verdict])]
  BY <1>3 DEF Record, Databases
<1> HIDE DEF e
<1>5. StatusesOf(e) = [StatusesOf(d) EXCEPT ![a] = verdict]
  <2>1. \A b \in Assessments : e.assessment[b].status =
            IF b = a THEN verdict ELSE d.assessment[b].status
    BY <1>1, <1>2, <1>3, <1>4
  <2> QED BY <2>1 DEF StatusesOf
<1>6. /\ e.granted = IF verdict = "passed"
                     THEN [d.granted EXCEPT ![CertificateOf[a]] = ExaminerOf[a]]
                     ELSE d.granted
      /\ e.audit = [d.audit EXCEPT ![a] =
                        Append(d.audit[a], [actor |-> r.as, status |-> verdict])]
      /\ e.qualified = d.qualified
  BY <1>2, <1>3, <1>4
<1> QED BY <1>5, <1>6 DEF e, f, g

LEMMA VerdictStep ==
    ASSUME Inductive, Next
    PROVE  \/ Verdicts!LedgerNext
           \/ UNCHANGED <<StatusesOf(db), db.granted, db.audit, db.qualified>>
<1>1. db \in Databases
  BY WhatIsCommitted
<1>2. ASSUME NEW r \in PublishRequests, Publishable(db, r), Unpublished(db, r),
             db' = Record(Grant(SetVerdict(db, r), r), r)
      PROVE  Verdicts!LedgerNext
  <2>0. PICK a, verdict : a = r.assessment /\ verdict = Target(r.score)
    OBVIOUS
  <2>1. a \in Assessments /\ verdict \in {"passed", "failed"}
    BY <2>0, RequestParts, TargetType
  <2>2. /\ StatusesOf(db)[a] = "submitted" /\ a \in db.qualified
        /\ r.as \in {ExaminerOf[a], Admin}
    BY <1>2, <2>0, <2>1 DEF Publishable, Unpublished, StatusesOf
  <2>3. /\ StatusesOf(db') = [StatusesOf(db) EXCEPT ![a] = verdict]
        /\ db'.granted = IF verdict = "passed"
                         THEN [db.granted EXCEPT ![CertificateOf[a]] = ExaminerOf[a]]
                         ELSE db.granted
        /\ db'.audit = [db.audit EXCEPT ![a] =
                            Append(db.audit[a], [actor |-> r.as, status |-> verdict])]
        /\ db'.qualified = db.qualified
    BY <1>1, <1>2, <2>0, PublishWrites
  <2>4. Verdicts!Publish(r.as, a, verdict)
    BY <2>2, <2>3 DEF Verdicts!Publish, StatusesOf
  <2> QED BY <2>1, <2>2, <2>4 DEF Verdicts!LedgerNext
<1>3. ASSUME NEW a \in Assessments,
             ValidTransition("assessment", db.assessment[a].status, "submitted"),
             db' = [db EXCEPT !.assessment[a].status = "submitted"]
      PROVE  Verdicts!LedgerNext
  <2>1. db.assessment[a].status \in {"draft", "failed"}
    BY <1>3 DEF ValidTransition, Transitions
  <2>2. /\ db'.assessment = [db.assessment EXCEPT ![a].status = "submitted"]
        /\ db'.granted = db.granted /\ db'.audit = db.audit /\ db'.qualified = db.qualified
    BY <1>1, <1>3 DEF Databases
  <2>3. \A b \in Assessments : db'.assessment[b].status =
            IF b = a THEN "submitted" ELSE db.assessment[b].status
    BY <1>1, <2>2 DEF Databases, AssessmentRows
  <2>4. StatusesOf(db') = [StatusesOf(db) EXCEPT ![a] = "submitted"]
    BY <2>3 DEF StatusesOf
  <2>5. Verdicts!Submit(a)
    BY <2>1, <2>2, <2>4 DEF Verdicts!Submit, StatusesOf
  <2> QED BY <2>5 DEF Verdicts!LedgerNext
<1>4. ASSUME NEW a \in Assessments, db' = [db EXCEPT !.qualified = Toggle(@, a)]
      PROVE  Verdicts!LedgerNext
  <2>1. Toggle(db.qualified, a) \subseteq Assessments
    BY <1>1 DEF Toggle, Databases
  <2>2. /\ db'.assessment = db.assessment /\ db'.granted = db.granted /\ db'.audit = db.audit
        /\ db'.qualified \subseteq Assessments
    BY <1>1, <1>4, <2>1 DEF Databases
  <2>3. Verdicts!FactsMove
    BY <2>2 DEF Verdicts!FactsMove
  <2> QED BY <2>3 DEF Verdicts!LedgerNext
<1>5. db' = db => UNCHANGED <<StatusesOf(db), db.granted, db.audit, db.qualified>>
  OBVIOUS
<1> QED BY <1>2, <1>3, <1>4, <1>5, WhatIsCommitted

\* The statements of Publish, their failures and the crashes included,
\* implement verdicts that are given, certified and written down at once.
THEOREM VerdictsAreImplemented == Spec => ImplementsVerdicts
<1>1. Init => Verdicts!LedgerInit
  BY DEF Init, InitStore, EmptyDatabase, Verdicts!LedgerInit
<1>2. Inductive /\ [Next]_vars =>
        [Verdicts!LedgerNext]_<<[a \in Assessments |-> db.assessment[a].status],
                                db.granted, db.audit, db.qualified>>
  <2>1. ASSUME UNCHANGED vars
        PROVE  UNCHANGED <<StatusesOf(db), db.granted, db.audit, db.qualified>>
    BY <2>1 DEF vars, storeVars
  <2> QED BY VerdictStep, <2>1 DEF StatusesOf
<1> QED BY <1>1, <1>2, InductiveInvariant, PTL DEF Spec, ImplementsVerdicts, Verdicts!LedgerSpec
=============================================================================
