---------------------------- MODULE TrainingProofs ----------------------------
(***************************************************************************)
(* Proofs about Training, for any requests, groups, capacities and         *)
(* enrollments.  First what Assign does to a consistent database, then one *)
(* lemma per shape of step, then the invariant.                            *)
(***************************************************************************)
EXTENDS Training, FiniteSetTheorems, TLAPS

LEMMA NextVersionType ==
    ASSUME NEW d \in Databases, NEW r \in AssignRequests
    PROVE  NextGroupVersion(d, r) \in Databases
<1>1. r.group \in Groups
  BY DEF AssignRequests
<1>2. [d.version EXCEPT ![r.group] = d.version[r.group] + 1] \in [Groups -> Nat]
  BY <1>1 DEF Databases
<1> QED BY <1>2 DEF NextGroupVersion, Databases

LEMMA AddMemberType ==
    ASSUME NEW d \in Databases, NEW r \in AssignRequests
    PROVE  AddMember(d, r) \in Databases
<1>1. /\ r.group \in Groups
      /\ [group |-> r.group, enrollment |-> r.enrollment] \in Members
      /\ [actor |-> r.as, enrollment |-> r.enrollment] \in Events
  BY DEF AssignRequests, Members, Events
<1>2. d.audit \in [Groups -> Seq(Events)] /\ d.members \subseteq Members
  BY DEF Databases
<1>3. Append(d.audit[r.group], [actor |-> r.as, enrollment |-> r.enrollment]) \in Seq(Events)
  BY <1>1, <1>2
<1>4. [d.audit EXCEPT ![r.group] =
          Append(d.audit[r.group], [actor |-> r.as, enrollment |-> r.enrollment])]
        \in [Groups -> Seq(Events)]
  BY <1>2, <1>3
<1> QED BY <1>1, <1>2, <1>4 DEF AddMember, Databases

\* The UPDATE of the group, the INSERT of the member and the event together
\* keep a database consistent.
LEMMA AssignConsistent ==
    ASSUME NEW d \in Databases, Consistent(d), NEW r \in AssignRequests,
           Assignable(d, r), Unassigned(d, r)
    PROVE  Consistent(AddMember(NextGroupVersion(d, r), r))
<1> DEFINE row == [group |-> r.group, enrollment |-> r.enrollment]
           event == [actor |-> r.as, enrollment |-> r.enrollment]
           e == AddMember(NextGroupVersion(d, r), r)
<1>1. /\ r.group \in Groups /\ r.enrollment \in Enrollments
      /\ row.group = r.group /\ row.enrollment = r.enrollment
      /\ event.actor = r.as /\ event.enrollment = r.enrollment /\ event \in Events
  BY DEF AssignRequests, Events
<1>2. /\ d.version \in [Groups -> Nat] /\ d.audit \in [Groups -> Seq(Events)]
      /\ d.members \subseteq Members
  BY DEF Databases
<1>3. /\ e.members = d.members \cup {row}
      /\ e.version = [d.version EXCEPT ![r.group] = d.version[r.group] + 1]
      /\ e.audit = [d.audit EXCEPT ![r.group] = Append(d.audit[r.group], event)]
  BY DEF AddMember, NextGroupVersion, Databases
<1> HIDE DEF row, event, e
<1>4. IsFiniteSet(d.members) /\ WithinCapacity(d) /\ OneGroup(d) /\ Audited(d)
  BY DEF Consistent
<1>5. \A m \in d.members : m.enrollment # r.enrollment
  BY DEF Unassigned
<1>6. row \notin d.members
  BY <1>1, <1>5
<1>7. \A g \in Groups :
        MembersOf(e, g) = IF g = r.group THEN MembersOf(d, g) \cup {row} ELSE MembersOf(d, g)
  BY <1>1, <1>3 DEF MembersOf
<1>8. \A g \in Groups : IsFiniteSet(MembersOf(d, g)) /\ Cardinality(MembersOf(d, g)) \in Nat
  BY <1>4, FS_Subset, FS_CardinalityType DEF MembersOf
<1>9. Cardinality(MembersOf(e, r.group)) = Cardinality(MembersOf(d, r.group)) + 1
  <2>1. row \notin MembersOf(d, r.group)
    BY <1>6 DEF MembersOf
  <2>2. Cardinality(MembersOf(d, r.group) \cup {row}) = Cardinality(MembersOf(d, r.group)) + 1
    BY <1>1, <1>8, <2>1, FS_AddElement
  <2> QED BY <1>1, <1>7, <2>2
<1>10. IsFiniteSet(e.members)
  BY <1>3, <1>4, FS_AddElement
<1>11. WithinCapacity(e)
  <2>1. Cardinality(MembersOf(d, r.group)) < Places[r.group] /\ Places[r.group] \in Nat
    BY <1>1, GroupAssumption DEF Assignable, PlaceLeft
  <2> QED BY <1>1, <1>4, <1>7, <1>8, <1>9, <2>1 DEF WithinCapacity
<1>12. OneGroup(e)
  <2>1. EnrollmentSession[row.enrollment] = GroupSession[row.group]
    BY <1>1 DEF Assignable, Active
  <2> QED BY <1>1, <1>3, <1>4, <1>5, <2>1 DEF OneGroup
<1>13. Audited(e)
  <2> SUFFICES ASSUME NEW g \in Groups
               PROVE  /\ Len(e.audit[g]) + 1 = e.version[g]
                      /\ Cardinality(MembersOf(e, g)) = Len(e.audit[g])
                      /\ \A m \in MembersOf(e, g) : \E n \in DOMAIN e.audit[g] :
                            /\ e.audit[g][n].enrollment = m.enrollment
                            /\ e.audit[g][n].actor \in {GroupCoach[g], Admin}
    BY DEF Audited
  <2>1. /\ Len(d.audit[g]) + 1 = d.version[g]
        /\ Cardinality(MembersOf(d, g)) = Len(d.audit[g])
        /\ \A m \in MembersOf(d, g) : \E n \in DOMAIN d.audit[g] :
              /\ d.audit[g][n].enrollment = m.enrollment
              /\ d.audit[g][n].actor \in {GroupCoach[g], Admin}
    BY <1>4 DEF Audited
  <2>2. CASE g # r.group
    BY <1>2, <1>3, <1>7, <2>1, <2>2
  <2>3. CASE g = r.group
    <3>1. /\ d.audit[g] \in Seq(Events) /\ e.audit[g] = Append(d.audit[g], event)
          /\ e.version[g] = d.version[g] + 1
      BY <1>1, <1>2, <1>3, <2>3
    <3>2. /\ Len(e.audit[g]) = Len(d.audit[g]) + 1
          /\ \A n \in DOMAIN d.audit[g] : n \in DOMAIN e.audit[g] /\ e.audit[g][n] = d.audit[g][n]
          /\ Len(e.audit[g]) \in DOMAIN e.audit[g] /\ e.audit[g][Len(e.audit[g])] = event
      BY <1>1, <3>1
    <3>3. r.as \in {GroupCoach[g], Admin}
      BY <2>3 DEF Assignable, Owns
    <3>4. ASSUME NEW m \in MembersOf(e, g)
          PROVE  \E n \in DOMAIN e.audit[g] :
                    /\ e.audit[g][n].enrollment = m.enrollment
                    /\ e.audit[g][n].actor \in {GroupCoach[g], Admin}
      <4>1. CASE m \in MembersOf(d, g)
        BY <2>1, <3>2, <4>1
      <4>2. CASE m = row
        BY <1>1, <3>2, <3>3, <4>2
      <4> QED BY <1>7, <2>3, <4>1, <4>2
    <3> QED BY <1>9, <2>1, <2>3, <3>1, <3>2, <3>4
  <2> QED BY <2>2, <2>3
<1> QED BY <1>10, <1>11, <1>12, <1>13 DEF Consistent, e

-----------------------------------------------------------------------------
\* The shapes of a step

\* What a request does to its own state leaves the others where they were.
LEMMA GiveUpStep ==
    ASSUME Inductive, NEW p \in Procs, NEW outcome \in Outcomes, GiveUp(p, outcome)
    PROVE  Inductive'
<1>1. /\ db' = db /\ pc' = [pc EXCEPT ![p] = "idle"] /\ req' = [req EXCEPT ![p] = NoRequest]
      /\ seen' = [seen EXCEPT ![p] = NoRow] /\ answer' = [answer EXCEPT ![p] = outcome]
      /\ snapshot' = [snapshot EXCEPT ![p] = "none"]
      /\ staged' = IF writer = p THEN db ELSE staged
      /\ writer' = IF writer = p THEN NoProc ELSE writer
  BY DEF GiveUp, Rollback, Answer
<1>2. TypeOK'
  BY <1>1 DEF Inductive, TypeOK, Points, SnapshotStates
<1>3. Locked'
  BY <1>1, ProcAssumption DEF Inductive, TypeOK, Locked
<1>4. ChecksHold'
  BY <1>1 DEF Inductive, TypeOK, Locked, ChecksHold
<1> QED BY <1>1, <1>2, <1>3, <1>4 DEF Inductive

LEMMA ArrivesStep ==
    ASSUME Inductive, NEW p \in Procs, Arrives(p)
    PROVE  Inductive'
<1>1. CASE \E role \in Roles : Rejected(p, role)
  <2>1. /\ UNCHANGED storeVars /\ pc[p] = "idle"
        /\ pc' = [pc EXCEPT ![p] = "idle"] /\ req' = [req EXCEPT ![p] = NoRequest]
        /\ seen' = [seen EXCEPT ![p] = NoRow] /\ answer' = [answer EXCEPT ![p] = "refused"]
    BY <1>1 DEF Rejected, Answer
  <2>2. TypeOK'
    BY <2>1 DEF Inductive, TypeOK, storeVars, Points, Outcomes
  <2>3. Locked' /\ ChecksHold'
    BY <2>1 DEF Inductive, TypeOK, Locked, ChecksHold, storeVars
  <2> QED BY <2>1, <2>2, <2>3 DEF Inductive, storeVars
<1>2. ASSUME NEW r \in AssignRequests, Begin(p, r) PROVE Inductive'
  <2>1. /\ UNCHANGED <<storeVars, seen>> /\ pc[p] = "idle"
        /\ pc' = [pc EXCEPT ![p] = "begin"] /\ req' = [req EXCEPT ![p] = r]
        /\ answer' = [answer EXCEPT ![p] = "none"]
    BY <1>2 DEF Begin, Take
  <2>2. TypeOK'
    BY <2>1 DEF Inductive, TypeOK, storeVars, Points, Outcomes
  <2>3. Locked' /\ ChecksHold'
    BY <2>1 DEF Inductive, TypeOK, Locked, ChecksHold, storeVars
  <2> QED BY <2>1, <2>2, <2>3 DEF Inductive, storeVars
<1> QED BY <1>1, <1>2 DEF Arrives

LEMMA ReadStep ==
    ASSUME Inductive, NEW p \in Procs, AssignRead(p)
    PROVE  Inductive'
<1>1. /\ pc[p] = "begin" /\ Assignable(db, req[p]) /\ pc' = [pc EXCEPT ![p] = "checked"]
      /\ snapshot' = [snapshot EXCEPT ![p] = "fresh"]
      /\ UNCHANGED <<db, staged, writer, req, seen, answer>>
  BY DEF AssignRead, TakeSnapshot, Goto
<1>2. TypeOK'
  BY <1>1 DEF Inductive, TypeOK, Points, SnapshotStates
<1>3. Locked' /\ ChecksHold'
  BY <1>1 DEF Inductive, TypeOK, Locked, ChecksHold
<1> QED BY <1>1, <1>2, <1>3 DEF Inductive

\* The first write is let in on a snapshot that is not stale: the checks hold
\* of what is committed.
LEMMA UpdateStep ==
    ASSUME Inductive, NEW p \in Procs, AssignUpdate(p)
    PROVE  Inductive'
<1>1. /\ pc[p] = "checked" /\ pc' = [pc EXCEPT ![p] = "inserting"]
      /\ MayWrite(p) /\ writer' = p /\ staged' = NextGroupVersion(db, req[p])
      /\ snapshot' = [snapshot EXCEPT ![p] = "fresh"]
      /\ UNCHANGED <<db, req, seen, answer>>
  BY DEF AssignUpdate, Write, Goto
<1>2. req[p] \in AssignRequests /\ writer = NoProc /\ Assignable(db, req[p])
  BY <1>1 DEF Inductive, TypeOK, Locked, ChecksHold, MayWrite, SnapshotStates
<1>3. TypeOK'
  BY <1>1, <1>2, NextVersionType DEF Inductive, TypeOK, Points, SnapshotStates
<1>4. Locked'
  BY <1>1, <1>2, ProcAssumption DEF Inductive, TypeOK, Locked
<1>5. ChecksHold'
  BY <1>1, <1>2, ProcAssumption DEF Inductive, TypeOK, Locked, ChecksHold
<1> QED BY <1>1, <1>3, <1>4, <1>5 DEF Inductive

LEMMA InsertStep ==
    ASSUME Inductive, NEW p \in Procs, AssignInsert(p)
    PROVE  Inductive'
<1>1. /\ pc[p] = "inserting" /\ pc' = [pc EXCEPT ![p] = "written"] /\ Unassigned(staged, req[p])
      /\ writer' = p /\ staged' = AddMember(staged, req[p])
      /\ snapshot' = [snapshot EXCEPT ![p] = "fresh"]
      /\ UNCHANGED <<db, req, seen, answer>>
  BY DEF AssignInsert, Write, Goto
<1>2. /\ req[p] \in AssignRequests /\ writer = p /\ Assignable(db, req[p])
      /\ staged = NextGroupVersion(db, req[p])
  BY <1>1 DEF Inductive, Locked, ChecksHold
<1>3. Unassigned(db, req[p])
  BY <1>1, <1>2 DEF Unassigned, NextGroupVersion, Inductive, TypeOK, Databases
<1>4. TypeOK'
  BY <1>1, <1>2, AddMemberType DEF Inductive, TypeOK, Points, SnapshotStates
<1>5. Locked'
  BY <1>1, <1>2, ProcAssumption DEF Inductive, TypeOK, Locked
<1>6. ChecksHold'
  BY <1>1, <1>2, <1>3 DEF Inductive, TypeOK, Locked, ChecksHold
<1> QED BY <1>1, <1>4, <1>5, <1>6 DEF Inductive

LEMMA CommitStep ==
    ASSUME Inductive, NEW p \in Procs, NEW outcome, CommitAndAnswer(p, outcome)
    PROVE  Inductive'
<1>1. /\ pc[p] = "written" /\ writer = p /\ db' = staged /\ staged' = staged /\ writer' = NoProc
      /\ snapshot' = [Outdated EXCEPT ![p] = "none"] /\ outcome \in Outcomes
      /\ pc' = [pc EXCEPT ![p] = "idle"] /\ req' = [req EXCEPT ![p] = NoRequest]
      /\ seen' = [seen EXCEPT ![p] = NoRow] /\ answer' = [answer EXCEPT ![p] = outcome]
  BY DEF CommitAndAnswer, Commit, Answer, Outcomes
<1>2. Consistent(db')
  BY <1>1, AssignConsistent DEF Inductive, TypeOK, ChecksHold
<1>3. /\ snapshot' \in [Procs -> SnapshotStates]
      /\ \A q \in Procs : q # p => snapshot'[q] # "fresh"
                                  /\ (snapshot[q] # "none" => snapshot'[q] # "none")
  BY <1>1 DEF Inductive, TypeOK, Outdated, SnapshotStates
<1>4. TypeOK'
  BY <1>1, <1>3 DEF Inductive, TypeOK, Points
<1>5. Locked'
  BY <1>1, ProcAssumption DEF Inductive, TypeOK, Locked
<1>6. ChecksHold'
  BY <1>1, <1>3 DEF Inductive, TypeOK, Locked, ChecksHold
<1> QED BY <1>2, <1>4, <1>5, <1>6 DEF Inductive

\* A cancellation takes the write lock for its own statement, when no request
\* has it: whoever relied on what it changes has an outdated snapshot now.
LEMMA CanceledStep ==
    ASSUME Inductive, NEW s \in Sessions, SessionCanceled(s)
    PROVE  Inductive'
<1>1. /\ writer = NoProc /\ writer' = writer /\ staged' = db' /\ snapshot' = Outdated
      /\ db' = [db EXCEPT !.confirmed = {e \in db.confirmed : EnrollmentSession[e] # s}]
      /\ UNCHANGED requestVars
  BY DEF SessionCanceled, AutoCommit
<1>2. /\ db \in Databases /\ db' \in Databases
      /\ db'.members = db.members /\ db'.version = db.version /\ db'.audit = db.audit
  BY <1>1 DEF Inductive, TypeOK, Databases
<1>3. Consistent(db')
  <2>1. \A g \in Groups : MembersOf(db', g) = MembersOf(db, g)
    BY <1>2 DEF MembersOf
  <2>2. WithinCapacity(db')
    BY <2>1 DEF Inductive, Consistent, WithinCapacity
  <2>3. OneGroup(db')
    BY <1>2 DEF Inductive, Consistent, OneGroup
  <2>4. Audited(db')
    BY <1>2, <2>1 DEF Inductive, Consistent, Audited
  <2> QED BY <1>2, <2>2, <2>3, <2>4 DEF Inductive, Consistent
<1>4. /\ snapshot' \in [Procs -> SnapshotStates]
      /\ \A q \in Procs : snapshot'[q] # "fresh" /\ (snapshot[q] # "none" => snapshot'[q] # "none")
  BY <1>1 DEF Inductive, TypeOK, Outdated, SnapshotStates
<1>5. TypeOK'
  BY <1>1, <1>2, <1>4 DEF Inductive, TypeOK, requestVars
<1>6. Locked'
  BY <1>1 DEF Inductive, Locked, requestVars
<1>7. \A q \in Procs : pc[q] \notin {"inserting", "written"}
  BY <1>1, ProcAssumption DEF Inductive, Locked
<1>8. ChecksHold'
  BY <1>1, <1>4, <1>7 DEF Inductive, ChecksHold, requestVars
<1> QED BY <1>3, <1>5, <1>6, <1>8 DEF Inductive

LEMMA CrashStep ==
    ASSUME Inductive, Crash
    PROVE  Inductive'
<1>1. /\ db' = db /\ staged' = db /\ writer' = NoProc /\ snapshot' = [p \in Procs |-> "none"]
      /\ pc' = [p \in Procs |-> "idle"] /\ req' = [p \in Procs |-> NoRequest]
      /\ seen' = [p \in Procs |-> NoRow] /\ answer' = [p \in Procs |-> "none"]
  BY DEF Crash, Die, LoseTransactions
<1>2. TypeOK'
  BY <1>1 DEF Inductive, TypeOK, Points, SnapshotStates, Outcomes
<1>3. Locked' /\ ChecksHold'
  BY <1>1, ProcAssumption DEF Locked, ChecksHold
<1> QED BY <1>1, <1>2, <1>3 DEF Inductive

-----------------------------------------------------------------------------
\* The invariant

LEMMA InitInductive == Init => Inductive
<1> SUFFICES ASSUME Init PROVE Inductive
  OBVIOUS
<1>1. /\ db = EmptyDatabase /\ staged = db /\ writer = NoProc
      /\ snapshot = [p \in Procs |-> "none"] /\ pc = [p \in Procs |-> "idle"]
      /\ req = [p \in Procs |-> NoRequest] /\ seen = [p \in Procs |-> NoRow]
      /\ answer = [p \in Procs |-> "none"]
  BY DEF Init, InitStore, InitRequests
<1>2. /\ db.version = [g \in Groups |-> 1] /\ db.members = {}
      /\ db.audit = [g \in Groups |-> <<>>] /\ db \in Databases
  BY <1>1 DEF EmptyDatabase, Databases
<1>3. Consistent(db)
  <2>1. \A g \in Groups : MembersOf(db, g) = {}
    BY <1>2 DEF MembersOf
  <2>2. IsFiniteSet({}) /\ Cardinality({}) = 0
    BY FS_EmptySet
  <2>3. WithinCapacity(db)
    BY <2>1, <2>2, GroupAssumption DEF WithinCapacity
  <2>4. Audited(db)
    <3>1. \A g \in Groups : db.audit[g] = <<>> /\ db.version[g] = 1 /\ Len(db.audit[g]) = 0
      BY <1>2
    <3>2. \A g \in Groups : Cardinality(MembersOf(db, g)) = 0
      BY <2>1, <2>2
    <3> QED BY <2>1, <3>1, <3>2 DEF Audited
  <2> QED BY <1>2, <2>2, <2>3, <2>4 DEF Consistent, OneGroup
<1>4. TypeOK
  BY <1>1, <1>2 DEF TypeOK, Points, SnapshotStates, Outcomes
<1>5. Locked /\ ChecksHold
  BY <1>1, ProcAssumption DEF Locked, ChecksHold
<1> QED BY <1>3, <1>4, <1>5 DEF Inductive

LEMMA RequestStep ==
    ASSUME Inductive, NEW p \in Procs, Step(p) \/ TxFail(p)
    PROVE  Inductive'
<1>1. CASE \/ AssignRefused(p) \/ AssignConflict(p) \/ AssignDuplicate(p) \/ TxBusy(p)
           \/ TxFail(p)
  BY <1>1, GiveUpStep
  DEF AssignRefused, AssignConflict, AssignDuplicate, TxBusy, TxFail, GiveUpBusy,
      GiveUpAnywhere, Outcomes
<1> QED BY <1>1, ReadStep, UpdateStep, InsertStep, CommitStep DEF Step, TxCommit

LEMMA NextInductive == Inductive /\ [Next]_vars => Inductive'
<1> SUFFICES ASSUME Inductive, [Next]_vars PROVE Inductive'
  OBVIOUS
<1>1. CASE Next
  BY <1>1, ArrivesStep, RequestStep, CrashStep, CanceledStep DEF Next, Environment
<1>2. CASE UNCHANGED vars
  BY <1>2 DEF vars, storeVars, requestVars, Inductive, TypeOK, Locked, ChecksHold
<1> QED BY <1>1, <1>2

-----------------------------------------------------------------------------
\* What is committed is consistent, and what is staged is one assignment on it
\* whose checks still hold.
THEOREM InductiveInvariant == Spec => []Inductive
BY InitInductive, NextInductive, PTL DEF Spec

\* The variables keep to their domains.
THEOREM TypeCorrect == Spec => []TypeOK
<1>1. Inductive => TypeOK
  BY DEF Inductive
<1> QED BY <1>1, InductiveInvariant, PTL

\* No group is fuller than its capacity, whatever the requests that race for
\* its last place.
THEOREM CapacityIsSafe == Spec => []GroupsWithinCapacity
<1>1. Inductive => GroupsWithinCapacity
  BY DEF Inductive, Consistent, GroupsWithinCapacity
<1> QED BY <1>1, InductiveInvariant, PTL

\* An enrollment is in one group, of its own session.
THEOREM GroupsAreDisjoint == Spec => []OneGroupEach
<1>1. Inductive => OneGroupEach
  BY DEF Inductive, Consistent, OneGroupEach
<1> QED BY <1>1, InductiveInvariant, PTL

\* Version, members and audit trail of a group tell the same story.
THEOREM AuditIsComplete == Spec => []AuditListsTheMembers
<1>1. Inductive => AuditListsTheMembers
  BY DEF Inductive, Consistent, AuditListsTheMembers
<1> QED BY <1>1, InductiveInvariant, PTL

\* What becomes of the committed database in a step.
LEMMA WhatIsCommitted ==
    ASSUME Inductive, Next
    PROVE  /\ db \in Databases /\ Consistent(db)
           /\ \/ db' = db
              \/ \E r \in AssignRequests :
                    /\ Assignable(db, r) /\ Unassigned(db, r)
                    /\ db' = AddMember(NextGroupVersion(db, r), r)
              \/ /\ db'.members = db.members /\ db'.audit = db.audit
                 /\ db'.confirmed \subseteq Enrollments
<1>1. db \in Databases /\ Consistent(db)
  BY DEF Inductive, TypeOK
<1>2. ASSUME NEW p \in Procs, TxCommit(p)
      PROVE  \E r \in AssignRequests :
                /\ Assignable(db, r) /\ Unassigned(db, r)
                /\ db' = AddMember(NextGroupVersion(db, r), r)
  <2>1. pc[p] = "written" /\ db' = staged
    BY <1>2 DEF TxCommit, CommitAndAnswer, Commit
  <2>2. /\ req[p] \in AssignRequests /\ Assignable(db, req[p]) /\ Unassigned(db, req[p])
        /\ staged = AddMember(NextGroupVersion(db, req[p]), req[p])
    BY <2>1 DEF Inductive, ChecksHold
  <2> QED BY <2>1, <2>2
<1>3. ASSUME NEW p \in Procs, Arrives(p) \/ Step(p) \/ TxFail(p), ~TxCommit(p)
      PROVE  db' = db
  BY <1>3 DEF Arrives, Rejected, Begin, Step, TxFail, AssignRead, AssignRefused, AssignUpdate,
              AssignConflict, AssignInsert, AssignDuplicate, TxBusy, GiveUpBusy, GiveUpAnywhere,
              GiveUp, Rollback, Write, TakeSnapshot, storeVars
<1>4. ASSUME NEW s \in Sessions, SessionCanceled(s)
      PROVE  /\ db'.members = db.members /\ db'.audit = db.audit
             /\ db'.confirmed \subseteq Enrollments
  BY <1>1, <1>4 DEF SessionCanceled, AutoCommit, Databases
<1>5. Crash => db' = db
  BY DEF Crash, Die, LoseTransactions
<1> QED BY <1>1, <1>2, <1>3, <1>4, <1>5 DEF Next, Environment

\* The checks of an assignment hold of the database that it is committed to.
THEOREM ChecksHoldAtCommit == Spec => ActiveAtCommit
<1>1. Inductive /\ [Next]_vars =>
        [\A m \in db'.members \ db.members :
            m.enrollment \in db.confirmed /\ PlaceLeft(db, m.group)]_vars
  <2> SUFFICES ASSUME Inductive, Next, NEW m \in db'.members, m \notin db.members
               PROVE  m.enrollment \in db.confirmed /\ PlaceLeft(db, m.group)
    OBVIOUS
  <2>1. PICK r \in AssignRequests :
            Assignable(db, r) /\ db' = AddMember(NextGroupVersion(db, r), r)
    BY WhatIsCommitted
  <2>2. m = [group |-> r.group, enrollment |-> r.enrollment]
    BY <2>1, WhatIsCommitted DEF AddMember, NextGroupVersion, Databases
  <2> QED BY <2>1, <2>2 DEF Assignable, Active
<1> QED BY <1>1, InductiveInvariant, PTL DEF Spec, ActiveAtCommit

-----------------------------------------------------------------------------
\* The rosters: what the tables stand for in TrainingLedger

RostersOf(d) == [g \in Groups |-> {m.enrollment : m \in MembersOf(d, g)}]

\* A member is somebody put on the one roster, which has a place left.
LEMMA AssignsAssign ==
    ASSUME NEW d \in Databases, Consistent(d), NEW r \in AssignRequests,
           Assignable(d, r), Unassigned(d, r)
    PROVE  LET e == AddMember(NextGroupVersion(d, r), r) IN
           /\ r.group \in Groups /\ r.enrollment \in Enrollments
           /\ r.as \in {GroupCoach[r.group], Admin}
           /\ r.enrollment \in d.confirmed
           /\ EnrollmentSession[r.enrollment] = GroupSession[r.group]
           /\ \A h \in Groups : r.enrollment \notin RostersOf(d)[h]
           /\ Cardinality(RostersOf(d)[r.group]) < Places[r.group]
           /\ RostersOf(e) = [RostersOf(d) EXCEPT ![r.group] =
                                RostersOf(d)[r.group] \cup {r.enrollment}]
           /\ e.audit = [d.audit EXCEPT ![r.group] =
                Append(d.audit[r.group], [actor |-> r.as, enrollment |-> r.enrollment])]
           /\ e.confirmed = d.confirmed
<1> DEFINE row == [group |-> r.group, enrollment |-> r.enrollment]
           e == AddMember(NextGroupVersion(d, r), r)
           seated == MembersOf(d, r.group)
<1>1. /\ r.group \in Groups /\ r.enrollment \in Enrollments
      /\ row.group = r.group /\ row.enrollment = r.enrollment
  BY DEF AssignRequests
<1>2. /\ e.members = d.members \cup {row} /\ e.confirmed = d.confirmed
      /\ e.audit = [d.audit EXCEPT ![r.group] =
            Append(d.audit[r.group], [actor |-> r.as, enrollment |-> r.enrollment])]
  BY DEF AddMember, NextGroupVersion, Databases
<1> HIDE DEF row, e
<1>3. /\ r.as \in {GroupCoach[r.group], Admin} /\ r.enrollment \in d.confirmed
      /\ EnrollmentSession[r.enrollment] = GroupSession[r.group]
      /\ Cardinality(seated) < Places[r.group]
  BY DEF Assignable, Owns, Active, PlaceLeft
<1>4. \A h \in Groups : r.enrollment \notin RostersOf(d)[h]
  BY DEF Unassigned, RostersOf, MembersOf
<1>5. RostersOf(e) = [RostersOf(d) EXCEPT ![r.group] =
                        RostersOf(d)[r.group] \cup {r.enrollment}]
  <2>1. \A g \in Groups :
            MembersOf(e, g) = IF g = r.group THEN MembersOf(d, g) \cup {row} ELSE MembersOf(d, g)
    BY <1>1, <1>2 DEF MembersOf
  <2>2. \A g \in Groups : RostersOf(e)[g] =
            IF g = r.group THEN RostersOf(d)[g] \cup {r.enrollment} ELSE RostersOf(d)[g]
    BY <1>1, <2>1 DEF RostersOf
  <2> QED BY <1>1, <2>2 DEF RostersOf
<1>6. Cardinality(RostersOf(d)[r.group]) < Places[r.group]
  <2> DEFINE f == [m \in seated |-> m.enrollment]
  <2>1. f \in Surjection(seated, RostersOf(d)[r.group])
    BY <1>1 DEF Surjection, RostersOf
  <2> HIDE DEF f
  <2>2. IsFiniteSet(seated)
    BY FS_Subset DEF Consistent, MembersOf
  <2>3. /\ IsFiniteSet(RostersOf(d)[r.group])
        /\ Cardinality(RostersOf(d)[r.group]) <= Cardinality(seated)
    BY <2>1, <2>2, FS_Surjection
  <2> HIDE DEF seated
  <2>4. /\ Cardinality(RostersOf(d)[r.group]) \in Nat /\ Cardinality(seated) \in Nat
        /\ Places[r.group] \in Nat
    BY <1>1, <2>2, <2>3, FS_CardinalityType, GroupAssumption
  <2> QED BY <1>3, <2>3, <2>4
<1> QED BY <1>1, <1>2, <1>3, <1>4, <1>5, <1>6 DEF e

LEMMA RosterStep ==
    ASSUME Inductive, Next
    PROVE  \/ Rosters!LedgerNext
           \/ UNCHANGED <<RostersOf(db), db.audit, db.confirmed>>
<1>1. ASSUME NEW r \in AssignRequests, Assignable(db, r), Unassigned(db, r),
             db' = AddMember(NextGroupVersion(db, r), r)
      PROVE  Rosters!LedgerNext
  <2>1. /\ r.group \in Groups /\ r.enrollment \in Enrollments
        /\ r.as \in {GroupCoach[r.group], Admin}
        /\ r.enrollment \in db.confirmed
        /\ EnrollmentSession[r.enrollment] = GroupSession[r.group]
        /\ \A h \in Groups : r.enrollment \notin RostersOf(db)[h]
        /\ Cardinality(RostersOf(db)[r.group]) < Places[r.group]
        /\ RostersOf(db') = [RostersOf(db) EXCEPT ![r.group] =
                                RostersOf(db)[r.group] \cup {r.enrollment}]
        /\ db'.audit = [db.audit EXCEPT ![r.group] =
                Append(db.audit[r.group], [actor |-> r.as, enrollment |-> r.enrollment])]
        /\ db'.confirmed = db.confirmed
    BY <1>1, AssignsAssign, WhatIsCommitted
  <2>2. \A set : Rosters!Cardinality(set) = Cardinality(set)
    BY DEF Cardinality, Rosters!Cardinality
  <2>3. Rosters!Assign(r.as, r.enrollment, r.group)
    BY <2>1, <2>2 DEF Rosters!Assign, RostersOf
  <2>4. r.as \in {GroupCoach[h] : h \in Groups} \cup {Admin}
    BY <2>1
  <2> QED BY <2>1, <2>3, <2>4 DEF Rosters!LedgerNext
<1>2. ASSUME db'.members = db.members, db'.audit = db.audit, db'.confirmed \subseteq Enrollments
      PROVE  Rosters!LedgerNext
  <2>1. Rosters!FactsMove
    BY <1>2 DEF Rosters!FactsMove, MembersOf
  <2> QED BY <2>1 DEF Rosters!LedgerNext
<1>3. db' = db => UNCHANGED <<RostersOf(db), db.audit, db.confirmed>>
  OBVIOUS
<1> QED BY <1>1, <1>2, <1>3, WhatIsCommitted

\* The statements of Assign, their failures and the crashes included, implement
\* rosters in which the checks and the insert are one step.
THEOREM RostersAreImplemented == Spec => ImplementsRosters
<1>1. Init => Rosters!LedgerInit
  BY DEF Init, InitStore, EmptyDatabase, Rosters!LedgerInit, MembersOf
<1>2. Inductive /\ [Next]_vars =>
        [Rosters!LedgerNext]_<<[g \in Groups |-> {m.enrollment : m \in MembersOf(db, g)}],
                               db.audit, db.confirmed>>
  <2>1. ASSUME UNCHANGED vars PROVE UNCHANGED <<RostersOf(db), db.audit, db.confirmed>>
    BY <2>1 DEF vars, storeVars
  <2> QED BY RosterStep, <2>1 DEF RostersOf
<1> QED BY <1>1, <1>2, InductiveInvariant, PTL DEF Spec, ImplementsRosters, Rosters!LedgerSpec
=============================================================================
