------------------------------ MODULE Training ------------------------------
(***************************************************************************)
(* internal/training: Service.Assign, which puts an enrolled student into  *)
(* a training group of the session.                                        *)
(*                                                                         *)
(* The session of an enrollment and the session, coach and capacity of a   *)
(* group never change and are constants.  db.confirmed holds the           *)
(* enrollments in state confirmed, which the cancellation of their session *)
(* ends.  Ids without a row are not among Groups and Enrollments: they are *)
(* refused.                                                                *)
(***************************************************************************)
EXTENDS Requests, Domain, FiniteSets, Naturals, Sequences

CONSTANTS
    Groups, Enrollments, Sessions, Coaches,
    GroupSession, GroupCoach, Places,   \* of each group
    EnrollmentSession,                  \* of each enrollment
    Admin,
    MaxVersion                          \* bound: versions that a caller expects

Callers == Coaches \cup {Admin}

ASSUME GroupAssumption ==
    /\ GroupSession \in [Groups -> Sessions]
    /\ GroupCoach \in [Groups -> Coaches]
    /\ Places \in [Groups -> Nat]
    /\ EnrollmentSession \in [Enrollments -> Sessions]
ASSUME AdminAssumption == Admin \notin Coaches
ASSUME VersionAssumption == MaxVersion \in Nat

vars == <<storeVars, requestVars>>

Members == [group: Groups, enrollment: Enrollments]
Events == [actor: Callers, enrollment: Enrollments]
Databases ==
    [version: [Groups -> Nat],          \* training_groups
     members: SUBSET Members,           \* group_members
     confirmed: SUBSET Enrollments,
     audit: [Groups -> Seq(Events)]]

\* AssignRequest, with the account that sends it.
AssignRequests ==
    [group: Groups, enrollment: Enrollments, version: 1..MaxVersion, as: Callers]
Points == {"idle", "begin", "checked", "inserting", "written"}

MembersOf(d, g) == {m \in d.members : m.group = g}

-----------------------------------------------------------------------------
Rejected(p, role) ==
    /\ pc[p] = "idle"
    /\ role \notin {"coach", "administrator"}
    /\ Answer(p, "refused")
    /\ UNCHANGED storeVars

Begin(p, r) ==
    /\ Take(p, r, "begin")
    /\ UNCHANGED <<storeVars, seen>>

\* The enrollment is active for the session of the group, the caller owns the
\* group, and the group has a place left.
Owns(r) == r.as \in {GroupCoach[r.group], Admin}

Active(d, r) ==
    /\ EnrollmentSession[r.enrollment] = GroupSession[r.group]
    /\ r.enrollment \in d.confirmed

\* Mutant: one member too many.
PlaceLeftOffByOne(d, g) == Cardinality(MembersOf(d, g)) <= Places[g]

PlaceLeft(d, g) == Cardinality(MembersOf(d, g)) < Places[g]

Assignable(d, r) ==
    /\ Active(d, r)
    /\ Owns(r)
    /\ PlaceLeft(d, r.group)

\* Mutant: the rows are read on the pool and not in the transaction.
AssignReadOutside(p) ==
    /\ pc[p] = "begin"
    /\ Assignable(db, req[p])
    /\ Goto(p, "checked")
    /\ UNCHANGED storeVars

\* The three SELECTs, of one snapshot, and the checks on them.
AssignRead(p) ==
    /\ pc[p] = "begin"
    /\ Assignable(db, req[p])
    /\ TakeSnapshot(p)
    /\ Goto(p, "checked")

AssignRefused(p) ==
    /\ pc[p] = "begin"
    /\ ~Assignable(db, req[p])
    /\ GiveUp(p, "refused")

\* The UPDATE of the group, under the version that the request expects.
GroupUnchanged(d, r) == d.version[r.group] = r.version

NextGroupVersion(d, r) == [d EXCEPT !.version[r.group] = @ + 1]

AssignUpdate(p) ==
    /\ pc[p] = "checked"
    /\ GroupUnchanged(db, req[p])
    /\ Write(p, NextGroupVersion(db, req[p]))
    /\ Goto(p, "inserting")

AssignConflict(p) ==
    /\ pc[p] = "checked"
    /\ MayWrite(p)
    /\ ~GroupUnchanged(db, req[p])
    /\ GiveUp(p, "version_conflict")

\* Mutant: unique within the group only.
UnassignedHere(d, r) == \A m \in MembersOf(d, r.group) : m.enrollment # r.enrollment

\* UNIQUE(enrollment_id), of group_members.
Unassigned(d, r) == \A m \in d.members : m.enrollment # r.enrollment

\* Mutant: the event has its actor and its object the wrong way round.
AddMemberSwapped(d, r) ==
    [d EXCEPT !.members = @ \cup {[group |-> r.group, enrollment |-> r.enrollment]},
              !.audit[r.group] = Append(@, [actor |-> r.group, enrollment |-> r.enrollment])]

\* Mutant: no event when the administrator assigns.
AddMemberUnaudited(d, r) ==
    [d EXCEPT !.members = @ \cup {[group |-> r.group, enrollment |-> r.enrollment]},
              !.audit[r.group] = IF r.as = Admin THEN @
                                 ELSE Append(@, [actor |-> r.as, enrollment |-> r.enrollment])]

AddMember(d, r) ==
    [d EXCEPT !.members = @ \cup {[group |-> r.group, enrollment |-> r.enrollment]},
              !.audit[r.group] = Append(@, [actor |-> r.as, enrollment |-> r.enrollment])]

\* The INSERT of the member and the audit event.
AssignInsert(p) ==
    /\ pc[p] = "inserting"
    /\ Unassigned(staged, req[p])
    /\ Write(p, AddMember(staged, req[p]))
    /\ Goto(p, "written")

AssignDuplicate(p) ==
    /\ pc[p] = "inserting"
    /\ ~Unassigned(staged, req[p])
    /\ GiveUp(p, "failed")

-----------------------------------------------------------------------------
\* Store.InTx

\* Mutant: the statement is tried again.
TxBusyRetries(p) ==
    /\ pc[p] = "checked"
    /\ Busy(p)
    /\ UNCHANGED vars

TxBusy(p) == GiveUpBusy(p, {"checked"})

TxFail(p) == GiveUpAnywhere(p)

TxCommit(p) == \E outcome \in Outcomes : CommitAndAnswer(p, outcome)

-----------------------------------------------------------------------------
\* The environment

Crash == Die

\* The UPDATE of CancelSessionRows: every confirmed enrollment of a session.
SessionCanceled(s) ==
    /\ \E e \in db.confirmed : EnrollmentSession[e] = s
    /\ AutoCommit([db EXCEPT !.confirmed = {e \in @ : EnrollmentSession[e] # s}])
    /\ UNCHANGED requestVars

-----------------------------------------------------------------------------
EmptyDatabase ==
    [version |-> [g \in Groups |-> 1],
     members |-> {},
     confirmed |-> Enrollments,
     audit |-> [g \in Groups |-> <<>>]]

Init ==
    /\ InitStore(EmptyDatabase)
    /\ InitRequests

Arrives(p) ==
    \/ \E role \in Roles : Rejected(p, role)
    \/ \E r \in AssignRequests : Begin(p, r)

Step(p) ==
    \/ AssignRead(p) \/ AssignRefused(p)
    \/ AssignUpdate(p) \/ AssignConflict(p)
    \/ AssignInsert(p) \/ AssignDuplicate(p)
    \/ TxBusy(p) \/ TxCommit(p)

Environment ==
    \/ Crash
    \/ \E s \in Sessions : SessionCanceled(s)

Next == (\E p \in Procs : Arrives(p) \/ Step(p) \/ TxFail(p)) \/ Environment

Spec == Init /\ [][Next]_vars

\* A request that was taken up is carried on by its goroutine; nothing makes
\* one arrive, fail or crash.
FairSpec == Spec /\ \A p \in Procs : WF_vars(Step(p))

-----------------------------------------------------------------------------
\* Properties

\* Rows, requests and points keep to the states the code gives them.
TypeOK ==
    /\ db \in Databases
    /\ staged \in Databases
    /\ writer \in Procs \cup {NoProc}
    /\ snapshot \in [Procs -> SnapshotStates]
    /\ pc \in [Procs -> Points]
    /\ req \in [Procs -> AssignRequests \cup {NoRequest}]
    /\ seen \in [Procs -> {NoRow}]
    /\ answer \in [Procs -> Outcomes]

WithinCapacity(d) == \A g \in Groups : Cardinality(MembersOf(d, g)) <= Places[g]

\* No group is fuller than its capacity: the members are counted by one
\* statement and inserted by another, and no constraint of the schema holds
\* the two together.
GroupsWithinCapacity == WithinCapacity(db)

OneGroup(d) ==
    \A m, n \in d.members :
        /\ m.enrollment = n.enrollment => m = n
        /\ EnrollmentSession[m.enrollment] = GroupSession[m.group]

\* An enrollment is in one group at most, and in a group of its own session,
\* also when two coaches assign it at once.
OneGroupEach == OneGroup(db)

Audited(d) ==
    \A g \in Groups :
        LET events == d.audit[g] IN
        /\ Len(events) + 1 = d.version[g]
        /\ Cardinality(MembersOf(d, g)) = Len(events)
        /\ \A m \in MembersOf(d, g) : \E n \in DOMAIN events :
            events[n].enrollment = m.enrollment /\ events[n].actor \in {GroupCoach[g], Admin}

\* The version of a group counts its members, and its audit trail is the list
\* of them, each put there by the coach of the group or an administrator: what
\* is written by three statements is committed together or not at all.
AuditListsTheMembers == Audited(db)

\* README: "Training group assignment checks ownership and capacity before
\* inserting membership."  Whoever becomes a member is confirmed, and a place
\* is left, in the database that the membership is committed to: nobody is put
\* into a group of a session that was canceled after the check.
ActiveAtCommit ==
    [][\A m \in db'.members \ db.members :
            m.enrollment \in db.confirmed /\ PlaceLeft(db, m.group)]_vars

\* A request that has begun returns, whoever holds the write lock and whatever
\* has been committed since it read: a deferred transaction whose snapshot is
\* outdated can never write, and gives up instead of trying again.
EveryRequestReturns ==
    \A p \in Procs : pc[p] # "idle" ~> pc[p] = "idle"

-----------------------------------------------------------------------------
\* What makes the three invariants inductive

Consistent(d) == IsFiniteSet(d.members) /\ WithinCapacity(d) /\ OneGroup(d) /\ Audited(d)

\* The writer, and nobody else, is between its first statement and its commit.
Locked ==
    /\ writer = NoProc => staged = db
    /\ \A p \in Procs : writer = p <=> pc[p] \in {"inserting", "written"}

\* What a request has found out holds as long as its snapshot is that of the
\* committed database, which it is from its first write on; and it has staged
\* its own statements on that database and nothing else.
ChecksHold ==
    \A p \in Procs :
        /\ pc[p] # "idle" => req[p] \in AssignRequests
        /\ pc[p] = "checked" => snapshot[p] # "none"
        /\ pc[p] = "checked" /\ snapshot[p] = "fresh" => Assignable(db, req[p])
        /\ pc[p] \in {"inserting", "written"} => Assignable(db, req[p])
        /\ pc[p] = "inserting" => staged = NextGroupVersion(db, req[p])
        /\ pc[p] = "written" =>
            /\ Unassigned(db, req[p])
            /\ staged = AddMember(NextGroupVersion(db, req[p]), req[p])

\* What is committed is consistent; what is staged is the next version of a
\* group that has a place left, or that group with its new member.  Assign
\* counts the members and inserts one in different statements.
Inductive ==
    /\ TypeOK
    /\ Locked
    /\ ChecksHold
    /\ Consistent(db)

-----------------------------------------------------------------------------
\* What Training implements
Rosters == INSTANCE TrainingLedger WITH
    roster    <- [g \in Groups |-> {m.enrollment : m \in MembersOf(db, g)}],
    journal   <- db.audit,
    confirmed <- db.confirmed

\* README: "Training group assignment checks ownership and capacity before
\* inserting membership."  Assign, statement by statement, implements rosters
\* in which the checks and the insert are one step: whoever becomes a member is
\* confirmed, and a place is left, in the database that the membership is
\* committed to, and nobody is put into a group of a session that was canceled
\* after the check.
ImplementsRosters == Rosters!LedgerSpec
=============================================================================
