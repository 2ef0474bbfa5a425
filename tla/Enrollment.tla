----------------------------- MODULE Enrollment -----------------------------
(***************************************************************************)
(* internal/enrollment: Service.Enroll and Service.CancelCourse over the   *)
(* rows of internal/storage/sqlite/enrollment.go, each request a process   *)
(* that goes through its reads, its transaction and its answer one step at *)
(* a time (Requests).                                                      *)
(*                                                                         *)
(* Dates are abstracted to what Enroll asks of them.  OldEnough and Minor  *)
(* are the outcomes of the age arithmetic, fixed by the birth date and the *)
(* start of the session.  `started` holds the sessions whose start the     *)
(* clock has passed.  db.consent, db.certified and db.qualified hold the   *)
(* pairs for which the three COUNT queries of EnrollmentSnapshot let the   *)
(* student in; they change when other programs edit those tables and when  *)
(* consents, certifications and qualifications expire.                     *)
(***************************************************************************)
EXTENDS Requests, Domain, FiniteSets, Naturals

CONSTANTS
    Students, Sessions, Keys,
    NoKey,              \* a blank idempotency key
    Capacity,           \* seats of each session
    OldEnough,          \* <<student, session>> of the minimum age or above
    Minor,              \* <<student, session>> under eighteen at the start
    ChangingFacts       \* bound: which facts, and of whom, others change while we watch

Pairs == Students \X Sessions

ASSUME CapacityAssumption == Capacity \in [Sessions -> Nat]
ASSUME EligibilityAssumption == OldEnough \subseteq Pairs /\ Minor \subseteq Pairs
ASSUME KeyAssumption == NoKey \notin Keys

VARIABLES
    started,    \* the sessions that have started, by the clock
    acked       \* history: the requests that were answered "ok"

vars == <<storeVars, requestVars, started, acked>>

CourseStates == {"scheduled", "in_progress", "completed", "canceled"}
Courses == [status: CourseStates, enrolled: Nat, version: Nat]
Rows == [session: Sessions, student: Students, key: Keys,
         status: {"confirmed", "makeup_due"}]
AuditCounts == [confirmed: Nat, canceled: Nat, makeups: Nat]
Databases ==
    [course: [Sessions -> Courses],
     rows: SUBSET Rows,                 \* enrollments
     makeups: SUBSET Pairs,             \* makeup_entitlements, by enrollment
     consent: SUBSET Pairs,
     certified: SUBSET Pairs,
     qualified: SUBSET Sessions,
     audit: [Sessions -> AuditCounts]]  \* audit_events of the two actions

EnrollRequests == [op: {"enroll"}, student: Students, session: Sessions, key: Keys]
CancelRequests == [op: {"cancel"}, session: Sessions]
Points == {"idle", "begin", "checked", "reserved", "canceling", "written"}

RowsOf(d, s) == {r \in d.rows : r.session = s}
Confirmed(d, s) == {r \in RowsOf(d, s) : r.status = "confirmed"}
Enrolled(d, st, s) == \E r \in d.rows : r.student = st /\ r.session = s
PairsOf(rows) == {<<r.student, r.session>> : r \in rows}

\* The request returns "ok", and the caller hears it.
Acknowledge(r) == acked' = acked \cup {r}

-----------------------------------------------------------------------------
\* Service.Enroll

\* The role and the blank key are refused before anything is read.
EnrollRejected(p, role, key) ==
    /\ pc[p] = "idle"
    /\ role \notin {"guardian", "administrator"} \/ key = NoKey
    /\ Answer(p, "refused")
    /\ UNCHANGED <<storeVars, started, acked>>

\* Mutant: the row found under the key is not compared with the request.
EnrollReplayedBlindly(p, r) ==
    /\ pc[p] = "idle"
    /\ \E row \in db.rows : row.key = r.key
    /\ Answer(p, "ok")
    /\ Acknowledge(r)
    /\ UNCHANGED <<storeVars, started>>

\* EnrollmentByKey, outside the transaction.  Only a row that was found ends
\* the request: a lookup that fails is taken for a key that is not there.
EnrollReplayed(p, r) ==
    /\ pc[p] = "idle"
    /\ \E row \in db.rows :
        /\ row.key = r.key
        /\ \/ /\ row.student = r.student /\ row.session = r.session
              /\ Answer(p, "ok")
              /\ Acknowledge(r)
           \/ /\ row.student # r.student \/ row.session # r.session
              /\ Answer(p, "refused")
              /\ UNCHANGED acked
    /\ UNCHANGED <<storeVars, started>>

EnrollBegin(p, r, lookupFails) ==
    /\ lookupFails \/ \A row \in db.rows : row.key # r.key
    /\ Take(p, r, "begin")
    /\ UNCHANGED <<storeVars, seen, started, acked>>

\* Mutant: a minor needs no consent.
EligibleUnasked(d, st, s) ==
    /\ d.course[s].status = "scheduled"
    /\ <<st, s>> \in OldEnough
    /\ <<st, s>> \in d.certified
    /\ s \in d.qualified

Eligible(d, st, s) ==
    /\ d.course[s].status = "scheduled"
    /\ <<st, s>> \in OldEnough
    /\ <<st, s>> \in Minor => <<st, s>> \in d.consent
    /\ <<st, s>> \in d.certified
    /\ s \in d.qualified

\* Mutant: the snapshot is read on the pool and not in the transaction.
EnrollCheckOutside(p) ==
    /\ pc[p] = "begin"
    /\ Eligible(db, req[p].student, req[p].session)
    /\ req[p].session \notin started
    /\ Saw(p, db.course[req[p].session], "checked")
    /\ UNCHANGED <<storeVars, started, acked>>

\* EnrollmentSnapshot and the checks on it.
EnrollCheck(p) ==
    /\ pc[p] = "begin"
    /\ Eligible(db, req[p].student, req[p].session)
    /\ req[p].session \notin started
    /\ TakeSnapshot(p)
    /\ Saw(p, db.course[req[p].session], "checked")
    /\ UNCHANGED <<started, acked>>

EnrollRefused(p) ==
    /\ pc[p] = "begin"
    /\ \/ ~Eligible(db, req[p].student, req[p].session)
       \/ req[p].session \in started
    /\ GiveUp(p, "refused")
    /\ UNCHANGED <<started, acked>>

\* Mutant: the last seat is taken twice.
SeatFreeOffByOne(d, s, version) ==
    /\ d.course[s].version = version
    /\ d.course[s].status = "scheduled"
    /\ d.course[s].enrolled <= Capacity[s]

\* The UPDATE of ReserveEnrollment, with its WHERE clause.
SeatFree(d, s, version) ==
    /\ d.course[s].version = version
    /\ d.course[s].status = "scheduled"
    /\ d.course[s].enrolled < Capacity[s]

OneMore(c) ==
    [status |-> c.status, enrolled |-> c.enrolled + 1, version |-> c.version + 1]

TakeSeat(d, s) == [d EXCEPT !.course[s] = OneMore(d.course[s])]

EnrollReserve(p) ==
    /\ pc[p] = "checked"
    /\ SeatFree(db, req[p].session, seen[p].version)
    /\ Write(p, TakeSeat(db, req[p].session))
    /\ Goto(p, "reserved")
    /\ UNCHANGED <<started, acked>>

EnrollConflict(p) ==
    /\ pc[p] = "checked"
    /\ MayWrite(p)
    /\ ~SeatFree(db, req[p].session, seen[p].version)
    /\ GiveUp(p, "version_conflict")
    /\ UNCHANGED <<started, acked>>

\* Mutant: the key is left to the lookup outside the transaction.
UniqueSeatOnly(d, r) ==
    \A row \in d.rows : ~(row.student = r.student /\ row.session = r.session)

\* The INSERT of ReserveEnrollment and the audit event, under the two UNIQUE
\* constraints of the table.
Unique(d, r) ==
    \A row \in d.rows : ~(row.student = r.student /\ row.session = r.session) /\ row.key # r.key

NewRow(r) ==
    [session |-> r.session, student |-> r.student, key |-> r.key, status |-> "confirmed"]

\* Mutant: no audit event.
AddRowUnaudited(d, r) == [d EXCEPT !.rows = @ \cup {NewRow(r)}]

AddRow(d, r) ==
    [d EXCEPT !.rows = @ \cup {NewRow(r)},
              !.audit[r.session].confirmed = @ + 1]

EnrollInsert(p) ==
    /\ pc[p] = "reserved"
    /\ Unique(staged, req[p])
    /\ Write(p, AddRow(staged, req[p]))
    /\ Goto(p, "written")
    /\ UNCHANGED <<started, acked>>

EnrollDuplicate(p) ==
    /\ pc[p] = "reserved"
    /\ ~Unique(staged, req[p])
    /\ GiveUp(p, "failed")
    /\ UNCHANGED <<started, acked>>

-----------------------------------------------------------------------------
\* Service.CancelCourse

CancelRejected(p, role, blankReason) ==
    /\ pc[p] = "idle"
    /\ role # "administrator" \/ blankReason
    /\ Answer(p, "refused")
    /\ UNCHANGED <<storeVars, started, acked>>

\* SessionByID and ValidateTransition, outside the transaction.
CancelRead(p, r) ==
    /\ ValidTransition("course", db.course[r.session].status, "canceled")
    /\ Take(p, r, "canceling")
    /\ seen' = [seen EXCEPT ![p] = db.course[r.session]]
    /\ UNCHANGED <<storeVars, started, acked>>

CancelIllegal(p, r) ==
    /\ pc[p] = "idle"
    /\ ~ValidTransition("course", db.course[r.session].status, "canceled")
    /\ Answer(p, "refused")
    /\ UNCHANGED <<storeVars, started, acked>>

\* CancelSessionRows: the UPDATE of the session decides; the make-ups are
\* inserted for the rows the last UPDATE then turns to makeup_due.
Cancelable(d, s, version) ==
    /\ d.course[s].version = version
    /\ d.course[s].status = "scheduled"

Canceled(c) == [status |-> "canceled", enrolled |-> c.enrolled, version |-> c.version + 1]

MakeupDue(r) == [r EXCEPT !.status = "makeup_due"]

CancelEvent(a, made) ==
    [confirmed |-> a.confirmed, canceled |-> a.canceled + 1, makeups |-> a.makeups + made]

\* Mutant: the rows are updated before the make-ups are selected from them.
CancelRowsFirst(d, s) ==
    [d EXCEPT !.course[s] = Canceled(d.course[s]),
              !.rows = (@ \ Confirmed(d, s)) \cup {MakeupDue(r) : r \in Confirmed(d, s)},
              !.audit[s] = CancelEvent(d.audit[s], 0)]

CancelRows(d, s) ==
    LET owed == PairsOf(Confirmed(d, s)) IN
    [d EXCEPT !.course[s] = Canceled(d.course[s]),
              !.makeups = @ \cup owed,
              !.rows = (@ \ Confirmed(d, s)) \cup {MakeupDue(r) : r \in Confirmed(d, s)},
              !.audit[s] = CancelEvent(d.audit[s], Cardinality(owed \ d.makeups))]

\* Nothing was read in this transaction: it waits for the lock, and what it
\* then sees is the latest commit.
CancelWrite(p) ==
    /\ pc[p] = "canceling"
    /\ Cancelable(db, req[p].session, seen[p].version)
    /\ Write(p, CancelRows(db, req[p].session))
    /\ Goto(p, "written")
    /\ UNCHANGED <<started, acked>>

CancelConflict(p) ==
    /\ pc[p] = "canceling"
    /\ MayWrite(p)
    /\ ~Cancelable(db, req[p].session, seen[p].version)
    /\ GiveUp(p, "version_conflict")
    /\ UNCHANGED <<started, acked>>

-----------------------------------------------------------------------------
\* Store.InTx

\* The first write of an enrollment, and, once the timeout is over, of a
\* cancellation.
FirstWrites == {"checked", "canceling"}

TxBusy(p) == GiveUpBusy(p, FirstWrites) /\ UNCHANGED <<started, acked>>

TxFail(p) == GiveUpAnywhere(p) /\ UNCHANGED <<started, acked>>

TxCommit(p) == CommitAndAnswer(p, "ok") /\ Acknowledge(req[p]) /\ UNCHANGED started

TxCommitUnheard(p) == CommitAndAnswer(p, "failed") /\ UNCHANGED <<started, acked>>

-----------------------------------------------------------------------------
\* The environment

Crash == Die /\ UNCHANGED <<started, acked>>

SessionStarts(s) ==
    /\ started' = started \cup {s}
    /\ UNCHANGED <<storeVars, requestVars, acked>>

\* Nothing in the repository runs a session; whoever does follows the table.
SessionProgresses(s, status) ==
    /\ status # "canceled"
    /\ ValidTransition("course", db.course[s].status, status)
    /\ AutoCommit([db EXCEPT !.course[s].status = status])
    /\ UNCHANGED <<started, requestVars, acked>>

FactChanges(d) ==
    /\ AutoCommit(d)
    /\ UNCHANGED <<started, requestVars, acked>>

FactsChange ==
    \/ \E x \in Pairs : <<"consent", x>> \in ChangingFacts
                        /\ FactChanges([db EXCEPT !.consent = Toggle(@, x)])
    \/ \E x \in Pairs : <<"certified", x>> \in ChangingFacts
                        /\ FactChanges([db EXCEPT !.certified = Toggle(@, x)])
    \/ \E s \in Sessions : <<"qualified", s>> \in ChangingFacts
                           /\ FactChanges([db EXCEPT !.qualified = Toggle(@, s)])

-----------------------------------------------------------------------------
EmptyDatabase ==
    [course |-> [s \in Sessions |-> [status |-> "scheduled", enrolled |-> 0, version |-> 1]],
     rows |-> {},
     makeups |-> {},
     consent |-> Pairs,
     certified |-> Pairs,
     qualified |-> Sessions,
     audit |-> [s \in Sessions |-> [confirmed |-> 0, canceled |-> 0, makeups |-> 0]]]

Init ==
    /\ InitStore(EmptyDatabase)
    /\ InitRequests
    /\ started = {}
    /\ acked = {}

Arrives(p) ==
    \/ \E role \in Roles, k \in Keys \cup {NoKey} : EnrollRejected(p, role, k)
    \/ \E role \in Roles, blank \in BOOLEAN : CancelRejected(p, role, blank)
    \/ \E r \in EnrollRequests : EnrollReplayed(p, r)
    \/ \E r \in EnrollRequests, fails \in BOOLEAN : EnrollBegin(p, r, fails)
    \/ \E r \in CancelRequests : CancelRead(p, r) \/ CancelIllegal(p, r)

Step(p) ==
    \/ EnrollCheck(p) \/ EnrollRefused(p)
    \/ EnrollReserve(p) \/ EnrollConflict(p)
    \/ EnrollInsert(p) \/ EnrollDuplicate(p)
    \/ CancelWrite(p) \/ CancelConflict(p)
    \/ TxBusy(p) \/ TxCommit(p)

Fails(p) == TxFail(p) \/ TxCommitUnheard(p)

Environment ==
    \/ Crash
    \/ \E s \in Sessions : SessionStarts(s)
    \/ \E s \in Sessions, status \in CourseStates : SessionProgresses(s, status)
    \/ FactsChange

Next == (\E p \in Procs : Arrives(p) \/ Step(p) \/ Fails(p)) \/ Environment

Spec == Init /\ [][Next]_vars

-----------------------------------------------------------------------------
\* Properties

\* Every variable stays in its domain, and a request that is past its first
\* read is one of the kind that its point in the code belongs to.
TypeOK ==
    /\ db \in Databases
    /\ staged \in Databases
    /\ writer \in Procs \cup {NoProc}
    /\ snapshot \in [Procs -> SnapshotStates]
    /\ started \subseteq Sessions
    /\ pc \in [Procs -> Points]
    /\ req \in [Procs -> EnrollRequests \cup CancelRequests \cup {NoRequest}]
    /\ seen \in [Procs -> Courses \cup {NoRow}]
    /\ answer \in [Procs -> Outcomes]
    /\ acked \subseteq EnrollRequests \cup CancelRequests
    /\ \A p \in Procs :
        /\ pc[p] \in {"begin", "checked", "reserved"} => req[p] \in EnrollRequests
        /\ pc[p] = "canceling" => req[p] \in CancelRequests
        /\ pc[p] = "written" => req[p] # NoRequest

SeatsMatch(d) ==
    \A s \in Sessions :
        /\ d.course[s].enrolled = Cardinality(RowsOf(d, s))
        /\ d.course[s].enrolled <= Capacity[s]

\* The denormalised counter `enrolled` is the number of enrollment rows of the
\* session and never exceeds its capacity, whatever requests interleave, fail
\* half-way or crash: ReserveEnrollment bumps the counter and inserts the row in
\* two statements, and no constraint of the schema ties them.
SeatsMatchRoster == SeatsMatch(db)

MakeupsMatch(d) ==
    \A s \in Sessions :
        IF d.course[s].status = "canceled"
        THEN /\ Confirmed(d, s) = {}
             /\ \A r \in RowsOf(d, s) : <<r.student, s>> \in d.makeups
        ELSE /\ Confirmed(d, s) = RowsOf(d, s)
             /\ \A x \in d.makeups : x[2] # s

\* README: "one make-up entitlement per eligible enrollment".  A canceled
\* session has no confirmed student left and owes a make-up to each student of
\* its roster; no other session owes one.  An enrollment that commits around a
\* cancellation is the case to fear.
CanceledHasMakeups == MakeupsMatch(db)

KeysMatch(d) ==
    \A a, b \in d.rows :
        a.key = b.key \/ (a.student = b.student /\ a.session = b.session) => a = b

\* No student has two enrollments in a session, and no idempotency key stands
\* for two enrollments, also when two requests of Enroll with one key have both
\* missed the lookup, which is outside the transaction.
OneRowPerKey == KeysMatch(db)

AuditMatches(d) ==
    \A s \in Sessions :
        /\ d.audit[s].confirmed = Cardinality(RowsOf(d, s))
        /\ d.audit[s].canceled = IF d.course[s].status = "canceled" THEN 1 ELSE 0
        /\ d.audit[s].makeups = Cardinality({x \in d.makeups : x[2] = s})

\* README: "mutations write their audit record in the business transaction".
\* The events tell what the tables hold: one per enrollment, one per
\* cancellation, and the number of make-ups the cancellation created.
AuditTellsTheTruth == AuditMatches(db)

\* What a caller was told is done stays done, across crashes and retries: an
\* enrollment answered "ok" has its row under the key it was asked with, and a
\* cancellation answered "ok" has a canceled session.
AckedIsDurable ==
    \A r \in acked :
        IF r.op = "enroll"
        THEN \E row \in db.rows : row.key = r.key /\ row.student = r.student
                                  /\ row.session = r.session
        ELSE db.course[r.session].status = "canceled"

\* README: "Enrollment reserves capacity only after consent, prerequisite, age,
\* course, and coach checks."  The checks hold in the very database that the
\* row is committed to, not merely in the one that was read: nobody can revoke
\* a consent or close the session between the check and the commit.
EligibleAtCommit ==
    [][\A r \in db'.rows : ~Enrolled(db, r.student, r.session) =>
            /\ Eligible(db, r.student, r.session)
            /\ db.course[r.session].enrolled < Capacity[r.session]]_vars

\* "the record changed concurrently" (errors.go:53) is what a caller is told
\* on a version conflict.  Of a cancellation whose edge the table of states.go
\* admits, this says that the message is true: the row has changed since.
ConflictMeansChange ==
    [][\A p \in Procs : pc[p] = "canceling" /\ answer'[p] = "version_conflict" =>
            db.course[req[p].session] # seen[p]]_vars

-----------------------------------------------------------------------------
\* The inductive invariant behind the safety properties

Consistent(d) ==
    /\ IsFiniteSet(d.rows)
    /\ SeatsMatch(d)
    /\ MakeupsMatch(d)
    /\ KeysMatch(d)
    /\ AuditMatches(d)

\* The writer, and nobody else, is between its first statement and its commit.
Locked ==
    /\ writer = NoProc => staged = db
    /\ \A p \in Procs : writer = p <=> pc[p] \in {"reserved", "written"}

\* What a request that writes has made sure of.
Licensed(d, r) ==
    IF r.op = "enroll"
    THEN /\ Eligible(d, r.student, r.session)
         /\ d.course[r.session].enrolled < Capacity[r.session]
    ELSE d.course[r.session].status = "scheduled"

\* The checks hold as long as the request's snapshot is that of the committed
\* database, which it is from its first write on; and the request has staged
\* its own statements on that database and nothing else.
ChecksHold ==
    \A p \in Procs :
        /\ pc[p] = "checked" =>
            /\ snapshot[p] # "none"
            /\ snapshot[p] = "fresh" => Eligible(db, req[p].student, req[p].session)
        /\ pc[p] \in {"reserved", "written"} => Licensed(db, req[p])
        /\ pc[p] = "reserved" => staged = TakeSeat(db, req[p].session)
        /\ pc[p] = "written" =>
            IF req[p].op = "enroll"
            THEN /\ Unique(db, req[p])
                 /\ staged = AddRow(TakeSeat(db, req[p].session), req[p])
            ELSE staged = CancelRows(db, req[p].session)

\* What is committed is consistent and keeps what callers were told; what is
\* staged, which the next commit publishes, is the statements of one request
\* that may still make them.  The staged counter is one seat ahead of the rows
\* between the two statements of ReserveEnrollment: that, and no more, is what
\* a rollback has to undo.
Inductive ==
    /\ TypeOK
    /\ Locked
    /\ ChecksHold
    /\ Consistent(db)
    /\ AckedIsDurable

-----------------------------------------------------------------------------
\* Every step of every request, its failures and crashes included, is a step
\* of the register of EnrollmentLedger or leaves the register as it is: the
\* multi-statement transactions are as good as atomic.
StudentsOf(rows) == {r.student : r \in rows}

\* The register that the tables stand for.
Ledger == INSTANCE EnrollmentLedger WITH
    status    <- [s \in Sessions |-> db.course[s].status],
    confirmed <- [s \in Sessions |-> StudentsOf(Confirmed(db, s))],
    owed      <- [s \in Sessions |-> {x[1] : x \in {y \in db.makeups : y[2] = s}}],
    consent   <- db.consent,
    certified <- db.certified,
    qualified <- db.qualified

\* Enroll and CancelCourse, statement by statement, implement the register.
ImplementsLedger == Ledger!LedgerSpec
=============================================================================
