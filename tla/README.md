# Verification of the Urban Sports Safety Hub

TLA+ specifications of the service in this repository, the TLC configurations
that check them on small instances, and TLAPS proofs of most of what they check. Paths are
relative to the repository's root (`src/` in `PROJECT.json`, which maps every
definition to the lines it models).

## 1. The system

A Go server over one SQLite file. HTTP requests run concurrently, each on a
connection of a pool of eight; one goroutine works off the persistent jobs.
There is no shared memory between requests: everything they share is in the
tables, and what keeps them apart is `Store.InTx`.

| component | code | state | operations | what makes it correct |
|---|---|---|---|---|
| domain | `internal/domain` | none | `ValidateTransition`, `IsTerminal`, roles | the statements of the other parts follow its tables |
| storage | `storage/sqlite/db.go` | the file | `Open`, `InTx` | all or nothing; no write on an outdated read |
| enrollment | `internal/enrollment`, `storage/sqlite/enrollment.go` | `course_sessions`, `enrollments`, `makeup_entitlements` | `Enroll`, `CancelCourse` | seats = roster ≤ capacity; checks hold at the commit; make-ups for everybody who loses a seat; one row per key |
| equipment | `internal/equipment`, `storage/sqlite/equipment.go` | `equipment`, `equipment_loans`, `maintenance_cases` | `Checkout`, `Return` | exclusive custody; a case per damaged loan; checks hold at the commit |
| worker | `internal/worker`, `storage/sqlite/jobs.go` | `worker_jobs`, the batch in memory | `Start`, `RunOnce`, `ClaimJobs`, `FinishJob`, `RecoverJobs`, `EnqueueJob`, the handler `expireSessions` | a claimed job is nobody else's; outcomes earned; interrupted jobs come back |
| assessment | `internal/assessment` | `assessments`, `certifications` | `Publish` | a pass and its certification together; only the version the examiner saw |
| training | `internal/training` | `training_groups`, `group_members` | `Assign` | groups within capacity; members enrolled; one group each |
| auth | `internal/auth`, `storage/sqlite/accounts.go` | `accounts`, `sessions` | `Register`, `Login`, `Authenticate`, `Logout`, `DeleteExpiredSessions` | no use of a session that is revoked or expired, or while its account is disabled; who is refused has given cause |
| idempotency | `internal/idempotency` | `idempotency_keys` | `Begin`, `Complete` (called by tests only) | one execution per key |
| audit | `internal/audit`, `storage/sqlite/audit.go` | `audit_events` | `Record`, `ListAudit` | an event if and only if the change |
| migrations | `storage/sqlite/migrations.go` | `schema_migrations` | `migrate` | each migration once and whole, with its ledger row, also by two servers |
| bootstrap | `internal/bootstrap` | rows of `accounts`, `course_templates` | `Administrator`, `DemoData` | one administrator; who serves has found its data in place |
| server process | `cmd/server` | the process | `run`: startup, signal, shutdown | a clean exit waits for requests and worker; a signal ends the process |
| httpapi | `internal/httpapi` | none | `Authenticate`, login, logout, routes | what authenticates a request is what logout revokes |
| config | `internal/config` | none | `Load` | parsing |

How they interact: `httpapi` authenticates and calls one service operation per
request; each operation is one `InTx` (with a lookup outside of it in
`Enroll` and `CancelCourse`), and appends its audit event inside. Equipment reads
`enrollments`; enrollment reads `certifications`, which assessment writes; the
worker deletes expired sessions, which the middleware reads on every request.
Migrations and bootstrap run before the rest, in each server that is started on
the file; a signal cancels the context of the startup and of the worker.

What is hard here, and hardly tested: a check and the write it licenses are
several statements apart, and other connections commit in between; a counter,
a roster, entitlements and audit events are tied by transactions only, not by
constraints; keys are looked up outside the transaction; a crash or a lost
answer may follow the commit; a job is claimed, handled and finished in three
transactions with crashes and restarts in between; login and logout are two
statements each, around which the account may be disabled and the row deleted;
times are compared as texts that do not sort as the times do; two servers may
start on one new file. `PROJECT.json` lists each of
these hazards at its line, with the properties that would catch it.

## 2. The modules

| module | models | proved about in |
|---|---|---|
| `Domain` | the tables of `states.go`, `ValidateTransition`, `IsTerminal`, the roles | |
| `Store` | `InTx` over SQLite: what is committed (`db`), what the one writer has staged (`staged`, `writer`), the snapshot of each transaction (`none`, `fresh`, `stale`) | |
| `Requests` | what the operations share: a request is taken up, reads, gives up, commits, answers, or dies with the server | |
| `Enrollment` | `Enroll`, `CancelCourse` | `EnrollmentProofs` |
| `EnrollmentLedger` | the abstract specification of enrollment: a register in which a student gets a seat, or a session is canceled, in one step | |
| `Equipment` | `Checkout`, `Return` | `EquipmentProofs` |
| `EquipmentLedger` | the abstract specification of equipment: a register of who has what, in which an item is lent, or taken back with its damage case, in one step | |
| `Assessment` | `Publish` | `AssessmentProofs` |
| `AssessmentLedger` | the abstract specification of assessment: verdicts that are given, certified and written down in one step | |
| `Training` | `Assign` | `TrainingProofs` |
| `TrainingLedger` | the abstract specification of training: rosters that a student joins in one step | |
| `Auth` | `Login`, `Authenticate`, `Logout`, `DeleteExpiredSessions`, the handlers around them | `AuthProofs` |
| `Idempotency` | `Begin`, `Complete` | `IdempotencyProofs` |
| `Server` | `run` of `main.go`, `migrate`, `Administrator`, `DemoData` | `ServerProofs` |
| `Jobs` | `Runner` and the job store | `JobsProofs` |
| `EnrollmentMC`, `EquipmentMC`, `AssessmentMC`, `TrainingMC`, `AuthMC`, `JobsMC` | values and symmetry for TLC | |

`Requests` extends `Store`. `Enrollment`, `Equipment`, `Assessment` and `Training`
extend `Requests` and `Domain`; `Auth` and `Idempotency` extend `Requests`, `Server`
extends `Store`, `Jobs` extends `Domain`. `Enrollment`, `Equipment`, `Assessment` and
`Training` each instantiate their `...Ledger` with a refinement mapping. Each component
has a database value of its own, with the tables it reads and writes; what other
components do to them is part of its environment (section 6).

**Store.** `BeginTx(ctx, nil)` is a deferred transaction. Its first `SELECT`
takes a snapshot, its first write takes the lock. One that has read and finds
the lock held, or finds that somebody has committed since, is refused
(`SQLITE_BUSY`, `SQLITE_BUSY_SNAPSHOT`); one that begins with a write waits for
the lock, up to `busy_timeout`. These rules are SQLite's, not the repository's,
and the definitions that state them are marked external. `db` is one value of
the database; a reader sees `db`, which for a transaction that goes on to write
is the same as its snapshot (otherwise it is refused), so snapshots need no
copies.

**Requests.** A request is a process. `pc` is the point of the code it has
reached, `req` its arguments, `seen` the row it has read, `answer` what the
caller got last. `GiveUp` is the error path of `InTx` (rollback and answer),
`GiveUpBusy` a refused first write, `GiveUpAnywhere` any failing statement or a
canceled context, `CommitAndAnswer` the commit with an answer that may be lost.

**Enrollment.** Each action is one statement, or several that nobody can come between.

| code | actions |
|---|---|
| `Enroll`, role and blank fields | `EnrollRejected` |
| `EnrollmentByKey`, outside the transaction | `EnrollReplayed`, `EnrollBegin` (also when the lookup fails: line 35 only looks at `err == nil`) |
| `EnrollmentSnapshot` and the checks | `EnrollCheck`, `EnrollRefused` |
| `ReserveEnrollment`, `UPDATE` | `EnrollReserve`, `EnrollConflict`, `TxBusy` |
| `ReserveEnrollment`, `INSERT`; audit | `EnrollInsert`, `EnrollDuplicate` |
| `CancelCourse`, up to `ValidateTransition` | `CancelRejected`, `CancelRead`, `CancelIllegal` |
| `CancelSessionRows`; audit | `CancelWrite`, `CancelConflict`, `TxBusy` |
| `InTx`, end | `TxCommit`, `TxCommitUnheard` (the answer is lost), `TxFail` (any statement fails, or the context is canceled) |

The environment moves sessions along the course table (no code in the
repository does), passes the start of a session, gives and revokes consents,
certifications and qualifications, and crashes the process. Abstracted: dates
are the outcomes of the comparisons `Enroll` makes (`OldEnough`, `Minor`,
`started`); the three `COUNT` queries are membership in `db.consent`,
`db.certified`, `db.qualified`; an audit event is a count per session and action;
a target that does not exist is one more refusal and left out, as are the
returned records. Every variable is data of the code except `acked`, a history
of what callers were told is done.

**Equipment.** The same shape: `CheckoutRead` / `CheckoutRefused`,
`CheckoutAcquire`, `CheckoutLend`; `ReturnRead` / `ReturnRefused`, `ReturnClose`,
`ReturnRelease`; then `TxCommit`, `TxBusy`, `TxFail`. Sport and size are the constant
relation `Suits`. A conditional `UPDATE` that matches no row, and a second
active loan, have no action: the invariant `VersionsNeverConflict` shows that
a transaction which is let in to write never meets either.

**Assessment.** `PublishRead` / `PublishRefused` are the two `SELECT`s and the checks,
`PublishUpdate` / `PublishConflict` the `UPDATE` under the version of the request,
`PublishGrant` the upsert of the certification and the audit event. A certificate
is a key of the `certifications` table; `db.granted` is its `granted_by`. Other
programs submit assessments (first, or again after a failure) and edit
qualifications.

**Training.** `AssignRead` / `AssignRefused`, `AssignUpdate` / `AssignConflict`,
`AssignInsert` / `AssignDuplicate` (the `UNIQUE` constraint on `enrollment_id`). The
environment cancels sessions, which ends the `confirmed` of their enrollments.

**Auth.** Every statement commits by itself, so that login and logout are two
steps each: `LoginRead` / `LoginRefused`, then `LoginCreate`, which does not look
at the account again; `Resolve` / `ResolveRefused` in the middleware, then `Handled`
or the logout's `Revoke` / `RevokeRefused`. `Cleanup` is the worker's. The environment disables and enables accounts, the worker's
`expireSessions` deletes. A token stands for its hash, passwords are right or
wrong. The clock counts half seconds, the coarsest grain at which `timeText` is not
monotone (`RFC3339Nano` drops the zeros of a fraction, so that `...:05.5Z` sorts
before `...:05Z`): `TextAtMost` is the order of the texts, by which the `DELETE` of
the clean-up compares; `ResolveSession` parses the time and compares that. A clean-up job
names any time, past or to come (`runner.go:92`), or none, which is now: `before` is any
of `Befores`, and a job with a later time does delete sessions that have not ended. The scheme of the `Authorization` header is part of a request:
`Authenticate` folds its case, the logout handler does not (finding 4).
`granted`, `ended` and `swept` are histories: what logins promised, what logouts revoked, and
the tokens whose end was less than a second after the time a clean-up was told, or before it.

**Idempotency.** `Acquire`, `Replay` and `Conflict` (another payload, or still
running) are the ways out of `Begin`; `Complete` and `CompleteConflict` those of
`Complete`. Nothing in the repository but
tests calls them; the protocol around them (commit `Begin`, run the operation,
commit `Complete`) is that of the tests. `executed` and `outcome` are histories.

**Server.** The processes are servers, two on one file. `at` is the point `run`
has reached: for every migration the read of the ledger (`MigrationFound`,
`MigrationMissing`), the tables (`Apply`), the ledger row (`Record`) and the commit;
`Administrator`, in two statements that another server may come between
(`AdministratorMissing`, `Register`); the rows of `DemoData`; listening, serving,
draining with its timeout, waiting for the worker. Everything at startup is under the context that
a signal cancels. Who loses the race for a migration or for the administrator
fails its startup. Requests in flight are counted and the worker is on or off: what
they do is in the other modules. Settings vary: administrator none, half
given (refused) or given; demo data or not.

**Jobs.** A runner is one server's goroutine: `Start`, `Recover`, `Claim`,
`Dispatch`, `HandlerReturns`, `FinishRead`, `FinishWrite`. `ClaimJobs` is one
transaction and one action; `FinishJob` is two statements without a transaction
and two actions. Times are relative (`due`, `age`) and move with `Tick`.
`handledOK` is a history of the jobs whose handler has returned nil.

Some definitions come with a *mutant* next to them, a variant that a plausible
bug would produce (`PROJECT.json`, "mutants"). No specification uses them: each
property is also checked with the definition replaced by a mutant, and has to
fail.

## 3. What TLC checks

| run | question | instance |
|---|---|---|
| `enrollment` | `SeatsMatchRoster`, `CanceledHasMakeups`, `OneRowPerKey`, `AuditTellsTheTruth`, `AckedIsDurable`, `Inductive`, `EligibleAtCommit`, `ImplementsLedger` | 2 requests at a time, 3 students of whom one is a minor, a session of 2 seats, 3 keys; the minor's consent and certification and the coach's qualification change; 427 000 states |
| `enrollment_conflict` | finding 1 | 2 requests, 1 student |
| `equipment` | `CustodyMatches`, `DamageHasCase`, `AuditTellsTheTruth`, `VersionsNeverConflict`, `SafeAtCommit`, `ImplementsRegister`, `Inductive` | 2 requests, 2 items, 2 students of whom everything fits one, 2 loans; 436 000 states |
| `assessment` | `PassedIsGranted`, `AuditIsTheHistory`, `ExpectedVersionOnly`, `ImplementsVerdicts`, `Inductive` | 2 requests, 2 assessments by 2 examiners for 1 certificate, verdicts on either side of the threshold; 714 000 states |
| `training` | `GroupsWithinCapacity`, `OneGroupEach`, `AuditListsTheMembers`, `ImplementsRosters`, `EveryRequestReturns`, `Inductive` | 2 requests, 2 groups of 1 and 2 places, 3 enrollments of which one is of another session; 411 000 states |
| `auth` | `OnlyTheEntitled`, `RefusedForCause`, `Inductive` | 2 requests, 1 account, 2 tokens, two seconds and a half; 861 000 states |
| `auth_logout` | finding 4 | 1 request, 1 token |
| `server` | `FileGoesForward`, `ServingIsReady`, `CleanExitWaits`, `SignalEnds`, `Inductive` | 2 servers on a new file, 2 migrations, 2 rows of demo data, every setting; 150 000 states |
| `jobs_safety` | `ClaimsAreKept`, `AttemptsPaidFor`, `JobsFollowTheTable`, `Inductive` | 1 runner, 2 jobs, batches of 2, 2 faults; 27 000 states |
| `jobs_settle` | `EveryJobSettles`, and `OutcomesAreEarned` with two servers | 2 runners, 2 jobs, batches of 1, no fault; 89 000 states |
| `jobs_attempts` | finding 2 | 1 runner, 1 job, 1 fault |
| `jobs_interrupted` | finding 3 | 1 runner, 1 job, 1 fault |

`Inductive` is the inductive invariant of section 5, of which the type invariant is the
first part; in `server` it contains `LedgerMatchesSchema`, in `jobs_safety` `OutcomesAreEarned`.
`ClosedLoansStay`, `QualifiedAtCommit` and `ActiveAtCommit` are proved and have no run of
their own: `ImplementsRegister`, `ImplementsVerdicts` and `ImplementsRosters` say the same
and more, and are what TLC checks.

`Idempotency` has no run: it is proved for every instance (section 5).

**Why the bounds are enough.** Requests come in any number, one after the
other; the bound is how many are under way at once. Two make every race of two
transactions, in which the second may commit, and begin anew, any number of times. In
`Enrollment`, two seats for three students make the race for the last
seat, and a roster of more than one that a cancellation has to convert; three
keys over three students make a replay, a mismatch, a duplicate and a
fresh request. Sessions do not interact but for keys, and the proofs cover any
number of them. `ChangingFacts`, a set of pairs of a fact and whom it is about, says
what other programs change in a run: each fact once, of a student who needs all three.
Enrollment needs no bound on versions: a version grows with enrollments and
cancellations, which are finitely many. `MaxLoans` bounds the loans of a
behaviour; two loans of one item in a row, or two at once, occur.
`Assessment!MaxVersion` bounds how often an assessment is submitted again: at 2 one
fails, comes back and passes while an old request is under way, and a caller may
expect a version that is gone, current or not there yet. `Training!MaxVersion`
bounds the versions a caller expects, not the groups'; two are those of a group of
two places before it is full. In `Auth`, sessions live for a second and a half
(`SessionTTL` 3), revoked rows stay for one (`RevokedKept` 2) and the clock stops
after two and a half (`MaxTime` 5): a session is made on a whole second and on a half
one, and ends while the other goes on. `Befores` ends where the last session does, and a
clean-up with a later time deletes what that one deletes. In `Server`, the second of two
migrations and the second of two rows are the cases that differ from the first;
`MaxRequests` of one tells a server with requests in flight from one without. In
`Jobs`, `MaxFaults` bounds crashes, stops and failed statements; `MaxClaims` stops a
job from being claimed for ever, and is above `MaxAttempts` so that the excess of
finding 2 is reached and, in `jobs_safety`, above all that `AttemptsPaidFor` admits (2 + 2), so that the
bound does not keep it; a `Batch` of two in `jobs_safety` lets a job
wait for another in the batch, and one of one in `jobs_settle` makes the `LIMIT` leave a due job
behind; `MaxDelay` and `MaxOverdue` bound how far a due time is told
apart, `StaleAge` is the five minutes in ticks.

**Symmetry** permutes requests, keys and the students who are alike (`enrollment`),
requests (`equipment`, `assessment`), requests and tokens (`auth`) and jobs
(`jobs_safety`), all of which the specifications treat alike; the runs with a
liveness property (`training`, `server`, `jobs_settle`, `jobs_interrupted`) have none.

**Fairness.** `Training!FairSpec` asks that a request which was taken up is
carried on (`WF_vars(Step(p))`): its goroutine is scheduled and its statements
return. Nothing makes a request arrive, fail or crash, or a session be canceled.
`EveryRequestReturns` is stated of `Training` for all four services, whose requests
run on `Requests` in the same way. `Jobs!FairSpec` asks that time passes and that
each runner goes on: its ticker fires, its handler returns (it is given thirty
seconds), and a server that is down is started again, which is the premise of the
README's sentence on restarts. `Server!FairSpec` asks that a server which was started
goes on with its startup and its shutdown; it asks of no request that it ends,
and `SignalEnds` holds because the shutdown has a timeout. Weak fairness is enough:
a step, once enabled, stays enabled until the process moves.

## 4. Where the code and its documents differ

1. **A session in progress cannot be canceled** (`enrollment_conflict`).
   `states.go:6` has the edge `in_progress:canceled`, `CancelCourse` validates
   against it, and the `UPDATE` of `storage/sqlite/enrollment.go:88` demands
   `status='scheduled'`. The caller is told `the record changed concurrently`
   (`errors.go:53`); it has not, and no retry helps.
2. **Retries are not bounded** (`jobs_attempts`). Against "bounded retries"
   (`README.md:17`), `RecoverJobs` (`jobs.go:90`) and `ClaimJobs` ignore
   `max_attempts`: a job that is interrupted on its last attempt is claimed
   again. What bounds its attempts is how often something goes wrong:
   `AttemptsPaidFor`, proved for one server, admits one attempt beyond the limit for
   each crash, each stop in the middle of a batch and each `FinishJob` that failed.
3. **Interrupted jobs may stay running** (`jobs_interrupted`). `README.md:85`
   says that jobs left running beyond the stale threshold return to retry after
   a restart. Recovery runs once, at the start (`runner.go:41`): a job that was
   locked less than five minutes before a restart is not stale yet, and
   nobody looks again; nor does anybody when `FinishJob` fails.
4. **A logout may leave the session active** (`auth_logout`). The middleware
   accepts any spelling of the scheme (`middleware.go:40`, `EqualFold`), the logout
   handler strips `"Bearer "` only (`handlers.go:32`). Of `bearer <token>` the
   handler hashes the whole header, no row matches, and the caller is told `session
   is not active` (`accounts.go:74`) of the session that has just authenticated the
   request and stays active until it expires; `README.md:41` says that sessions are
   revoked immediately by logout.

Two more have no run.

Two servers on one file break the job machine of `states.go`: `FinishJob`
updates by id alone, and a job that the second server has recovered goes from
`retry` to `succeeded`. `ClaimsAreKept`, `AttemptsPaidFor` and `JobsFollowTheTable`
therefore are checked with one runner, where that overwrite cannot happen; with two,
`jobs_settle` checks what still holds around it.

Sessions are not "invalidated when an account is disabled" (`README.md:41`):
`ResolveSession` (`accounts.go:97`) refuses them while it is disabled, and once it is
enabled they open handlers again, also the one of a login that was past its check when
the account was disabled. `OnlyTheEntitled` says what the code does: the account is active
at the step. Whether the sentence fails depends on who disables accounts, and whether they
end the sessions too; nothing in the repository does, so no run is given for it.

## 5. What is proved

The theorems hold for every value of the constants that the named assumptions of
the modules admit: any number of requests, students, sessions, items, groups,
assessments, tokens, servers, migrations, and any capacities and lifetimes.

| module | theorem | states |
|---|---|---|
| `EnrollmentProofs` | `InductiveInvariant`, `TypeCorrect` | `[]Inductive`, `[]TypeOK` |
| | `SeatsAreSafe`, `MakeupsAreSafe`, `KeysAreSafe` | `[]SeatsMatchRoster`, `[]CanceledHasMakeups`, `[]OneRowPerKey` |
| | `AuditIsComplete`, `AcksAreDurable` | `[]AuditTellsTheTruth`, `[]AckedIsDurable` |
| | `ChecksHoldAtCommit` | `EligibleAtCommit` |
| | `RegisterIsImplemented` | `ImplementsLedger`, the refinement of `EnrollmentLedger` |
| `EquipmentProofs` | `InductiveInvariant`, `TypeCorrect` | `[]Inductive`, `[]TypeOK` |
| | `CustodyIsExclusive`, `DamageIsReported`, `AuditIsComplete` | `[]CustodyMatches`, `[]DamageHasCase`, `[]AuditTellsTheTruth` |
| | `NoConflicts` | `[]VersionsNeverConflict` |
| | `ChecksHoldAtCommit`, `ReturnsAreFinal` | `SafeAtCommit`, `ClosedLoansStay` |
| | `RegisterIsImplemented` | `ImplementsRegister`, the refinement of `EquipmentLedger` |
| `AssessmentProofs` | `InductiveInvariant`, `TypeCorrect` | `[]Inductive`, `[]TypeOK` |
| | `CertificatesAreEarned`, `HistoryIsAudited` | `[]PassedIsGranted`, `[]AuditIsTheHistory` |
| | `ChecksHoldAtCommit`, `ExpectedIsPublished` | `QualifiedAtCommit`, `ExpectedVersionOnly` |
| | `VerdictsAreImplemented` | `ImplementsVerdicts`, the refinement of `AssessmentLedger` |
| `TrainingProofs` | `InductiveInvariant`, `TypeCorrect` | `[]Inductive`, `[]TypeOK` |
| | `CapacityIsSafe`, `GroupsAreDisjoint`, `AuditIsComplete` | `[]GroupsWithinCapacity`, `[]OneGroupEach`, `[]AuditListsTheMembers` |
| | `ChecksHoldAtCommit` | `ActiveAtCommit` |
| | `RostersAreImplemented` | `ImplementsRosters`, the refinement of `TrainingLedger` |
| `AuthProofs` | `InductiveInvariant`, `TypeCorrect` | `[]Inductive`, `[]TypeOK` |
| | `EntitledOnly`, `RefusalsHaveCause` | `OnlyTheEntitled`, `RefusedForCause` |
| `ServerProofs` | `InductiveInvariant`, `TypeCorrect` | `[]Inductive`, `[]TypeOK` |
| | `MigrationsAreWhole`, `ServersAreReady`, `CleanExits` | `[]LedgerMatchesSchema`, `[]ServingIsReady`, `CleanExitWaits` |
| | `StartupGoesForward` | `FileGoesForward` |
| `IdempotencyProofs` | `InductiveInvariant` | `[]Inductive` |
| | `OnceExecuted`, `OutcomeReplayed`, `EachItsOwnAnswer` | `[]ExecutedOnce`, `[]ReplaysTheOutcome`, `AnsweredAsAsked` |
| | `RecordsAreFinal` | `RecordsGoForward` |
| `JobsProofs` | `InductiveInvariant`, `TypeCorrect` | `[]Inductive`, `[]TypeOK` |
| | `OutcomesAreTrue` | `[]OutcomesAreEarned`, with any number of servers |
| | `ClaimsAreSafe`, `MachineIsFollowed` | `[]ClaimsAreKept`, `JobsFollowTheTable`, with one server (`Alone`) |
| | `AttemptsArePaidFor` | `[]AttemptsPaidFor`, with one server |
| | `RetriesAreBounded` | `[]AttemptsBounded`, with one server and no fault: the README's sentence, and what it needs |

The assumptions say that `NoProc` is no request (`ProcAssumption`), that capacities,
lifetimes and bounds are natural numbers, and that the constant relations relate
what they are about. No set is assumed finite; where a property counts, that the
counted set is finite is part of the invariant. `Idempotency` needs no assumption
of its own. TLC evaluates each assumption in the runs of its module.

*The argument.* What the properties say of `db` is not inductive: the next commit
publishes what is staged. The invariants of the modules over `Requests` therefore
have the same four parts:

- the types;
- `Locked`: nothing is staged when nobody writes, and the writer, and nobody else,
  is inside the write part of its transaction;
- the checks (`ChecksHold`): who is about to write and
  whose snapshot is not outdated has read what is still committed; who writes has
  staged exactly its own statements on the committed database, whose checks
  still hold. That the snapshot of a writer is never outdated is what SQLite's refusals
  are for, and the step where they are used is the first write;
- the committed database is `Consistent`.

The lemmas go from data to steps: the first say what the statements of one
transaction do to a consistent database, all of them together (a seat and its row, a
verdict with its certificate and its event, a loan with its item and its case);
then one lemma per shape of step (giving up, first write, later write, commit,
single statement, crash), and every action is one of them. In `Enrollment`, seats,
make-ups, keys and events are one `Consistent`, since a cancellation keeps the
roster's length only because keys are unique; and the committed database only
grows in what callers were told (`Lasts`), which makes `AckedIsDurable` part of the
invariant. The properties of commits (`EligibleAtCommit`, `SafeAtCommit`,
`QualifiedAtCommit`, `ActiveAtCommit`) follow because only a commit changes what they
look at, and its checks are in the invariant.

The four refinements rest on the same fact. In each module `WhatIsCommitted` says that a
step leaves `db` alone, or does to it all that one operation does (a seat, a
cancellation, a loan, a return, a verdict, a membership), or one step of the
environment; one lemma per operation shows that this, on a consistent
database, is a step of the register. There the checks of the code become the guard
of a step that changes everything at once, and each register needs a part of `Consistent`
that no statement of the code looks at: that a seat is left, because the counter is the
length of the roster; that nobody else has an item which is available, because of
`CustodyMatches`; that a loan has a number of its own and no case yet, because
loans are numbered up to the last one. The mapping forgets versions, requests and what is
staged, and shows loans by how they stand. `DamageHasCase` says of a case that it is of
the item of its loan (`CasesFit`).

In `Auth` nothing is staged; the invariant says that every row is the one its login
made but for `revoked_at`, which tells exactly the logouts, and that a row which is
gone was logged out or had its end less than a second after the time of a clean-up, or
before it (`KeptUntilSwept`): a second is how far the order of texts can be wrong. Who is
refused with a token of a login therefore has no row, and is `ended` or `swept`, or has one
that is not live. In
`Server` it says that the writer has staged one migration on what is committed, one that
the ledger does not have, and that what a server has found or done at startup is in the
file for good. `FileGoesForward` follows from both: the ledger being a prefix, the
migration that a server has come to, and finds missing, is the next. In
`Idempotency` it ties a running record to the request that holds it, or to
nobody after a crash. In `Jobs` where a runner stands tells what it has in hand
(`InHand`), and what it is about to write is earned whoever has claimed the job
meanwhile (`AboutToFinish`), because attempts never decrease and `handledOK` never
shrinks. Two servers do break claims and the job machine; `Alone` says that there is
one. Then `ClaimsAreKept` joins the invariant: only `Recover` and `FinishWrite` take a
job out of running, the one of them when nothing is in hand. On top of that
`AttemptsPaidFor` counts: a job that may be claimed again, because it waits or because it
is running and `Lost` (no runner that goes on has it), has fewer attempts than
`max_attempts` and the faults together. A claim turns the strict bound into the weak one
while the job is in the hands of its runner; `FinishJob` gives it back only below
`max_attempts`; and whatever else makes it claimable again is a fault, which pays.

*Model-checked only.* Liveness under fairness: `EveryRequestReturns`,
`EveryJobSettles`, `SignalEnds`.

## 6. What is not modelled, and the plan

Not modelled: `config`, which parses environment variables; the handlers of
`httpapi` but login, logout and the middleware (they decode, call one operation and
encode); logging; `ListAudit`, a query. Of what is modelled, the age arithmetic of
`Enroll` is a constant relation, and the `expires_at` of certifications and of
idempotency keys is left out: nothing in the repository sets the one or reads the
other.

Each component is checked in an environment that stands for the others and for other
programs. `Equipment` sees enrollments come and go in any order, one at a time: a
cancellation, which ends several in one commit, reaches nothing that ending them one
after the other does not. `Assessment` sees qualifications come and go.
`Training` sees confirmed enrollments end, and none begin: one that begins while a
request is under way is refused by a check that came before it or taken by one that
comes after, and undoes nothing that a request has found. (With enrollments that begin
as well the run of `Training`, which has a liveness property, does not end in time.)
What the composition adds is statements that span tables of two components.

What is left of the plan is `Hub`: the components over one database, where
`db.enrolled` of `Equipment` and `db.confirmed` of `Training` are the roster of
`Enrollment`, and `db.certified` is what `Assessment` grants; whether a cancellation
leaves loans and memberships behind.

## 7. Running

```sh
tlc -config enrollment.cfg EnrollmentMC
tlc -config server.cfg Server
tlapm EnrollmentProofs.tla
```

The configurations of `Server` run with the module itself, every other one with the `MC`
module of its component.
