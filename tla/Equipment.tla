----------------------------- MODULE Equipment ------------------------------
(***************************************************************************)
(* internal/equipment: Service.Checkout and Service.Return over the rows   *)
(* of internal/storage/sqlite/equipment.go, one process per request, one   *)
(* step per statement of its transaction.                                  *)
(*                                                                         *)
(* Whether an item suits a student (its sport is the course's, its size is *)
(* the student's for its kind) never changes and is the constant Suits.    *)
(* db.inspected holds the items with a passed inspection that is still     *)
(* valid, db.enrolled the pairs with a confirmed enrollment; the steps of  *)
(* the environment change both, and run the maintenance of an isolated     *)
(* item along the table of states.go, which nothing here does.             *)
(*                                                                         *)
(* An UPDATE whose WHERE clause matches no row would be answered with a    *)
(* version conflict, a second active loan with a UNIQUE error.  Neither    *)
(* has an action here: VersionsNeverConflict says why.                     *)
(***************************************************************************)
EXTENDS Requests, Domain, FiniteSets, Naturals, Sequences

CONSTANTS
    Items, Students, Sessions,
    Suits,          \* <<item, student, session>> that fit
    MaxLoans        \* bound: loans of a behaviour

Pairs == Students \X Sessions

ASSUME SuitsAssumption == Suits \subseteq Items \X Students \X Sessions
ASSUME LoanAssumption == MaxLoans \in Nat

vars == <<storeVars, requestVars>>

ItemStates == {"available", "checked_out", "isolated", "maintenance", "retired"}
ItemRows == [status: ItemStates, version: Nat]
LoanIds == 1..MaxLoans
Loans == [item: Items, student: Students, session: Sessions,
          status: {"active", "returned", "damaged"}, version: Nat]
Cases == [item: Items, loan: LoanIds, status: {"open"}]
Databases ==
    [item: [Items -> ItemRows],         \* equipment
     loans: Seq(Loans),                 \* equipment_loans, by id
     cases: Seq(Cases),                 \* maintenance_cases, by id
     inspected: SUBSET Items,
     enrolled: SUBSET Pairs,
     audit: [Items -> [checked_out: Nat, returned: Nat]]]

Checkouts == [op: {"checkout"}, item: Items, student: Students, session: Sessions]
Returns == [op: {"return"}, loan: LoanIds, damaged: BOOLEAN]
Points == {"idle", "checkout", "acquiring", "lending", "return", "closing",
           "releasing", "written"}

ActiveLoans(d, i) == {n \in DOMAIN d.loans : d.loans[n].item = i /\ d.loans[n].status = "active"}

-----------------------------------------------------------------------------
\* Requests

\* The role, missing ids and a damaged return without its damage code or
\* responsibility are refused before the transaction.
Authorized(role) == role \in {"equipment_manager", "administrator"}

Rejected(p, role, blank) ==
    /\ pc[p] = "idle"
    /\ ~Authorized(role) \/ blank
    /\ Answer(p, "refused")
    /\ UNCHANGED storeVars

Begin(p, r) ==
    /\ Take(p, r, r.op)
    /\ UNCHANGED <<storeVars, seen>>

-----------------------------------------------------------------------------
\* Service.Checkout

Safe(d, r) ==
    /\ d.item[r.item].status = "available"
    /\ r.item \in d.inspected
    /\ <<r.student, r.session>> \in d.enrolled
    /\ <<r.item, r.student, r.session>> \in Suits

\* Mutant: the snapshot is read on the pool and not in the transaction.
CheckoutReadOutside(p) ==
    /\ pc[p] = "checkout"
    /\ Safe(db, req[p])
    /\ Saw(p, db.item[req[p].item], "acquiring")
    /\ UNCHANGED storeVars

\* CheckoutSnapshot and the checks on it.
CheckoutRead(p) ==
    /\ pc[p] = "checkout"
    /\ Safe(db, req[p])
    /\ TakeSnapshot(p)
    /\ Saw(p, db.item[req[p].item], "acquiring")

CheckoutRefused(p) ==
    /\ pc[p] = "checkout"
    /\ ~Safe(db, req[p])
    /\ GiveUp(p, "refused")

\* AcquireEquipment: the UPDATE of the item, ...
Acquirable(d, i, version) ==
    /\ d.item[i].version = version
    /\ d.item[i].status = "available"

SetItem(d, i, status) ==
    [d EXCEPT !.item[i] = [status |-> status, version |-> @.version + 1]]

CheckoutAcquire(p) ==
    /\ pc[p] = "acquiring"
    /\ Acquirable(db, req[p].item, seen[p].version)
    /\ Write(p, SetItem(db, req[p].item, "checked_out"))
    /\ Goto(p, "lending")

\* ... the INSERT of the loan, under the unique index on active loans, and
\* the audit event.
\* Mutant: no audit event.
AddLoanUnaudited(d, r) ==
    [d EXCEPT !.loans = Append(@, [item |-> r.item, student |-> r.student,
                                   session |-> r.session, status |-> "active",
                                   version |-> 1])]

AddLoan(d, r) ==
    [d EXCEPT !.loans = Append(@, [item |-> r.item, student |-> r.student,
                                   session |-> r.session, status |-> "active",
                                   version |-> 1]),
              !.audit[r.item].checked_out = @ + 1]

CheckoutLend(p) ==
    /\ pc[p] = "lending"
    /\ Len(db.loans) < MaxLoans
    /\ ActiveLoans(staged, req[p].item) = {}
    /\ Write(p, AddLoan(staged, req[p]))
    /\ Goto(p, "written")

-----------------------------------------------------------------------------
\* Service.Return

LoanTarget(damaged) == IF damaged THEN "damaged" ELSE "returned"

\* Mutants: a damaged item stays with its custodian, or takes the loan's state.
ItemTargetKept(damaged) == IF damaged THEN "checked_out" ELSE "available"
ItemTargetOfLoan(damaged) == IF damaged THEN "damaged" ELSE "available"

ItemTarget(damaged) == IF damaged THEN "isolated" ELSE "available"

\* ActiveLoan, which finds a loan in any state, and ValidateTransition.
Returnable(d, r) ==
    /\ r.loan \in DOMAIN d.loans
    /\ ValidTransition("loan", d.loans[r.loan].status, LoanTarget(r.damaged))

ReturnRead(p) ==
    /\ pc[p] = "return"
    /\ Returnable(db, req[p])
    /\ TakeSnapshot(p)
    /\ Saw(p, db.item[db.loans[req[p].loan].item], "closing")

ReturnRefused(p) ==
    /\ pc[p] = "return"
    /\ ~Returnable(db, req[p])
    /\ GiveUp(p, "refused")

\* Mutant: every loan of the item is closed with it.
CloseLoansOfItem(d, r) ==
    [d EXCEPT !.loans = [n \in DOMAIN @ |->
        IF @[n].item = d.loans[r.loan].item
        THEN [@[n] EXCEPT !.status = LoanTarget(r.damaged)]
        ELSE @[n]]]

\* CompleteReturn: the UPDATE of the loan, ...
CloseLoan(d, r) ==
    [d EXCEPT !.loans[r.loan].status = LoanTarget(r.damaged),
              !.loans[r.loan].version = @ + 1]

ReturnClose(p) ==
    /\ pc[p] = "closing"
    /\ db.loans[req[p].loan].status = "active"
    /\ Write(p, CloseLoan(db, req[p]))
    /\ Goto(p, "releasing")

\* ... the UPDATE of the item, the INSERT of the maintenance case of a damaged
\* one, and the audit event.
Releasable(d, i, version) ==
    /\ d.item[i].version = version
    /\ d.item[i].status = "checked_out"

\* Mutant: a case for every return.
OpenCaseAlways(d, r, i) ==
    [d EXCEPT !.cases = Append(@, [item |-> i, loan |-> r.loan, status |-> "open"])]

OpenCase(d, r, i) ==
    IF r.damaged
    THEN [d EXCEPT !.cases = Append(@, [item |-> i, loan |-> r.loan, status |-> "open"])]
    ELSE d

ReleaseItem(d, r, i) ==
    [OpenCase(SetItem(d, i, ItemTarget(r.damaged)), r, i) EXCEPT !.audit[i].returned = @ + 1]

ReturnRelease(p) ==
    LET i == staged.loans[req[p].loan].item IN
    /\ pc[p] = "releasing"
    /\ Releasable(staged, i, seen[p].version)
    /\ Write(p, ReleaseItem(staged, req[p], i))
    /\ Goto(p, "written")

-----------------------------------------------------------------------------
\* Store.InTx

TxBusy(p) == GiveUpBusy(p, {"acquiring", "closing"})

TxFail(p) == GiveUpAnywhere(p)

TxCommit(p) == \E outcome \in Outcomes : CommitAndAnswer(p, outcome)

-----------------------------------------------------------------------------
\* The environment

Crash == Die

\* An inspection is recorded or expires; an enrollment is confirmed, or its
\* session canceled.
InspectionChanges(i) ==
    /\ AutoCommit([db EXCEPT !.inspected = Toggle(@, i)])
    /\ UNCHANGED requestVars

EnrollmentChanges(x) ==
    /\ AutoCommit([db EXCEPT !.enrolled = Toggle(@, x)])
    /\ UNCHANGED requestVars

Maintain(i, status) ==
    /\ db.item[i].status \in {"isolated", "maintenance"}
    /\ ValidTransition("equipment", db.item[i].status, status)
    /\ AutoCommit([db EXCEPT !.item[i].status = status])
    /\ UNCHANGED requestVars

-----------------------------------------------------------------------------
EmptyDatabase ==
    [item |-> [i \in Items |-> [status |-> "available", version |-> 1]],
     loans |-> <<>>,
     cases |-> <<>>,
     inspected |-> Items,
     enrolled |-> Pairs,
     audit |-> [i \in Items |-> [checked_out |-> 0, returned |-> 0]]]

Init ==
    /\ InitStore(EmptyDatabase)
    /\ InitRequests

Step(p) ==
    \/ \E role \in Roles, blank \in BOOLEAN : Rejected(p, role, blank)
    \/ \E r \in Checkouts \cup Returns : Begin(p, r)
    \/ CheckoutRead(p) \/ CheckoutRefused(p)
    \/ CheckoutAcquire(p) \/ CheckoutLend(p)
    \/ ReturnRead(p) \/ ReturnRefused(p)
    \/ ReturnClose(p) \/ ReturnRelease(p)
    \/ TxBusy(p) \/ TxFail(p) \/ TxCommit(p)

Environment ==
    \/ Crash
    \/ \E i \in Items : InspectionChanges(i)
    \/ \E x \in Pairs : EnrollmentChanges(x)
    \/ \E i \in Items, status \in ItemStates : Maintain(i, status)

Next == (\E p \in Procs : Step(p)) \/ Environment

Spec == Init /\ [][Next]_vars

-----------------------------------------------------------------------------
\* Properties

\* Rows and requests keep to the states the code gives them.
TypeOK ==
    /\ db \in Databases
    /\ staged \in Databases
    /\ writer \in Procs \cup {NoProc}
    /\ snapshot \in [Procs -> SnapshotStates]
    /\ pc \in [Procs -> Points]
    /\ req \in [Procs -> Checkouts \cup Returns \cup {NoRequest}]
    /\ seen \in [Procs -> ItemRows \cup {NoRow}]
    /\ answer \in [Procs -> Outcomes]

\* An item is checked out exactly when one loan of it is active, and never to
\* two custodians: the status and the loan are written by two statements of a
\* transaction that other checkouts and returns interleave with.
CustodyMatches ==
    \A i \in Items :
        Cardinality(ActiveLoans(db, i)) = IF db.item[i].status = "checked_out" THEN 1 ELSE 0

CasesOf(d, n) == {c \in DOMAIN d.cases : d.cases[c].loan = n}

CasesFit(d) ==
    \A c \in DOMAIN d.cases :
        /\ d.cases[c].loan \in DOMAIN d.loans
        /\ d.cases[c].item = d.loans[d.cases[c].loan].item

\* README: "A damaged return closes custody, isolates the asset, opens a
\* maintenance case".  Every damaged loan has one case, every case a damaged
\* loan of its item, also when the return is sent twice or fails half-way.
DamageHasCase ==
    /\ CasesFit(db)
    /\ \A n \in DOMAIN db.loans :
        Cardinality(CasesOf(db, n)) = IF db.loans[n].status = "damaged" THEN 1 ELSE 0

Audited(d) ==
    \A i \in Items :
        LET loans == {n \in DOMAIN d.loans : d.loans[n].item = i} IN
        /\ d.audit[i].checked_out = Cardinality(loans)
        /\ d.audit[i].returned = Cardinality(loans \ ActiveLoans(d, i))

\* The audit trail counts the loans and the returns of every item: each event
\* is written in the transaction of what it records.
AuditTellsTheTruth == Audited(db)

\* README: "Checkout acquires exclusive equipment custody only after
\* enrollment, sport, fit, and inspection checks".  The checks hold in the
\* database that the loan is committed to, not only in the one that was read.
SafeAtCommit ==
    [][\A n \in DOMAIN db'.loans \ DOMAIN db.loans : Safe(db, db'.loans[n])]_vars

\* A closed loan is never opened again or reclassified: of two returns of one
\* loan, sent at once or one after the other, the second changes nothing.
ClosedLoansStay ==
    [][\A n \in DOMAIN db.loans : db.loans[n].status # "active" => db'.loans[n] = db.loans[n]]_vars

\* A transaction that gets to its first write finds what it has read: the
\* conditional updates of AcquireEquipment and CompleteReturn match their row
\* and no other loan is active.  Who loses a race for an item is told that the
\* database is busy or that the item is unavailable, never that the record
\* changed.
VersionsNeverConflict ==
    \A p \in Procs : MayWrite(p) =>
        CASE pc[p] = "acquiring" -> Acquirable(db, req[p].item, seen[p].version)
                                    /\ ActiveLoans(db, req[p].item) = {}
          [] pc[p] = "closing"   -> db.loans[req[p].loan].status = "active"
                                    /\ Releasable(db, db.loans[req[p].loan].item, seen[p].version)
          [] OTHER -> TRUE

-----------------------------------------------------------------------------
\* What makes the invariants inductive

Custody(d) ==
    \A i \in Items :
        IF d.item[i].status = "checked_out"
        THEN \E n \in DOMAIN d.loans : ActiveLoans(d, i) = {n}
        ELSE ActiveLoans(d, i) = {}

DamageReported(d) ==
    /\ CasesFit(d)
    /\ \A n \in DOMAIN d.loans :
        IF d.loans[n].status = "damaged"
        THEN \E c \in DOMAIN d.cases : CasesOf(d, n) = {c}
        ELSE CasesOf(d, n) = {}

Consistent(d) == Custody(d) /\ DamageReported(d) /\ Audited(d)

\* The writer, and nobody else, is between its first statement and its commit.
Writing == {"lending", "releasing", "written"}

Locked ==
    /\ writer = NoProc => staged = db
    /\ \A p \in Procs : writer = p <=> pc[p] \in Writing

ItemOf(d, r) == IF r.op = "checkout" THEN r.item ELSE d.loans[r.loan].item

\* What a request has read: what it is going to change, and that it may.
Licensed(d, r, row) ==
    /\ row = d.item[ItemOf(d, r)]
    /\ IF r.op = "checkout" THEN Safe(d, r) ELSE Returnable(d, r)

\* It holds as long as the request's snapshot is that of the committed
\* database, which it is from its first write on; and the request has staged
\* its own statements on that database and nothing else.
ChecksHold ==
    \A p \in Procs :
        /\ pc[p] \in {"checkout", "acquiring", "lending"} => req[p] \in Checkouts
        /\ pc[p] \in {"return", "closing", "releasing"} => req[p] \in Returns
        /\ pc[p] = "written" => req[p] \in Checkouts \cup Returns
        /\ pc[p] \in {"acquiring", "closing"} =>
            /\ snapshot[p] # "none"
            /\ snapshot[p] = "fresh" => Licensed(db, req[p], seen[p])
        /\ pc[p] \in Writing => Licensed(db, req[p], seen[p])
        /\ pc[p] = "lending" => staged = SetItem(db, req[p].item, "checked_out")
        /\ pc[p] = "releasing" => staged = CloseLoan(db, req[p])
        /\ pc[p] = "written" =>
            IF req[p].op = "checkout"
            THEN /\ Len(db.loans) < MaxLoans
                 /\ staged = AddLoan(SetItem(db, req[p].item, "checked_out"), req[p])
            ELSE staged = ReleaseItem(CloseLoan(db, req[p]), req[p], ItemOf(db, req[p]))

\* What is committed is consistent; what is staged is the statements of the one
\* writer on it.  A checkout may lend only what is still free when its loan is
\* inserted, a return closes only the loan that is active: that needs the rows
\* both have read, and has to hold before either commits.
Inductive ==
    /\ TypeOK
    /\ Locked
    /\ ChecksHold
    /\ Consistent(db)

-----------------------------------------------------------------------------
\* What Equipment implements: each loan without its version, by its number.
Bare(d, n) == [loan |-> n, item |-> d.loans[n].item,
               student |-> d.loans[n].student, session |-> d.loans[n].session]

LoansIn(d, status) == {Bare(d, n) : n \in {m \in DOMAIN d.loans : d.loans[m].status = status}}

Register == INSTANCE EquipmentLedger WITH
    status    <- [i \in Items |-> db.item[i].status],
    out       <- LoansIn(db, "active"),
    returned  <- LoansIn(db, "returned"),
    damaged   <- LoansIn(db, "damaged"),
    reported  <- {db.cases[c].loan : c \in DOMAIN db.cases},
    inspected <- db.inspected,
    enrolled  <- db.enrolled

\* Checkout and Return, statement by statement, implement the register: an item
\* is lent on checks that still hold, a loan ends once, and the item, the loan
\* and the maintenance case change together.
ImplementsRegister == Register!LedgerSpec
=============================================================================
