-------------------------------- MODULE Server --------------------------------
(***************************************************************************)
(* cmd/server: the life of a server process, run of main.go, with what it  *)
(* does to the database before it serves: the migrations of                *)
(* internal/storage/sqlite/migrations.go and the administrator and demo    *)
(* data of internal/bootstrap.  Two processes may live on one file (Procs  *)
(* are servers here); each may be stopped by a signal or die at any point. *)
(*                                                                         *)
(* A version stands for the tables its file creates, which come and go     *)
(* together.  Requests are counted, the worker is on or off: what they do  *)
(* is in the other modules.                                                *)
(***************************************************************************)
EXTENDS Store, Naturals

CONSTANTS
    LastVersion,    \* of the files in migrations/
    Templates,      \* the rows of DemoData
    MaxRequests     \* bound: requests in flight in one server

ASSUME ServerAssumption == {LastVersion, Templates, MaxRequests} \subseteq Nat \ {0}

VARIABLES
    at,         \* where run stands
    step,       \* the migration, or the row of DemoData, it has come to
    setting,    \* the environment variables of the process
    signaled,   \* rootCtx is canceled
    worker,     \* the goroutine of Runner.Start lives
    inFlight,   \* requests that are being handled
    exit        \* how the process ended

vars == <<storeVars, at, step, setting, signaled, worker, inFlight, exit>>

Versions == 1..LastVersion
Rows == 1..Templates

Databases ==
    [tables: SUBSET Versions,           \* what the migrations create
     ledger: SUBSET Versions,           \* schema_migrations
     admins: Nat,                       \* accounts with the e-mail of the setting
     templates: SUBSET Rows]            \* course_templates

\* BOOTSTRAP_ADMIN_EMAIL and _PASSWORD: none, one or both; BOOTSTRAP_DEMO_DATA.
Settings == [admin: {"none", "partial", "both"}, demo: BOOLEAN]

StartupPoints ==
    {"migrating", "applying", "recording", "recorded", "administrator",
     "registering", "demo"}
Points == StartupPoints \cup {"down", "starting", "listening", "serving", "draining", "waiting"}

\* Everything at startup is done under rootCtx: canceled, no statement and no
\* commit succeeds.
Starting(p, point) == at[p] = point /\ ~signaled[p]

Move(p, point) ==
    /\ at' = [at EXCEPT ![p] = point]
    /\ UNCHANGED <<setting, signaled, worker, inFlight, exit>>

Remain(p, point) == Move(p, point) /\ UNCHANGED step

\* run returns, or the process is killed, and the deferred store.Close with it.
GoDown(p, how) ==
    /\ Rollback(p)
    /\ at' = [at EXCEPT ![p] = "down"]
    /\ step' = [step EXCEPT ![p] = 1]
    /\ signaled' = [signaled EXCEPT ![p] = FALSE]
    /\ worker' = [worker EXCEPT ![p] = FALSE]
    /\ inFlight' = [inFlight EXCEPT ![p] = 0]
    /\ exit' = [exit EXCEPT ![p] = how]
    /\ UNCHANGED setting

\* config.Load and Open, with the ledger there or created.
Launch(p, s) ==
    /\ at[p] = "down"
    /\ at' = [at EXCEPT ![p] = "migrating"]
    /\ setting' = [setting EXCEPT ![p] = s]
    /\ exit' = [exit EXCEPT ![p] = "none"]
    /\ UNCHANGED <<storeVars, step, signaled, worker, inFlight>>

-----------------------------------------------------------------------------
\* migrate

NextVersion(p) ==
    IF step[p] = LastVersion
    THEN Move(p, "administrator") /\ step' = [step EXCEPT ![p] = 1]
    ELSE Move(p, "migrating") /\ step' = [step EXCEPT ![p] = @ + 1]

\* Mutant: the SELECT counts the rows of the ledger, whatever their version.
MigrationFoundAny(p) ==
    /\ Starting(p, "migrating")
    /\ db.ledger # {}
    /\ NextVersion(p)
    /\ UNCHANGED storeVars

\* The SELECT on the ledger, outside the transaction that may follow.
MigrationFound(p) ==
    /\ Starting(p, "migrating")
    /\ step[p] \in db.ledger
    /\ NextVersion(p)
    /\ UNCHANGED storeVars

MigrationMissing(p) ==
    /\ Starting(p, "migrating")
    /\ step[p] \notin db.ledger
    /\ Remain(p, "applying")
    /\ UNCHANGED storeVars

\* Mutant: the file is executed on the pool and not in the transaction.
ApplyOutside(p) ==
    /\ Starting(p, "applying")
    /\ AutoCommit([db EXCEPT !.tables = @ \cup {step[p]}])
    /\ Remain(p, "recording")

\* CREATE TABLE IF NOT EXISTS writes only if the tables are not there.
Apply(p) ==
    /\ Starting(p, "applying")
    /\ IF step[p] \in db.tables
       THEN TakeSnapshot(p)
       ELSE Write(p, [db EXCEPT !.tables = @ \cup {step[p]}])
    /\ Remain(p, "recording")

InHand(p) == IF writer = p THEN staged ELSE db

\* The INSERT into the ledger, whose key is the version.
Record(p) ==
    /\ Starting(p, "recording")
    /\ step[p] \notin InHand(p).ledger
    /\ Write(p, [InHand(p) EXCEPT !.ledger = @ \cup {step[p]}])
    /\ Remain(p, "recorded")

CommitMigration(p) ==
    /\ Starting(p, "recorded")
    /\ Commit(p)
    /\ NextVersion(p)

\* The key is taken, the writer is another: migrate returns the error, and run.
RecordFails(p) ==
    /\ at[p] = "recording"
    /\ step[p] \in InHand(p).ledger \/ Busy(p)
    /\ GoDown(p, "error")

-----------------------------------------------------------------------------
\* bootstrap.Administrator

AdministratorUnset(p) ==
    /\ at[p] = "administrator"
    /\ setting[p].admin = "none"
    /\ Remain(p, "demo")
    /\ UNCHANGED storeVars

AdministratorPartial(p) ==
    /\ at[p] = "administrator"
    /\ setting[p].admin = "partial"
    /\ GoDown(p, "error")

AdministratorFound(p) ==
    /\ Starting(p, "administrator")
    /\ setting[p].admin = "both"
    /\ db.admins > 0
    /\ Remain(p, "demo")
    /\ UNCHANGED storeVars

AdministratorMissing(p) ==
    /\ Starting(p, "administrator")
    /\ setting[p].admin = "both"
    /\ db.admins = 0
    /\ Remain(p, "registering")
    /\ UNCHANGED storeVars

\* Mutant: no UNIQUE on accounts.email.
EmailAlwaysFree == TRUE

EmailFree == db.admins = 0

\* Register, which inserts without looking again.
Register(p) ==
    /\ Starting(p, "registering")
    /\ EmailFree
    /\ AutoCommit([db EXCEPT !.admins = @ + 1])
    /\ Remain(p, "demo")

RegisterFails(p) ==
    /\ at[p] = "registering"
    /\ ~EmailFree
    /\ GoDown(p, "error")

-----------------------------------------------------------------------------
\* bootstrap.DemoData

DemoUnset(p) ==
    /\ at[p] = "demo"
    /\ ~setting[p].demo
    /\ Remain(p, "starting")
    /\ UNCHANGED storeVars

\* INSERT OR IGNORE, one row after the other.
DemoRow(p) ==
    /\ Starting(p, "demo")
    /\ setting[p].demo
    /\ AutoCommit([db EXCEPT !.templates = @ \cup {step[p]}])
    /\ IF step[p] = Templates
       THEN Move(p, "starting") /\ step' = [step EXCEPT ![p] = 1]
       ELSE Move(p, "demo") /\ step' = [step EXCEPT ![p] = @ + 1]

\* Any statement may fail, and fails once the context is canceled.
StartupFails(p) ==
    /\ at[p] \in StartupPoints
    /\ GoDown(p, "error")

-----------------------------------------------------------------------------
\* run, from runner.Start on

StartWorker(p) ==
    /\ at[p] = "starting"
    /\ worker' = [worker EXCEPT ![p] = TRUE]
    /\ at' = [at EXCEPT ![p] = "listening"]
    /\ UNCHANGED <<storeVars, step, setting, signaled, inFlight, exit>>

Listen(p) ==
    /\ at[p] = "listening"
    /\ Remain(p, "serving")
    /\ UNCHANGED storeVars

\* The address is taken, or Accept fails: run returns past Shutdown and Wait.
ListenFails(p) ==
    /\ at[p] \in {"listening", "serving"}
    /\ GoDown(p, "error")

\* The select sees rootCtx.Done; Shutdown closes the listener.
Shutdown(p) ==
    /\ at[p] \in {"listening", "serving"}
    /\ signaled[p]
    /\ Remain(p, "draining")
    /\ UNCHANGED storeVars

Drained(p) ==
    /\ at[p] = "draining"
    /\ inFlight[p] = 0
    /\ Remain(p, "waiting")
    /\ UNCHANGED storeVars

\* Mutant: Shutdown(context.Background()), which waits as long as it takes.
DrainNeverTimesOut(p) == FALSE

\* shutdownCtx ends with requests in flight: run returns before runner.Wait,
\* and closes the store under them and under the worker.
DrainTimesOut(p) ==
    /\ at[p] = "draining"
    /\ inFlight[p] > 0
    /\ GoDown(p, "error")

\* The goroutine of Runner.Start returns; what it still does is in Jobs.
WorkerStops(p) ==
    /\ worker[p]
    /\ signaled[p]
    /\ worker' = [worker EXCEPT ![p] = FALSE]
    /\ UNCHANGED <<storeVars, at, step, setting, signaled, inFlight, exit>>

\* Mutant: no runner.Wait.
ReturnAtOnce(p) ==
    /\ at[p] = "waiting"
    /\ GoDown(p, "clean")

\* runner.Wait returns, and run with it.
Return(p) ==
    /\ at[p] = "waiting"
    /\ ~worker[p]
    /\ GoDown(p, "clean")

-----------------------------------------------------------------------------
\* The environment

Signal(p) ==
    /\ at[p] # "down"
    /\ ~signaled[p]
    /\ signaled' = [signaled EXCEPT ![p] = TRUE]
    /\ UNCHANGED <<storeVars, at, step, setting, worker, inFlight, exit>>

RequestArrives(p) ==
    /\ at[p] = "serving"
    /\ inFlight[p] < MaxRequests
    /\ inFlight' = [inFlight EXCEPT ![p] = @ + 1]
    /\ UNCHANGED <<storeVars, at, step, setting, signaled, worker, exit>>

RequestEnds(p) ==
    /\ inFlight[p] > 0
    /\ inFlight' = [inFlight EXCEPT ![p] = @ - 1]
    /\ UNCHANGED <<storeVars, at, step, setting, signaled, worker, exit>>

Crash(p) ==
    /\ at[p] # "down"
    /\ GoDown(p, "killed")

-----------------------------------------------------------------------------
Init ==
    /\ InitStore([tables |-> {}, ledger |-> {}, admins |-> 0, templates |-> {}])
    /\ at = [p \in Procs |-> "down"]
    /\ step = [p \in Procs |-> 1]
    /\ setting = [p \in Procs |-> [admin |-> "none", demo |-> FALSE]]
    /\ signaled = [p \in Procs |-> FALSE]
    /\ worker = [p \in Procs |-> FALSE]
    /\ inFlight = [p \in Procs |-> 0]
    /\ exit = [p \in Procs |-> "none"]

Startup(p) ==
    \/ MigrationFound(p) \/ MigrationMissing(p)
    \/ Apply(p) \/ Record(p) \/ RecordFails(p) \/ CommitMigration(p)
    \/ AdministratorUnset(p) \/ AdministratorPartial(p)
    \/ AdministratorFound(p) \/ AdministratorMissing(p)
    \/ Register(p) \/ RegisterFails(p)
    \/ DemoUnset(p) \/ DemoRow(p)
    \/ StartupFails(p)

Life(p) ==
    \/ StartWorker(p) \/ Listen(p) \/ Shutdown(p)
    \/ Drained(p) \/ DrainTimesOut(p)
    \/ WorkerStops(p) \/ Return(p)

Environment(p) ==
    \/ \E s \in Settings : Launch(p, s)
    \/ ListenFails(p) \/ Signal(p) \/ Crash(p)
    \/ RequestArrives(p) \/ RequestEnds(p)

Next == \E p \in Procs : Startup(p) \/ Life(p) \/ Environment(p)

Spec == Init /\ [][Next]_vars

\* The process is scheduled, its timeouts fire and the handlers of its worker
\* return.  Nothing makes a request end.
FairSpec == Spec /\ \A p \in Procs : WF_vars(Startup(p)) /\ WF_vars(Life(p))

-----------------------------------------------------------------------------
\* Properties

\* Rows and points keep to their domains; an e-mail has one account.
TypeOK ==
    /\ db \in Databases
    /\ staged \in Databases
    /\ writer \in Procs \cup {NoProc}
    /\ snapshot \in [Procs -> SnapshotStates]
    /\ at \in [Procs -> Points]
    /\ step \in [Procs -> Versions \cup Rows]
    /\ setting \in [Procs -> Settings]
    /\ signaled \in [Procs -> BOOLEAN]
    /\ worker \in [Procs -> BOOLEAN]
    /\ inFlight \in [Procs -> 0..MaxRequests]
    /\ exit \in [Procs -> {"none", "clean", "error", "killed"}]
    /\ db.admins <= 1

\* README: "a migration and its ledger entry commit together".  What the file
\* holds is a prefix of the migrations, each with its entry, wherever two
\* servers that start together and their crashes leave it.
LedgerMatchesSchema ==
    /\ db.ledger = db.tables
    /\ \A v \in db.ledger : \A u \in 1..v : u \in db.ledger

\* What is in the file stays there and comes in order: a migration once and
\* whole, on all of those before it; then the administrator, once, and the rows
\* of the demo data.  No rollback, crash or second server takes any of it back,
\* applies a migration twice or lets data in under a schema that is not there.
FileGoesForward ==
    [][db' # db =>
        \/ \E v \in Versions :
            /\ db.ledger = 1..(v - 1)
            /\ db' = [db EXCEPT !.tables = @ \cup {v}, !.ledger = @ \cup {v}]
        \/ /\ db.tables = Versions
           /\ \/ db.admins = 0 /\ db' = [db EXCEPT !.admins = 1]
              \/ \E n \in Rows : db' = [db EXCEPT !.templates = @ \cup {n}]]_vars

\* A server serves only on a complete schema, with its administrator and its
\* demo data if it was told so: whichever of the servers has put them there.
ServingIsReady ==
    \A p \in Procs : at[p] \in {"listening", "serving"} =>
        /\ db.tables = Versions
        /\ setting[p].admin # "partial"
        /\ setting[p].admin = "both" => db.admins = 1
        /\ setting[p].demo => db.templates = Rows

\* README: "A clean shutdown waits for HTTP requests and the worker to stop."
\* Nothing runs in a process whose run returns nil.
CleanExitWaits ==
    [][\A p \in Procs : exit[p] # "clean" /\ exit'[p] = "clean" =>
            /\ inFlight[p] = 0
            /\ ~worker[p]]_vars

\* Whoever is told to stop stops, wherever the signal finds it: at startup,
\* waiting for the other server's lock, or with requests that never end.
SignalEnds == \A p \in Procs : signaled[p] ~> at[p] = "down"

-----------------------------------------------------------------------------
\* What makes LedgerMatchesSchema and ServingIsReady inductive

Migrating == {"migrating", "applying", "recording", "recorded"}
Seeded == {"starting", "listening", "serving"}
Registered == Seeded \cup {"demo"}
Migrated == Registered \cup {"administrator", "registering"}

\* What a server has passed on its way is there, and stays.
StartupLeavesBehind ==
    \A p \in Procs :
        /\ at[p] \in {"down", "administrator", "registering"} => step[p] = 1
        /\ at[p] \in Migrating => step[p] \in Versions /\ 1..(step[p] - 1) \subseteq db.ledger
        /\ at[p] \in Migrated => db.tables = Versions
        /\ at[p] = "registering" => setting[p].admin = "both"
        /\ at[p] = "demo" => step[p] \in Rows /\ 1..(step[p] - 1) \subseteq db.templates
        /\ at[p] \in Registered =>
            /\ setting[p].admin # "partial"
            /\ setting[p].admin = "both" => db.admins = 1
        /\ at[p] \in Seeded /\ setting[p].demo => db.templates = Rows

\* The one writer is in a migration, and has staged that migration and nothing
\* else; who has found its tables without writing them will not get to its entry.
StagedIsOneMigration ==
    /\ writer = NoProc => staged = db
    /\ \A p \in Procs :
        /\ writer = p => at[p] \in {"recording", "recorded"}
        /\ at[p] = "recorded" => writer = p
        /\ at[p] = "recording" /\ writer # p => step[p] \in db.tables
        /\ at[p] = "recording" /\ writer = p =>
                /\ step[p] \notin db.tables
                /\ staged = [db EXCEPT !.tables = @ \cup {step[p]}]
        /\ at[p] = "recorded" =>
                /\ step[p] \notin db.ledger
                /\ staged = [db EXCEPT !.tables = @ \cup {step[p]}, !.ledger = @ \cup {step[p]}]

\* What the one writer has staged is the migration it is in; what a server has
\* found or done at startup is in the file for good, whatever another server
\* does or dies of meanwhile.
Inductive ==
    /\ TypeOK
    /\ LedgerMatchesSchema
    /\ StartupLeavesBehind
    /\ StagedIsOneMigration
=============================================================================
