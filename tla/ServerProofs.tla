----------------------------- MODULE ServerProofs -----------------------------
(***************************************************************************)
(* Proofs about the startup of Server, for any number of servers on one    *)
(* file, of migrations and of rows of demo data: wherever the servers and  *)
(* their crashes leave the file, it holds a prefix of the migrations, each *)
(* with its entry, and a server serves only on all of them.                *)
(***************************************************************************)
EXTENDS Server, TLAPS

LEMMA Numbers ==
    /\ LastVersion \in Nat /\ LastVersion >= 1
    /\ Templates \in Nat /\ Templates >= 1
    /\ MaxRequests \in Nat
BY ServerAssumption

-----------------------------------------------------------------------------
\* The two ways in which a server leaves where it is

\* A process ends, and what it had not committed is gone.
LEMMA DownStep ==
    ASSUME Inductive, NEW p \in Procs, NEW how \in {"none", "clean", "error", "killed"},
           GoDown(p, how)
    PROVE  Inductive'
<1>1. TypeOK'
  BY Numbers, ProcAssumption
  DEF Inductive, TypeOK, GoDown, Rollback, Versions, SnapshotStates, Points
<1>2. LedgerMatchesSchema'
  BY DEF Inductive, LedgerMatchesSchema, GoDown, Rollback
<1>3. StartupLeavesBehind'
  BY DEF Inductive, TypeOK, StartupLeavesBehind, GoDown, Rollback, Migrating, Migrated,
         Registered, Seeded
<1>4. StagedIsOneMigration'
  BY ProcAssumption DEF Inductive, TypeOK, StagedIsOneMigration, GoDown, Rollback
<1> QED BY <1>1, <1>2, <1>3, <1>4 DEF Inductive

\* A server goes on without a write: to a point that is not of a migration, or
\* from one to the next, whose promises it keeps.
LEMMA PointStep ==
    ASSUME Inductive, NEW p \in Procs, UNCHANGED <<storeVars, setting>>, TypeOK',
           at' = [at EXCEPT ![p] = at'[p]], step' = [step EXCEPT ![p] = step'[p]],
           at[p] \notin {"recording", "recorded"}, at'[p] \notin {"recording", "recorded"},
           at'[p] \in {"down", "administrator", "registering"} => step'[p] = 1,
           at'[p] \in Migrating => step'[p] \in Versions /\ 1..(step'[p] - 1) \subseteq db.ledger,
           at'[p] \in Migrated => db.tables = Versions,
           at'[p] = "registering" => setting[p].admin = "both",
           at'[p] = "demo" => step'[p] \in Rows /\ 1..(step'[p] - 1) \subseteq db.templates,
           at'[p] \in Registered => /\ setting[p].admin # "partial"
                                    /\ setting[p].admin = "both" => db.admins = 1,
           at'[p] \in Seeded /\ setting[p].demo => db.templates = Rows
    PROVE  Inductive'
<1>1. at \in [Procs -> Points] /\ \A q \in Procs : q # p => at'[q] = at[q] /\ step'[q] = step[q]
  BY DEF Inductive, TypeOK
<1>2. LedgerMatchesSchema'
  BY DEF Inductive, LedgerMatchesSchema, storeVars
<1>3. StartupLeavesBehind'
  BY <1>1 DEF Inductive, StartupLeavesBehind, storeVars
<1>4. StagedIsOneMigration'
  <2>1. StagedIsOneMigration /\ writer # p
    BY DEF Inductive, StagedIsOneMigration
  <2>2. db' = db /\ staged' = staged /\ writer' = writer
    BY DEF storeVars
  <2>3. ASSUME NEW q \in Procs
        PROVE  /\ writer' = q => at'[q] \in {"recording", "recorded"}
               /\ at'[q] = "recorded" => writer' = q
               /\ at'[q] = "recording" /\ writer' # q => step'[q] \in db'.tables
               /\ at'[q] = "recording" /\ writer' = q =>
                     /\ step'[q] \notin db'.tables
                     /\ staged' = [db' EXCEPT !.tables = @ \cup {step'[q]}]
               /\ at'[q] = "recorded" =>
                     /\ step'[q] \notin db'.ledger
                     /\ staged' = [db' EXCEPT !.tables = @ \cup {step'[q]},
                                              !.ledger = @ \cup {step'[q]}]
    <3>1. CASE q = p
      BY <2>1, <2>2, <3>1
    <3>2. CASE q # p
      <4>1. at'[q] = at[q] /\ step'[q] = step[q]
        BY <1>1, <3>2
      <4> QED BY <2>1, <2>2, <4>1 DEF StagedIsOneMigration
    <3> QED BY <3>1, <3>2
  <2> QED BY <2>1, <2>2, <2>3 DEF StagedIsOneMigration
<1> QED BY <1>2, <1>3, <1>4 DEF Inductive

-----------------------------------------------------------------------------
\* The steps of migrate

\* The entry is there, and so are those before it: after the last one, all.
LEMMA VersionPassed ==
    ASSUME Inductive, NEW p \in Procs, at[p] \in Migrating,
           NEW ledger, ledger \subseteq Versions, db.ledger \subseteq ledger, step[p] \in ledger
    PROVE  /\ 1..step[p] \subseteq ledger
           /\ step[p] = LastVersion => ledger = Versions
           /\ step[p] # LastVersion => step[p] + 1 \in Versions
<1>1. step[p] \in 1..LastVersion /\ 1..(step[p] - 1) \subseteq ledger
  BY DEF Inductive, StartupLeavesBehind, Versions
<1>2. \A n \in 1..step[p] : n \in 1..(step[p] - 1) \/ n = step[p]
  BY <1>1, Numbers
<1>3. 1..step[p] \subseteq ledger
  BY <1>1, <1>2
<1>4. step[p] # LastVersion => step[p] + 1 \in Versions
  BY <1>1, Numbers DEF Versions
<1> QED BY <1>3, <1>4 DEF Versions

LEMMA FoundStep ==
    ASSUME Inductive, NEW p \in Procs, MigrationFound(p)
    PROVE  Inductive'
<1>1. at \in [Procs -> Points] /\ step \in [Procs -> Versions \cup Rows]
      /\ at[p] \in Migrating /\ db.ledger \subseteq Versions
  BY DEF Inductive, TypeOK, MigrationFound, Starting, Migrating, Databases
<1>2. /\ 1..step[p] \subseteq db.ledger
      /\ step[p] = LastVersion => db.ledger = Versions
      /\ step[p] # LastVersion => step[p] + 1 \in Versions
      /\ step[p] \in Versions
  BY <1>1, VersionPassed DEF MigrationFound, Inductive, StartupLeavesBehind
<1>3. CASE step[p] = LastVersion
  <2>1. at' = [at EXCEPT ![p] = "administrator"] /\ step' = [step EXCEPT ![p] = 1]
        /\ UNCHANGED <<storeVars, setting, signaled, worker, inFlight, exit>>
    BY <1>3 DEF MigrationFound, NextVersion, Move
  <2>2. TypeOK'
    BY <2>1, Numbers DEF Inductive, TypeOK, storeVars, Points, StartupPoints, Versions
  <2>3. at'[p] = "administrator" /\ step'[p] = 1
    BY <2>1, <1>1
  <2> QED BY <2>1, <2>2, <2>3, <1>2, <1>3, PointStep
          DEF Migrating, Migrated, Registered, Seeded, MigrationFound, Starting,
              Inductive, LedgerMatchesSchema
<1>4. CASE step[p] # LastVersion
  <2>1. at' = [at EXCEPT ![p] = "migrating"] /\ step' = [step EXCEPT ![p] = step[p] + 1]
        /\ UNCHANGED <<storeVars, setting, signaled, worker, inFlight, exit>>
    BY <1>4 DEF MigrationFound, NextVersion, Move
  <2>2. TypeOK'
    BY <2>1, <1>2, <1>4 DEF Inductive, TypeOK, storeVars, Points, StartupPoints
  <2>3. at'[p] = "migrating" /\ step'[p] = step[p] + 1 /\ step'[p] - 1 = step[p]
    BY <2>1, <1>1, <1>2, Numbers DEF Versions
  <2> QED BY <2>1, <2>2, <2>3, <1>2, <1>4, PointStep
          DEF Migrating, Migrated, Registered, Seeded, MigrationFound, Starting
<1> QED BY <1>3, <1>4

LEMMA MissingStep ==
    ASSUME Inductive, NEW p \in Procs, MigrationMissing(p)
    PROVE  Inductive'
<1>1. /\ at \in [Procs -> Points] /\ at[p] = "migrating" /\ at' = [at EXCEPT ![p] = "applying"]
      /\ UNCHANGED <<storeVars, step, setting, signaled, worker, inFlight, exit>>
  BY DEF Inductive, TypeOK, MigrationMissing, Starting, Remain, Move
<1>2. TypeOK'
  BY <1>1 DEF Inductive, TypeOK, storeVars, Points, StartupPoints
<1>3. step[p] \in Versions /\ 1..(step[p] - 1) \subseteq db.ledger
  BY <1>1 DEF Inductive, StartupLeavesBehind, Migrating
<1>4. step' = [step EXCEPT ![p] = step'[p]] /\ at'[p] = "applying"
  BY <1>1 DEF Inductive, TypeOK
<1> QED BY <1>1, <1>2, <1>3, <1>4, PointStep DEF Migrating, Migrated, Registered, Seeded

\* A write of tables finds the file free, and one that finds them there takes
\* nothing but a snapshot.
LEMMA ApplyStep ==
    ASSUME Inductive, NEW p \in Procs, Apply(p)
    PROVE  Inductive'
<1>1. /\ at \in [Procs -> Points] /\ at[p] = "applying" /\ at' = [at EXCEPT ![p] = "recording"]
      /\ UNCHANGED <<db, step, setting, signaled, worker, inFlight, exit>>
      /\ writer # p
  BY DEF Inductive, TypeOK, StagedIsOneMigration, Apply, Starting, Remain, Move, TakeSnapshot,
         Write
<1>2. step[p] \in Versions /\ 1..(step[p] - 1) \subseteq db.ledger
  BY <1>1 DEF Inductive, StartupLeavesBehind, Migrating
<1>3. StartupLeavesBehind'
  BY <1>1, <1>2
  DEF Inductive, StartupLeavesBehind, Migrating, Migrated, Registered, Seeded
<1>4. LedgerMatchesSchema'
  BY <1>1 DEF Inductive, LedgerMatchesSchema
<1>5. CASE step[p] \in db.tables
  <2>1. TakeSnapshot(p)
    BY <1>5 DEF Apply
  <2>2. TypeOK'
    BY <1>1, <2>1 DEF Inductive, TypeOK, TakeSnapshot, Points, StartupPoints,
           SnapshotStates
  <2>3. StagedIsOneMigration'
    BY <1>1, <1>5, <2>1 DEF Inductive, StagedIsOneMigration, TakeSnapshot
  <2> QED BY <2>2, <2>3, <1>3, <1>4 DEF Inductive
<1>6. CASE step[p] \notin db.tables
  <2>1. /\ writer = NoProc /\ writer' = p
        /\ staged' = [db EXCEPT !.tables = @ \cup {step[p]}]
        /\ snapshot' = [snapshot EXCEPT ![p] = "fresh"]
    BY <1>1, <1>6 DEF Apply, Write, MayWrite
  <2>2. TypeOK'
    BY <1>1, <1>2, <2>1 DEF Inductive, TypeOK, Points, StartupPoints, SnapshotStates, Databases
  <2>3. StagedIsOneMigration'
    BY <1>1, <1>6, <2>1, ProcAssumption DEF Inductive, TypeOK, StagedIsOneMigration
  <2> QED BY <2>2, <2>3, <1>3, <1>4 DEF Inductive
<1> QED BY <1>5, <1>6

\* Only the writer gets to the entry.
LEMMA RecordStep ==
    ASSUME Inductive, NEW p \in Procs, Record(p)
    PROVE  Inductive'
<1>1. /\ at \in [Procs -> Points] /\ at[p] = "recording" /\ at' = [at EXCEPT ![p] = "recorded"]
      /\ UNCHANGED <<db, step, setting, signaled, worker, inFlight, exit>>
      /\ writer' = p /\ snapshot' = [snapshot EXCEPT ![p] = "fresh"]
  BY DEF Inductive, TypeOK, Record, Starting, Remain, Move, Write
<1>2. step[p] \in Versions /\ 1..(step[p] - 1) \subseteq db.ledger /\ db \in Databases
  BY <1>1 DEF Inductive, TypeOK, StartupLeavesBehind, Migrating
<1>3. writer = p
  <2>1. SUFFICES ASSUME writer # p PROVE FALSE
    OBVIOUS
  <2>2. step[p] \in db.tables
    BY <1>1, <2>1 DEF Inductive, StagedIsOneMigration
  <2>3. step[p] \notin db.ledger
    BY <2>1 DEF Record, InHand
  <2> QED BY <2>2, <2>3 DEF Inductive, LedgerMatchesSchema
<1>4. staged = [db EXCEPT !.tables = @ \cup {step[p]}]
  BY <1>1, <1>3 DEF Inductive, StagedIsOneMigration
<1>5. staged' = [staged EXCEPT !.ledger = @ \cup {step[p]}]
  BY <1>3 DEF Record, Write, InHand
<1>6. staged' = [db EXCEPT !.tables = @ \cup {step[p]}, !.ledger = @ \cup {step[p]}]
  BY <1>2, <1>4, <1>5 DEF Databases
<1>7. TypeOK'
  BY <1>1, <1>2, <1>6 DEF Inductive, TypeOK, Points, StartupPoints, SnapshotStates, Databases
<1>8. StartupLeavesBehind'
  BY <1>1, <1>2
  DEF Inductive, StartupLeavesBehind, Migrating, Migrated, Registered, Seeded
<1>9. StagedIsOneMigration'
  <2>1. step[p] \notin db.ledger
    BY <1>1, <1>3 DEF Inductive, StagedIsOneMigration, LedgerMatchesSchema
  <2> QED BY <1>1, <1>3, <1>6, <2>1, ProcAssumption DEF Inductive, TypeOK, StagedIsOneMigration
<1>10. LedgerMatchesSchema'
  BY <1>1 DEF Inductive, LedgerMatchesSchema
<1> QED BY <1>7, <1>8, <1>9, <1>10 DEF Inductive

\* The tables and their entry are committed together, after those before them.
LEMMA CommitStep ==
    ASSUME Inductive, NEW p \in Procs, CommitMigration(p)
    PROVE  Inductive'
<1>1. /\ at \in [Procs -> Points] /\ step \in [Procs -> Versions \cup Rows]
      /\ at[p] = "recorded" /\ at[p] \in Migrating /\ db \in Databases /\ writer = p
      /\ writer' = NoProc /\ staged' = staged /\ db' = staged
      /\ snapshot' = [Outdated EXCEPT ![p] = "none"]
      /\ UNCHANGED <<setting, signaled, worker, inFlight, exit>>
  BY DEF Inductive, TypeOK, StagedIsOneMigration, CommitMigration, Starting, Commit, NextVersion,
         Move, Migrating
<1>2. step[p] \in Versions /\ 1..(step[p] - 1) \subseteq db.ledger
      /\ db.ledger \subseteq Versions /\ db.ledger = db.tables
  BY <1>1 DEF Inductive, StartupLeavesBehind, LedgerMatchesSchema, Databases
<1>3. /\ db'.ledger = db.ledger \cup {step[p]} /\ db'.tables = db'.ledger
      /\ db'.admins = db.admins /\ db'.templates = db.templates
      /\ db' \in Databases /\ staged' \in Databases
  <2>1. db' = [db EXCEPT !.tables = @ \cup {step[p]}, !.ledger = @ \cup {step[p]}]
    BY <1>1 DEF Inductive, StagedIsOneMigration
  <2>2. /\ db'.ledger = db.ledger \cup {step[p]} /\ db'.tables = db.tables \cup {step[p]}
        /\ db'.admins = db.admins /\ db'.templates = db.templates
    BY <1>1, <2>1 DEF Databases
  <2>3. db' \in Databases
    BY <1>1 DEF Inductive, TypeOK
  <2>4. staged' = db'
    BY <1>1
  <2> QED BY <1>2, <2>2, <2>3, <2>4
<1>4. /\ 1..step[p] \subseteq db'.ledger
      /\ step[p] = LastVersion => db'.ledger = Versions
      /\ step[p] # LastVersion => step[p] + 1 \in Versions
  BY <1>1, <1>2, <1>3, VersionPassed
<1>5. LedgerMatchesSchema'
  <2>1. \A v \in db.ledger : \A u \in 1..v : u \in db.ledger
    BY DEF Inductive, LedgerMatchesSchema
  <2> QED BY <1>3, <1>4, <2>1 DEF LedgerMatchesSchema
<1>6. snapshot' \in [Procs -> SnapshotStates]
  BY <1>1 DEF Inductive, TypeOK, Outdated, SnapshotStates
<1>7. /\ at' = [at EXCEPT ![p] = at'[p]] /\ step' = [step EXCEPT ![p] = step'[p]]
      /\ \/ at'[p] = "administrator" /\ step'[p] = 1 /\ step[p] = LastVersion
         \/ at'[p] = "migrating" /\ step'[p] = step[p] + 1 /\ step[p] # LastVersion
  BY <1>1 DEF CommitMigration, NextVersion, Move
<1>8. \A q \in Procs : q # p => at'[q] = at[q] /\ step'[q] = step[q] /\ at[q] # "recorded"
  BY <1>1, <1>7 DEF Inductive, StagedIsOneMigration
<1>9. TypeOK'
  <2>1. at' \in [Procs -> Points] /\ step' \in [Procs -> Versions \cup Rows]
    BY <1>1, <1>4, <1>7, Numbers DEF Points, StartupPoints, Versions
  <2> QED BY <1>1, <1>3, <1>6, <2>1 DEF Inductive, TypeOK
<1>10. StartupLeavesBehind'
  <2> SUFFICES ASSUME NEW q \in Procs
               PROVE  /\ at'[q] \in {"down", "administrator", "registering"} => step'[q] = 1
                      /\ at'[q] \in Migrating =>
                            step'[q] \in Versions /\ 1..(step'[q] - 1) \subseteq db'.ledger
                      /\ at'[q] \in Migrated => db'.tables = Versions
                      /\ at'[q] = "registering" => setting[q].admin = "both"
                      /\ at'[q] = "demo" =>
                            step'[q] \in Rows /\ 1..(step'[q] - 1) \subseteq db'.templates
                      /\ at'[q] \in Registered =>
                            /\ setting[q].admin # "partial"
                            /\ setting[q].admin = "both" => db'.admins = 1
                      /\ at'[q] \in Seeded /\ setting[q].demo => db'.templates = Rows
    BY <1>1 DEF StartupLeavesBehind
  <2>1. CASE q = p
    <3>1. at'[p] = "administrator" => step'[p] = 1 /\ db'.tables = Versions
      BY <1>3, <1>4, <1>7
    <3>2. at'[p] = "migrating" => step'[p] \in Versions /\ step'[p] - 1 = step[p]
      BY <1>2, <1>4, <1>7, Numbers DEF Versions
    <3> QED BY <2>1, <3>1, <3>2, <1>4, <1>7 DEF Migrating, Migrated, Registered, Seeded
  <2>2. CASE q # p
    <3>1. db.tables = Versions => db'.tables = Versions
      BY <1>2, <1>3
    <3> QED BY <2>2, <3>1, <1>3, <1>8 DEF Inductive, StartupLeavesBehind
  <2> QED BY <2>1, <2>2
<1>11. StagedIsOneMigration'
  <2>1. db.tables \subseteq db'.tables
    BY <1>2, <1>3
  <2>2. \A q \in Procs : writer' # q
    BY <1>1, ProcAssumption
  <2>3. at'[p] \notin {"recording", "recorded"}
    BY <1>7
  <2>4. \A q \in Procs : q # p => writer # q
    BY <1>1
  <2> QED BY <1>1, <1>8, <2>1, <2>2, <2>3, <2>4 DEF Inductive, StagedIsOneMigration
<1> QED BY <1>5, <1>9, <1>10, <1>11 DEF Inductive

-----------------------------------------------------------------------------
\* The steps of bootstrap

LEMMA RegisterStep ==
    ASSUME Inductive, NEW p \in Procs, Register(p)
    PROVE  Inductive'
<1>1. /\ at \in [Procs -> Points] /\ at[p] = "registering" /\ at' = [at EXCEPT ![p] = "demo"]
      /\ db \in Databases /\ db.admins = 0 /\ db' = [db EXCEPT !.admins = 1]
      /\ writer = NoProc /\ staged' = db' /\ snapshot' = Outdated
      /\ UNCHANGED <<writer, step, setting, signaled, worker, inFlight, exit>>
  BY DEF Inductive, TypeOK, Register, Starting, EmailFree, AutoCommit, Remain, Move
<1>2. TypeOK'
  BY <1>1 DEF Inductive, TypeOK, Points, StartupPoints, Databases, Outdated, SnapshotStates
<1>3. LedgerMatchesSchema'
  BY <1>1 DEF Inductive, LedgerMatchesSchema, Databases
<1>4. db.tables = Versions /\ step[p] = 1
  BY <1>1 DEF Inductive, StartupLeavesBehind, Migrated
<1>5. StartupLeavesBehind'
  <2>1. 1 \in Rows /\ 1..0 \subseteq db.templates
    BY Numbers DEF Rows
  <2> QED BY <1>1, <1>4, <2>1
          DEF Inductive, StartupLeavesBehind, Databases, Migrating, Migrated, Registered, Seeded
<1>6. StagedIsOneMigration'
  BY <1>1, ProcAssumption DEF Inductive, StagedIsOneMigration, Databases
<1> QED BY <1>2, <1>3, <1>5, <1>6 DEF Inductive

LEMMA DemoRowStep ==
    ASSUME Inductive, NEW p \in Procs, DemoRow(p)
    PROVE  Inductive'
<1>1. /\ at \in [Procs -> Points] /\ step \in [Procs -> Versions \cup Rows] /\ at[p] = "demo"
      /\ db \in Databases /\ db' = [db EXCEPT !.templates = @ \cup {step[p]}]
      /\ writer = NoProc /\ staged' = db' /\ snapshot' = Outdated
      /\ UNCHANGED <<writer, setting, signaled, worker, inFlight, exit>>
  BY DEF Inductive, TypeOK, DemoRow, Starting, AutoCommit, Move
<1>2. /\ db'.tables = db.tables /\ db'.ledger = db.ledger /\ db'.admins = db.admins
      /\ db'.templates = db.templates \cup {step[p]}
  BY <1>1 DEF Databases
<1>3. /\ step[p] \in Rows /\ 1..(step[p] - 1) \subseteq db.templates /\ db.tables = Versions
      /\ setting[p].admin # "partial" /\ setting[p].admin = "both" => db.admins = 1
  BY <1>1 DEF Inductive, StartupLeavesBehind, Migrated, Registered
<1>4. db' \in Databases
  BY <1>1, <1>3 DEF Databases
<1>5. /\ at' = [at EXCEPT ![p] = at'[p]] /\ step' = [step EXCEPT ![p] = step'[p]]
      /\ \/ at'[p] = "starting" /\ step'[p] = 1 /\ step[p] = Templates
         \/ at'[p] = "demo" /\ step'[p] = step[p] + 1 /\ step[p] # Templates
  BY <1>1 DEF DemoRow, Move
<1>6. 1..step[p] \subseteq db'.templates
  <2>1. \A n \in 1..step[p] : n \in 1..(step[p] - 1) \/ n = step[p]
    BY <1>3, Numbers DEF Rows
  <2> QED BY <1>2, <1>3, <2>1
<1>7. step[p] = Templates => db'.templates = Rows
  BY <1>4, <1>6 DEF Rows, Databases
<1>8. step[p] # Templates => step[p] + 1 \in Rows /\ (step[p] + 1) - 1 = step[p]
  BY <1>3, Numbers DEF Rows
<1>9. TypeOK'
  <2>1. at' \in [Procs -> Points] /\ step' \in [Procs -> Versions \cup Rows]
    BY <1>1, <1>5, <1>8, Numbers DEF Points, StartupPoints, Versions
  <2>2. snapshot' \in [Procs -> SnapshotStates]
    BY <1>1 DEF Inductive, TypeOK, Outdated, SnapshotStates
  <2> QED BY <1>1, <1>2, <1>4, <2>1, <2>2 DEF Inductive, TypeOK
<1>10. LedgerMatchesSchema'
  BY <1>2 DEF Inductive, LedgerMatchesSchema
<1>11. \A q \in Procs : q # p => at'[q] = at[q] /\ step'[q] = step[q]
  BY <1>1, <1>5
<1>12. StartupLeavesBehind'
  <2>1. \A q \in Procs : at[q] \in Seeded /\ setting[q].demo => db'.templates = Rows
    BY <1>2, <1>3 DEF Inductive, StartupLeavesBehind
  <2> QED BY <1>1, <1>2, <1>3, <1>5, <1>6, <1>7, <1>8, <1>11, <2>1
          DEF Inductive, StartupLeavesBehind, Migrating, Migrated, Registered, Seeded
<1>13. StagedIsOneMigration'
  <2>1. StagedIsOneMigration
    BY DEF Inductive
  <2>2. \A q \in Procs : writer # q /\ at[q] # "recorded"
    BY <1>1, <2>1, ProcAssumption DEF StagedIsOneMigration
  <2>3. \A q \in Procs : at'[q] \in {"recording", "recorded"} =>
                q # p /\ at'[q] = at[q] /\ step'[q] = step[q]
    BY <1>1, <1>5, <1>11
  <2>4. writer' = NoProc /\ staged' = db' /\ db'.tables = db.tables
    BY <1>1, <1>2
  <2> QED BY <2>1, <2>2, <2>3, <2>4, ProcAssumption DEF StagedIsOneMigration
<1> QED BY <1>9, <1>10, <1>12, <1>13 DEF Inductive

\* The administrator, or nothing, and the demo data that is not asked for.
LEMMA BootstrapMoves ==
    ASSUME Inductive, NEW p \in Procs,
           \/ AdministratorUnset(p) \/ AdministratorFound(p) \/ AdministratorMissing(p)
           \/ DemoUnset(p) \/ StartWorker(p) \/ Listen(p)
    PROVE  Inductive'
<1>1. /\ at \in [Procs -> Points] /\ step \in [Procs -> Versions \cup Rows]
      /\ UNCHANGED <<storeVars, setting, step, signaled, inFlight, exit>>
      /\ worker' \in [Procs -> BOOLEAN]
      /\ at' = [at EXCEPT ![p] = at'[p]] /\ step' = [step EXCEPT ![p] = step'[p]]
  BY DEF Inductive, TypeOK, AdministratorUnset, AdministratorFound, AdministratorMissing,
         DemoUnset, StartWorker, Listen, Remain, Move
<1>2. \/ at[p] = "administrator" /\ at'[p] = "demo" /\ setting[p].admin = "none"
      \/ at[p] = "administrator" /\ at'[p] = "demo" /\ setting[p].admin = "both" /\ db.admins > 0
      \/ at[p] = "administrator" /\ at'[p] = "registering" /\ setting[p].admin = "both"
      \/ at[p] = "demo" /\ at'[p] = "starting" /\ ~setting[p].demo
      \/ at[p] = "starting" /\ at'[p] = "listening"
      \/ at[p] = "listening" /\ at'[p] = "serving"
  BY DEF Inductive, TypeOK, AdministratorUnset, AdministratorFound, AdministratorMissing,
         DemoUnset, StartWorker, Listen, Remain, Move, Starting
<1>3. TypeOK'
  BY <1>1, <1>2 DEF Inductive, TypeOK, storeVars, Points, StartupPoints
<1>4. db.admins > 0 => db.admins = 1
  BY DEF Inductive, TypeOK, Databases
<1>5. at[p] = "administrator" => 1 \in Rows /\ 1..(1 - 1) \subseteq db.templates
  BY Numbers DEF Rows
<1> QED BY <1>1, <1>2, <1>3, <1>4, <1>5, PointStep
        DEF Inductive, StartupLeavesBehind, Migrating, Migrated, Registered, Seeded

-----------------------------------------------------------------------------
\* The rest of a server's life

LEMMA LaunchStep ==
    ASSUME Inductive, NEW p \in Procs, NEW s \in Settings, Launch(p, s)
    PROVE  Inductive'
<1>1. /\ at \in [Procs -> Points] /\ setting \in [Procs -> Settings]
      /\ at[p] = "down" /\ at' = [at EXCEPT ![p] = "migrating"]
      /\ setting' = [setting EXCEPT ![p] = s]
      /\ UNCHANGED <<storeVars, step, signaled, worker, inFlight>>
      /\ exit' = [exit EXCEPT ![p] = "none"]
  BY DEF Inductive, TypeOK, Launch
<1>2. TypeOK'
  BY <1>1 DEF Inductive, TypeOK, storeVars, Points, StartupPoints
<1>3. LedgerMatchesSchema'
  BY <1>1 DEF Inductive, LedgerMatchesSchema, storeVars
<1>4. step[p] = 1 /\ 1 \in Versions /\ 1..(1 - 1) \subseteq db.ledger
  BY <1>1, Numbers DEF Inductive, StartupLeavesBehind, Versions
<1>5. StartupLeavesBehind'
  BY <1>1, <1>4
  DEF Inductive, StartupLeavesBehind, storeVars, Migrating, Migrated, Registered, Seeded
<1>6. StagedIsOneMigration'
  BY <1>1 DEF Inductive, StagedIsOneMigration, storeVars
<1> QED BY <1>2, <1>3, <1>5, <1>6 DEF Inductive

\* Signals, requests and the worker move nothing that the invariant is about.
LEMMA AsideStep ==
    ASSUME Inductive, TypeOK', UNCHANGED <<storeVars, at, step, setting>>
    PROVE  Inductive'
BY DEF Inductive, LedgerMatchesSchema, StartupLeavesBehind, StagedIsOneMigration, storeVars

LEMMA SignalOrRequestStep ==
    ASSUME Inductive, NEW p \in Procs,
           Signal(p) \/ RequestArrives(p) \/ RequestEnds(p) \/ WorkerStops(p)
    PROVE  Inductive'
<1>1. CASE Signal(p)
  BY <1>1, AsideStep DEF Signal, Inductive, TypeOK, storeVars
<1>2. CASE RequestArrives(p)
  BY <1>2, AsideStep, Numbers DEF RequestArrives, Inductive, TypeOK, storeVars
<1>3. CASE RequestEnds(p)
  BY <1>3, AsideStep, Numbers DEF RequestEnds, Inductive, TypeOK, storeVars
<1>4. CASE WorkerStops(p)
  BY <1>4, AsideStep DEF WorkerStops, Inductive, TypeOK, storeVars
<1> QED BY <1>1, <1>2, <1>3, <1>4

LEMMA ShutdownMoves ==
    ASSUME Inductive, NEW p \in Procs, Shutdown(p) \/ Drained(p)
    PROVE  Inductive'
<1>1. /\ at \in [Procs -> Points] /\ step \in [Procs -> Versions \cup Rows]
      /\ at[p] \in {"listening", "serving", "draining"}
      /\ at'[p] \in {"draining", "waiting"}
      /\ UNCHANGED <<storeVars, step, setting, signaled, worker, inFlight, exit>>
      /\ at' = [at EXCEPT ![p] = at'[p]] /\ step' = [step EXCEPT ![p] = step'[p]]
  BY DEF Inductive, TypeOK, Shutdown, Drained, Remain, Move
<1>2. TypeOK'
  BY <1>1 DEF Inductive, TypeOK, storeVars, Points, StartupPoints
<1> QED BY <1>1, <1>2, PointStep DEF Migrating, Migrated, Registered, Seeded

-----------------------------------------------------------------------------
\* The invariant

LEMMA InitInductive == Init => Inductive
<1> SUFFICES ASSUME Init PROVE Inductive
  OBVIOUS
<1>1. /\ db = [tables |-> {}, ledger |-> {}, admins |-> 0, templates |-> {}]
      /\ staged = db /\ writer = NoProc /\ snapshot = [p \in Procs |-> "none"]
      /\ at = [p \in Procs |-> "down"] /\ step = [p \in Procs |-> 1]
      /\ setting = [p \in Procs |-> [admin |-> "none", demo |-> FALSE]]
      /\ signaled = [p \in Procs |-> FALSE] /\ worker = [p \in Procs |-> FALSE]
      /\ inFlight = [p \in Procs |-> 0] /\ exit = [p \in Procs |-> "none"]
  BY DEF Init, InitStore
<1>2. TypeOK
  <2>1. db \in Databases /\ db.admins <= 1
    BY <1>1 DEF Databases
  <2>2. setting \in [Procs -> Settings]
    BY <1>1 DEF Settings
  <2>3. step \in [Procs -> Versions \cup Rows] /\ inFlight \in [Procs -> 0..MaxRequests]
    BY <1>1, Numbers DEF Versions
  <2> QED BY <1>1, <2>1, <2>2, <2>3 DEF TypeOK, Points, SnapshotStates
<1>3. LedgerMatchesSchema
  BY <1>1 DEF LedgerMatchesSchema
<1>4. StartupLeavesBehind
  BY <1>1 DEF StartupLeavesBehind, Migrating, Migrated, Registered, Seeded
<1>5. StagedIsOneMigration
  BY <1>1, ProcAssumption DEF StagedIsOneMigration
<1> QED BY <1>2, <1>3, <1>4, <1>5 DEF Inductive

LEMMA StartupStep ==
    ASSUME Inductive, NEW p \in Procs, Startup(p)
    PROVE  Inductive'
<1>1. CASE \/ RecordFails(p) \/ AdministratorPartial(p) \/ RegisterFails(p) \/ StartupFails(p)
  BY <1>1, DownStep DEF RecordFails, AdministratorPartial, RegisterFails, StartupFails
<1> QED BY <1>1, FoundStep, MissingStep, ApplyStep, RecordStep, CommitStep, RegisterStep,
           DemoRowStep, BootstrapMoves
        DEF Startup

LEMMA LifeStep ==
    ASSUME Inductive, NEW p \in Procs, Life(p) \/ Environment(p)
    PROVE  Inductive'
<1>1. CASE DrainTimesOut(p) \/ Return(p) \/ ListenFails(p) \/ Crash(p)
  BY <1>1, DownStep DEF DrainTimesOut, Return, ListenFails, Crash
<1>2. CASE \E s \in Settings : Launch(p, s)
  BY <1>2, LaunchStep
<1> QED BY <1>1, <1>2, BootstrapMoves, SignalOrRequestStep, ShutdownMoves DEF Life, Environment

LEMMA NextInductive == Inductive /\ [Next]_vars => Inductive'
<1> SUFFICES ASSUME Inductive, [Next]_vars PROVE Inductive'
  OBVIOUS
<1>1. CASE Next
  BY <1>1, StartupStep, LifeStep DEF Next
<1>2. CASE UNCHANGED vars
  BY <1>2, AsideStep DEF vars, storeVars, Inductive, TypeOK
<1> QED BY <1>1, <1>2

-----------------------------------------------------------------------------
\* The one writer is in a migration, and what a server has passed is in the file.
THEOREM InductiveInvariant == Spec => []Inductive
BY InitInductive, NextInductive, PTL DEF Spec

\* The variables keep to their domains; no e-mail has two accounts.
THEOREM TypeCorrect == Spec => []TypeOK
<1>1. Inductive => TypeOK
  BY DEF Inductive
<1> QED BY <1>1, InductiveInvariant, PTL

\* The file holds a prefix of the migrations, each with its ledger entry.
THEOREM MigrationsAreWhole == Spec => []LedgerMatchesSchema
<1>1. Inductive => LedgerMatchesSchema
  BY DEF Inductive
<1> QED BY <1>1, InductiveInvariant, PTL

\* A server serves only on a complete schema, with the administrator and the
\* demo data of its settings.
THEOREM ServersAreReady == Spec => []ServingIsReady
<1>1. Inductive => ServingIsReady
  BY DEF Inductive, ServingIsReady, StartupLeavesBehind, Migrated, Registered, Seeded
<1> QED BY <1>1, InductiveInvariant, PTL

-----------------------------------------------------------------------------
\* A server that waits for its worker has no request left.
WaitsAlone == TypeOK /\ \A p \in Procs : at[p] = "waiting" => inFlight[p] = 0

LEMMA WaitsAloneStep ==
    ASSUME Inductive, TypeOK', WaitsAlone, NEW q \in Procs,
           Startup(q) \/ Life(q) \/ Environment(q)
    PROVE  WaitsAlone'
<1> DEFINE Alone == \A p \in Procs : at[p] = "waiting" => inFlight[p] = 0
<1> SUFFICES Alone'
  BY DEF WaitsAlone
<1>1. /\ at \in [Procs -> Points] /\ inFlight \in [Procs -> 0..MaxRequests] /\ Alone
  BY DEF WaitsAlone, TypeOK
<1>2. ASSUME NEW how, GoDown(q, how) PROVE Alone'
  BY <1>1, <1>2 DEF GoDown
<1>3. ASSUME NEW point, point # "waiting", Move(q, point) PROVE Alone'
  BY <1>1, <1>3 DEF Move
<1>4. CASE Startup(q)
  BY <1>2, <1>3, <1>4
  DEF Startup, MigrationFound, MigrationMissing, Apply, Record, RecordFails, CommitMigration,
      NextVersion, Remain, AdministratorUnset, AdministratorPartial, AdministratorFound,
      AdministratorMissing, Register, RegisterFails, DemoUnset, DemoRow, StartupFails
<1>5. CASE DrainTimesOut(q) \/ Return(q) \/ ListenFails(q) \/ Crash(q)
  BY <1>2, <1>5 DEF DrainTimesOut, Return, ListenFails, Crash
<1>6. CASE Listen(q) \/ Shutdown(q)
  BY <1>3, <1>6 DEF Listen, Shutdown, Remain
<1>7. CASE Drained(q)
  BY <1>1, <1>7 DEF Drained, Remain, Move
<1>8. CASE StartWorker(q) \/ WorkerStops(q) \/ Signal(q) \/ RequestArrives(q) \/ RequestEnds(q)
  BY <1>1, <1>8, Numbers DEF StartWorker, WorkerStops, Signal, RequestArrives, RequestEnds
<1>9. CASE \E s \in Settings : Launch(q, s)
  BY <1>1, <1>9 DEF Launch
<1> QED BY <1>4, <1>5, <1>6, <1>7, <1>8, <1>9 DEF Life, Environment

\* When run returns nil, every request is answered and the worker has stopped.
THEOREM CleanExits == Spec => CleanExitWaits
<1>1. Init => WaitsAlone
  <2>1. Init => TypeOK
    BY InitInductive DEF Inductive
  <2> QED BY <2>1 DEF Init, WaitsAlone
<1>2. Inductive /\ WaitsAlone /\ [Next]_vars => WaitsAlone'
  <2> SUFFICES ASSUME Inductive, WaitsAlone, [Next]_vars PROVE WaitsAlone'
    OBVIOUS
  <2>1. TypeOK'
    BY NextInductive DEF Inductive
  <2>2. CASE Next
    BY <2>1, <2>2, WaitsAloneStep DEF Next
  <2> QED BY <2>1, <2>2 DEF vars, WaitsAlone
<1>3. Inductive /\ WaitsAlone /\ [Next]_vars =>
        [\A p \in Procs : exit[p] # "clean" /\ exit'[p] = "clean" =>
            /\ inFlight[p] = 0
            /\ ~worker[p]]_vars
  <2> SUFFICES ASSUME Inductive, WaitsAlone, NEW q \in Procs,
                      Startup(q) \/ Life(q) \/ Environment(q),
                      NEW p \in Procs, exit[p] # "clean", exit'[p] = "clean"
               PROVE  inFlight[p] = 0 /\ ~worker[p]
    BY DEF Next
  <2>1. exit \in [Procs -> {"none", "clean", "error", "killed"}]
    BY DEF Inductive, TypeOK
  <2>2. ~UNCHANGED exit
    OBVIOUS
  <2>3. ASSUME NEW how, how # "clean", GoDown(q, how) PROVE FALSE
    BY <2>1, <2>3 DEF GoDown
  <2>4. Return(q)
    BY <2>1, <2>2, <2>3
    DEF Startup, MigrationFound, MigrationMissing, Apply, Record, RecordFails, CommitMigration,
        NextVersion, Move, Remain, AdministratorUnset, AdministratorPartial, AdministratorFound,
        AdministratorMissing, Register, RegisterFails, DemoUnset, DemoRow, StartupFails,
        Life, StartWorker, Listen, Shutdown, Drained, DrainTimesOut, WorkerStops,
        Environment, Launch, ListenFails, Signal, Crash, RequestArrives, RequestEnds
  <2>5. q = p
    BY <2>1, <2>4 DEF Return, GoDown
  <2> QED BY <2>4, <2>5 DEF Return, WaitsAlone
<1> QED BY <1>1, <1>2, <1>3, InductiveInvariant, PTL DEF Spec, CleanExitWaits

-----------------------------------------------------------------------------
\* The file goes forward

\* Every migration that is in the ledger has those before it: the first one
\* that is missing comes after exactly those.
LEMMA NextMissing ==
    ASSUME Inductive, NEW v \in Versions, v \notin db.ledger, 1..(v - 1) \subseteq db.ledger
    PROVE  db.ledger = 1..(v - 1)
<1>1. db.ledger \subseteq 1..LastVersion /\ v \in 1..LastVersion
  BY DEF Inductive, TypeOK, Databases, Versions
<1>2. \A u \in db.ledger : u \in 1..(v - 1)
  <2> SUFFICES ASSUME NEW u \in db.ledger, u \notin 1..(v - 1) PROVE FALSE
    OBVIOUS
  <2>1. v \in 1..u
    BY <1>1, Numbers
  <2> QED BY <2>1 DEF Inductive, LedgerMatchesSchema
<1> QED BY <1>2

LEMMA MigrationGoesForward ==
    ASSUME Inductive, NEW p \in Procs, CommitMigration(p)
    PROVE  \E v \in Versions :
            /\ db.ledger = 1..(v - 1)
            /\ db' = [db EXCEPT !.tables = @ \cup {v}, !.ledger = @ \cup {v}]
<1>1. /\ at[p] = "recorded" /\ db' = staged /\ step[p] \in Versions
      /\ 1..(step[p] - 1) \subseteq db.ledger
  BY DEF CommitMigration, Starting, Commit, Inductive, StartupLeavesBehind, Migrating
<1>2. /\ step[p] \notin db.ledger
      /\ db' = [db EXCEPT !.tables = @ \cup {step[p]}, !.ledger = @ \cup {step[p]}]
  BY <1>1 DEF Inductive, StagedIsOneMigration
<1> QED BY <1>1, <1>2, NextMissing

\* The administrator and the demo data come after the last migration.
LEMMA BootstrapGoesForward ==
    ASSUME Inductive, NEW p \in Procs, Register(p) \/ DemoRow(p)
    PROVE  /\ db.tables = Versions
           /\ \/ db.admins = 0 /\ db' = [db EXCEPT !.admins = 1]
              \/ \E n \in Rows : db' = [db EXCEPT !.templates = @ \cup {n}]
<1>1. CASE Register(p)
  BY <1>1 DEF Register, Starting, EmailFree, AutoCommit, Inductive, StartupLeavesBehind, Migrated
<1>2. CASE DemoRow(p)
  <2>1. at[p] = "demo" /\ db' = [db EXCEPT !.templates = @ \cup {step[p]}]
    BY <1>2 DEF DemoRow, Starting, AutoCommit
  <2>2. step[p] \in Rows /\ db.tables = Versions
    BY <2>1 DEF Inductive, StartupLeavesBehind, Migrated, Registered
  <2> QED BY <2>1, <2>2
<1> QED BY <1>1, <1>2

\* Whatever is started, signaled or killed, the file only gains: the next
\* migration with its entry, then the administrator and the demo data.
THEOREM StartupGoesForward == Spec => FileGoesForward
<1>1. Inductive /\ [Next]_vars =>
        [db' # db =>
            \/ \E v \in Versions :
                /\ db.ledger = 1..(v - 1)
                /\ db' = [db EXCEPT !.tables = @ \cup {v}, !.ledger = @ \cup {v}]
            \/ /\ db.tables = Versions
               /\ \/ db.admins = 0 /\ db' = [db EXCEPT !.admins = 1]
                  \/ \E n \in Rows : db' = [db EXCEPT !.templates = @ \cup {n}]]_vars
  <2> SUFFICES ASSUME Inductive, NEW p \in Procs, db' # db,
                      Startup(p) \/ Life(p) \/ Environment(p)
               PROVE  \/ \E v \in Versions :
                            /\ db.ledger = 1..(v - 1)
                            /\ db' = [db EXCEPT !.tables = @ \cup {v}, !.ledger = @ \cup {v}]
                      \/ /\ db.tables = Versions
                         /\ \/ db.admins = 0 /\ db' = [db EXCEPT !.admins = 1]
                            \/ \E n \in Rows : db' = [db EXCEPT !.templates = @ \cup {n}]
    BY DEF Next
  <2>1. ASSUME NEW how, GoDown(p, how) PROVE db' = db
    BY <2>1 DEF GoDown, Rollback
  <2>2. ~(Life(p) \/ Environment(p))
    BY <2>1 DEF Life, StartWorker, Listen, Shutdown, Drained, DrainTimesOut, WorkerStops, Return,
                Environment, Launch, ListenFails, Signal, Crash, RequestArrives, RequestEnds,
                storeVars
  <2>3. CommitMigration(p) \/ Register(p) \/ DemoRow(p)
    BY <2>1, <2>2
    DEF Startup, MigrationFound, MigrationMissing, Apply, TakeSnapshot, Write, Record, RecordFails,
        AdministratorUnset, AdministratorPartial, AdministratorFound, AdministratorMissing,
        RegisterFails, DemoUnset, StartupFails, storeVars
  <2> QED BY <2>3, MigrationGoesForward, BootstrapGoesForward
<1> QED BY <1>1, InductiveInvariant, PTL DEF Spec, FileGoesForward
=============================================================================
