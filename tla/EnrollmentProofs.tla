-------------------------- MODULE EnrollmentProofs --------------------------
(***************************************************************************)
(* For every set of requests, students, sessions and keys, and every       *)
(* capacity: the safety of Enrollment.  First what the operators do to a   *)
(* database, then one lemma per shape of step, then the invariant.         *)
(***************************************************************************)
EXTENDS Enrollment, FiniteSetTheorems, TLAPS

\* An update of one session's row leaves a database a database.
LEMMA CourseUpdateType ==
    ASSUME NEW d \in Databases, NEW s \in Sessions, NEW c \in Courses
    PROVE  [d EXCEPT !.course[s] = c] \in Databases
BY DEF Databases

LEMMA TakeSeatType ==
    ASSUME NEW d \in Databases, NEW s \in Sessions
    PROVE  TakeSeat(d, s) \in Databases
<1>1. d.course[s] \in Courses
  BY DEF Databases
<1>2. OneMore(d.course[s]) \in Courses
  BY <1>1 DEF Courses, OneMore
<1> QED BY <1>2, CourseUpdateType DEF TakeSeat

LEMMA AddRowType ==
    ASSUME NEW d \in Databases, NEW r \in EnrollRequests
    PROVE  AddRow(d, r) \in Databases
<1>1. NewRow(r) \in Rows
  BY DEF EnrollRequests, Rows, NewRow
<1>2. r.session \in Sessions /\ d.audit[r.session] \in AuditCounts
  BY DEF EnrollRequests, Databases
<1>3. [d.audit[r.session] EXCEPT !.confirmed = d.audit[r.session].confirmed + 1] \in AuditCounts
  BY <1>2 DEF AuditCounts
<1>4. [d.audit EXCEPT ![r.session].confirmed = d.audit[r.session].confirmed + 1]
        \in [Sessions -> AuditCounts]
  BY <1>2, <1>3 DEF Databases
<1> QED BY <1>1, <1>4 DEF AddRow, Databases

\* What callers were told of one database holds of another: its enrollments,
\* in whatever state, and its cancellations are there.
Lasts(d, e) ==
    /\ \A row \in d.rows : \E kept \in e.rows :
        kept.key = row.key /\ kept.student = row.student /\ kept.session = row.session
    /\ \A s \in Sessions : d.course[s].status = "canceled" => e.course[s].status = "canceled"

\* The two statements of ReserveEnrollment together keep a database
\* consistent: one more seat taken, one more row of a confirmed student.
LEMMA ReserveConsistent ==
    ASSUME NEW d \in Databases, Consistent(d), NEW r \in EnrollRequests,
           d.course[r.session].status = "scheduled",
           d.course[r.session].enrolled < Capacity[r.session],
           Unique(d, r)
    PROVE  Consistent(AddRow(TakeSeat(d, r.session), r))
<1> DEFINE row == NewRow(r)
           e == AddRow(TakeSeat(d, r.session), r)
<1>1. /\ r.session \in Sessions /\ r.student \in Students /\ r.key \in Keys
      /\ row.session = r.session /\ row.student = r.student /\ row.key = r.key
      /\ row.status = "confirmed"
  BY DEF EnrollRequests, NewRow
<1>2. /\ e.rows = d.rows \cup {row}
      /\ e.makeups = d.makeups
      /\ \A s \in Sessions : e.course[s].status = d.course[s].status
      /\ \A s \in Sessions : e.course[s].enrolled =
            IF s = r.session THEN d.course[s].enrolled + 1 ELSE d.course[s].enrolled
      /\ e.audit = [d.audit EXCEPT ![r.session] =
            [d.audit[r.session] EXCEPT !.confirmed = d.audit[r.session].confirmed + 1]]
  BY <1>1 DEF AddRow, TakeSeat, OneMore, Databases, Courses
<1> HIDE DEF row, e
<1>3. \A x \in d.rows : ~(x.student = r.student /\ x.session = r.session) /\ x.key # r.key
  BY DEF Unique
<1>4. /\ IsFiniteSet(d.rows)
      /\ SeatsMatch(d) /\ MakeupsMatch(d) /\ KeysMatch(d) /\ AuditMatches(d)
  BY DEF Consistent
<1>5. IsFiniteSet(e.rows)
  BY <1>2, <1>4, FS_AddElement
<1>6. ASSUME NEW s \in Sessions
      PROVE  RowsOf(e, s) = IF s = r.session THEN RowsOf(d, s) \cup {row} ELSE RowsOf(d, s)
  BY <1>1, <1>2 DEF RowsOf
<1>7. row \notin RowsOf(d, r.session)
  BY <1>1, <1>3 DEF RowsOf
<1>8. SeatsMatch(e)
  <2> SUFFICES ASSUME NEW s \in Sessions
               PROVE  /\ e.course[s].enrolled = Cardinality(RowsOf(e, s))
                      /\ e.course[s].enrolled <= Capacity[s]
    BY DEF SeatsMatch
  <2>1. /\ IsFiniteSet(RowsOf(d, s))
        /\ d.course[s].enrolled = Cardinality(RowsOf(d, s))
        /\ d.course[s].enrolled <= Capacity[s]
    BY <1>4, FS_Subset DEF SeatsMatch, RowsOf
  <2>2. CASE s # r.session
    BY <1>2, <1>6, <2>1, <2>2
  <2>3. CASE s = r.session
    <3>1. Cardinality(RowsOf(e, s)) = Cardinality(RowsOf(d, s)) + 1
      <4>1. Cardinality(RowsOf(d, s) \cup {row}) = Cardinality(RowsOf(d, s)) + 1
        BY <1>7, <2>1, <2>3, FS_AddElement
      <4> QED BY <1>6, <2>3, <4>1
    <3>2. d.course[s].enrolled \in Nat /\ Capacity[s] \in Nat
      BY CapacityAssumption DEF Databases, Courses
    <3> QED BY <1>2, <2>1, <2>3, <3>1, <3>2
  <2> QED BY <2>2, <2>3
<1>9. MakeupsMatch(e)
  <2> SUFFICES ASSUME NEW s \in Sessions
               PROVE  IF e.course[s].status = "canceled"
                      THEN /\ Confirmed(e, s) = {}
                           /\ \A x \in RowsOf(e, s) : <<x.student, s>> \in e.makeups
                      ELSE /\ Confirmed(e, s) = RowsOf(e, s)
                           /\ \A x \in e.makeups : x[2] # s
    BY DEF MakeupsMatch
  <2>1. IF d.course[s].status = "canceled"
        THEN /\ Confirmed(d, s) = {}
             /\ \A x \in RowsOf(d, s) : <<x.student, s>> \in d.makeups
        ELSE /\ Confirmed(d, s) = RowsOf(d, s)
             /\ \A x \in d.makeups : x[2] # s
    BY <1>4 DEF MakeupsMatch
  <2>2. CASE s # r.session
    BY <1>2, <1>6, <2>1, <2>2 DEF Confirmed
  <2>3. CASE s = r.session
    <3>1. Confirmed(e, s) = Confirmed(d, s) \cup {row}
      BY <1>1, <1>6, <2>3 DEF Confirmed
    <3> QED BY <1>2, <1>6, <2>1, <2>3, <3>1
  <2> QED BY <2>2, <2>3
<1>10. KeysMatch(e)
  BY <1>1, <1>2, <1>3, <1>4 DEF KeysMatch
<1>11. AuditMatches(e)
  <2> SUFFICES ASSUME NEW s \in Sessions
               PROVE  /\ e.audit[s].confirmed = Cardinality(RowsOf(e, s))
                      /\ e.audit[s].canceled = IF e.course[s].status = "canceled" THEN 1 ELSE 0
                      /\ e.audit[s].makeups = Cardinality({x \in e.makeups : x[2] = s})
    BY DEF AuditMatches
  <2>1. /\ d.audit[s].confirmed = Cardinality(RowsOf(d, s))
        /\ d.audit[s].canceled = IF d.course[s].status = "canceled" THEN 1 ELSE 0
        /\ d.audit[s].makeups = Cardinality({x \in d.makeups : x[2] = s})
    BY <1>4 DEF AuditMatches
  <2>2. d.audit \in [Sessions -> AuditCounts]
    BY DEF Databases
  <2>3. CASE s # r.session
    <3>1. e.audit[s] = d.audit[s] /\ RowsOf(e, s) = RowsOf(d, s)
      BY <1>2, <1>6, <2>2, <2>3
    <3> QED BY <1>2, <2>1, <3>1
  <2>4. CASE s = r.session
    <3>1. /\ e.audit[s].confirmed = d.audit[s].confirmed + 1
          /\ e.audit[s].canceled = d.audit[s].canceled
          /\ e.audit[s].makeups = d.audit[s].makeups
      BY <1>2, <2>2, <2>4 DEF AuditCounts
    <3>2. IsFiniteSet(RowsOf(d, s))
      BY <1>4, FS_Subset DEF RowsOf
    <3>3. Cardinality(RowsOf(d, s) \cup {row}) = Cardinality(RowsOf(d, s)) + 1
      BY <1>7, <2>4, <3>2, FS_AddElement
    <3>4. Cardinality(RowsOf(e, s)) = Cardinality(RowsOf(d, s)) + 1
      BY <1>6, <2>4, <3>3
    <3>5. e.audit[s].confirmed = Cardinality(RowsOf(e, s))
      BY <2>1, <3>1, <3>4
    <3> QED BY <1>2, <2>1, <3>1, <3>5
  <2> QED BY <2>3, <2>4
<1> QED BY <1>5, <1>8, <1>9, <1>10, <1>11 DEF Consistent, e

\* The students of a finite set of rows are finitely many.
LEMMA PairsFinite ==
    ASSUME NEW rows, IsFiniteSet(rows)
    PROVE  IsFiniteSet(PairsOf(rows))
<1> DEFINE f == [r \in rows |-> <<r.student, r.session>>]
<1>1. f \in Surjection(rows, PairsOf(rows))
  BY DEF Surjection, IsInjective, PairsOf
<1> QED BY <1>1, FS_Surjection

LEMMA CancelType ==
    ASSUME NEW d \in Databases, IsFiniteSet(d.rows), NEW s \in Sessions
    PROVE  CancelRows(d, s) \in Databases
<1> DEFINE due == {MakeupDue(r) : r \in Confirmed(d, s)}
           owed == PairsOf(Confirmed(d, s))
           made == Cardinality(owed \ d.makeups)
<1>1. Confirmed(d, s) \subseteq d.rows /\ Confirmed(d, s) \subseteq Rows
  BY DEF Confirmed, RowsOf, Databases
<1>2. made \in Nat
  <2>1. IsFiniteSet(owed)
    BY <1>1, PairsFinite, FS_Subset
  <2> QED BY <2>1, FS_Subset, FS_CardinalityType
<1>3. due \subseteq Rows
  BY <1>1 DEF MakeupDue, Rows
<1>4. owed \subseteq Pairs
  BY <1>1 DEF PairsOf, Rows, Pairs
<1>5. Canceled(d.course[s]) \in Courses
  BY DEF Canceled, Courses, Databases, CourseStates
<1>6. CancelEvent(d.audit[s], made) \in AuditCounts
  BY <1>2 DEF CancelEvent, AuditCounts, Databases
<1>7. CancelRows(d, s) =
        [d EXCEPT !.course = [d.course EXCEPT ![s] = Canceled(d.course[s])],
                  !.makeups = d.makeups \cup owed,
                  !.rows = (d.rows \ Confirmed(d, s)) \cup due,
                  !.audit = [d.audit EXCEPT ![s] = CancelEvent(d.audit[s], made)]]
  BY DEF CancelRows
<1> HIDE DEF due, owed, made
<1>8. [d.course EXCEPT ![s] = Canceled(d.course[s])] \in [Sessions -> Courses]
  BY <1>5 DEF Databases
<1>9. [d.audit EXCEPT ![s] = CancelEvent(d.audit[s], made)] \in [Sessions -> AuditCounts]
  BY <1>6 DEF Databases
<1>10. (d.rows \ Confirmed(d, s)) \cup due \in SUBSET Rows
  BY <1>3 DEF Databases
<1>11. d.makeups \cup owed \in SUBSET Pairs
  BY <1>4 DEF Databases
<1> QED BY <1>7, <1>8, <1>9, <1>10, <1>11 DEF Databases

\* CancelSessionRows keeps a database consistent: every confirmed student of
\* the session is owed a make-up, and the roster is as long as it was.
LEMMA CancelConsistent ==
    ASSUME NEW d \in Databases, Consistent(d), NEW s \in Sessions,
           d.course[s].status = "scheduled"
    PROVE  Consistent(CancelRows(d, s))
<1> DEFINE e == CancelRows(d, s)
           due == {MakeupDue(r) : r \in RowsOf(d, s)}
<1>1. /\ IsFiniteSet(d.rows) /\ d.rows \subseteq Rows
      /\ SeatsMatch(d) /\ MakeupsMatch(d) /\ KeysMatch(d) /\ AuditMatches(d)
  BY DEF Consistent, Databases
<1>2. Confirmed(d, s) = RowsOf(d, s)
  BY <1>1 DEF MakeupsMatch
<1>3. /\ e.rows = (d.rows \ RowsOf(d, s)) \cup due
      /\ e.makeups = d.makeups \cup PairsOf(RowsOf(d, s))
      /\ \A t \in Sessions : e.course[t].enrolled = d.course[t].enrolled
      /\ \A t \in Sessions :
            e.course[t].status = IF t = s THEN "canceled" ELSE d.course[t].status
      /\ e.audit = [d.audit EXCEPT ![s] = CancelEvent(d.audit[s],
                        Cardinality(PairsOf(RowsOf(d, s)) \ d.makeups))]
  BY <1>2 DEF CancelRows, Canceled, Databases, Courses
<1> HIDE DEF e
<1>4. \A r \in Rows : /\ MakeupDue(r).session = r.session
                      /\ MakeupDue(r).student = r.student
                      /\ MakeupDue(r).key = r.key
                      /\ MakeupDue(r).status = "makeup_due"
  BY DEF MakeupDue, Rows
<1>5. RowsOf(e, s) = due
  BY <1>1, <1>3, <1>4 DEF RowsOf
<1>6. \A t \in Sessions \ {s} : RowsOf(e, t) = RowsOf(d, t)
  BY <1>1, <1>3, <1>4 DEF RowsOf
<1>7. IsFiniteSet(due) /\ Cardinality(due) = Cardinality(RowsOf(d, s))
  <2> DEFINE f == [r \in RowsOf(d, s) |-> MakeupDue(r)]
  <2>1. f \in Surjection(RowsOf(d, s), due)
    BY DEF Surjection
  <2>2. ASSUME NEW a \in RowsOf(d, s), NEW b \in RowsOf(d, s), f[a] = f[b]
        PROVE  a = b
    <3>1. a \in Rows /\ b \in Rows /\ a \in d.rows /\ b \in d.rows
      BY <1>1 DEF RowsOf
    <3>2. a.key = b.key
      BY <1>4, <2>2, <3>1
    <3> QED BY <1>1, <3>1, <3>2 DEF KeysMatch
  <2>3. f \in Injection(RowsOf(d, s), due)
    BY <2>1, <2>2 DEF Injection, IsInjective, Surjection
  <2>4. IsFiniteSet(RowsOf(d, s))
    BY <1>1, FS_Subset DEF RowsOf
  <2> HIDE DEF f
  <2> QED BY <2>1, <2>3, <2>4, FS_Surjection
<1>8. IsFiniteSet(e.rows)
  BY <1>1, <1>3, <1>7, FS_Subset, FS_Union
<1>9. SeatsMatch(e)
  BY <1>1, <1>3, <1>5, <1>6, <1>7 DEF SeatsMatch
<1>10. MakeupsMatch(e)
  <2> SUFFICES ASSUME NEW t \in Sessions
               PROVE  IF e.course[t].status = "canceled"
                      THEN /\ Confirmed(e, t) = {}
                           /\ \A x \in RowsOf(e, t) : <<x.student, t>> \in e.makeups
                      ELSE /\ Confirmed(e, t) = RowsOf(e, t)
                           /\ \A x \in e.makeups : x[2] # t
    BY DEF MakeupsMatch
  <2>1. CASE t = s
    <3>1. Confirmed(e, s) = {}
      BY <1>1, <1>4, <1>5 DEF Confirmed, RowsOf
    <3>2. \A x \in due : <<x.student, s>> \in PairsOf(RowsOf(d, s))
      BY <1>1, <1>4 DEF PairsOf, RowsOf
    <3> QED BY <1>3, <1>5, <2>1, <3>1, <3>2
  <2>2. CASE t # s
    <3>1. IF d.course[t].status = "canceled"
          THEN /\ Confirmed(d, t) = {}
               /\ \A x \in RowsOf(d, t) : <<x.student, t>> \in d.makeups
          ELSE /\ Confirmed(d, t) = RowsOf(d, t)
               /\ \A x \in d.makeups : x[2] # t
      BY <1>1 DEF MakeupsMatch
    <3>2. RowsOf(e, t) = RowsOf(d, t) /\ Confirmed(e, t) = Confirmed(d, t)
      BY <1>6, <2>2 DEF Confirmed
    <3>3. \A x \in PairsOf(RowsOf(d, s)) : x[2] # t
      BY <2>2 DEF PairsOf, RowsOf
    <3> QED BY <1>3, <2>2, <3>1, <3>2, <3>3
  <2> QED BY <2>1, <2>2
<1>11. KeysMatch(e)
  <2> SUFFICES ASSUME NEW a \in e.rows, NEW b \in e.rows,
                      a.key = b.key \/ (a.student = b.student /\ a.session = b.session)
               PROVE  a = b
    BY DEF KeysMatch
  <2>1. PICK x \in d.rows : /\ x.key = a.key /\ x.student = a.student /\ x.session = a.session
                            /\ a = IF x.session = s THEN MakeupDue(x) ELSE x
    BY <1>1, <1>3, <1>4 DEF RowsOf
  <2>2. PICK y \in d.rows : /\ y.key = b.key /\ y.student = b.student /\ y.session = b.session
                            /\ b = IF y.session = s THEN MakeupDue(y) ELSE y
    BY <1>1, <1>3, <1>4 DEF RowsOf
  <2>3. x = y
    BY <1>1, <2>1, <2>2 DEF KeysMatch
  <2> QED BY <2>1, <2>2, <2>3
<1>12. AuditMatches(e)
  <2> DEFINE owed == PairsOf(RowsOf(d, s))
             MadeFor(f, t) == {x \in f.makeups : x[2] = t}
  <2> SUFFICES ASSUME NEW t \in Sessions
               PROVE  /\ e.audit[t].confirmed = Cardinality(RowsOf(e, t))
                      /\ e.audit[t].canceled = IF e.course[t].status = "canceled" THEN 1 ELSE 0
                      /\ e.audit[t].makeups = Cardinality(MadeFor(e, t))
    BY DEF AuditMatches
  <2>1. /\ d.audit[t].confirmed = Cardinality(RowsOf(d, t))
        /\ d.audit[t].canceled = IF d.course[t].status = "canceled" THEN 1 ELSE 0
        /\ d.audit[t].makeups = Cardinality(MadeFor(d, t))
    BY <1>1 DEF AuditMatches
  <2>2. d.audit \in [Sessions -> AuditCounts]
    BY DEF Databases
  <2>3. \A x \in owed : x[2] = s
    BY DEF PairsOf, RowsOf
  <2>4. CASE t # s
    <3>1. e.audit[t] = d.audit[t] /\ RowsOf(e, t) = RowsOf(d, t)
      BY <1>3, <1>6, <2>2, <2>4
    <3>2. MadeFor(e, t) = MadeFor(d, t)
      BY <1>3, <2>3, <2>4
    <3> QED BY <1>3, <2>1, <2>4, <3>1, <3>2
  <2>5. CASE t = s
    <3>1. MadeFor(d, s) = {} /\ \A x \in d.makeups : x[2] # s
      BY <1>1 DEF MakeupsMatch
    <3>2. MadeFor(e, s) = owed /\ owed \ d.makeups = owed
      BY <1>3, <2>3, <3>1
    <3>3. d.audit[s].makeups = 0 /\ d.audit[s].canceled = 0
      BY <2>1, <2>5, <3>1, FS_EmptySet
    <3>4. Cardinality(owed) \in Nat
      <4>1. IsFiniteSet(RowsOf(d, s))
        BY <1>1, FS_Subset DEF RowsOf
      <4> QED BY <4>1, PairsFinite, FS_CardinalityType
    <3> HIDE DEF owed
    <3>5. e.audit[s] = CancelEvent(d.audit[s], Cardinality(owed))
      BY <1>3, <2>2, <3>2 DEF owed
    <3>6. /\ e.audit[s].confirmed = d.audit[s].confirmed
          /\ e.audit[s].canceled = 0 + 1
          /\ e.audit[s].makeups = 0 + Cardinality(owed)
      BY <3>3, <3>5 DEF CancelEvent
    <3>8. e.audit[s].canceled = 1 /\ e.audit[s].makeups = Cardinality(owed)
      BY <3>4, <3>6
    <3>7. Cardinality(RowsOf(e, s)) = Cardinality(RowsOf(d, s))
      BY <1>5, <1>7
    <3> QED BY <1>3, <2>1, <2>5, <3>2, <3>6, <3>7, <3>8
  <2> QED BY <2>4, <2>5
<1> QED BY <1>8, <1>9, <1>10, <1>11, <1>12 DEF Consistent, e

\* A session that moves without being canceled disturbs nothing, and neither
\* does a change of the facts about students and coaches.
LEMMA ProgressConsistent ==
    ASSUME NEW d \in Databases, Consistent(d), NEW s \in Sessions,
           NEW to \in CourseStates, to # "canceled",
           ValidTransition("course", d.course[s].status, to)
    PROVE  /\ [d EXCEPT !.course[s].status = to] \in Databases
           /\ Consistent([d EXCEPT !.course[s].status = to])
           /\ Lasts(d, [d EXCEPT !.course[s].status = to])
<1> DEFINE e == [d EXCEPT !.course[s].status = to]
<1>1. d.course[s].status # "canceled"
  BY DEF ValidTransition, Transitions
<1>2. d.course[s] \in Courses /\ d.course \in [Sessions -> Courses]
  BY DEF Databases
<1>3. [d.course[s] EXCEPT !.status = to] \in Courses
  BY <1>2 DEF Courses
<1>4. [d.course EXCEPT ![s] = [d.course[s] EXCEPT !.status = to]] \in [Sessions -> Courses]
  BY <1>2, <1>3
<1>5. e = [d EXCEPT !.course = [d.course EXCEPT ![s] = [d.course[s] EXCEPT !.status = to]]]
  OBVIOUS
<1>6. e \in Databases
  BY <1>4, <1>5 DEF Databases
<1>7. /\ e.rows = d.rows /\ e.makeups = d.makeups /\ e.audit = d.audit
      /\ \A t \in Sessions : e.course[t].enrolled = d.course[t].enrolled
      /\ \A t \in Sessions : e.course[t].status = "canceled" <=> d.course[t].status = "canceled"
  BY <1>1, <1>2 DEF Databases, Courses
<1> HIDE DEF e
<1>8. Consistent(e)
  <2>1. \A t : RowsOf(e, t) = RowsOf(d, t) /\ Confirmed(e, t) = Confirmed(d, t)
    BY <1>7 DEF RowsOf, Confirmed
  <2>2. SeatsMatch(e)
    BY <1>7, <2>1 DEF Consistent, SeatsMatch
  <2>3. MakeupsMatch(e)
    BY <1>7, <2>1 DEF Consistent, MakeupsMatch
  <2>4. KeysMatch(e)
    BY <1>7 DEF Consistent, KeysMatch
  <2>5. AuditMatches(e)
    BY <1>7, <2>1 DEF Consistent, AuditMatches
  <2> QED BY <1>7, <2>2, <2>3, <2>4, <2>5 DEF Consistent
<1>9. \A t \in Sessions : d.course[t].status = "canceled" => e.course[t].status = "canceled"
  BY <1>7
<1> QED BY <1>6, <1>7, <1>8, <1>9 DEF e, Lasts

LEMMA FactsConsistent ==
    ASSUME NEW d \in Databases, Consistent(d), NEW e \in Databases,
           e.course = d.course, e.rows = d.rows, e.makeups = d.makeups, e.audit = d.audit
    PROVE  Consistent(e) /\ Lasts(d, e)
<1>1. \A t : RowsOf(e, t) = RowsOf(d, t) /\ Confirmed(e, t) = Confirmed(d, t)
  BY DEF RowsOf, Confirmed
<1>2. SeatsMatch(e) /\ AuditMatches(e)
  BY <1>1 DEF Consistent, SeatsMatch, AuditMatches
<1>3. MakeupsMatch(e) /\ KeysMatch(e)
  BY <1>1 DEF Consistent, MakeupsMatch, KeysMatch
<1> QED BY <1>2, <1>3 DEF Consistent, Lasts

\* A reservation takes nothing away from what callers were told, and there is
\* the row that its own caller will be told of.
LEMMA ReserveLasts ==
    ASSUME NEW d \in Databases, NEW r \in EnrollRequests
    PROVE  LET e == AddRow(TakeSeat(d, r.session), r) IN
           /\ Lasts(d, e)
           /\ e.rows = d.rows \cup {NewRow(r)}
           /\ \E row \in e.rows :
                row.key = r.key /\ row.student = r.student /\ row.session = r.session
<1> DEFINE e == AddRow(TakeSeat(d, r.session), r)
<1>1. /\ e.rows = d.rows \cup {NewRow(r)}
      /\ \A s \in Sessions : e.course[s].status = d.course[s].status
  BY DEF AddRow, TakeSeat, OneMore, Databases, Courses
<1>2. /\ NewRow(r).key = r.key /\ NewRow(r).student = r.student
      /\ NewRow(r).session = r.session
  BY DEF NewRow
<1> HIDE DEF e
<1>3. Lasts(d, e)
  BY <1>1 DEF Lasts
<1> QED BY <1>1, <1>2, <1>3 DEF e

\* A cancellation changes no student's place on a roster, only its status.
LEMMA CancelLasts ==
    ASSUME NEW d \in Databases, NEW s \in Sessions
    PROVE  LET e == CancelRows(d, s) IN
           /\ Lasts(d, e)
           /\ e.course[s].status = "canceled"
           /\ \A row \in e.rows : Enrolled(d, row.student, row.session)
<1> DEFINE e == CancelRows(d, s)
<1>1. /\ e.rows = (d.rows \ Confirmed(d, s)) \cup {MakeupDue(r) : r \in Confirmed(d, s)}
      /\ \A t \in Sessions :
            e.course[t].status = IF t = s THEN "canceled" ELSE d.course[t].status
  BY DEF CancelRows, Canceled, Databases, Courses
<1>2. \A r \in d.rows : /\ MakeupDue(r).session = r.session
                        /\ MakeupDue(r).student = r.student
                        /\ MakeupDue(r).key = r.key
  BY DEF MakeupDue, Rows, Databases
<1>3. Confirmed(d, s) \subseteq d.rows
  BY DEF Confirmed, RowsOf
<1> HIDE DEF e
<1>4. \A row \in d.rows : \E kept \in e.rows :
        kept.key = row.key /\ kept.student = row.student /\ kept.session = row.session
  <2> SUFFICES ASSUME NEW row \in d.rows
               PROVE  \E kept \in e.rows : /\ kept.key = row.key
                                           /\ kept.student = row.student
                                           /\ kept.session = row.session
    OBVIOUS
  <2>1. CASE row \in Confirmed(d, s)
    BY <1>1, <1>2, <2>1
  <2>2. CASE row \notin Confirmed(d, s)
    BY <1>1, <2>2
  <2> QED BY <2>1, <2>2
<1>5. \A row \in e.rows : Enrolled(d, row.student, row.session)
  BY <1>1, <1>2, <1>3 DEF Enrolled
<1> QED BY <1>1, <1>4, <1>5 DEF e, Lasts

-----------------------------------------------------------------------------
\* The steps

\* What was acknowledged of one database is true of those it lasts in.
LEMMA AcksLast ==
    ASSUME AckedIsDurable, acked \subseteq EnrollRequests \cup CancelRequests,
           Lasts(db, db'), UNCHANGED acked
    PROVE  AckedIsDurable'
<1> SUFFICES ASSUME NEW r \in acked
             PROVE  IF r.op = "enroll"
                    THEN \E row \in db'.rows : /\ row.key = r.key
                                               /\ row.student = r.student
                                               /\ row.session = r.session
                    ELSE db'.course[r.session].status = "canceled"
  BY DEF AckedIsDurable
<1>1. CASE r.op = "enroll"
  BY <1>1 DEF AckedIsDurable, Lasts
<1>2. CASE r.op # "enroll"
  BY <1>2 DEF AckedIsDurable, Lasts, EnrollRequests, CancelRequests
<1> QED BY <1>1, <1>2

LEMMA GiveUpStep ==
    ASSUME Inductive, NEW p \in Procs, NEW outcome \in Outcomes, GiveUp(p, outcome),
           UNCHANGED <<started, acked>>
    PROVE  Inductive'
<1>1. /\ db' = db /\ snapshot' = [snapshot EXCEPT ![p] = "none"]
      /\ pc' = [pc EXCEPT ![p] = "idle"] /\ req' = [req EXCEPT ![p] = NoRequest]
      /\ seen' = [seen EXCEPT ![p] = NoRow] /\ answer' = [answer EXCEPT ![p] = outcome]
      /\ staged' = IF writer = p THEN db ELSE staged
      /\ writer' = IF writer = p THEN NoProc ELSE writer
  BY DEF GiveUp, Rollback, Answer
<1>2. TypeOK'
  BY <1>1 DEF Inductive, TypeOK, Points, SnapshotStates
<1>3. Locked'
  BY <1>1, ProcAssumption DEF Inductive, TypeOK, Locked
<1>4. ChecksHold'
  BY <1>1 DEF Inductive, TypeOK, Locked, ChecksHold
<1>5. AckedIsDurable'
  BY <1>1 DEF Inductive, AckedIsDurable
<1> QED BY <1>1, <1>2, <1>3, <1>4, <1>5 DEF Inductive

\* An answer without a transaction; a replay acknowledges the row it found.
LEMMA AnswerStep ==
    ASSUME Inductive, NEW p \in Procs, NEW outcome \in Outcomes, pc[p] = "idle",
           Answer(p, outcome), UNCHANGED <<storeVars, started>>,
           NEW done \in SUBSET EnrollRequests, acked' = acked \cup done,
           \A r \in done : \E row \in db.rows :
                row.key = r.key /\ row.student = r.student /\ row.session = r.session
    PROVE  Inductive'
<1>1. /\ pc' = [pc EXCEPT ![p] = "idle"] /\ req' = [req EXCEPT ![p] = NoRequest]
      /\ seen' = [seen EXCEPT ![p] = NoRow] /\ answer' = [answer EXCEPT ![p] = outcome]
      /\ UNCHANGED <<db, staged, writer, snapshot, started>>
  BY DEF Answer, storeVars
<1>2. TypeOK'
  BY <1>1 DEF Inductive, TypeOK, Points
<1>3. Locked' /\ ChecksHold'
  BY <1>1 DEF Inductive, TypeOK, Locked, ChecksHold
<1>4. AckedIsDurable'
  BY <1>1 DEF Inductive, AckedIsDurable, EnrollRequests
<1> QED BY <1>1, <1>2, <1>3, <1>4 DEF Inductive

LEMMA TakeStep ==
    ASSUME Inductive, NEW p \in Procs, NEW r \in EnrollRequests \cup CancelRequests,
           NEW point, Take(p, r, point),
           \/ r \in EnrollRequests /\ point = "begin"
           \/ r \in CancelRequests /\ point = "canceling",
           seen' \in [Procs -> Courses \cup {NoRow}],
           UNCHANGED <<storeVars, started, acked>>
    PROVE  Inductive'
<1>1. /\ pc[p] = "idle" /\ pc' = [pc EXCEPT ![p] = point] /\ req' = [req EXCEPT ![p] = r]
      /\ answer' = [answer EXCEPT ![p] = "none"]
      /\ UNCHANGED <<db, staged, writer, snapshot, started, acked>>
  BY DEF Take, storeVars
<1>2. TypeOK'
  BY <1>1 DEF Inductive, TypeOK, Points, Outcomes
<1>3. Locked'
  BY <1>1 DEF Inductive, TypeOK, Locked
<1>4. ChecksHold'
  BY <1>1 DEF Inductive, TypeOK, ChecksHold
<1>5. AckedIsDurable'
  BY <1>1 DEF Inductive, AckedIsDurable
<1> QED BY <1>1, <1>2, <1>3, <1>4, <1>5 DEF Inductive

LEMMA ArrivalStep ==
    ASSUME Inductive, NEW p \in Procs, Arrives(p)
    PROVE  Inductive'
<1>1. /\ "ok" \in Outcomes /\ "refused" \in Outcomes /\ {} \in SUBSET EnrollRequests
  BY DEF Outcomes
<1>2. ASSUME \/ \E role \in Roles, k \in Keys \cup {NoKey} : EnrollRejected(p, role, k)
             \/ \E role \in Roles, blank \in BOOLEAN : CancelRejected(p, role, blank)
             \/ \E r \in CancelRequests : CancelIllegal(p, r)
      PROVE  Inductive'
  <2>1. /\ pc[p] = "idle" /\ Answer(p, "refused") /\ acked' = acked \cup {}
        /\ UNCHANGED <<storeVars, started>>
    BY <1>2 DEF EnrollRejected, CancelRejected, CancelIllegal
  <2> QED BY <1>1, <2>1, AnswerStep
<1>3. ASSUME NEW r \in EnrollRequests, EnrollReplayed(p, r) PROVE Inductive'
  <2>1. pc[p] = "idle" /\ UNCHANGED <<storeVars, started>>
    BY <1>3 DEF EnrollReplayed
  <2>2. CASE /\ Answer(p, "ok") /\ acked' = acked \cup {r}
             /\ \E row \in db.rows :
                    row.key = r.key /\ row.student = r.student /\ row.session = r.session
    <3>1. {r} \in SUBSET EnrollRequests
      OBVIOUS
    <3> QED BY <1>1, <2>1, <2>2, <3>1, AnswerStep
  <2>3. CASE Answer(p, "refused") /\ acked' = acked \cup {}
    BY <1>1, <2>1, <2>3, AnswerStep
  <2> QED BY <1>3, <2>2, <2>3 DEF EnrollReplayed, Acknowledge
<1>4. ASSUME NEW r \in EnrollRequests, NEW fails \in BOOLEAN, EnrollBegin(p, r, fails)
      PROVE  Inductive'
  <2>1. Take(p, r, "begin") /\ UNCHANGED seen /\ UNCHANGED <<storeVars, started, acked>>
    BY <1>4 DEF EnrollBegin
  <2>2. seen' \in [Procs -> Courses \cup {NoRow}]
    BY <2>1 DEF Inductive, TypeOK
  <2>3. Take(p, r, "begin") /\ UNCHANGED <<storeVars, started, acked>>
    BY <2>1
  <2>4. r \in EnrollRequests \cup CancelRequests
    OBVIOUS
  <2> QED BY <2>2, <2>3, <2>4, TakeStep
<1>5. ASSUME NEW r \in CancelRequests, CancelRead(p, r) PROVE Inductive'
  <2>1. /\ Take(p, r, "canceling") /\ seen' = [seen EXCEPT ![p] = db.course[r.session]]
        /\ UNCHANGED <<storeVars, started, acked>>
    BY <1>5 DEF CancelRead
  <2>2. db.course[r.session] \in Courses
    BY DEF Inductive, TypeOK, Databases, CancelRequests
  <2>3. seen' \in [Procs -> Courses \cup {NoRow}]
    BY <2>1, <2>2 DEF Inductive, TypeOK
  <2> QED BY <2>1, <2>3, TakeStep
<1> QED BY <1>2, <1>3, <1>4, <1>5 DEF Arrives

LEMMA CheckStep ==
    ASSUME Inductive, NEW p \in Procs, EnrollCheck(p)
    PROVE  Inductive'
<1>1. /\ pc[p] = "begin" /\ pc' = [pc EXCEPT ![p] = "checked"]
      /\ seen' = [seen EXCEPT ![p] = db.course[req[p].session]]
      /\ snapshot' = [snapshot EXCEPT ![p] = "fresh"]
      /\ Eligible(db, req[p].student, req[p].session)
      /\ UNCHANGED <<db, staged, writer, req, answer, started, acked>>
  BY DEF EnrollCheck, TakeSnapshot, Saw
<1>2. req[p] \in EnrollRequests /\ db.course[req[p].session] \in Courses
  BY <1>1 DEF Inductive, TypeOK, EnrollRequests, Databases
<1>3. TypeOK'
  BY <1>1, <1>2 DEF Inductive, TypeOK, Points, SnapshotStates
<1>4. Locked'
  BY <1>1 DEF Inductive, TypeOK, Locked
<1>5. ChecksHold'
  BY <1>1 DEF Inductive, TypeOK, ChecksHold
<1>6. AckedIsDurable'
  BY <1>1 DEF Inductive, AckedIsDurable
<1> QED BY <1>1, <1>3, <1>4, <1>5, <1>6 DEF Inductive

\* The first write is let in on a snapshot that is not stale: the student is
\* still entitled to the seat.
LEMMA ReserveStep ==
    ASSUME Inductive, NEW p \in Procs, EnrollReserve(p)
    PROVE  Inductive'
<1>1. /\ pc[p] = "checked" /\ pc' = [pc EXCEPT ![p] = "reserved"]
      /\ MayWrite(p) /\ writer' = p /\ staged' = TakeSeat(db, req[p].session)
      /\ snapshot' = [snapshot EXCEPT ![p] = "fresh"]
      /\ SeatFree(db, req[p].session, seen[p].version)
      /\ UNCHANGED <<db, req, seen, answer, started, acked>>
  BY DEF EnrollReserve, Write, Goto
<1>2. req[p] \in EnrollRequests /\ req[p].op = "enroll" /\ req[p].session \in Sessions
  BY <1>1 DEF Inductive, TypeOK, EnrollRequests
<1>3. writer = NoProc /\ snapshot[p] = "fresh"
  BY <1>1 DEF Inductive, TypeOK, Locked, ChecksHold, MayWrite, SnapshotStates
<1>4. Licensed(db, req[p])
  BY <1>1, <1>2, <1>3 DEF Inductive, ChecksHold, Licensed, SeatFree
<1>5. staged' \in Databases
  BY <1>1, <1>2, TakeSeatType DEF Inductive, TypeOK
<1>6. TypeOK'
  BY <1>1, <1>2, <1>5 DEF Inductive, TypeOK, Points, SnapshotStates
<1>7. Locked'
  BY <1>1, <1>3, ProcAssumption DEF Inductive, TypeOK, Locked
<1>8. ChecksHold'
  BY <1>1, <1>3, <1>4, ProcAssumption DEF Inductive, TypeOK, Locked, ChecksHold
<1>9. AckedIsDurable'
  BY <1>1 DEF Inductive, AckedIsDurable
<1> QED BY <1>1, <1>6, <1>7, <1>8, <1>9 DEF Inductive

LEMMA InsertStep ==
    ASSUME Inductive, NEW p \in Procs, EnrollInsert(p)
    PROVE  Inductive'
<1>1. /\ pc[p] = "reserved" /\ pc' = [pc EXCEPT ![p] = "written"]
      /\ writer' = p /\ staged' = AddRow(staged, req[p]) /\ Unique(staged, req[p])
      /\ snapshot' = [snapshot EXCEPT ![p] = "fresh"]
      /\ UNCHANGED <<db, req, seen, answer, started, acked>>
  BY DEF EnrollInsert, Write, Goto
<1>2. /\ req[p] \in EnrollRequests /\ req[p].op = "enroll" /\ writer = p
      /\ staged = TakeSeat(db, req[p].session) /\ Licensed(db, req[p])
  BY <1>1 DEF Inductive, TypeOK, Locked, ChecksHold, EnrollRequests
<1>3. req[p] # NoRequest
  BY <1>2 DEF NoRequest
<1>4. Unique(db, req[p])
  <2>1. staged.rows = db.rows
    BY <1>2 DEF TakeSeat, Inductive, TypeOK, Databases
  <2> QED BY <1>1, <2>1 DEF Unique
<1>5. staged' \in Databases
  BY <1>1, <1>2, AddRowType DEF Inductive, TypeOK
<1>6. TypeOK'
  BY <1>1, <1>2, <1>3, <1>5 DEF Inductive, TypeOK, Points, SnapshotStates
<1>7. Locked'
  BY <1>1, <1>2, ProcAssumption DEF Inductive, TypeOK, Locked
<1>8. ChecksHold'
  BY <1>1, <1>2, <1>4 DEF Inductive, TypeOK, Locked, ChecksHold
<1>9. AckedIsDurable'
  BY <1>1 DEF Inductive, AckedIsDurable
<1> QED BY <1>1, <1>6, <1>7, <1>8, <1>9 DEF Inductive

LEMMA CancelWriteStep ==
    ASSUME Inductive, NEW p \in Procs, CancelWrite(p)
    PROVE  Inductive'
<1>1. /\ pc[p] = "canceling" /\ pc' = [pc EXCEPT ![p] = "written"]
      /\ MayWrite(p) /\ writer' = p /\ staged' = CancelRows(db, req[p].session)
      /\ snapshot' = [snapshot EXCEPT ![p] = "fresh"]
      /\ db.course[req[p].session].status = "scheduled"
      /\ UNCHANGED <<db, req, seen, answer, started, acked>>
  BY DEF CancelWrite, Cancelable, Write, Goto
<1>2. /\ req[p] \in CancelRequests /\ req[p].op = "cancel" /\ req[p].session \in Sessions
      /\ writer = NoProc
  BY <1>1 DEF Inductive, TypeOK, Locked, MayWrite, CancelRequests
<1>3. req[p] # NoRequest /\ Licensed(db, req[p])
  BY <1>1, <1>2 DEF NoRequest, Licensed
<1>4. staged' \in Databases
  BY <1>1, <1>2, CancelType DEF Inductive, TypeOK, Consistent
<1>5. TypeOK'
  BY <1>1, <1>2, <1>3, <1>4 DEF Inductive, TypeOK, Points, SnapshotStates
<1>6. Locked'
  BY <1>1, <1>2, ProcAssumption DEF Inductive, TypeOK, Locked
<1>7. ChecksHold'
  BY <1>1, <1>2, <1>3, ProcAssumption DEF Inductive, TypeOK, Locked, ChecksHold
<1>8. AckedIsDurable'
  BY <1>1 DEF Inductive, AckedIsDurable
<1> QED BY <1>1, <1>5, <1>6, <1>7, <1>8 DEF Inductive

\* The two ways in which a request makes one database of another.
Enrolls(d, r, e) ==
    /\ r \in EnrollRequests
    /\ Eligible(d, r.student, r.session)
    /\ d.course[r.session].enrolled < Capacity[r.session]
    /\ Unique(d, r)
    /\ e = AddRow(TakeSeat(d, r.session), r)

Cancels(d, r, e) ==
    /\ r \in CancelRequests
    /\ d.course[r.session].status = "scheduled"
    /\ e = CancelRows(d, r.session)

\* What a commit makes of the database.
LEMMA CommitWrites ==
    ASSUME Inductive, NEW p \in Procs, pc[p] = "written", db' = staged
    PROVE  Enrolls(db, req[p], db') \/ Cancels(db, req[p], db')
<1>1. \/ req[p] \in EnrollRequests /\ req[p].op = "enroll"
      \/ req[p] \in CancelRequests /\ req[p].op = "cancel"
  BY DEF Inductive, TypeOK, EnrollRequests, CancelRequests
<1> QED BY <1>1 DEF Inductive, ChecksHold, Licensed, Enrolls, Cancels

\* It keeps the database consistent and what callers were told true.
LEMMA CommitKeeps ==
    ASSUME NEW d \in Databases, Consistent(d), NEW r, NEW e, Enrolls(d, r, e) \/ Cancels(d, r, e)
    PROVE  /\ Consistent(e)
           /\ Lasts(d, e)
           /\ IF r.op = "enroll"
              THEN \E row \in e.rows :
                    row.key = r.key /\ row.student = r.student /\ row.session = r.session
              ELSE e.course[r.session].status = "canceled"
<1>1. CASE Enrolls(d, r, e)
  <2>1. r \in EnrollRequests /\ r.op = "enroll" /\ d.course[r.session].status = "scheduled"
    BY <1>1 DEF Enrolls, EnrollRequests, Eligible
  <2> QED BY <1>1, <2>1, ReserveConsistent, ReserveLasts DEF Enrolls
<1>2. CASE Cancels(d, r, e)
  <2>1. r.op = "cancel" /\ r.session \in Sessions
    BY <1>2 DEF Cancels, CancelRequests
  <2> QED BY <1>2, <2>1, CancelConsistent, CancelLasts DEF Cancels
<1> QED BY <1>1, <1>2

LEMMA CommitStep ==
    ASSUME Inductive, NEW p \in Procs, NEW outcome \in Outcomes, CommitAndAnswer(p, outcome),
           acked' = acked \/ acked' = acked \cup {req[p]}, UNCHANGED started
    PROVE  Inductive'
<1>1. /\ pc[p] = "written" /\ writer = p /\ db' = staged /\ staged' = staged /\ writer' = NoProc
      /\ snapshot' = [Outdated EXCEPT ![p] = "none"]
      /\ pc' = [pc EXCEPT ![p] = "idle"] /\ req' = [req EXCEPT ![p] = NoRequest]
      /\ seen' = [seen EXCEPT ![p] = NoRow] /\ answer' = [answer EXCEPT ![p] = outcome]
  BY DEF CommitAndAnswer, Commit, Answer
<1>2. Enrolls(db, req[p], db') \/ Cancels(db, req[p], db')
  BY <1>1, CommitWrites
<1>3. /\ Consistent(db') /\ Lasts(db, db')
      /\ IF req[p].op = "enroll"
         THEN \E row \in db'.rows : /\ row.key = req[p].key /\ row.student = req[p].student
                                    /\ row.session = req[p].session
         ELSE db'.course[req[p].session].status = "canceled"
  <2>1. db \in Databases /\ Consistent(db)
    BY DEF Inductive, TypeOK
  <2> QED BY <1>2, <2>1, CommitKeeps
<1>4. req[p] \in EnrollRequests \cup CancelRequests
  BY <1>2 DEF Enrolls, Cancels
<1>5. /\ snapshot' \in [Procs -> SnapshotStates]
      /\ \A q \in Procs : q # p => snapshot'[q] # "fresh"
                                  /\ (snapshot[q] # "none" => snapshot'[q] # "none")
  BY <1>1 DEF Inductive, TypeOK, Outdated, SnapshotStates
<1>6. TypeOK'
  BY <1>1, <1>4, <1>5 DEF Inductive, TypeOK, Points
<1>7. Locked'
  BY <1>1, ProcAssumption DEF Inductive, TypeOK, Locked
<1>8. ChecksHold'
  BY <1>1, <1>5 DEF Inductive, TypeOK, Locked, ChecksHold
<1>9. AckedIsDurable'
  <2>1. AckedIsDurable /\ acked \subseteq EnrollRequests \cup CancelRequests
    BY DEF Inductive, TypeOK
  <2> SUFFICES ASSUME NEW r \in acked'
               PROVE  IF r.op = "enroll"
                      THEN \E row \in db'.rows : /\ row.key = r.key
                                                 /\ row.student = r.student
                                                 /\ row.session = r.session
                      ELSE db'.course[r.session].status = "canceled"
    BY DEF AckedIsDurable
  <2>2. CASE r = req[p]
    BY <1>3, <2>2
  <2>3. CASE r \in acked /\ r.op = "enroll"
    BY <1>3, <2>1, <2>3 DEF AckedIsDurable, Lasts
  <2>4. CASE r \in acked /\ r.op # "enroll"
    <3>1. r.session \in Sessions /\ db.course[r.session].status = "canceled"
      BY <2>1, <2>4 DEF AckedIsDurable, EnrollRequests, CancelRequests
    <3> QED BY <1>3, <2>4, <3>1 DEF Lasts
  <2> QED BY <2>2, <2>3, <2>4
<1> QED BY <1>3, <1>6, <1>7, <1>8, <1>9 DEF Inductive

\* Other programs write when no request does, and leave its snapshot outdated.
LEMMA AutoCommitStep ==
    ASSUME Inductive, NEW contents \in Databases, Consistent(contents), Lasts(db, contents),
           AutoCommit(contents), UNCHANGED <<requestVars, started, acked>>
    PROVE  Inductive'
<1>1. /\ writer = NoProc /\ writer' = writer /\ db' = contents /\ staged' = contents
      /\ snapshot' = Outdated /\ UNCHANGED <<pc, req, seen, answer, started, acked>>
  BY DEF AutoCommit, requestVars
<1>2. /\ snapshot' \in [Procs -> SnapshotStates]
      /\ \A q \in Procs : snapshot'[q] # "fresh" /\ (snapshot[q] # "none" => snapshot'[q] # "none")
  BY <1>1 DEF Inductive, TypeOK, Outdated, SnapshotStates
<1>3. TypeOK'
  BY <1>1, <1>2 DEF Inductive, TypeOK
<1>4. Locked'
  BY <1>1 DEF Inductive, Locked
<1>5. \A q \in Procs : pc[q] \notin {"reserved", "written"}
  BY <1>1, ProcAssumption DEF Inductive, Locked
<1>6. ChecksHold'
  BY <1>1, <1>2, <1>5 DEF Inductive, ChecksHold
<1>7. AckedIsDurable'
  BY <1>1, AcksLast DEF Inductive, TypeOK
<1> QED BY <1>1, <1>3, <1>4, <1>6, <1>7 DEF Inductive

LEMMA ProgressStep ==
    ASSUME Inductive, NEW s \in Sessions, NEW to \in CourseStates, SessionProgresses(s, to)
    PROVE  Inductive'
<1> DEFINE e == [db EXCEPT !.course[s].status = to]
<1>1. db \in Databases /\ Consistent(db) /\ to # "canceled"
      /\ ValidTransition("course", db.course[s].status, to)
  BY DEF SessionProgresses, Inductive, TypeOK
<1>2. e \in Databases /\ Consistent(e) /\ Lasts(db, e)
  BY <1>1, ProgressConsistent
<1>3. AutoCommit(e) /\ UNCHANGED <<requestVars, started, acked>>
  BY DEF SessionProgresses
<1> HIDE DEF e
<1> QED BY <1>2, <1>3, AutoCommitStep

\* What a change of the facts leaves alone.
LEMMA FactsChangeLeaves ==
    ASSUME Inductive, FactsChange
    PROVE  /\ db' \in Databases /\ AutoCommit(db') /\ UNCHANGED <<requestVars, started, acked>>
           /\ db'.course = db.course /\ db'.rows = db.rows /\ db'.makeups = db.makeups
           /\ db'.audit = db.audit
<1>1. PICK d : /\ FactChanges(d)
               /\ \/ \E x \in Pairs : d = [db EXCEPT !.consent = Toggle(@, x)]
                  \/ \E x \in Pairs : d = [db EXCEPT !.certified = Toggle(@, x)]
                  \/ \E s \in Sessions : d = [db EXCEPT !.qualified = Toggle(@, s)]
  BY DEF FactsChange
<1>2. db \in Databases
  BY DEF Inductive, TypeOK
<1>3. /\ d \in Databases
      /\ d.course = db.course /\ d.rows = db.rows /\ d.makeups = db.makeups
      /\ d.audit = db.audit
  BY <1>1, <1>2 DEF Databases, Toggle
<1>4. db' = d /\ AutoCommit(d) /\ UNCHANGED <<requestVars, started, acked>>
  BY <1>1 DEF FactChanges, AutoCommit
<1> QED BY <1>3, <1>4

LEMMA FactsStep ==
    ASSUME Inductive, FactsChange
    PROVE  Inductive'
<1>1. db \in Databases /\ Consistent(db)
  BY DEF Inductive, TypeOK
<1>2. Consistent(db') /\ Lasts(db, db')
  BY <1>1, FactsChangeLeaves, FactsConsistent
<1> QED BY <1>2, FactsChangeLeaves, AutoCommitStep

LEMMA StartsStep ==
    ASSUME Inductive, NEW s \in Sessions, SessionStarts(s)
    PROVE  Inductive'
<1>1. /\ started' = started \cup {s} /\ UNCHANGED <<db, staged, writer, snapshot>>
      /\ UNCHANGED <<pc, req, seen, answer, acked>>
  BY DEF SessionStarts, storeVars, requestVars
<1>2. TypeOK'
  BY <1>1 DEF Inductive, TypeOK
<1>3. Locked' /\ ChecksHold'
  BY <1>1 DEF Inductive, Locked, ChecksHold
<1>4. AckedIsDurable'
  BY <1>1 DEF Inductive, AckedIsDurable
<1> QED BY <1>1, <1>2, <1>3, <1>4 DEF Inductive

LEMMA CrashStep ==
    ASSUME Inductive, Crash
    PROVE  Inductive'
<1>1. /\ db' = db /\ staged' = db /\ writer' = NoProc /\ snapshot' = [p \in Procs |-> "none"]
      /\ pc' = [p \in Procs |-> "idle"] /\ req' = [p \in Procs |-> NoRequest]
      /\ seen' = [p \in Procs |-> NoRow] /\ answer' = [p \in Procs |-> "none"]
      /\ UNCHANGED <<started, acked>>
  BY DEF Crash, Die, LoseTransactions
<1>2. TypeOK'
  BY <1>1 DEF Inductive, TypeOK, Points, SnapshotStates, Outcomes
<1>3. Locked' /\ ChecksHold'
  BY <1>1, ProcAssumption DEF Locked, ChecksHold
<1>4. AckedIsDurable'
  BY <1>1 DEF Inductive, AckedIsDurable
<1> QED BY <1>1, <1>2, <1>3, <1>4 DEF Inductive

LEMMA RequestStep ==
    ASSUME Inductive, NEW p \in Procs, Step(p) \/ Fails(p)
    PROVE  Inductive'
<1>1. CASE EnrollRefused(p) \/ EnrollConflict(p) \/ EnrollDuplicate(p) \/ CancelConflict(p)
           \/ TxBusy(p) \/ TxFail(p)
  BY <1>1, GiveUpStep
  DEF EnrollRefused, EnrollConflict, EnrollDuplicate, CancelConflict, TxBusy, TxFail,
      GiveUpBusy, GiveUpAnywhere, Outcomes
<1>2. CASE TxCommit(p) \/ TxCommitUnheard(p)
  BY <1>2, CommitStep DEF TxCommit, TxCommitUnheard, Acknowledge, Outcomes
<1> QED BY <1>1, <1>2, CheckStep, ReserveStep, InsertStep, CancelWriteStep DEF Step, Fails

-----------------------------------------------------------------------------
\* The invariant

LEMMA InitInductive == Init => Inductive
<1> SUFFICES ASSUME Init PROVE Inductive
  OBVIOUS
<1>1. /\ db = EmptyDatabase /\ staged = db /\ writer = NoProc
      /\ snapshot = [p \in Procs |-> "none"] /\ pc = [p \in Procs |-> "idle"]
      /\ req = [p \in Procs |-> NoRequest] /\ seen = [p \in Procs |-> NoRow]
      /\ answer = [p \in Procs |-> "none"] /\ started = {} /\ acked = {}
  BY DEF Init, InitStore, InitRequests
<1>2. db \in Databases
  BY <1>1 DEF EmptyDatabase, Databases, Courses, CourseStates, AuditCounts
<1>3. TypeOK
  BY <1>1, <1>2 DEF TypeOK, Points, SnapshotStates, Outcomes
<1>4. Locked /\ ChecksHold /\ AckedIsDurable
  BY <1>1, ProcAssumption DEF Locked, ChecksHold, AckedIsDurable
<1>5. /\ db.rows = {} /\ db.makeups = {} /\ \A s : RowsOf(db, s) = {} /\ Confirmed(db, s) = {}
      /\ \A s : {x \in db.makeups : x[2] = s} = {}
  BY <1>1 DEF EmptyDatabase, RowsOf, Confirmed
<1>6. SeatsMatch(db) /\ AuditMatches(db)
  <2>1. Cardinality({}) = 0
    BY FS_EmptySet
  <2>2. \A s \in Sessions :
            /\ db.course[s].enrolled = 0 /\ db.course[s].status = "scheduled"
            /\ db.audit[s].confirmed = 0 /\ db.audit[s].canceled = 0
            /\ db.audit[s].makeups = 0
    BY <1>1 DEF EmptyDatabase
  <2>3. SeatsMatch(db)
    BY <1>5, <2>1, <2>2, CapacityAssumption DEF SeatsMatch
  <2>4. AuditMatches(db)
    BY <1>5, <2>1, <2>2 DEF AuditMatches
  <2> QED BY <2>3, <2>4
<1>7. MakeupsMatch(db) /\ KeysMatch(db) /\ IsFiniteSet(db.rows)
  BY <1>1, <1>5, FS_EmptySet DEF MakeupsMatch, KeysMatch, EmptyDatabase
<1> QED BY <1>3, <1>4, <1>6, <1>7 DEF Inductive, Consistent

LEMMA NextInductive == Inductive /\ [Next]_vars => Inductive'
<1> SUFFICES ASSUME Inductive, [Next]_vars PROVE Inductive'
  OBVIOUS
<1>1. CASE Next
  BY <1>1, ArrivalStep, RequestStep, CrashStep, StartsStep, ProgressStep, FactsStep
  DEF Next, Environment
<1>2. CASE UNCHANGED vars
  BY <1>2 DEF vars, storeVars, requestVars, Inductive, TypeOK, Locked, ChecksHold,
              AckedIsDurable
<1> QED BY <1>1, <1>2

-----------------------------------------------------------------------------
\* What is committed is consistent and keeps what callers were told, and what
\* is staged is the statements of one request on it whose checks still hold.
THEOREM InductiveInvariant == Spec => []Inductive
BY InitInductive, NextInductive, PTL DEF Spec

\* The variables keep to their domains, and every point of a request to its kind.
THEOREM TypeCorrect == Spec => []TypeOK
<1>1. Inductive => TypeOK
  BY DEF Inductive
<1> QED BY <1>1, InductiveInvariant, PTL

\* course_sessions.enrolled counts the enrollments of the session and stays
\* within its capacity, however many requests run and wherever they fail.
THEOREM SeatsAreSafe == Spec => []SeatsMatchRoster
<1>1. Inductive => SeatsMatchRoster
  BY DEF Inductive, Consistent, SeatsMatchRoster
<1> QED BY <1>1, InductiveInvariant, PTL

\* A canceled session has given every student of its roster a make-up, and no
\* other session has given one.
THEOREM MakeupsAreSafe == Spec => []CanceledHasMakeups
<1>1. Inductive => CanceledHasMakeups
  BY DEF Inductive, Consistent, CanceledHasMakeups
<1> QED BY <1>1, InductiveInvariant, PTL

\* A key and a seat stand for one enrollment each, although the lookup of the
\* key is outside the transaction.
THEOREM KeysAreSafe == Spec => []OneRowPerKey
<1>1. Inductive => OneRowPerKey
  BY DEF Inductive, Consistent, OneRowPerKey
<1> QED BY <1>1, InductiveInvariant, PTL

\* The audit trail counts the enrollments, the cancellations and the make-ups.
THEOREM AuditIsComplete == Spec => []AuditTellsTheTruth
<1>1. Inductive => AuditTellsTheTruth
  BY DEF Inductive, Consistent, AuditTellsTheTruth
<1> QED BY <1>1, InductiveInvariant, PTL

\* What a caller was told is done stays done.
THEOREM AcksAreDurable == Spec => []AckedIsDurable
<1>1. Inductive => AckedIsDurable
  BY DEF Inductive
<1> QED BY <1>1, InductiveInvariant, PTL

-----------------------------------------------------------------------------
\* What a step makes of the committed database

Progresses(d, s, to, e) ==
    /\ to # "canceled"
    /\ ValidTransition("course", d.course[s].status, to)
    /\ e = [d EXCEPT !.course[s].status = to]

\* Enrollments, sessions and make-ups stay as they are.
LeavesRegister(d, e) == e.course = d.course /\ e.rows = d.rows /\ e.makeups = d.makeups

LEMMA WhatIsCommitted ==
    ASSUME Inductive, Next
    PROVE  /\ db \in Databases /\ db' \in Databases /\ Consistent(db)
           /\ \/ db' = db
              \/ LeavesRegister(db, db')
              \/ \E r : Enrolls(db, r, db') \/ Cancels(db, r, db')
              \/ \E s \in Sessions, to \in CourseStates : Progresses(db, s, to, db')
<1>1. db \in Databases /\ db' \in Databases /\ Consistent(db)
  BY NextInductive DEF Inductive, TypeOK
<1>2. ASSUME NEW p \in Procs, Arrives(p) PROVE db' = db
  BY <1>2 DEF Arrives, EnrollRejected, CancelRejected, EnrollReplayed, EnrollBegin, CancelRead,
              CancelIllegal, storeVars
<1>3. ASSUME NEW p \in Procs, TxCommit(p) \/ TxCommitUnheard(p)
      PROVE  Enrolls(db, req[p], db') \/ Cancels(db, req[p], db')
  BY <1>3, CommitWrites DEF TxCommit, TxCommitUnheard, CommitAndAnswer, Commit
<1>4. ASSUME NEW p \in Procs, Step(p) \/ Fails(p), ~TxCommit(p), ~TxCommitUnheard(p)
      PROVE  db' = db
  BY <1>4 DEF Step, Fails, EnrollCheck, EnrollRefused, EnrollReserve, EnrollConflict, EnrollInsert,
              EnrollDuplicate, CancelWrite, CancelConflict, TxBusy, TxFail, GiveUpBusy,
              GiveUpAnywhere, GiveUp, Rollback, Write, TakeSnapshot
<1>5. ASSUME Crash \/ \E s \in Sessions : SessionStarts(s) PROVE db' = db
  BY <1>5 DEF Crash, Die, LoseTransactions, SessionStarts, storeVars
<1>6. ASSUME NEW s \in Sessions, NEW to \in CourseStates, SessionProgresses(s, to)
      PROVE  Progresses(db, s, to, db')
  BY <1>6 DEF SessionProgresses, AutoCommit, Progresses
<1>7. ASSUME FactsChange PROVE LeavesRegister(db, db')
  BY <1>7, FactsChangeLeaves DEF LeavesRegister
<1> QED BY <1>1, <1>2, <1>3, <1>4, <1>5, <1>6, <1>7 DEF Next, Environment

\* Of the four, only an enrollment brings a row of a new student.
LEMMA NewRowsAreEnrolled ==
    ASSUME NEW d \in Databases, NEW e, NEW row \in e.rows, ~Enrolled(d, row.student, row.session),
           \/ e = d
           \/ LeavesRegister(d, e)
           \/ \E r : Enrolls(d, r, e) \/ Cancels(d, r, e)
           \/ \E s \in Sessions, to \in CourseStates : Progresses(d, s, to, e)
    PROVE  /\ Eligible(d, row.student, row.session)
           /\ d.course[row.session].enrolled < Capacity[row.session]
<1>1. row \notin d.rows
  BY DEF Enrolled
<1>2. ~LeavesRegister(d, e) /\ e # d
  BY <1>1 DEF LeavesRegister
<1>3. ~\E s \in Sessions, to \in CourseStates : Progresses(d, s, to, e)
  BY <1>1 DEF Progresses, Databases
<1>4. ~\E r : Cancels(d, r, e)
  BY CancelLasts DEF Cancels, CancelRequests
<1>5. PICK r \in EnrollRequests : Enrolls(d, r, e)
  BY <1>2, <1>3, <1>4 DEF Enrolls
<1>6. row = NewRow(r)
  <2>1. e.rows = d.rows \cup {NewRow(r)}
    BY <1>5, ReserveLasts DEF Enrolls
  <2> QED BY <1>1, <2>1
<1>7. row.student = r.student /\ row.session = r.session
  BY <1>6 DEF NewRow
<1> QED BY <1>5, <1>7 DEF Enrolls

\* A seat is given only while consent, age, certification, coach and session
\* allow it, in the very database that the row is committed to.
THEOREM ChecksHoldAtCommit == Spec => EligibleAtCommit
<1>1. Inductive /\ [Next]_vars =>
        [\A r \in db'.rows : ~Enrolled(db, r.student, r.session) =>
            /\ Eligible(db, r.student, r.session)
            /\ db.course[r.session].enrolled < Capacity[r.session]]_vars
  <2> SUFFICES ASSUME Inductive, Next, NEW r \in db'.rows, ~Enrolled(db, r.student, r.session)
               PROVE  /\ Eligible(db, r.student, r.session)
                      /\ db.course[r.session].enrolled < Capacity[r.session]
    OBVIOUS
  <2> QED BY WhatIsCommitted, NewRowsAreEnrolled
<1> QED BY <1>1, InductiveInvariant, PTL DEF Spec, EligibleAtCommit

-----------------------------------------------------------------------------
\* The register: what the tables stand for in EnrollmentLedger

StatusesOf(d) == [s \in Sessions |-> d.course[s].status]
SeatedIn(d)   == [s \in Sessions |-> StudentsOf(Confirmed(d, s))]
OwedBy(d)     == [s \in Sessions |-> {x[1] : x \in {y \in d.makeups : y[2] = s}}]

LEMMA StudentsFinite ==
    ASSUME NEW rows, IsFiniteSet(rows)
    PROVE  IsFiniteSet(StudentsOf(rows)) /\ Cardinality(StudentsOf(rows)) <= Cardinality(rows)
<1> DEFINE f == [r \in rows |-> r.student]
<1>1. f \in Surjection(rows, StudentsOf(rows))
  BY DEF Surjection, StudentsOf
<1> HIDE DEF f
<1> QED BY <1>1, FS_Surjection

\* A reservation is a seat given in the register.
LEMMA EnrollsConfirms ==
    ASSUME NEW d \in Databases, Consistent(d), NEW r, NEW e, Enrolls(d, r, e)
    PROVE  /\ r.session \in Sessions /\ r.student \in Students
           /\ StatusesOf(d)[r.session] = "scheduled"
           /\ r.student \notin SeatedIn(d)[r.session]
           /\ Cardinality(SeatedIn(d)[r.session]) < Capacity[r.session]
           /\ SeatedIn(e) = [SeatedIn(d) EXCEPT ![r.session] =
                                SeatedIn(d)[r.session] \cup {r.student}]
           /\ StatusesOf(e) = StatusesOf(d) /\ OwedBy(e) = OwedBy(d)
           /\ e.consent = d.consent /\ e.certified = d.certified /\ e.qualified = d.qualified
<1> DEFINE s == r.session
           row == NewRow(r)
<1>1. /\ r \in EnrollRequests /\ s \in Sessions /\ r.student \in Students
      /\ d.course[s].status = "scheduled" /\ d.course[s].enrolled < Capacity[s]
      /\ Unique(d, r)
  BY DEF Enrolls, Eligible, EnrollRequests
<1>2. row.session = s /\ row.student = r.student /\ row.status = "confirmed"
  BY DEF NewRow
<1>3. /\ e.rows = d.rows \cup {row} /\ e.makeups = d.makeups
      /\ e.consent = d.consent /\ e.certified = d.certified /\ e.qualified = d.qualified
      /\ \A t \in Sessions : e.course[t].status = d.course[t].status
  BY DEF Enrolls, AddRow, TakeSeat, OneMore, Databases, Courses
<1> HIDE DEF row, s
<1>4. \A t \in Sessions : Confirmed(e, t) = IF t = s THEN Confirmed(d, t) \cup {row}
                                            ELSE Confirmed(d, t)
  BY <1>2, <1>3 DEF Confirmed, RowsOf
<1>5. SeatedIn(e) = [SeatedIn(d) EXCEPT ![s] = SeatedIn(d)[s] \cup {r.student}]
  <2>1. \A t \in Sessions : SeatedIn(e)[t] = IF t = s THEN SeatedIn(d)[t] \cup {r.student}
                                             ELSE SeatedIn(d)[t]
    BY <1>2, <1>4 DEF SeatedIn, StudentsOf
  <2> QED BY <1>1, <2>1 DEF SeatedIn
<1>6. r.student \notin SeatedIn(d)[s]
  BY <1>1 DEF SeatedIn, StudentsOf, Confirmed, RowsOf, Unique, s
<1>7. Cardinality(SeatedIn(d)[s]) < Capacity[s]
  <2>1. /\ IsFiniteSet(d.rows) /\ d.course[s].enrolled = Cardinality(RowsOf(d, s))
    BY <1>1 DEF Consistent, SeatsMatch
  <2>2. IsFiniteSet(RowsOf(d, s))
    BY <2>1, FS_Subset DEF RowsOf
  <2>3. /\ IsFiniteSet(Confirmed(d, s))
        /\ Cardinality(Confirmed(d, s)) <= Cardinality(RowsOf(d, s))
    BY <2>2, FS_Subset DEF Confirmed
  <2>4. /\ IsFiniteSet(StudentsOf(Confirmed(d, s)))
        /\ Cardinality(StudentsOf(Confirmed(d, s))) <= Cardinality(Confirmed(d, s))
    BY <2>3, StudentsFinite
  <2>5. /\ Cardinality(StudentsOf(Confirmed(d, s))) \in Nat
        /\ Cardinality(Confirmed(d, s)) \in Nat
        /\ Cardinality(RowsOf(d, s)) \in Nat /\ Capacity[s] \in Nat
    BY <1>1, <2>2, <2>3, <2>4, FS_CardinalityType, CapacityAssumption
  <2>6. SeatedIn(d)[s] = StudentsOf(Confirmed(d, s))
    BY <1>1 DEF SeatedIn
  <2> QED BY <1>1, <2>1, <2>3, <2>4, <2>5, <2>6
<1>8. StatusesOf(e) = StatusesOf(d) /\ OwedBy(e) = OwedBy(d) /\ StatusesOf(d)[s] = "scheduled"
  BY <1>1, <1>3 DEF StatusesOf, OwedBy
<1> QED BY <1>1, <1>3, <1>5, <1>6, <1>7, <1>8 DEF s

\* A cancellation gives everybody who had a seat a make-up for it.
LEMMA CancelsCancels ==
    ASSUME NEW d \in Databases, Consistent(d), NEW r, NEW e, Cancels(d, r, e)
    PROVE  /\ r.session \in Sessions
           /\ StatusesOf(d)[r.session] = "scheduled"
           /\ StatusesOf(e) = [StatusesOf(d) EXCEPT ![r.session] = "canceled"]
           /\ OwedBy(e) = [OwedBy(d) EXCEPT ![r.session] = SeatedIn(d)[r.session]]
           /\ SeatedIn(e) = [SeatedIn(d) EXCEPT ![r.session] = {}]
           /\ e.consent = d.consent /\ e.certified = d.certified /\ e.qualified = d.qualified
<1> DEFINE s == r.session
           owed == PairsOf(Confirmed(d, s))
           due == {MakeupDue(x) : x \in Confirmed(d, s)}
<1>1. s \in Sessions /\ d.course[s].status = "scheduled" /\ e = CancelRows(d, s)
  BY DEF Cancels, CancelRequests
<1>2. /\ e.rows = (d.rows \ Confirmed(d, s)) \cup due
      /\ e.makeups = d.makeups \cup owed
      /\ e.consent = d.consent /\ e.certified = d.certified /\ e.qualified = d.qualified
      /\ \A t \in Sessions : e.course[t].status =
            IF t = s THEN "canceled" ELSE d.course[t].status
  BY <1>1 DEF CancelRows, Canceled, Databases, Courses
<1>3. StatusesOf(e) = [StatusesOf(d) EXCEPT ![s] = "canceled"] /\ StatusesOf(d)[s] = "scheduled"
  BY <1>1, <1>2 DEF StatusesOf
<1>4. \A x \in due : x.session = s /\ x.status = "makeup_due"
  BY DEF MakeupDue, Confirmed, RowsOf, Rows, Databases
<1>5. \A x \in owed : x[2] = s
  BY DEF PairsOf, Confirmed, RowsOf
<1>6. \A x \in d.makeups : x[2] # s
  BY <1>1 DEF Consistent, MakeupsMatch
<1> HIDE DEF s, due
<1>7. \A t \in Sessions : Confirmed(e, t) = IF t = s THEN {} ELSE Confirmed(d, t)
  BY <1>2, <1>4 DEF Confirmed, RowsOf
<1>8. SeatedIn(e) = [SeatedIn(d) EXCEPT ![s] = {}]
  BY <1>1, <1>7 DEF SeatedIn, StudentsOf
<1>9. OwedBy(e) = [OwedBy(d) EXCEPT ![s] = SeatedIn(d)[s]]
  <2>1. {y \in e.makeups : y[2] = s} = owed
    BY <1>2, <1>5, <1>6
  <2>2. {x[1] : x \in owed} = StudentsOf(Confirmed(d, s))
    <3>1. \A x \in owed : x[1] \in StudentsOf(Confirmed(d, s))
      BY DEF PairsOf, StudentsOf
    <3>2. \A row \in Confirmed(d, s) :
            <<row.student, row.session>> \in owed /\ <<row.student, row.session>>[1] = row.student
      BY DEF PairsOf
    <3> HIDE DEF owed
    <3> QED BY <3>1, <3>2 DEF StudentsOf
  <2>3. \A t \in Sessions \ {s} : {y \in e.makeups : y[2] = t} = {y \in d.makeups : y[2] = t}
    BY <1>2, <1>5
  <2> HIDE DEF owed
  <2>4. OwedBy(e)[s] = SeatedIn(d)[s]
    BY <1>1, <2>1, <2>2 DEF OwedBy, SeatedIn
  <2>5. \A t \in Sessions \ {s} : OwedBy(e)[t] = OwedBy(d)[t]
    BY <2>3 DEF OwedBy
  <2> QED BY <1>1, <2>4, <2>5 DEF OwedBy
<1> QED BY <1>1, <1>2, <1>3, <1>8, <1>9 DEF s

LEMMA ProgressesProgresses ==
    ASSUME NEW d \in Databases, NEW s \in Sessions, NEW to \in CourseStates, NEW e,
           Progresses(d, s, to, e)
    PROVE  /\ to \in {"in_progress", "completed"}
           /\ ValidTransition("course", StatusesOf(d)[s], to)
           /\ StatusesOf(e) = [StatusesOf(d) EXCEPT ![s] = to]
           /\ SeatedIn(e) = SeatedIn(d) /\ OwedBy(e) = OwedBy(d)
           /\ e.consent = d.consent /\ e.certified = d.certified /\ e.qualified = d.qualified
<1>1. to \in {"in_progress", "completed"}
  BY DEF Progresses, ValidTransition, Transitions, CourseStates
<1>2. /\ e.rows = d.rows /\ e.makeups = d.makeups
      /\ e.consent = d.consent /\ e.certified = d.certified /\ e.qualified = d.qualified
      /\ \A t \in Sessions : e.course[t].status = IF t = s THEN to ELSE d.course[t].status
  BY DEF Progresses, Databases, Courses
<1>3. SeatedIn(e) = SeatedIn(d) /\ OwedBy(e) = OwedBy(d)
  BY <1>2 DEF SeatedIn, OwedBy, Confirmed, RowsOf
<1> QED BY <1>1, <1>2, <1>3 DEF StatusesOf, Progresses

LEMMA RegisterLeft ==
    ASSUME NEW d \in Databases, NEW e \in Databases, LeavesRegister(d, e)
    PROVE  /\ StatusesOf(e) = StatusesOf(d) /\ SeatedIn(e) = SeatedIn(d) /\ OwedBy(e) = OwedBy(d)
           /\ e.consent \subseteq Pairs /\ e.certified \subseteq Pairs
           /\ e.qualified \subseteq Sessions
BY DEF LeavesRegister, StatusesOf, SeatedIn, OwedBy, Confirmed, RowsOf, Databases

LEMMA LedgerStep ==
    ASSUME Inductive, Next
    PROVE  \/ Ledger!LedgerNext
           \/ UNCHANGED <<StatusesOf(db), SeatedIn(db), OwedBy(db),
                          db.consent, db.certified, db.qualified>>
<1>1. /\ db \in Databases /\ db' \in Databases /\ Consistent(db)
      /\ \/ db' = db
         \/ LeavesRegister(db, db')
         \/ \E r : Enrolls(db, r, db') \/ Cancels(db, r, db')
         \/ \E s \in Sessions, to \in CourseStates : Progresses(db, s, to, db')
  BY WhatIsCommitted
<1>2. CASE db' = db
  BY <1>2
<1>3. CASE LeavesRegister(db, db')
  <2>1. Ledger!FactsMove
    BY <1>1, <1>3, RegisterLeft
    DEF Ledger!FactsMove, StatusesOf, SeatedIn, OwedBy, Pairs
  <2> QED BY <2>1 DEF Ledger!LedgerNext
<1>4. ASSUME NEW r, Enrolls(db, r, db') PROVE Ledger!LedgerNext
  <2> DEFINE st == r.student
             s == r.session
  <2>1. /\ s \in Sessions /\ st \in Students /\ StatusesOf(db)[s] = "scheduled"
        /\ st \notin SeatedIn(db)[s] /\ Cardinality(SeatedIn(db)[s]) < Capacity[s]
        /\ SeatedIn(db') = [SeatedIn(db) EXCEPT ![s] = SeatedIn(db)[s] \cup {st}]
        /\ StatusesOf(db') = StatusesOf(db) /\ OwedBy(db') = OwedBy(db)
        /\ db'.consent = db.consent /\ db'.certified = db.certified
        /\ db'.qualified = db.qualified
    BY <1>1, <1>4, EnrollsConfirms
  <2>2. /\ <<st, s>> \in OldEnough \cap db.certified
        /\ <<st, s>> \in Minor => <<st, s>> \in db.consent
        /\ s \in db.qualified
    BY <1>4 DEF Enrolls, Eligible
  <2> HIDE DEF st, s
  <2>3. Ledger!Confirm(st, s)
    <3>1. /\ [t \in Sessions |-> db.course[t].status][s] = "scheduled"
          /\ st \notin [t \in Sessions |-> StudentsOf(Confirmed(db, t))][s]
          /\ Cardinality([t \in Sessions |-> StudentsOf(Confirmed(db, t))][s]) < Capacity[s]
      BY <2>1 DEF StatusesOf, SeatedIn
    <3>2. [t \in Sessions |-> StudentsOf(Confirmed(db', t))] =
            [[t \in Sessions |-> StudentsOf(Confirmed(db, t))] EXCEPT ![s] = @ \cup {st}]
      BY <2>1 DEF SeatedIn
    <3>3. /\ [t \in Sessions |-> db'.course[t].status] = [t \in Sessions |-> db.course[t].status]
          /\ [t \in Sessions |-> {x[1] : x \in {y \in db'.makeups : y[2] = t}}] =
                [t \in Sessions |-> {x[1] : x \in {y \in db.makeups : y[2] = t}}]
      BY <2>1 DEF StatusesOf, OwedBy
    <3>4. \A set : Ledger!Cardinality(set) = Cardinality(set)
      BY DEF Cardinality, Ledger!Cardinality
    <3> QED BY <2>1, <2>2, <3>1, <3>2, <3>3, <3>4 DEF Ledger!Confirm, Ledger!facts
  <2> QED BY <2>1, <2>3 DEF Ledger!LedgerNext
<1>5. ASSUME NEW r, Cancels(db, r, db') PROVE Ledger!LedgerNext
  <2> DEFINE s == r.session
  <2>1. /\ s \in Sessions /\ StatusesOf(db)[s] = "scheduled"
        /\ StatusesOf(db') = [StatusesOf(db) EXCEPT ![s] = "canceled"]
        /\ OwedBy(db') = [OwedBy(db) EXCEPT ![s] = SeatedIn(db)[s]]
        /\ SeatedIn(db') = [SeatedIn(db) EXCEPT ![s] = {}]
        /\ db'.consent = db.consent /\ db'.certified = db.certified
        /\ db'.qualified = db.qualified
    BY <1>1, <1>5, CancelsCancels
  <2> HIDE DEF s
  <2>2. Ledger!Cancel(s)
    BY <2>1 DEF Ledger!Cancel, Ledger!facts, StatusesOf, SeatedIn, OwedBy
  <2> QED BY <2>1, <2>2 DEF Ledger!LedgerNext
<1>6. ASSUME NEW s \in Sessions, NEW to \in CourseStates, Progresses(db, s, to, db')
      PROVE  Ledger!LedgerNext
  <2>1. /\ to \in {"in_progress", "completed"} /\ to # "canceled"
        /\ ValidTransition("course", StatusesOf(db)[s], to)
        /\ StatusesOf(db') = [StatusesOf(db) EXCEPT ![s] = to]
        /\ SeatedIn(db') = SeatedIn(db) /\ OwedBy(db') = OwedBy(db)
        /\ db'.consent = db.consent /\ db'.certified = db.certified
        /\ db'.qualified = db.qualified
    BY <1>1, <1>6, ProgressesProgresses
  <2>2. Ledger!ValidTransition("course", StatusesOf(db)[s], to)
    BY <2>1 DEF Ledger!ValidTransition, Ledger!Transitions, ValidTransition, Transitions
  <2>3. Ledger!Progress(s, to)
    BY <2>1, <2>2 DEF Ledger!Progress, Ledger!facts, StatusesOf, SeatedIn, OwedBy
  <2> QED BY <2>1, <2>3 DEF Ledger!LedgerNext
<1> QED BY <1>1, <1>2, <1>3, <1>4, <1>5, <1>6

\* The statements of Enroll and CancelCourse, their failures and the crashes
\* included, implement the register, whose every change happens at once.
THEOREM RegisterIsImplemented == Spec => ImplementsLedger
<1>1. Init => Ledger!LedgerInit
  BY DEF Init, InitStore, EmptyDatabase, Ledger!LedgerInit, StudentsOf, Confirmed, RowsOf, Pairs
<1>2. Inductive /\ [Next]_vars =>
        [Ledger!LedgerNext]_<<[s \in Sessions |-> db.course[s].status],
                              [s \in Sessions |-> StudentsOf(Confirmed(db, s))],
                              [s \in Sessions |-> {x[1] : x \in {y \in db.makeups : y[2] = s}}],
                              Ledger!facts>>
  <2>1. ASSUME UNCHANGED vars
        PROVE  UNCHANGED <<StatusesOf(db), SeatedIn(db), OwedBy(db),
                           db.consent, db.certified, db.qualified>>
    BY <2>1 DEF vars, storeVars
  <2> QED BY LedgerStep, <2>1 DEF StatusesOf, SeatedIn, OwedBy, Ledger!facts
<1> QED BY <1>1, <1>2, InductiveInvariant, PTL DEF Spec, ImplementsLedger, Ledger!LedgerSpec
=============================================================================
