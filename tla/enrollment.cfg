\* Two requests at a time for the two seats of a session: enrollments of three
\* students, retries with three keys and cancellations, while the minor's
\* consent and certification and the coach's qualification change.
CONSTANTS
    kid = kid
    NoProc = NoProc
    NoKey = NoKey
    Procs = {p1, p2}
    Students = {kid, tom, eve}
    Sessions = {s1}
    Keys = {k1, k2, k3}
    Capacity <- TwoSeats
    OldEnough <- EveryPair
    Minor <- KidPairs
    ChangingFacts <- KidFacts
SPECIFICATION Spec
SYMMETRY Alike
INVARIANTS SeatsMatchRoster CanceledHasMakeups OneRowPerKey AuditTellsTheTruth AckedIsDurable Inductive
PROPERTIES EligibleAtCommit ImplementsLedger
