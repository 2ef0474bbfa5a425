\* Two requests at a time, two items and two loans; everything fits the first
\* student and nothing the second.
CONSTANTS
    st1 = st1
    NoProc = NoProc
    Procs = {p1, p2}
    Items = {i1, i2}
    Students = {st1, st2}
    Sessions = {s1}
    Suits <- FirstStudentFits
    MaxLoans = 2
SPECIFICATION Spec
SYMMETRY Alike
INVARIANTS Inductive CustodyMatches DamageHasCase AuditTellsTheTruth VersionsNeverConflict
  
