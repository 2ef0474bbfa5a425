\* Two requests at a time, a group of one place and a group of two, and three
\* enrollments, of which one is of a session without a group.  No symmetry: one
\* property is a liveness property.
CONSTANTS
    g1 = g1
    g2 = g2
    c1 = c1
    c2 = c2
    s1 = s1
    s2 = s2
    n3 = n3
    NoProc = NoProc
    Procs = {p1, p2}
    Groups = {g1, g2}
    Enrollments = {n1, n2, n3}
    Sessions = {s1, s2}
    Coaches = {c1, c2}
    GroupSession <- FirstSession
    GroupCoach <- CoachEach
    Places <- OnePlaceTwoPlaces
    EnrollmentSession <- ThirdElsewhere
    Admin = Admin
    MaxVersion = 2
SPECIFICATION FairSpec
INVARIANTS Inductive GroupsWithinCapacity OneGroupEach AuditListsTheMembers
PROPERTIES ImplementsRosters EveryRequestReturns
