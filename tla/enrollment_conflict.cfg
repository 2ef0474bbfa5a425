\* What a version conflict says, for a cancellation.
CONSTANTS
    kid = kid
    NoProc = NoProc
    NoKey = NoKey
    Procs = {p1, p2}
    Students = {kid}
    Sessions = {s1}
    Keys = {k1}
    Capacity <- TwoSeats
    OldEnough <- EveryPair
    Minor <- KidPairs
    ChangingFacts = {}
SPECIFICATION Spec
PROPERTIES ConflictMeansChange
