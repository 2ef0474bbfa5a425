\* Two requests at a time, two logins of one account, and a clock of two and a
\* half seconds in half seconds.
CONSTANTS
    NoProc = NoProc
    Procs = {p1, p2}
    Accounts = {a1}
    Tokens = {t1, t2}
    SessionTTL = 3
    RevokedKept = 2
    MaxTime = 5
SPECIFICATION Spec
SYMMETRY Alike
INVARIANTS Inductive
PROPERTIES OnlyTheEntitled RefusedForCause
