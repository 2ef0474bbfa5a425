\* One request at a time is enough: its header says "bearer".
CONSTANTS
    NoProc = NoProc
    Procs = {p1}
    Accounts = {a1}
    Tokens = {t1}
    SessionTTL = 3
    RevokedKept = 2
    MaxTime = 6
SPECIFICATION Spec
PROPERTIES InactiveWhenRefused
