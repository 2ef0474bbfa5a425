\* Two servers on one new file: two migrations, two rows of demo data, every
\* setting, and one request in flight in each.
CONSTANTS
    NoProc = NoProc
    Procs = {p1, p2}
    LastVersion = 2
    Templates = 2
    MaxRequests = 1
SPECIFICATION FairSpec
INVARIANTS Inductive ServingIsReady
PROPERTIES FileGoesForward CleanExitWaits SignalEnds
