SPECIFICATION Spec
CONSTANTS
    N = 2
    MayDie = TRUE
    Failing = {2}
    Ticking = {}
    Unreliable = {}
INVARIANTS TypeOK NoLostReport
PROPERTY ImplementsSignal
