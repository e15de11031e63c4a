SPECIFICATION FairSpec
CONSTANTS
    N = 2
    MayDie = FALSE
    Failing = {}
    Ticking = {1}
    Unreliable = {2}
INVARIANT NoForgottenTarget
PROPERTIES ReportsArePulled ServesSignal StoreReachesTargets
