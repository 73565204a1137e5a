\* Two imports, interrupted up to three times.
CONSTANTS
    Count = 3
    Installed = 2
    MaxImports = 2
    MaxFails = 3
SPECIFICATION FairSpec
INVARIANT AllOrNothing
INVARIANT NothingDestroyed
INVARIANT RefusalIsHarmless
PROPERTY ComesBack
CHECK_DEADLOCK FALSE
