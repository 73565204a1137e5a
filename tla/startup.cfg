SPECIFICATION StartupSpec
CONSTANTS
    Libraries <- MCLibraries
    Backups <- MCBackups
    Variants <- MCVariants
    MaxCrashes = 1
    MaxBegun = 2
    MaxAnswers = 1
INVARIANT RecoveryIsSound
PROPERTIES NothingDropped UidsAgree RecoveryEnds
CHECK_DEADLOCK FALSE
