SPECIFICATION Spec
CHECK_DEADLOCK FALSE
CONSTANTS
    Keys = {1, 2, 3}
    Directories = {1}
    Matching = {1, 2, 3}
    Objects <- SomeObjects
    Froms <- SomeFroms
    maxListKeys = 2
    Factor = 2
    IntMax = 7
    HasLastModified = TRUE
    MaxTime = 2
    MaxWrites = 1
    StartLimit = 0
    FormatOf <- SomeFormats
INVARIANTS
    TypeOK
    CopyIsWhole
    CapsHold
    NoPlaintextLeft
    LatestWins
    ClaimNotNewer
    RestoredMeansServing
    RecoveryIsNotFailure
PROPERTY
    SourceUntouched
