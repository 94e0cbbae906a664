CONSTANTS
    SignMax = 3
    BucketPollMax = 1
    ProofPollMax = 4
    NsPollMax = 2
    CertPollMax = 3
    DistPollMax = 4
    MayFail = TRUE
SPECIFICATION Spec
INVARIANTS
    TypeOK
    ProofFieldStaysTrue
    NoUploadTurnedAway
    CompleteIsFinal
    ShownReadyIsReady
PROPERTY BothEnd
CHECK_DEADLOCK FALSE
