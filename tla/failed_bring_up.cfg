CONSTANTS
    SignMax = 3
    BucketPollMax = 1
    ProofPollMax = 4
    NsPollMax = 2
    CertPollMax = 3
    DistPollMax = 4
    MayFail = FALSE
SPECIFICATION Spec
INVARIANT GoneLeavesNoWriter
CHECK_DEADLOCK FALSE
