SPECIFICATION Spec

CONSTANT MaxFailures = 1

INVARIANTS
    TypeOK
    CleanMeansGone
    QuietPassIsEnough
    SecondPassIsEnough
    NeverEnforcesNothing

PROPERTY EndsClean

CHECK_DEADLOCK FALSE
