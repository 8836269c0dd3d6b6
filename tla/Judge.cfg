CONSTANTS
    Cases = 3
    MaxCode = 4
    Room = 3
SPECIFICATION Spec
INVARIANTS
    TypeOK
    OutputComplete
    VerdictIsEarned
    CleanEnd
PROPERTIES
    ImplementsGrading
