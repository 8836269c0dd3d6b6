CONSTANTS
    Cases = 1
    MaxCode = 1
    Room = 1
SPECIFICATION Spec
INVARIANT WriteEndsAreClosed
