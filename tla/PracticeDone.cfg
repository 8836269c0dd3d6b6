CONSTANTS
    NONE = NONE
    a = a
    b = b
    k1 = k1
    k2 = k2
    s1 = s1
    s2 = s2
    Tab = {a}
    Exercise <- MCExercise
    Coding <- MCCoding
    Contents <- MCContents
    Token = {k1, k2}
    Slot = {s1, s2}
    Verdict <- MCVerdict
    MaxPasses = 2
SPECIFICATION Spec
INVARIANT DoneIsPassed
