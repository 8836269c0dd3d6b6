SPECIFICATION StreakSpec
CONSTANTS
    Visitor = {v1, v2}
    StreakCap = 3
    MaxDay = 6
INVARIANTS
    StreakShown
PROPERTIES
    StreakIsCounted
