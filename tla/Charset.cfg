SPECIFICATION Spec
CONSTANTS
    Cell <- MCCell
    Table <- MCTable
    TableOf <- MCTableOf
    Nick = "nickname"
    Author = "author"
    Question = "question"
    Script <- MCScript
    MaxLevel = 2
    LOST = LOST
    BLANK = BLANK
    NONE = NONE
INVARIANTS
    FreshStaysClean
    OneCharsetIsHarmless
    RouteBRestores
