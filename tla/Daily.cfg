SPECIFICATION Spec
CONSTANTS
    QuestionId = {1, 2, 3}
    Category = {1, 2}
    RecentDays = 1
    MaxDay = 3
INVARIANTS
    TypeOK
    SameQuestionForAll
    NoRepeatWithinWindow
    CategoriesRotate
