---------------------------- MODULE DailyProofs -----------------------------
(***************************************************************************)
(* Proofs about DailyQuestion: the types, that a stored row never changes, *)
(* that all clients are told the question of that row, that the categories *)
(* take turns, and that a question does not come back within the window.   *)
(* Then about DailyStreak: that it implements StreakCounter, and that the  *)
(* streak shown is that counter.                                           *)
(***************************************************************************)
EXTENDS DailyQuestion, DailyStreak, FiniteSetTheorems, WellFoundedInduction, TLAPS

LEMMA PoolIsFinite ==
  ASSUME NEW c
  PROVE  Pool(c) \subseteq QuestionId /\ Cardinality(Pool(c)) \in Nat
  <1>1. Pool(c) \subseteq QuestionId BY DEF Pool, Published
  <1>2. IsFiniteSet(Pool(c)) BY <1>1, DailyAssumption, FS_Subset
  <1> QED BY <1>1, <1>2, FS_CardinalityType

LEMMA PublishedRow ==
  ASSUME TypeOK, NEW q \in QuestionId, bank[q].state = "published"
  PROVE  bank[q].category \in Category
  <1>1. bank[q] \in {Unused, Deleted} \cup Question BY DEF TypeOK
  <1>2. bank[q] # Unused /\ bank[q] # Deleted /\ bank[q] # Draft
    BY DEF Unused, Deleted, Draft
  <1>3. bank[q] \in [state : {"published"}, category : Category]
    BY <1>1, <1>2 DEF Question
  <1> QED BY <1>3

LEMMA CategoriesType == TypeOK => Categories \subseteq Category
  <1> SUFFICES ASSUME TypeOK PROVE \A q \in Published : bank[q].category \in Category
    BY DEF Categories
  <1> TAKE q \in Published
  <1>1. q \in QuestionId /\ bank[q].state = "published" BY DEF Published
  <1> QED BY <1>1, PublishedRow

\* Both ways in which getDailyQuestion settles on an id.
FoundRow == schedule[date] # None /\ Tell(schedule[date]) /\ UNCHANGED <<base, schedule, turn>>

LEMMA TellType ==
  ASSUME TypeOK, NEW q \in QuestionId, date \in Day, Tell(q)
  PROVE  told' \in [Day -> SUBSET QuestionId]
  <1> QED BY DEF TypeOK, Tell

LEMMA ScheduleType ==
  ASSUME TypeOK, NEW q \in QuestionId, date \in Day, schedule' = InsertIgnore(q)
  PROVE  /\ schedule' \in [Day -> QuestionId \cup {None}]
         /\ schedule'[date] \in QuestionId
         /\ \A d \in Day : schedule[d] # None => schedule'[d] = schedule[d]
  <1> QED BY DEF TypeOK, InsertIgnore

LEMMA GenerateType ==
  ASSUME TypeOK, date \in Day, Generate
  PROVE  /\ base' \in Day \cup {None}
         /\ schedule' \in [Day -> QuestionId \cup {None}]
         /\ told' \in [Day -> SUBSET QuestionId]
         /\ turn' \in [Day -> Turn]
  <1>1. CASE Categories = {}
    BY <1>1 DEF Generate, dailyVars, TypeOK
  <1>2. CASE Categories # {}
    <2>1. PICK c \in Categories : \E q \in Pool(c) :
             /\ base' = BaseDate
             /\ schedule' = InsertIgnore(q)
             /\ Tell(schedule'[date])
             /\ turn' = IF schedule' = schedule THEN turn
                        ELSE [turn EXCEPT ![date] = [cats |-> Categories, category |-> c,
                                                     size |-> Cardinality(Pool(c))]]
      BY <1>2 DEF Generate
    <2>2. PICK q \in Pool(c) :
             /\ base' = BaseDate
             /\ schedule' = InsertIgnore(q)
             /\ Tell(schedule'[date])
             /\ turn' = IF schedule' = schedule THEN turn
                        ELSE [turn EXCEPT ![date] = [cats |-> Categories, category |-> c,
                                                     size |-> Cardinality(Pool(c))]]
      BY <2>1
    <2>3. q \in QuestionId BY PoolIsFinite
    <2>4. base' \in Day \cup {None} BY <2>2 DEF BaseDate, TypeOK
    <2>5. schedule' \in [Day -> QuestionId \cup {None}] /\ schedule'[date] \in QuestionId
      BY <2>2, <2>3, ScheduleType
    <2>6. told' \in [Day -> SUBSET QuestionId] BY <2>2, <2>5, TellType
    <2>7. [cats |-> Categories, category |-> c, size |-> Cardinality(Pool(c))] \in Turn
      <3>1. c \in Nat BY CategoriesType, DailyAssumption
      <3>2. Cardinality(Pool(c)) \in Nat BY PoolIsFinite
      <3>3. Categories \in SUBSET Category BY CategoriesType
      <3> QED BY <3>1, <3>2, <3>3 DEF Turn
    <2>8. turn \in [Day -> Turn] BY DEF TypeOK
    <2>9. turn' \in [Day -> Turn]
      <3> HIDE DEF Turn
      <3> QED BY <2>2, <2>7, <2>8
    <2> QED BY <2>4, <2>5, <2>6, <2>9
  <1> QED BY <1>1, <1>2

LEMMA TypeInit == Init => TypeOK
  <1> SUFFICES ASSUME Init PROVE TypeOK OBVIOUS
  <1>1. now \in Day BY ClockAssumption DEF Init, Day
  <1>2. NoTurn \in Turn BY DEF NoTurn, Turn, None
  <1>3. turn \in [Day -> Turn] BY <1>2 DEF Init
  <1> QED BY <1>1, <1>3 DEF Init, TypeOK

LEMMA TypeStep == TypeOK /\ [Next]_vars => TypeOK'
  <1> SUFFICES ASSUME TypeOK, [Next]_vars PROVE TypeOK' OBVIOUS
  <1>1. CASE TodayStr BY <1>1 DEF TodayStr, TypeOK, dailyVars
  <1>2. CASE GetDailyQuestion
    <2>1. date \in Day BY <1>2 DEF GetDailyQuestion, TypeOK
    <2>2. CASE FoundRow
      <3>1. schedule[date] \in QuestionId BY <2>1, <2>2 DEF FoundRow, TypeOK
      <3>2. told' \in [Day -> SUBSET QuestionId] BY <2>1, <2>2, <3>1, TellType DEF FoundRow
      <3> QED BY <1>2, <2>2, <3>2 DEF GetDailyQuestion, FoundRow, TypeOK
    <2>3. CASE Generate
      BY <1>2, <2>1, <2>3, GenerateType DEF GetDailyQuestion, TypeOK
    <2> QED BY <1>2, <2>2, <2>3 DEF GetDailyQuestion, FoundRow
  <1>3. ASSUME NEW row \in Question, AddQuestion(row) PROVE TypeOK'
    BY <1>3 DEF AddQuestion, TypeOK, dailyVars
  <1>4. ASSUME NEW row \in Question, NEW q \in QuestionId, UpdateQuestion(q, row)
        PROVE TypeOK'
    BY <1>4 DEF UpdateQuestion, TypeOK, dailyVars
  <1>5. ASSUME NEW q \in QuestionId, DeleteQuestion(q) PROVE TypeOK'
    BY <1>5 DEF DeleteQuestion, TypeOK, dailyVars
  <1>6. CASE Midnight
    <2>1. now' \in Day BY <1>6, ClockAssumption DEF Midnight, NextDate, TypeOK, Day
    <2> QED BY <1>6, <2>1 DEF Midnight, NextDate, TypeOK, dailyVars
  <1>7. CASE Restart
    <2>1. base' \in Day \cup {None} BY <1>7 DEF Restart, TypeOK, BaseDate
    <2> QED BY <1>7, <2>1 DEF Restart, TypeOK
  <1>8. CASE UNCHANGED vars BY <1>8 DEF vars, TypeOK
  <1> QED BY <1>1, <1>2, <1>3, <1>4, <1>5, <1>6, <1>7, <1>8 DEF Next

(***************************************************************************)
(* Every state of the daily question is well typed; in particular nothing  *)
(* but an id of the questions table is ever scheduled or told.             *)
(***************************************************************************)
THEOREM DailyTypeCorrect == Spec => []TypeOK
  <1> QED BY TypeInit, TypeStep, PTL DEF Spec

\* What one run of getDailyQuestion does to the row and to what is told.
LEMMA AskStep ==
  ASSUME TypeOK, GetDailyQuestion
  PROVE  /\ \A d \in Day : schedule[d] # None => schedule'[d] = schedule[d]
         /\ \A d \in Day : told'[d] # told[d] =>
              /\ schedule'[d] # None
              /\ told'[d] = told[d] \cup {schedule'[d]}
  <1>1. date \in Day BY DEF GetDailyQuestion, TypeOK
  <1>2. CASE FoundRow BY <1>1, <1>2 DEF FoundRow, Tell, TypeOK
  <1>3. CASE Generate
    <2>1. CASE Categories = {} BY <1>3, <2>1 DEF Generate, dailyVars
    <2>2. CASE Categories # {}
      <3>1. PICK c \in Categories : \E q \in Pool(c) :
               schedule' = InsertIgnore(q) /\ Tell(schedule'[date])
        BY <1>3, <2>2 DEF Generate
      <3>2. PICK q \in Pool(c) : schedule' = InsertIgnore(q) /\ Tell(schedule'[date])
        BY <3>1
      <3>3. q \in QuestionId BY PoolIsFinite
      <3>4. /\ schedule'[date] \in QuestionId
            /\ \A d \in Day : schedule[d] # None => schedule'[d] = schedule[d]
        BY <1>1, <3>2, <3>3, ScheduleType
      <3>5. schedule'[date] # None BY <3>4, DailyAssumption DEF None
      <3>6. \A d \in Day : told'[d] # told[d] =>
               d = date /\ told'[d] = told[d] \cup {schedule'[d]}
        BY <1>1, <3>2 DEF Tell, TypeOK
      <3> QED BY <3>4, <3>5, <3>6
    <2> QED BY <2>1, <2>2
  <1> QED BY <1>2, <1>3 DEF GetDailyQuestion, FoundRow

LEMMA RowsStay ==
  TypeOK /\ [Next]_vars => \A d \in Day : schedule[d] # None => schedule'[d] = schedule[d]
  <1> SUFFICES ASSUME TypeOK, [Next]_vars
               PROVE  \A d \in Day : schedule[d] # None => schedule'[d] = schedule[d]
    OBVIOUS
  <1>1. CASE GetDailyQuestion BY <1>1, AskStep
  <1>2. CASE schedule' = schedule BY <1>2
  <1> QED BY <1>1, <1>2 DEF Next, vars, TodayStr, AddQuestion, UpdateQuestion,
             DeleteQuestion, Midnight, Restart, dailyVars, NextDate

(***************************************************************************)
(* README.md:890: what daily_questions says of a day it says for good,     *)
(* whatever happens to the bank.                                           *)
(***************************************************************************)
THEOREM ScheduleIsImmutable ==
  Spec => [][\A d \in Day : schedule[d] # None => schedule'[d] = schedule[d]]_vars
  <1> QED BY DailyTypeCorrect, RowsStay, PTL DEF Spec

(***************************************************************************)
(* All clients are told the same question for the same day, for any bank,  *)
(* any edits and any number of days.                                       *)
(***************************************************************************)
THEOREM EveryoneGetsTheSame == Spec => []SameQuestionForAll
  <1>1. Init => SameQuestionForAll BY DEF Init, SameQuestionForAll
  <1>2. TypeOK /\ SameQuestionForAll /\ [Next]_vars => SameQuestionForAll'
    <2> SUFFICES ASSUME TypeOK, SameQuestionForAll, [Next]_vars,
                        NEW d \in Day
                 PROVE  told'[d] \subseteq {schedule'[d]} \ {None}
      BY DEF SameQuestionForAll
    <2>1. told[d] \subseteq {schedule[d]} \ {None} BY DEF SameQuestionForAll
    <2>2. schedule[d] # None => schedule'[d] = schedule[d] BY RowsStay
    <2>3. told[d] \subseteq {schedule'[d]} \ {None} BY <2>1, <2>2
    <2>4. CASE GetDailyQuestion
      <3>1. told'[d] # told[d] =>
               schedule'[d] # None /\ told'[d] = told[d] \cup {schedule'[d]}
        BY <2>4, AskStep
      <3> QED BY <2>3, <3>1
    <2>5. CASE told' = told BY <2>3, <2>5
    <2> QED BY <2>4, <2>5 DEF Next, vars, TodayStr, AddQuestion, UpdateQuestion,
               DeleteQuestion, Midnight, Restart, dailyVars, NextDate
  <1> QED BY <1>1, <1>2, DailyTypeCorrect, PTL DEF Spec

-----------------------------------------------------------------------------
(* Arithmetic of turns. *)

LEMMA SmallMultiple ==
    ASSUME NEW n \in Nat \ {0}, NEW q \in Int, NEW r \in Int, -n < r, r < n, n * q = r
    PROVE  r = 0
  <1> QED OBVIOUS

LEMMA Division ==
    ASSUME NEW n \in Nat \ {0}, NEW a \in Int
    PROVE  \E q \in Int, r \in 0..(n - 1) : a = n * q + r /\ a % n = r
  <1>1. a = n * (a \div n) + (a % n) /\ a % n \in 0..(n - 1) /\ a \div n \in Int
    OBVIOUS
  <1> QED BY <1>1

LEMMA SameRemainder ==
    ASSUME NEW n \in Nat \ {0}, NEW a \in Int, NEW b \in Int
    PROVE  a % n = b % n <=> (b - a) % n = 0
  <1>1. PICK p \in Int, r \in 0..(n - 1) : a = n * p + r /\ a % n = r
    BY Division
  <1>2. PICK q \in Int, s \in 0..(n - 1) : b = n * q + s /\ b % n = s
    BY Division
  <1>3. PICK d \in Int, t \in 0..(n - 1) : b - a = n * d + t /\ (b - a) % n = t
    BY Division
  <1>4. n * p \in Int /\ n * q \in Int /\ n * d \in Int
    OBVIOUS
  <1>5. n * ((q - p) - d) = ((n * q) - (n * p)) - (n * d)
    OBVIOUS
  <1>6. t = (n * ((q - p) - d)) + (s - r)
    BY <1>1, <1>2, <1>3, <1>4, <1>5
  <1>7. CASE r = s
    <2>1. n * ((q - p) - d) = t
      BY <1>5, <1>6, <1>7
    <2>2. (q - p) - d \in Int /\ -n < t /\ t < n /\ t \in Int
      OBVIOUS
    <2> QED BY <1>1, <1>2, <1>3, <1>7, <2>1, <2>2, SmallMultiple
  <1>8. CASE t = 0
    <2>1. n * ((q - p) - d) = r - s
      BY <1>4, <1>5, <1>6, <1>8
    <2>2. (q - p) - d \in Int /\ -n < r - s /\ r - s < n /\ r - s \in Int
      OBVIOUS
    <2>3. r - s = 0
      BY <2>1, <2>2, SmallMultiple
    <2> QED BY <1>1, <1>2, <1>3, <1>8, <2>3
  <1> QED BY <1>1, <1>2, <1>3, <1>7, <1>8

Below(z, S) == {w \in S : w < z}

LEMMA BelowGrows ==
    ASSUME NEW S \in SUBSET Nat, IsFiniteSet(S), NEW x \in S, NEW y \in S, y < x
    PROVE  /\ Below(y, S) \in SUBSET Below(x, S)
           /\ Below(y, S) # Below(x, S)
           /\ IsFiniteSet(Below(x, S))
  <1>1. x \in Nat /\ y \in Nat /\ \A w \in S : w \in Nat
    OBVIOUS
  <1>2. \A w \in Below(y, S) : w \in Below(x, S)
    BY <1>1 DEF Below
  <1>3. y \in Below(x, S) /\ y \notin Below(y, S)
    BY <1>1 DEF Below
  <1>4. Below(x, S) \in SUBSET S
    BY DEF Below
  <1> QED BY <1>2, <1>3, <1>4, FS_Subset

\* In a finite set of numbers no two have the same rank.
LEMMA RankIsInjective ==
    ASSUME NEW S \in SUBSET Nat, IsFiniteSet(S), NEW x \in S, NEW y \in S,
           Rank(x, S) = Rank(y, S)
    PROVE  x = y
  <1>1. ASSUME NEW u \in S, NEW v \in S, u < v PROVE Rank(u, S) # Rank(v, S)
    <2>1. /\ Below(u, S) \in SUBSET Below(v, S) /\ Below(u, S) # Below(v, S)
          /\ IsFiniteSet(Below(v, S))
      BY <1>1, BelowGrows
    <2>2. Cardinality(Below(u, S)) # Cardinality(Below(v, S))
      BY <2>1, FS_Subset
    <2> QED BY <2>2 DEF Rank, Below
  <1>2. x \in Nat /\ y \in Nat
    OBVIOUS
  <1> QED BY <1>1, <1>2

\* A finite set of numbers has a least element.
LEMMA LeastElement ==
    ASSUME NEW S \in SUBSET Nat, IsFiniteSet(S), S # {}
    PROVE  \E x \in S : \A y \in S : x <= y
  <1> DEFINE Belows == {Below(z, S) : z \in S}
             R == StrictSubsetOrdering(S)
  <1>1. Belows \subseteq FiniteSubsetsOf(S) /\ Belows # {}
    <2>1. \A z \in S : Below(z, S) \in SUBSET S
      BY DEF Below
    <2>2. FiniteSubsetsOf(S) = SUBSET S
      BY FS_FiniteSubsetsOfFinite
    <2>3. Belows \subseteq SUBSET S /\ Belows # {}
      BY <2>1
    <2> QED BY <2>2, <2>3
  <1>2. IsWellFoundedOn(R, FiniteSubsetsOf(S))
    BY FS_StrictSubsetOrderingWellFounded
  <1>3. PICK B \in Belows : \A C \in Belows : ~(<<C, B>> \in R)
    <2> HIDE DEF Belows, R
    <2> QED BY <1>1, <1>2, WFMin
  <1>4. PICK x \in S : B = Below(x, S)
    OBVIOUS
  <1>5. ASSUME NEW y \in S, y < x PROVE FALSE
    <2>1. /\ Below(y, S) \in SUBSET Below(x, S) /\ Below(y, S) # Below(x, S)
          /\ Below(x, S) \in SUBSET S
      <3>1. Below(x, S) \in SUBSET S
        BY DEF Below
      <3> QED BY <1>5, <3>1, BelowGrows
    <2>2. <<Below(y, S), Below(x, S)>> \in R
      BY <2>1 DEF StrictSubsetOrdering
    <2> QED BY <1>3, <1>4, <2>2
  <1>6. \A y \in S : y \in Nat /\ x \in Nat
    OBVIOUS
  <1> QED BY <1>5, <1>6

-----------------------------------------------------------------------------
(* What a choice is made from. *)

LEMMA CategoriesAreFinite == TypeOK => IsFiniteSet(Categories)
  <1> SUFFICES ASSUME TypeOK PROVE IsFiniteSet(Categories) OBVIOUS
  <1> DEFINE f == [q \in Published |-> bank[q].category]
  <1>1. IsFiniteSet(Published)
    BY DailyAssumption, FS_Subset DEF Published
  <1>2. f \in Surjection(Published, Categories)
    BY DEF Surjection, Categories
  <1> QED BY <1>1, <1>2, FS_Surjection

\* A call of getDailyQuestion stores no row, or one that it has chosen.
Choice ==
    \E c \in Categories : \E q \in Pool(c) :
        /\ InTurn(c) /\ Picked(q, Pool(c))
        /\ base' = BaseDate
        /\ schedule[date] = None
        /\ schedule' = [schedule EXCEPT ![date] = q]
        /\ turn' = [turn EXCEPT ![date] = [cats |-> Categories, category |-> c,
                                           size |-> Cardinality(Pool(c))]]

LEMMA GetChooses ==
    ASSUME TypeOK, GetDailyQuestion
    PROVE  Choice \/ (UNCHANGED <<schedule, turn>> /\ base' \in {base, BaseDate})
  <1>1. date \in Day BY DEF GetDailyQuestion, TypeOK
  <1>2. CASE FoundRow \/ Categories = {}
    BY <1>2 DEF GetDailyQuestion, FoundRow, Generate, dailyVars
  <1>3. CASE ~FoundRow /\ Categories # {}
    <2> DEFINE Made(c, q) ==
             /\ InTurn(c) /\ Picked(q, Pool(c))
             /\ base' = BaseDate
             /\ schedule' = InsertIgnore(q)
             /\ turn' = IF schedule' = schedule THEN turn
                        ELSE [turn EXCEPT ![date] = [cats |-> Categories, category |-> c,
                                                     size |-> Cardinality(Pool(c))]]
    <2>0. PICK c \in Categories : \E q \in Pool(c) : Made(c, q)
      BY <1>3 DEF GetDailyQuestion, FoundRow, Generate
    <2>1. PICK q \in Pool(c) : Made(c, q)
      BY <2>0
    <2>2. CASE schedule[date] # None
      BY <2>1, <2>2 DEF InsertIgnore
    <2>3. CASE schedule[date] = None
      <3>1. q # None /\ schedule' = [schedule EXCEPT ![date] = q]
        BY <2>1, <2>3, PoolIsFinite, DailyAssumption DEF InsertIgnore, None
      <3>2. schedule' # schedule
        BY <1>1, <2>3, <3>1 DEF TypeOK
      <3> QED BY <2>1, <2>3, <3>1, <3>2 DEF Choice
    <2> QED BY <2>2, <2>3
  <1> QED BY <1>2, <1>3

\* Nothing else touches rows, and time goes on.
LEMMA OtherSteps ==
    ASSUME TypeOK, [Next]_vars, ~GetDailyQuestion
    PROVE  /\ UNCHANGED <<schedule, turn>>
           /\ base' \in {base, BaseDate}
           /\ base' # base => date # None
           /\ now <= now'
           /\ date' \in {date, None} \/ (date' = now /\ now' = now)
  <1>1. now \in Nat BY DEF TypeOK, Day
  <1> QED BY <1>1 DEF Next, vars, TodayStr, AddQuestion, UpdateQuestion, DeleteQuestion,
             Midnight, Restart, dailyVars, NextDate

(***************************************************************************)
(* The order of things: the base date and the stored rows are of days that *)
(* are not after the day a call works for, nor after today.                *)
(***************************************************************************)
InOrder(d) == d <= now /\ (date # None => d <= date)

Ordered ==
    /\ date <= now
    /\ base # None => InOrder(base)
    /\ \A d \in Day : schedule[d] # None => InOrder(d)

LEMMA OrderedStep ==
    ASSUME TypeOK, Ordered, [Next]_vars
    PROVE  Ordered'
  <1>1. now \in Nat /\ date \in Nat /\ base \in Nat /\ Day \subseteq Nat
    BY ClockAssumption DEF TypeOK, Day, None
  <1>2. CASE GetDailyQuestion
    <2>1. date # None /\ date' = None /\ now' = now /\ date \in Day
      BY <1>2 DEF GetDailyQuestion, TypeOK
    <2>2. base' # None => base' <= now
      BY <1>1, <1>2, <2>1, GetChooses DEF Choice, BaseDate, Ordered, InOrder
    <2>3. \A d \in Day : schedule'[d] # None => d <= now
      <3>1. \A d \in Day : schedule'[d] = schedule[d] \/ d = date
        BY <1>2, GetChooses DEF Choice, TypeOK
      <3> QED BY <1>1, <3>1 DEF Ordered, InOrder
    <2> QED BY <1>1, <2>1, <2>2, <2>3 DEF Ordered, InOrder, None
  <1>3. CASE ~GetDailyQuestion
    <2>1. /\ schedule' = schedule /\ base' \in {base, BaseDate}
          /\ base' # base => date # None
          /\ now <= now'
          /\ date' \in {date, None} \/ (date' = now /\ now' = now)
      BY <1>3, OtherSteps
    <2>2. now' \in Nat /\ date' \in Nat
      BY TypeStep, ClockAssumption DEF TypeOK, Day, None
    <2>3. ASSUME NEW d \in Nat, InOrder(d) PROVE InOrder(d)'
      BY <1>1, <2>1, <2>2, <2>3 DEF InOrder, None
    <2>4. date' <= now'
      BY <1>1, <2>1, <2>2 DEF Ordered, None
    <2>5. \A d \in Day : schedule'[d] # None => InOrder(d)'
      BY <1>1, <2>1, <2>3 DEF Ordered
    <2>6. base' # None => InOrder(base)'
      <3>1. CASE base' = base
        BY <1>1, <2>3, <3>1 DEF Ordered, InOrder
      <3>2. CASE base' # base
        <4>1. base' = date /\ InOrder(date)
          BY <1>1, <2>1, <3>2 DEF BaseDate, Ordered, InOrder
        <4>2. date <= now' /\ (date' # None => date <= date')
          BY <1>1, <2>1, <2>2, <3>2, <4>1 DEF InOrder, None
        <4> QED BY <4>1, <4>2 DEF InOrder
      <3> QED BY <3>1, <3>2
    <2> QED BY <2>4, <2>5, <2>6 DEF Ordered
  <1> QED BY <1>2, <1>3

LEMMA OrderedInit == Init => Ordered
  BY ClockAssumption DEF Init, Ordered, InOrder, None, Day

-----------------------------------------------------------------------------
(* The rotation. *)

\* A stored turn is the one due on its day: as far on as days have passed since the base date.
Due(t, d, first) ==
    /\ t.cats \in SUBSET Nat /\ IsFiniteSet(t.cats) /\ t.category \in t.cats
    /\ first # None /\ first <= d
    /\ Rank(t.category, t.cats) = (d - first) % Cardinality(t.cats)

TurnsDue == \A d \in Day : turn[d] = NoTurn \/ Due(turn[d], d, base)

LEMMA TurnsDueStep ==
    ASSUME TypeOK, Ordered, TurnsDue, [Next]_vars
    PROVE  TurnsDue'
  <1>1. base \in Nat /\ date \in Nat
    BY ClockAssumption DEF TypeOK, Day, None
  <1>2. \A d \in Day : turn[d] # NoTurn => base' = base
    <2>1. base # None => BaseDate = base
      BY DEF BaseDate
    <2>2. base' \in {base, BaseDate}
      BY OtherSteps, GetChooses DEF Choice
    <2> QED BY <2>1, <2>2 DEF TurnsDue, Due
  <1>3. CASE turn' = turn
    BY <1>2, <1>3 DEF TurnsDue, Due
  <1>4. CASE GetDailyQuestion /\ Choice
    <2>0. date \in Day
      BY <1>4 DEF GetDailyQuestion, TypeOK
    <2>1. PICK c \in Categories :
             /\ InTurn(c)
             /\ base' = BaseDate
             /\ \E n : turn' = [turn EXCEPT ![date] = [cats |-> Categories, category |-> c,
                                                       size |-> n]]
      BY <1>4 DEF Choice
    <2>2. /\ turn'[date].cats = Categories /\ turn'[date].category = c
          /\ \A d \in Day \ {date} : turn'[d] = turn[d]
      BY <2>0, <2>1 DEF TypeOK
    <2>3. BaseDate # None /\ BaseDate <= date /\ DayIndex = date - BaseDate
      BY <1>1, <2>0 DEF BaseDate, DayIndex, Ordered, InOrder, Day, None
    <2>4. Categories \in SUBSET Nat /\ IsFiniteSet(Categories)
      BY CategoriesType, CategoriesAreFinite, DailyAssumption
    <2>5. Due(turn'[date], date, base')
      BY <2>1, <2>2, <2>3, <2>4 DEF Due, InTurn
    <2> QED BY <1>2, <2>2, <2>5 DEF TurnsDue, Due
  <1> QED BY <1>3, <1>4, GetChooses, OtherSteps

(***************************************************************************)
(* README.md:886-887: the categories take turns by calendar day, for any   *)
(* bank, any edits, any days left out and any number of categories.        *)
(***************************************************************************)
THEOREM CategoriesTakeTurns == Spec => []CategoriesRotate
  <1>1. Init => TurnsDue
    BY DEF Init, TurnsDue
  <1>2. TypeOK /\ TurnsDue => CategoriesRotate
    <2> SUFFICES ASSUME TypeOK, TurnsDue, NEW d \in Day, NEW e \in Day,
                        turn[d].size > 0, turn[e].cats = turn[d].cats
                 PROVE  turn[d].category = turn[e].category
                          <=> (e - d) % Cardinality(turn[d].cats) = 0
      BY DEF CategoriesRotate
    <2> DEFINE cats == turn[d].cats
               n == Cardinality(cats)
    <2>1. Due(turn[d], d, base)
      BY DEF TurnsDue, NoTurn
    <2>2. cats # {}
      BY <2>1 DEF Due
    <2>3. Due(turn[e], e, base)
      BY <2>2 DEF TurnsDue, NoTurn
    <2>4. n \in Nat \ {0}
      BY <2>1, <2>2, FS_CardinalityType, FS_EmptySet DEF Due
    <2>5. d - base \in Int /\ e - base \in Int /\ (e - base) - (d - base) = e - d
      <3>1. base \in Int
        BY ClockAssumption DEF TypeOK, Day, None
      <3>2. d \in Int /\ e \in Int
        BY DEF Day
      <3> QED BY <3>1, <3>2
    <2>6. (d - base) % n = (e - base) % n <=> (e - d) % n = 0
      <3> HIDE DEF n
      <3>1. ASSUME NEW a \in Int, NEW b \in Int, b - a = e - d
            PROVE  a % n = b % n <=> (e - d) % n = 0
        <4>1. a % n = b % n <=> (b - a) % n = 0
          BY <2>4, SameRemainder
        <4> QED BY <3>1, <4>1
      <3> QED BY <2>5, <3>1
    <2>7. /\ Rank(turn[d].category, cats) = (d - base) % n
          /\ Rank(turn[e].category, cats) = (e - base) % n
          /\ cats \in SUBSET Nat /\ IsFiniteSet(cats)
          /\ turn[d].category \in cats /\ turn[e].category \in cats
      BY <2>1, <2>3 DEF Due
    <2>8. turn[d].category = turn[e].category <=>
            Rank(turn[d].category, cats) = Rank(turn[e].category, cats)
      <3> HIDE DEF cats
      <3> QED BY <2>7, RankIsInjective
    <2> QED BY <2>6, <2>7, <2>8
  <1> QED BY <1>1, <1>2, TurnsDueStep, OrderedInit, OrderedStep, DailyTypeCorrect, PTL DEF Spec

-----------------------------------------------------------------------------
(* The window. *)

RowsBeforeDate == {d \in Day : d < date /\ schedule[d] # None}
After(r) == {s \in RowsBeforeDate : s > r}
LastRows == {r \in RowsBeforeDate : Cardinality(After(r)) < RecentDays}

LEMMA RowsAreFinite ==
    ASSUME NEW S \in SUBSET Day
    PROVE  S \in SUBSET Nat /\ IsFiniteSet(S) /\ Cardinality(S) \in Nat
  <1>1. IsFiniteSet(Day) /\ Day \subseteq Nat
    BY ClockAssumption, FS_Interval DEF Day
  <1>2. IsFiniteSet(S)
    BY <1>1, FS_Subset
  <1> QED BY <1>1, <1>2, FS_CardinalityType

\* There are RecentDays of them at most: all but the first come after it.
LEMMA LastRowsAreFew == Cardinality(LastRows) <= RecentDays
  <1>1. LastRows \in SUBSET Day
    BY DEF LastRows, RowsBeforeDate
  <1>2. IsFiniteSet(LastRows) /\ LastRows \in SUBSET Nat /\ Cardinality(LastRows) \in Nat
    BY <1>1, RowsAreFinite
  <1>3. CASE LastRows = {}
    BY <1>3, FS_EmptySet, DailyAssumption
  <1>4. CASE LastRows # {}
    <2>1. PICK first \in LastRows : \A r \in LastRows : first <= r
      BY <1>2, <1>4, LeastElement
    <2>2. LastRows \ {first} \in SUBSET After(first)
      <3>1. \A r \in LastRows : r \in Nat /\ first \in Nat /\ r \in RowsBeforeDate
        BY <1>2 DEF LastRows
      <3> QED BY <2>1, <3>1 DEF After
    <2>3. IsFiniteSet(After(first)) /\ Cardinality(After(first)) \in Nat
      <3>1. After(first) \in SUBSET Day
        BY DEF After, RowsBeforeDate
      <3> QED BY <3>1, RowsAreFinite
    <2>4. Cardinality(After(first)) < RecentDays
      BY <2>1 DEF LastRows
    <2>5. Cardinality(LastRows \ {first}) <= Cardinality(After(first))
      BY <2>2, <2>3, FS_Subset
    <2>6. Cardinality(LastRows \ {first}) = Cardinality(LastRows) - 1
      BY <1>2, <2>1, FS_RemoveElement
    <2> QED BY <1>2, <2>3, <2>4, <2>5, <2>6, DailyAssumption
  <1> QED BY <1>3, <1>4

LEMMA RecentAreFew ==
    ASSUME TypeOK
    PROVE  /\ Recent = {schedule[d] : d \in LastRows}
           /\ IsFiniteSet(Recent) /\ Cardinality(Recent) <= RecentDays
  <1> DEFINE f == [d \in LastRows |-> schedule[d]]
  <1>1. Recent = {schedule[d] : d \in LastRows}
    BY DEF Recent, LastRows, After, RowsBeforeDate
  <1>2. f \in Surjection(LastRows, Recent)
    BY <1>1 DEF Surjection
  <1>3. IsFiniteSet(LastRows) /\ Cardinality(LastRows) \in Nat
    <2>1. LastRows \in SUBSET Day
      BY DEF LastRows, RowsBeforeDate
    <2> QED BY <2>1, RowsAreFinite
  <1>4. IsFiniteSet(Recent) /\ Cardinality(Recent) <= Cardinality(LastRows)
    BY <1>2, <1>3, FS_Surjection
  <1>5. Cardinality(Recent) \in Nat
    BY <1>4, FS_CardinalityType
  <1> QED BY <1>1, <1>3, <1>4, <1>5, LastRowsAreFew, DailyAssumption

\* A stored row less than the window ago is one of the last.
LEMMA NearRowsAreLast ==
    ASSUME TypeOK, date \in Day, NEW d \in Day, d < date, date <= d + RecentDays,
           schedule[d] # None
    PROVE  d \in LastRows
  <1>1. d \in Nat /\ date \in Nat /\ RecentDays \in Nat
    BY ClockAssumption, DailyAssumption DEF Day
  <1>2. After(d) \in SUBSET ((d + 1)..(date - 1))
    <2>1. \A s \in After(d) : s \in Nat /\ d < s /\ s < date
      BY DEF After, RowsBeforeDate, Day
    <2>2. \A s \in After(d) : s \in (d + 1)..(date - 1)
      BY <1>1, <2>1
    <2> QED BY <2>2
  <1>3. /\ IsFiniteSet((d + 1)..(date - 1))
        /\ Cardinality((d + 1)..(date - 1)) = date - 1 - d
    <2>1. d + 1 \in Int /\ date - 1 \in Int
      BY <1>1
    <2>2. /\ IsFiniteSet((d + 1)..(date - 1))
          /\ Cardinality((d + 1)..(date - 1)) =
               IF d + 1 > date - 1 THEN 0 ELSE (date - 1) - (d + 1) + 1
      BY <2>1, FS_Interval
    <2> QED BY <1>1, <2>2
  <1>4. Cardinality(After(d)) <= date - 1 - d /\ Cardinality(After(d)) \in Nat
    <2> DEFINE between == (d + 1)..(date - 1)
    <2>1. IsFiniteSet(between) /\ Cardinality(between) = date - 1 - d
      BY <1>3
    <2>2. After(d) \in SUBSET between
      BY <1>2
    <2> HIDE DEF between
    <2>3. IsFiniteSet(After(d)) /\ Cardinality(After(d)) <= Cardinality(between)
      BY <2>1, <2>2, FS_Subset
    <2> QED BY <2>1, <2>3, FS_CardinalityType
  <1>5. Cardinality(After(d)) < RecentDays
    BY <1>1, <1>4
  <1> QED BY <1>5 DEF LastRows, RowsBeforeDate

\* A question that was shown less than the window ago is taken from a small pool only.
LEMMA PickedIsFresh ==
    ASSUME TypeOK, date \in Day, NEW c, NEW q \in Pool(c), Picked(q, Pool(c)),
           NEW d \in Day, d < date, date <= d + RecentDays, schedule[d] = q, q # None
    PROVE  Cardinality(Pool(c)) <= RecentDays
  <1>1. q \in Recent
    BY NearRowsAreLast, RecentAreFew
  <1>2. Pool(c) \ Recent = {}
    BY <1>1 DEF Picked
  <1>3. Cardinality(Pool(c)) <= Cardinality(Recent)
    BY <1>2, RecentAreFew, FS_Subset
  <1>4. Cardinality(Pool(c)) \in Nat /\ Cardinality(Recent) \in Nat
    BY PoolIsFinite, RecentAreFew, FS_CardinalityType
  <1> QED BY <1>3, <1>4, RecentAreFew, DailyAssumption

LEMMA WindowStep ==
    ASSUME TypeOK, Ordered, NoRepeatWithinWindow, [Next]_vars
    PROVE  NoRepeatWithinWindow'
  <1>1. CASE UNCHANGED <<schedule, turn>>
    BY <1>1 DEF NoRepeatWithinWindow
  <1>2. CASE GetDailyQuestion /\ Choice
    <2>0. date \in Day
      BY <1>2 DEF GetDailyQuestion, TypeOK
    <2>1. PICK c \in Categories : \E q \in Pool(c) :
             /\ Picked(q, Pool(c))
             /\ schedule[date] = None
             /\ schedule' = [schedule EXCEPT ![date] = q]
             /\ turn' = [turn EXCEPT ![date] = [cats |-> Categories, category |-> c,
                                                size |-> Cardinality(Pool(c))]]
      BY <1>2 DEF Choice
    <2>2. PICK q \in Pool(c) :
             /\ Picked(q, Pool(c))
             /\ schedule[date] = None
             /\ schedule' = [schedule EXCEPT ![date] = q]
             /\ turn' = [turn EXCEPT ![date] = [cats |-> Categories, category |-> c,
                                                size |-> Cardinality(Pool(c))]]
      BY <2>1
    <2>3. /\ schedule'[date] = q /\ turn'[date].size = Cardinality(Pool(c))
          /\ \A d \in Day \ {date} : schedule'[d] = schedule[d] /\ turn'[d] = turn[d]
      BY <2>0, <2>2 DEF TypeOK
    <2> SUFFICES ASSUME NEW d \in Day, NEW e \in Day, d < e, e <= d + RecentDays,
                        schedule'[d] # None, schedule'[e] = schedule'[d]
                 PROVE  turn'[e].size <= RecentDays
      BY DEF NoRepeatWithinWindow
    <2>4. d \in Nat /\ e \in Nat /\ date \in Nat
      BY <2>0 DEF Day
    <2>5. CASE e = date
      <3>1. d # date /\ schedule[d] = q /\ q # None
        BY <2>3, <2>4, <2>5
      <3> QED BY <2>0, <2>2, <2>3, <2>5, <3>1, PickedIsFresh
    <2>6. CASE d = date
      <3>1. schedule[e] # None /\ date # None
        BY <2>0, <2>3, <2>4, <2>6 DEF Day, None
      <3>2. e <= date
        BY <3>1 DEF Ordered, InOrder
      <3> QED BY <2>4, <2>6, <3>2
    <2>7. CASE d # date /\ e # date
      BY <2>3, <2>7 DEF NoRepeatWithinWindow
    <2> QED BY <2>5, <2>6, <2>7
  <1> QED BY <1>1, <1>2, GetChooses, OtherSteps

(***************************************************************************)
(* README.md:888: no question comes back within RecentDays days unless the *)
(* category had no more than RecentDays questions, for any bank, any edits *)
(* of it and any days left out.                                            *)
(***************************************************************************)
THEOREM NoEarlyRepetition == Spec => []NoRepeatWithinWindow
  <1>1. Init => NoRepeatWithinWindow
    BY DEF Init, NoRepeatWithinWindow
  <1> QED BY <1>1, WindowStep, OrderedInit, OrderedStep, DailyTypeCorrect, PTL DEF Spec

-----------------------------------------------------------------------------
(***************************************************************************)
(* Streaks.  DailyStreak is another part of the same program, which has    *)
(* the clock in common with DailyQuestion.                                 *)
(***************************************************************************)
\* What DailyStreak computes from the rows of one visitor, of the days D of these rows alone.
DaysOf(rows, v) == {d \in Day : <<d, v>> \in rows}
NewestOf(D) == {d \in D : Cardinality({e \in D : e > d}) < StreakCap}
LastOf(D) == IF D = {} THEN 0 ELSE CHOOSE d \in D : \A e \in D : e <= d
StreakOf(D, today) ==
    LET expected == IF today \in D THEN today ELSE today - 1 IN
    CHOOSE n \in 0..StreakCap :
        /\ \A i \in 0..(n - 1) : expected - i \in NewestOf(D)
        /\ n = StreakCap \/ expected - n \notin NewestOf(D)

\* n of the days D follow on each other up to day e.
IsRun(n, D, e) ==
    /\ n \in 0..StreakCap
    /\ \A i \in 0..(n - 1) : e - i \in D
    /\ n = StreakCap \/ e - n \notin D

LEMMA RunIsUnique ==
    ASSUME StreakCap \in Nat, NEW D, NEW e \in Int, NEW m, NEW n, IsRun(m, D, e), IsRun(n, D, e)
    PROVE  m = n
  <1>1. m \in 0..StreakCap /\ n \in 0..StreakCap
    BY DEF IsRun
  <1>2. ~(m < n)
    <2> SUFFICES ASSUME m < n PROVE FALSE
      OBVIOUS
    <2>1. m \in 0..(n - 1) /\ m # StreakCap
      BY <1>1
    <2> QED BY <2>1 DEF IsRun
  <1>3. ~(n < m)
    <2> SUFFICES ASSUME n < m PROVE FALSE
      OBVIOUS
    <2>1. n \in 0..(m - 1) /\ n # StreakCap
      BY <1>1
    <2> QED BY <2>1 DEF IsRun
  <1> QED BY <1>1, <1>2, <1>3

LEMMA RunExists ==
    ASSUME StreakCap \in Nat, NEW D, NEW e \in Int
    PROVE  \E n \in 0..StreakCap : IsRun(n, D, e)
  <1> DEFINE Ends == {k \in 0..StreakCap : k = StreakCap \/ e - k \notin D}
  <1>1. Ends \in SUBSET (0..StreakCap) /\ Ends \in SUBSET Nat /\ StreakCap \in Ends
    OBVIOUS
  <1>2. IsFiniteSet(Ends)
    <2>1. 0 \in Int /\ StreakCap \in Int OBVIOUS
    <2>2. IsFiniteSet(0..StreakCap) BY <2>1, FS_Interval
    <2> HIDE DEF Ends
    <2> QED BY <1>1, <2>2, FS_Subset
  <1>3. PICK n \in Ends : \A k \in Ends : n <= k
    <2> HIDE DEF Ends
    <2> QED BY <1>1, <1>2, LeastElement
  <1>4. ASSUME NEW i \in 0..(n - 1) PROVE e - i \in D
    <2>1. i \in 0..StreakCap /\ ~(n <= i)
      OBVIOUS
    <2> QED BY <1>3, <2>1
  <1> QED BY <1>3, <1>4 DEF IsRun

\* The last day is one of them, and none comes after it.
LEMMA LastIsGreatest ==
    ASSUME MaxDay \in Nat, NEW D \in SUBSET Day
    PROVE  /\ LastOf(D) \in 0..MaxDay
           /\ \A d \in D : d <= LastOf(D)
           /\ LastOf(D) \in D \/ LastOf(D) = 0
  <1> DEFINE Bounds == {k \in 0..MaxDay : \A d \in D : d <= k}
  <1>1. D \subseteq 1..MaxDay
    BY DEF Day
  <1>2. Bounds \in SUBSET (0..MaxDay) /\ Bounds \in SUBSET Nat /\ MaxDay \in Bounds
    BY <1>1
  <1>3. IsFiniteSet(Bounds)
    <2>1. 0 \in Int /\ MaxDay \in Int OBVIOUS
    <2>2. IsFiniteSet(0..MaxDay) BY <2>1, FS_Interval
    <2> HIDE DEF Bounds
    <2> QED BY <1>2, <2>2, FS_Subset
  <1>4. PICK k \in Bounds : \A l \in Bounds : k <= l
    <2> HIDE DEF Bounds
    <2> QED BY <1>2, <1>3, LeastElement
  <1>5. CASE D = {}
    BY <1>5 DEF LastOf
  <1>6. CASE D # {}
    <2>1. k \in D
      <3> SUFFICES ASSUME k \notin D PROVE FALSE
        OBVIOUS
      <3>1. k > 0
        <4>1. PICK d \in D : TRUE BY <1>6
        <4> QED BY <1>1, <4>1
      <3>2. \A d \in D : d <= k - 1 BY <1>1
      <3>3. k - 1 \in Bounds BY <3>1, <3>2
      <3> QED BY <1>4, <3>3
    <2>2. LastOf(D) \in D /\ \A d \in D : d <= LastOf(D)
      BY <1>6, <2>1 DEF LastOf
    <2>3. LastOf(D) \in 1..MaxDay BY <1>1, <2>2
    <2> QED BY <2>2, <2>3
  <1> QED BY <1>5, <1>6

LEMMA LastIs ==
    ASSUME NEW D \in SUBSET Nat, NEW m \in D, \A d \in D : d <= m
    PROVE  LastOf(D) = m
  <1>1. \A d \in D : (\A f \in D : f <= d) => d = m
    OBVIOUS
  <1> QED BY <1>1 DEF LastOf

\* ORDER BY d DESC LIMIT StreakCap leaves out no day that the streak could count.
LEMMA NewestAreEnough ==
    ASSUME StreakCap \in Nat, NEW D \in SUBSET Nat, NEW e \in Int, \A d \in D : d <= e,
           NEW i \in 0..(StreakCap - 1)
    PROVE  e - i \in NewestOf(D) <=> e - i \in D
  <1> DEFINE Newer == {f \in D : f > e - i}
  <1>1. Newer \in SUBSET ((e - i + 1)..e)
    <2>1. \A f \in Newer : f \in Int /\ f <= e /\ f > e - i OBVIOUS
    <2>2. i \in Int OBVIOUS
    <2>3. \A f \in Newer : f \in (e - i + 1)..e BY <2>1, <2>2
    <2> QED BY <2>3
  <1>2. IsFiniteSet((e - i + 1)..e) /\ Cardinality((e - i + 1)..e) = i
    <2>1. e - i + 1 \in Int BY StreakCap \in Nat
    <2>2. IF e - i + 1 > e THEN i = 0 ELSE e - (e - i + 1) + 1 = i BY StreakCap \in Nat
    <2> QED BY <2>1, <2>2, FS_Interval
  <1>3. IsFiniteSet(Newer) /\ Cardinality(Newer) <= i
    BY <1>1, <1>2, FS_Subset
  <1>4. Cardinality(Newer) \in Nat
    BY <1>3, FS_CardinalityType
  <1>5. Cardinality(Newer) < StreakCap
    BY <1>3, <1>4
  <1> QED BY <1>5 DEF NewestOf

LEMMA SameRun ==
    ASSUME StreakCap \in Nat, NEW D \in SUBSET Nat, NEW e \in Int, \A d \in D : d <= e, NEW n
    PROVE  IsRun(n, NewestOf(D), e) <=> IsRun(n, D, e)
  <1>1. \A i \in 0..(StreakCap - 1) : e - i \in NewestOf(D) <=> e - i \in D
    BY NewestAreEnough
  <1> HIDE DEF NewestOf
  <1>2. CASE n \in 0..StreakCap
    <2>1. \A i \in 0..(n - 1) : i \in 0..(StreakCap - 1) BY <1>2
    <2>2. n # StreakCap => n \in 0..(StreakCap - 1) BY <1>2
    <2> QED BY <1>1, <2>1, <2>2 DEF IsRun
  <1>3. CASE n \notin 0..StreakCap
    BY <1>3 DEF IsRun
  <1> QED BY <1>2, <1>3

(***************************************************************************)
(* The streak on a day, when no later day is recorded, is the length of    *)
(* the run up to that day, or to the day before.                           *)
(***************************************************************************)
LEMMA StreakIsTheRun ==
    ASSUME StreakCap \in Nat, NEW D \in SUBSET Nat, NEW today \in Nat, \A d \in D : d <= today,
           NEW n, IsRun(n, D, IF today \in D THEN today ELSE today - 1)
    PROVE  StreakOf(D, today) = n
  <1> DEFINE expected == IF today \in D THEN today ELSE today - 1
  <1>1. expected \in Int /\ \A d \in D : d <= expected
    OBVIOUS
  <1>2. IsRun(n, NewestOf(D), expected)
    BY <1>1, SameRun
  <1>3. \A m : IsRun(m, NewestOf(D), expected) => m = n
    <2> SUFFICES ASSUME NEW m, IsRun(m, NewestOf(D), expected) PROVE m = n
      OBVIOUS
    <2> HIDE DEF expected
    <2> QED BY <1>1, <1>2, RunIsUnique
  <1>4. StreakOf(D, today) =
          CHOOSE m \in 0..StreakCap :
              /\ \A i \in 0..(m - 1) : expected - i \in NewestOf(D)
              /\ m = StreakCap \/ expected - m \notin NewestOf(D)
    BY DEF StreakOf
  <1> HIDE DEF expected
  <1> QED BY <1>2, <1>3, <1>4 DEF IsRun

LEMMA DaysType ==
    ASSUME NEW rows, NEW v
    PROVE  DaysOf(rows, v) \in SUBSET Day /\ DaysOf(rows, v) \in SUBSET Nat
  <1> QED BY DEF DaysOf, Day

LEMMA LastRun ==
    ASSUME MaxDay \in Nat, StreakCap \in Nat, NEW D \in SUBSET Day
    PROVE  IsRun(StreakOf(D, LastOf(D)), D, LastOf(D))
  <1> DEFINE last == LastOf(D)
  <1>1. D \in SUBSET Nat /\ 0 \notin D
    BY DEF Day
  <1>2. last \in Nat /\ (\A d \in D : d <= last) /\ (last \in D \/ last = 0)
    BY LastIsGreatest
  <1> HIDE DEF last
  <1>3. CASE last \in D
    <2>1. PICK n \in 0..StreakCap : IsRun(n, D, last)
      BY <1>2, RunExists
    <2>2. StreakOf(D, last) = n
      BY <1>1, <1>2, <1>3, <2>1, StreakIsTheRun
    <2> QED BY <2>1, <2>2 DEF last
  <1>4. CASE last \notin D
    <2>1. last = 0 /\ D = {}
      <3>1. last = 0 BY <1>2, <1>4
      <3>2. \A d \in D : d \in Nat /\ d <= 0 /\ d # 0 BY <1>1, <1>2, <3>1
      <3>3. \A d \in D : FALSE BY <3>2
      <3> QED BY <3>1, <3>3
    <2>2. IsRun(0, D, last - 1) /\ IsRun(0, D, last)
      BY <2>1 DEF IsRun
    <2>3. StreakOf(D, last) = 0
      BY <1>1, <1>2, <1>4, <2>2, StreakIsTheRun
    <2> QED BY <2>2, <2>3 DEF last
  <1> QED BY <1>3, <1>4

(***************************************************************************)
(* The streak today, from the streak on the last day: as long on this day  *)
(* and the next, nothing from then on.                                     *)
(***************************************************************************)
LEMMA StreakToday ==
    ASSUME MaxDay \in Nat, StreakCap \in Nat, NEW D \in SUBSET Day,
           NEW today \in Nat \ {0}, \A d \in D : d <= today
    PROVE  StreakOf(D, today) = IF LastOf(D) + 1 >= today THEN StreakOf(D, LastOf(D)) ELSE 0
  <1> DEFINE last == LastOf(D)
             n == StreakOf(D, LastOf(D))
  <1>1. D \in SUBSET Nat /\ 0 \notin D
    BY DEF Day
  <1>2. last \in Nat /\ (\A d \in D : d <= last) /\ (last \in D \/ last = 0)
    BY LastIsGreatest
  <1>3. IsRun(n, D, last)
    BY LastRun
  <1>4. last <= today
    BY <1>2
  <1> HIDE DEF last, n
  <1>5. CASE last = today
    <2>1. today \in D BY <1>2, <1>5
    <2>2. StreakOf(D, today) = n BY <1>1, <1>3, <1>5, <2>1, StreakIsTheRun
    <2> QED BY <1>2, <1>5, <2>2 DEF last, n
  <1>6. CASE last + 1 = today
    <2>1. today \notin D /\ last = today - 1 BY <1>2, <1>6
    <2>2. StreakOf(D, today) = n BY <1>1, <1>3, <2>1, StreakIsTheRun
    <2> QED BY <1>2, <1>6, <2>2 DEF last, n
  <1>7. CASE last + 1 < today
    <2>1. today \notin D /\ today - 1 \notin D BY <1>2, <1>7
    <2>2. IsRun(0, D, today - 1) BY <2>1 DEF IsRun
    <2>3. StreakOf(D, today) = 0 BY <1>1, <2>1, <2>2, StreakIsTheRun
    <2>4. ~(last + 1 >= today) BY <1>2, <1>7
    <2> QED BY <2>3, <2>4 DEF last
  <1> QED BY <1>2, <1>4, <1>5, <1>6, <1>7

(***************************************************************************)
(* The first answer of day d raises the streak, or starts one.             *)
(***************************************************************************)
LEMMA NewDay ==
    ASSUME MaxDay \in Nat, StreakCap \in Nat \ {0}, NEW D \in SUBSET Day,
           NEW d \in Day, d \notin D, \A f \in D : f <= d
    PROVE  /\ LastOf(D) < d /\ LastOf(D \cup {d}) = d
           /\ StreakOf(D \cup {d}, d) =
                Counter!Capped(IF LastOf(D) + 1 = d THEN StreakOf(D, LastOf(D)) + 1 ELSE 1)
  <1> DEFINE last == LastOf(D)
             n == StreakOf(D, LastOf(D))
             E == D \cup {d}
  <1>1. D \in SUBSET Nat /\ d \in Nat \ {0} /\ E \in SUBSET Nat
    BY DEF Day
  <1>2. last \in Nat /\ (\A f \in D : f <= last) /\ (last \in D \/ last = 0)
    BY LastIsGreatest
  <1>3. IsRun(n, D, last)
    BY LastRun
  <1>4. n \in 0..StreakCap
    BY <1>3 DEF IsRun
  <1> HIDE DEF last, n
  <1>5. last < d
    BY <1>1, <1>2
  <1>6. d \in E /\ \A f \in E : f <= d
    BY <1>1
  <1>7. LastOf(E) = d
    <2> HIDE DEF E
    <2> QED BY <1>1, <1>6, LastIs
  <1>8. \A m : IsRun(m, E, d) => StreakOf(E, d) = m
    <2> HIDE DEF E
    <2> QED BY <1>1, <1>6, StreakIsTheRun
  <1>9. CASE last + 1 = d
    <2>1. \A i \in 0..n : d - i \in E
      <3> TAKE i \in 0..n
      <3>1. CASE i = 0 BY <1>1, <3>1
      <3>2. CASE i # 0
        <4>1. i - 1 \in 0..(n - 1) /\ d - i = last - (i - 1) BY <1>1, <1>2, <1>4, <1>9, <3>2
        <4> QED BY <1>3, <4>1 DEF IsRun
      <3> QED BY <3>1, <3>2
    <2>2. CASE n = StreakCap
      <3>1. IsRun(n, E, d) BY <1>4, <2>1, <2>2 DEF IsRun
      <3>2. Counter!Capped(n + 1) = n
        BY <1>4, <2>2 DEF Counter!Capped
      <3> QED BY <1>5, <1>7, <1>8, <1>9, <3>1, <3>2 DEF last, n
    <2>3. CASE n # StreakCap
      <3>1. last - n \notin D BY <1>3, <2>3 DEF IsRun
      <3>2. d - (n + 1) = last - n /\ d - (n + 1) # d BY <1>1, <1>2, <1>4, <1>9
      <3>3. d - (n + 1) \notin E BY <3>1, <3>2
      <3>4. n + 1 \in 0..StreakCap /\ \A i \in 0..((n + 1) - 1) : i \in 0..n BY <1>4, <2>3
      <3>5. IsRun(n + 1, E, d) 
        <4> HIDE DEF E
        <4> QED BY <2>1, <3>3, <3>4 DEF IsRun
      <3>6. Counter!Capped(n + 1) = n + 1
        BY <3>4, <1>4 DEF Counter!Capped
      <3> QED BY <1>5, <1>7, <1>8, <1>9, <3>5, <3>6 DEF last, n
    <2> QED BY <2>2, <2>3
  <1>10. CASE last + 1 # d
    <2>1. d - 1 \notin E BY <1>1, <1>2, <1>5, <1>10
    <2>2. 1 \in 0..StreakCap /\ \A i \in 0..(1 - 1) : d - i = d BY <1>1
    <2>3. IsRun(1, E, d)
      <3> HIDE DEF E
      <3> QED BY <1>6, <2>1, <2>2 DEF IsRun
    <2>4. Counter!Capped(1) = 1
      BY DEF Counter!Capped
    <2> QED BY <1>5, <1>7, <1>8, <1>10, <2>3, <2>4 DEF last, n
  <1> QED BY <1>9, <1>10

LEMMA StreakOfRows ==
    ASSUME NEW v
    PROVE  /\ DaysSeen(v) = DaysOf(seen, v)
           /\ Last(v) = LastOf(DaysOf(seen, v))
           /\ \A today : Streak(v, today) = StreakOf(DaysOf(seen, v), today)
  <1>1. DaysSeen(v) = DaysOf(seen, v)
    BY DEF DaysSeen, DaysOf
  <1>2. Newest(v) = NewestOf(DaysOf(seen, v))
    BY <1>1 DEF Newest, NewestOf
  <1> HIDE DEF DaysOf, NewestOf
  <1>3. Last(v) = LastOf(DaysOf(seen, v))
    BY <1>1 DEF Last, LastOf
  <1>4. \A today : Streak(v, today) = StreakOf(DaysOf(seen, v), today)
    BY <1>1, <1>2 DEF Streak, StreakOf, Expected
  <1> QED BY <1>1, <1>3, <1>4

LEMMA StreakTypeInit == StreakInit => StreakTypeOK
  <1> QED BY ClockAssumption DEF StreakInit, StreakTypeOK, Day

LEMMA StreakTypeStep ==
    ASSUME StreakTypeOK, [StreakNext]_streakVars
    PROVE  StreakTypeOK'
  <1> USE DEF StreakTypeOK, Day
  <1>1. ASSUME NEW v \in Visitor, GetDailyAnswer(v) PROVE StreakTypeOK'
    BY <1>1 DEF GetDailyAnswer, Answering
  <1>2. CASE RecordSeen
    <2>1. call.date \in Day /\ call.visitor \in Visitor
      BY <1>2 DEF RecordSeen, Answering
    <2> QED BY <1>2, <2>1 DEF RecordSeen
  <1>3. CASE StreakMidnight
    BY <1>3, ClockAssumption DEF StreakMidnight, NextDate
  <1>4. CASE StreakRestart
    BY <1>4 DEF StreakRestart
  <1>5. CASE UNCHANGED streakVars
    BY <1>5 DEF streakVars
  <1> QED BY <1>1, <1>2, <1>3, <1>4, <1>5 DEF StreakNext

(***************************************************************************)
(* DailyStreak's variables have the types it declares, for every number of *)
(* visitors and every cap.                                                 *)
(***************************************************************************)
THEOREM StreakTypeCorrect == StreakSpec => []StreakTypeOK
  <1>1. StreakInit => StreakTypeOK
    BY StreakTypeInit
  <1>2. StreakTypeOK /\ [StreakNext]_streakVars => StreakTypeOK'
    BY StreakTypeStep
  <1> QED BY <1>1, <1>2, PTL DEF StreakSpec

(***************************************************************************)
(* What makes the table a counter: no day is recorded that has not come,   *)
(* and none after the date a call has read, however long it stays on its   *)
(* way (mtx_ keeps every other call out).                                  *)
(***************************************************************************)
DaysInOrder ==
    /\ \A row \in seen : row[1] <= now
    /\ call # Idle => call.date <= now /\ \A row \in seen : row[1] <= call.date

LEMMA DaysInOrderStep ==
    ASSUME StreakTypeOK, DaysInOrder, [StreakNext]_streakVars
    PROVE  DaysInOrder'
  <1>0. now \in Nat /\ \A row \in seen : row[1] \in Nat
    BY DEF StreakTypeOK, Day
  <1>1. ASSUME NEW v \in Visitor, GetDailyAnswer(v) PROVE DaysInOrder'
    BY <1>0, <1>1 DEF GetDailyAnswer, DaysInOrder
  <1>2. CASE RecordSeen
    <2>1. \A row \in seen' : row \in seen \/ row = <<call.date, call.visitor>>
      BY <1>2 DEF RecordSeen
    <2>2. \A row \in seen' : row[1] <= now
      BY <1>2, <2>1 DEF RecordSeen, DaysInOrder
    <2> QED BY <1>2, <2>2 DEF RecordSeen, DaysInOrder
  <1>3. CASE StreakMidnight
    <2>1. call # Idle => call.date \in Nat
      BY DEF StreakTypeOK, Answering, Day
    <2> QED BY <1>0, <1>3, <2>1 DEF StreakMidnight, NextDate, DaysInOrder
  <1>4. CASE StreakRestart
    BY <1>4 DEF StreakRestart, DaysInOrder
  <1>5. CASE UNCHANGED streakVars
    BY <1>5 DEF streakVars, DaysInOrder
  <1> QED BY <1>1, <1>2, <1>3, <1>4, <1>5 DEF StreakNext

LEMMA ShownFollows ==
    ASSUME StreakTypeOK, DaysInOrder
    PROVE  StreakShown
  <1> SUFFICES ASSUME NEW v \in Visitor
               PROVE  Streak(v, now) =
                        IF Last(v) + 1 >= now THEN Streak(v, Last(v)) ELSE 0
    BY DEF StreakShown, Counter!Streak
  <1>1. MaxDay \in Nat /\ StreakCap \in Nat
    BY ClockAssumption, StreakAssumption
  <1>2. now \in Nat \ {0}
    BY DEF StreakTypeOK, Day
  <1>3. \A d \in DaysOf(seen, v) : d <= now
    BY DEF DaysInOrder, DaysOf
  <1> QED BY <1>1, <1>2, <1>3, DaysType, StreakToday, StreakOfRows

(***************************************************************************)
(* One step of DailyStreak is one of the counter, or none.                 *)
(***************************************************************************)
\* The counters that StreakIsCounted reads off the table.
LastDays == [v \in Visitor |-> LastOf(DaysOf(seen, v))]
Runs == [v \in Visitor |-> StreakOf(DaysOf(seen, v), LastOf(DaysOf(seen, v)))]
ReadOff ==
    /\ [v \in Visitor |-> Last(v)] = LastDays
    /\ [v \in Visitor |-> Streak(v, Last(v))] = Runs

LEMMA CountersReadOff == ReadOff
  <1> QED BY StreakOfRows DEF ReadOff, LastDays, Runs

LEMMA RecordIsAnswer ==
    ASSUME StreakTypeOK, DaysInOrder, RecordSeen
    PROVE  [Counter!Next]_(Counter!vars)
  <1> DEFINE d == call.date
             v == call.visitor
  <1>1. MaxDay \in Nat /\ StreakCap \in Nat \ {0}
    BY ClockAssumption, StreakAssumption
  <1>2. d \in Day /\ v \in Visitor /\ d <= now
    BY DEF RecordSeen, StreakTypeOK, Answering, DaysInOrder
  <1>3. \A f \in DaysOf(seen, v) : f <= d
    BY DEF RecordSeen, DaysInOrder, DaysOf
  <1>4. now' = now /\ (seen' = seen \/ seen' = seen \cup {<<d, v>>})
    BY DEF RecordSeen
  <1> HIDE DEF d, v
  <1>5. ReadOff /\ ReadOff'
    BY CountersReadOff, PTL
  <1>6. CASE seen' = seen
    <2>1. LastDays' = LastDays /\ Runs' = Runs
      BY <1>6 DEF LastDays, Runs
    <2> QED BY <1>4, <1>5, <2>1 DEF Counter!vars, ReadOff
  <1>7. CASE seen' = seen \cup {<<d, v>>} /\ <<d, v>> \notin seen
    <2>1. \A w \in Visitor :
             DaysOf(seen', w) = IF w = v THEN DaysOf(seen, v) \cup {d} ELSE DaysOf(seen, w)
      BY <1>2, <1>7 DEF DaysOf
    <2>2. d \notin DaysOf(seen, v)
      BY <1>7 DEF DaysOf
    <2>3. /\ LastOf(DaysOf(seen, v)) < d /\ LastOf(DaysOf(seen', v)) = d
          /\ StreakOf(DaysOf(seen', v), d) =
               Counter!Capped(
                   IF LastOf(DaysOf(seen, v)) + 1 = d
                   THEN StreakOf(DaysOf(seen, v), LastOf(DaysOf(seen, v))) + 1 ELSE 1)
      BY <1>1, <1>2, <1>3, <2>1, <2>2, NewDay, DaysType
    <2>4. LastDays' = [LastDays EXCEPT ![v] = d]
      BY <1>2, <2>1, <2>3 DEF LastDays
    <2>5. Runs' = [Runs EXCEPT ![v] = Counter!Capped(
                                         IF LastDays[v] + 1 = d THEN Runs[v] + 1 ELSE 1)]
      BY <1>2, <2>1, <2>3 DEF LastDays, Runs
    <2>6. LastDays[v] < d
      BY <1>2, <2>3 DEF LastDays
    <2>7. Counter!Answer(v, d)
      BY <1>2, <1>4, <1>5, <2>4, <2>5, <2>6 DEF Counter!Answer, ReadOff
    <2> QED BY <1>2, <2>7 DEF Counter!Next, Day
  <1> QED BY <1>4, <1>6, <1>7

LEMMA StepImplementsStep ==
    ASSUME StreakTypeOK, DaysInOrder, [StreakNext]_streakVars
    PROVE  [Counter!Next]_(Counter!vars)
  <1>1. ReadOff /\ ReadOff'
    BY CountersReadOff, PTL
  <1>2. seen' = seen => LastDays' = LastDays /\ Runs' = Runs
    BY DEF LastDays, Runs
  <1>3. seen' = seen /\ now' = now => UNCHANGED Counter!vars
    BY <1>1, <1>2 DEF Counter!vars, ReadOff
  <1>4. ASSUME NEW v \in Visitor, GetDailyAnswer(v)
        PROVE  [Counter!Next]_(Counter!vars)
    BY <1>3, <1>4 DEF GetDailyAnswer
  <1>5. CASE RecordSeen
    BY <1>5, RecordIsAnswer
  <1>6. CASE StreakMidnight
    BY <1>1, <1>2, <1>6 DEF StreakMidnight, Counter!Next, Counter!Midnight, NextDate,
                            ReadOff
  <1>7. CASE StreakRestart
    BY <1>3, <1>7 DEF StreakRestart
  <1>8. CASE UNCHANGED streakVars
    BY <1>3, <1>8 DEF streakVars
  <1> QED BY <1>4, <1>5, <1>6, <1>7, <1>8 DEF StreakNext

LEMMA InitImplementsInit ==
    ASSUME StreakInit
    PROVE  Counter!Init
  <1>1. \A v \in Visitor : DaysOf(seen, v) = {}
    BY DEF StreakInit, DaysOf
  <1>2. LastOf({}) = 0
    BY DEF LastOf
  <1>3. StreakOf({}, 0) = 0
    <2>1. MaxDay \in Nat /\ StreakCap \in Nat BY ClockAssumption, StreakAssumption
    <2>2. IsRun(0, {}, 0 - 1) BY <2>1 DEF IsRun
    <2> QED BY <2>1, <2>2, StreakIsTheRun
  <1>4. LastDays = [v \in Visitor |-> 0] /\ Runs = [v \in Visitor |-> 0]
    BY <1>1, <1>2, <1>3 DEF LastDays, Runs
  <1> QED BY <1>4, CountersReadOff DEF ReadOff, StreakInit, Counter!Init

(***************************************************************************)
(* README.md:898-906: getDailyStreak counts what a counter per visitor     *)
(* would, whatever the number of visitors and the cap, also when midnight  *)
(* or a crash falls between reading the date and recording the answer.     *)
(***************************************************************************)
THEOREM StreakIsACounter == StreakSpec => StreakIsCounted
  <1>1. StreakInit => StreakTypeOK /\ DaysInOrder /\ Counter!Init
    BY StreakTypeInit, InitImplementsInit DEF StreakInit, DaysInOrder
  <1>2. StreakTypeOK /\ DaysInOrder /\ [StreakNext]_streakVars
          => /\ StreakTypeOK' /\ DaysInOrder'
             /\ [Counter!Next]_(Counter!vars)
    BY StreakTypeStep, DaysInOrderStep, StepImplementsStep
  <1> QED BY <1>1, <1>2, PTL DEF StreakSpec, StreakIsCounted, Counter!Spec

(***************************************************************************)
(* README.md:902-904: the streak shown is that counter today and the day   *)
(* after, and 0 from then on: midnight alone takes no one's streak away.   *)
(***************************************************************************)
THEOREM StreakIsShownRight == StreakSpec => []StreakShown
  <1>1. StreakInit => StreakTypeOK /\ DaysInOrder
    BY StreakTypeInit DEF StreakInit, DaysInOrder
  <1>2. StreakTypeOK /\ DaysInOrder /\ [StreakNext]_streakVars
          => StreakTypeOK' /\ DaysInOrder'
    BY StreakTypeStep, DaysInOrderStep
  <1>3. StreakTypeOK /\ DaysInOrder => StreakShown
    BY ShownFollows
  <1> QED BY <1>1, <1>2, <1>3, PTL DEF StreakSpec

=============================================================================
