--------------------------- MODULE DailyQuestion ----------------------------
(***************************************************************************)
(* The question of the day.                                                *)
(*                                                                         *)
(* Nothing runs at midnight: the first GET /api/daily of a day computes    *)
(* the day's question from the bank as it is then and stores it; the main  *)
(* administrator edits the bank at any time, between any two of them.      *)
(*                                                                         *)
(* All of it is DataBase methods, which mtx_ serialises.  getDailyQuestion *)
(* reads the date when it starts, and the clock may pass midnight before   *)
(* it chooses and writes: date is the date that the call inside mtx_ has   *)
(* read.  All else is in MySQL and survives a restart.                     *)
(*                                                                         *)
(* Abstracted: dates are day numbers (what daysFromDate makes of them),    *)
(* a category is a number, in the order of the names, and a question is    *)
(* its id.  The SELECT of step 1 may fail, upon which the code makes the   *)
(* choice again; that an INSERT or a later SELECT fails while the          *)
(* connection lives is not modelled.                                       *)
(***************************************************************************)
EXTENDS DailyClock, FiniteSets

CONSTANTS
    QuestionId,   \* every value questions.id takes
    Category,     \* numbers, ordered as the categories' names are
    RecentDays    \* 7 in the code

ASSUME DailyAssumption ==
    /\ QuestionId \subseteq Nat \ {0} /\ IsFiniteSet(QuestionId)
    /\ Category \subseteq Nat
    /\ RecentDays \in Nat

None == 0         \* no question id, no date

VARIABLES
    bank,       \* the questions table
    base,       \* settings.daily_base_date
    schedule,   \* daily_questions: the question stored for each day
    date,       \* the date getDailyQuestion inside mtx_ has read, or None
    told,       \* history: told[d]: the ids given to clients as d's question
    turn        \* history: what the choice for each day was made from

vars == <<now, bank, base, schedule, date, told, turn>>
dailyVars == <<base, schedule, told, turn>>

\* A row of questions, or the lack of it.  A draft's category is of no account.
Unused == [state |-> "unused"]
Deleted == [state |-> "deleted"]
Draft == [state |-> "draft"]
Question == {Draft} \cup [state : {"published"}, category : Category]

NoTurn == [cats |-> {}, category |-> None, size |-> 0]
Turn == [cats : SUBSET Category, category : Nat, size : Nat]

TypeOK ==
    /\ now \in Day
    /\ bank \in [QuestionId -> {Unused, Deleted} \cup Question]
    /\ base \in Day \cup {None}
    /\ schedule \in [Day -> QuestionId \cup {None}]
    /\ date \in Day \cup {None}
    /\ told \in [Day -> SUBSET QuestionId]
    /\ turn \in [Day -> Turn]

\* initTable creates the tables empty.
Init ==
    /\ now = 1
    /\ bank = [q \in QuestionId |-> Unused]
    /\ base = None
    /\ schedule = [d \in Day |-> None]
    /\ date = None
    /\ told = [d \in Day |-> {}]
    /\ turn = [d \in Day |-> NoTurn]

-----------------------------------------------------------------------------
Exists(q) == bank[q].state \in {"draft", "published"}
Published == {q \in QuestionId : bank[q].state = "published"}

\* ensureDailyQuestion, step 2: SELECT DISTINCT category ... WHERE status=1
Categories == {bank[q].category : q \in Published}
Pool(c) == {q \in Published : bank[q].category = c}

\* The index of x in S in ascending order, from 0.
Rank(x, S) == Cardinality({y \in S : y < x})

\* Step 3: the base date is the first day a question is asked for.
BaseDate == IF base = None THEN date ELSE base
RowsBefore ==   \* mutant: rows are counted, so missed days are not
    Cardinality({d \in Day : d < date /\ schedule[d] # None})
DayIndex == IF date < BaseDate THEN 0 ELSE date - BaseDate

\* Step 5: the last RecentDays rows of daily_questions before that date.
NoRecent == {}   \* mutant: only the rotation decides
Recent ==
    LET rows == {d \in Day : d < date /\ schedule[d] # None} IN
    {schedule[d] : d \in {r \in rows : Cardinality({s \in rows : s > r}) < RecentDays}}

(***************************************************************************)
(* Steps 4 and 5: the day index chooses the category and, within it, the   *)
(* question at which the probe starts; the probe takes the first that is   *)
(* not among the recent ones, or else the one it started at.               *)
(***************************************************************************)
InTurn(c) == Rank(c, Categories) = DayIndex % Cardinality(Categories)

Picked(q, pool) ==
    LET size == Cardinality(pool)
        start == (DayIndex \div Cardinality(Categories)) % size
        Steps(p) == (Rank(p, pool) - start + size) % size
        fresh == pool \ Recent IN
    IF fresh = {} THEN Steps(q) = 0
    ELSE q \in fresh /\ \A p \in fresh : Steps(q) <= Steps(p)

\* Step 6: INSERT IGNORE, the primary key keeps the row that is there.
Replace(q) == [schedule EXCEPT ![date] = q]   \* mutant: REPLACE INTO
InsertIgnore(q) == IF schedule[date] # None THEN schedule
                                            ELSE [schedule EXCEPT ![date] = q]

\* mutant: the row is not read back
TellOld(q) == told' = [told EXCEPT ![date] = @ \cup {schedule[date]}]
\* getDailyQuestion sends the id, unless the question is no longer in the bank.
Tell(q) == told' = IF Exists(q) THEN [told EXCEPT ![date] = @ \cup {q}] ELSE told

\* Steps 2 to 7, when step 1 found no row (or its SELECT failed).
Generate ==
    IF Categories = {} THEN UNCHANGED dailyVars
    ELSE \E c \in Categories : \E q \in Pool(c) :
           /\ InTurn(c)
           /\ Picked(q, Pool(c))
           /\ base' = BaseDate
           /\ schedule' = InsertIgnore(q)
           /\ Tell(schedule'[date])
           /\ turn' = IF schedule' = schedule THEN turn
                      ELSE [turn EXCEPT ![date] = [cats |-> Categories, category |-> c,
                                                   size |-> Cardinality(Pool(c))]]

-----------------------------------------------------------------------------
\* GET /api/daily: getDailyQuestion takes mtx_ and reads the date.
TodayStr ==
    /\ date = None
    /\ date' = now
    /\ UNCHANGED <<now, bank, dailyVars>>

GetDailyQuestion ==
    /\ date # None
    /\ \/ /\ schedule[date] # None
          /\ Tell(schedule[date])
          /\ UNCHANGED <<base, schedule, turn>>
       \/ Generate
    /\ date' = None
    /\ UNCHANGED <<now, bank>>

\* POST /api/questions: AUTO_INCREMENT gives the next id.
AddQuestion(row) ==
    /\ date = None
    /\ \E q \in QuestionId :
         /\ bank[q] = Unused
         /\ \A p \in QuestionId : p < q => bank[p] # Unused
         /\ bank' = [bank EXCEPT ![q] = row]
    /\ UNCHANGED <<now, date, dailyVars>>

\* PUT /api/questions/<id>
UpdateQuestion(q, row) ==
    /\ date = None
    /\ Exists(q)
    /\ bank' = [bank EXCEPT ![q] = row]
    /\ UNCHANGED <<now, date, dailyVars>>

\* DELETE /api/questions/<id>: the schedule keeps naming it.
DeleteQuestion(q) ==
    /\ date = None
    /\ Exists(q)
    /\ bank' = [bank EXCEPT ![q] = Deleted]
    /\ UNCHANGED <<now, date, dailyVars>>

Midnight == NextDate /\ UNCHANGED <<bank, date, dailyVars>>

\* The process dies inside getDailyQuestion; the base date may be stored by then.
Restart ==
    /\ date # None
    /\ base' \in {base} \cup (IF Categories = {} \/ schedule[date] # None THEN {}
                                                                       ELSE {BaseDate})
    /\ date' = None
    /\ UNCHANGED <<now, bank, schedule, told, turn>>

Next ==
    \/ TodayStr \/ GetDailyQuestion
    \/ \E row \in Question : \/ AddQuestion(row)
                             \/ \E q \in QuestionId : UpdateQuestion(q, row)
    \/ \E q \in QuestionId : DeleteQuestion(q)
    \/ Midnight \/ Restart

Spec == Init /\ [][Next]_vars

-----------------------------------------------------------------------------
(***************************************************************************)
(* README.md:889-890 and database.cpp:2376: whoever asks for a day's       *)
(* question gets the same one, the one in the schedule, however the bank   *)
(* changes during the day, whichever requests come first after midnight,   *)
(* and even when the first SELECT fails and the choice is made again.      *)
(***************************************************************************)
SameQuestionForAll ==
    \A d \in Day : told[d] \subseteq {schedule[d]} \ {None}

(***************************************************************************)
(* README.md:888: the rotation depends on the set of categories, which     *)
(* edits of the bank change, and may then land on a question it had just   *)
(* now.  No question comes back within RecentDays days unless the category *)
(* had no more than RecentDays questions to choose from.                   *)
(***************************************************************************)
NoRepeatWithinWindow ==
    \A d, e \in Day :
        d < e /\ e <= d + RecentDays /\ schedule[d] # None /\ schedule[e] = schedule[d]
          => turn[e].size <= RecentDays

(***************************************************************************)
(* README.md:886-887: the categories take turns by calendar day, not by    *)
(* row, so that days nobody visited shift nothing.  Two days whose choice  *)
(* was made from the same n categories have the same category exactly when *)
(* they are a multiple of n days apart.                                    *)
(***************************************************************************)
CategoriesRotate ==
    \A d, e \in Day :
        turn[d].size > 0 /\ turn[e].cats = turn[d].cats =>
          (turn[d].category = turn[e].category
             <=> (e - d) % Cardinality(turn[d].cats) = 0)

=============================================================================
