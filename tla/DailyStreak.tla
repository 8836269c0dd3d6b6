---------------------------- MODULE DailyStreak -----------------------------
(***************************************************************************)
(* The days in a row on which a visitor looked at an answer.               *)
(*                                                                         *)
(* GET /api/daily/answer records the visitor (the blog_anon cookie) and    *)
(* the date in daily_seen; the streak is computed from these rows whenever *)
(* it is shown.  Both happen inside mtx_, but the date is read again for   *)
(* the computation, and midnight may pass between reading and recording.   *)
(* A visitor without a cookie is given one that nobody had before.         *)
(*                                                                         *)
(* Abstracted: the question looked at, which any published one may be.     *)
(***************************************************************************)
EXTENDS DailyClock, FiniteSets

CONSTANTS
    Visitor,      \* values of the blog_anon cookie
    StreakCap     \* 400 in the code

ASSUME StreakAssumption == StreakCap \in Nat \ {0}

VARIABLES
    seen,    \* daily_seen, the rows <<d, owner_token>>
    call     \* the getDailyAnswer inside mtx_, with the date it has read

streakVars == <<now, seen, call>>

Idle == [visitor |-> "none"]
Answering == [visitor : Visitor, date : Day]

StreakTypeOK ==
    /\ now \in Day
    /\ seen \subseteq Day \X Visitor
    /\ call \in {Idle} \cup Answering

StreakInit == now = 1 /\ seen = {} /\ call = Idle

-----------------------------------------------------------------------------
TodayUtc(v) ==   \* mutant: gmtime, which is behind the local date for some hours
    /\ call = Idle
    /\ call' = [visitor |-> v, date |-> now - 1]
    /\ UNCHANGED <<now, seen>>

\* getDailyAnswer has found a published question and reads the date.
GetDailyAnswer(v) ==
    /\ call = Idle
    /\ call' = [visitor |-> v, date |-> now]
    /\ UNCHANGED <<now, seen>>

\* INSERT IGNORE INTO daily_seen; nobody looks whether it succeeded.
RecordSeen ==
    /\ call # Idle
    /\ seen' \in {seen, seen \cup {<<call.date, call.visitor>>}}
    /\ call' = Idle
    /\ UNCHANGED now

StreakMidnight == NextDate /\ UNCHANGED <<seen, call>>

\* The process dies; daily_seen stays.
StreakRestart == call # Idle /\ call' = Idle /\ UNCHANGED <<now, seen>>

StreakNext ==
    \/ \E v \in Visitor : GetDailyAnswer(v)
    \/ RecordSeen \/ StreakMidnight \/ StreakRestart

StreakSpec == StreakInit /\ [][StreakNext]_streakVars

-----------------------------------------------------------------------------
DaysSeen(v) == {d \in Day : <<d, v>> \in seen}

\* ORDER BY d DESC LIMIT 400
OldestDays(v) ==   \* mutant: ORDER BY d LIMIT 400
    {d \in DaysSeen(v) : Cardinality({e \in DaysSeen(v) : e < d}) < StreakCap}
Newest(v) == {d \in DaysSeen(v) : Cardinality({e \in DaysSeen(v) : e > d}) < StreakCap}

FromTodayOnly(v, today) == today   \* mutant: yesterday's run is lost at midnight
Expected(v, today) == IF today \in DaysSeen(v) THEN today ELSE today - 1

\* getDailyStreak: the newest days, counted as long as they follow on each other.
Streak(v, today) ==
    LET expected == Expected(v, today) IN
    CHOOSE n \in 0..StreakCap :
        /\ \A i \in 0..(n - 1) : expected - i \in Newest(v)
        /\ n = StreakCap \/ expected - n \notin Newest(v)

\* What the counter of StreakCounter would be, read off the table.
Last(v) == IF DaysSeen(v) = {} THEN 0
           ELSE CHOOSE d \in DaysSeen(v) : \A e \in DaysSeen(v) : e <= d

Counter == INSTANCE StreakCounter WITH
             last <- [v \in Visitor |-> Last(v)],
             run <- [v \in Visitor |-> Streak(v, Last(v))]

-----------------------------------------------------------------------------
(***************************************************************************)
(* README.md:898-906: the streak computed from the table is a counter that *)
(* goes up by one with the first answer of each day and starts afresh      *)
(* after a day without, also when an answer given before midnight is       *)
(* recorded after it, when the process dies in between, and at the cap.    *)
(***************************************************************************)
StreakIsCounted == Counter!Spec

(***************************************************************************)
(* README.md:902-904: what is shown is that counter today and the day      *)
(* after (midnight by itself takes no one's streak away), and 0 from then. *)
(***************************************************************************)
StreakShown == \A v \in Visitor : Streak(v, now) = Counter!Streak(v)

=============================================================================
