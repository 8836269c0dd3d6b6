--------------------------- MODULE StreakCounter ----------------------------
(***************************************************************************)
(* What the streak of a daily-question visitor is meant to be, without the *)
(* table it is computed from: one counter per visitor and the day it was   *)
(* last raised (README.md, 16.3).  DailyStreak implements it.              *)
(***************************************************************************)
EXTENDS Naturals

CONSTANTS Visitor, MaxDay, StreakCap

VARIABLES
    now,    \* today
    last,   \* last[v]: the day v last looked at an answer, 0 if never
    run     \* run[v]: how many days in a row he had by then

vars == <<now, last, run>>

Init == now = 1 /\ last = [v \in Visitor |-> 0] /\ run = [v \in Visitor |-> 0]

Capped(n) == IF n > StreakCap THEN StreakCap ELSE n

\* v looks at an answer on day d.  Midnight may pass before that is recorded.
Answer(v, d) ==
    /\ last[v] < d /\ d <= now
    /\ last' = [last EXCEPT ![v] = d]
    /\ run' = [run EXCEPT ![v] = Capped(IF last[v] + 1 = d THEN @ + 1 ELSE 1)]
    /\ UNCHANGED now

Midnight == now < MaxDay /\ now' = now + 1 /\ UNCHANGED <<last, run>>

Next == Midnight \/ \E v \in Visitor, d \in 1..MaxDay : Answer(v, d)

Spec == Init /\ [][Next]_vars

\* A run that a whole day without an answer has ended counts no more.
Streak(v) == IF last[v] + 1 >= now THEN run[v] ELSE 0

=============================================================================
