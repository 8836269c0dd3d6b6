----------------------------- MODULE DailyClock -----------------------------
(***************************************************************************)
(* The local date, which the question of the day and the streaks read      *)
(* through todayStr.  Nothing runs when it changes.                        *)
(***************************************************************************)
EXTENDS Integers

CONSTANT MaxDay   \* bound: the clock stops there

ASSUME ClockAssumption == MaxDay \in Nat \ {0}

Day == 1..MaxDay

VARIABLE now      \* the date todayStr returns

NextDate == now < MaxDay /\ now' = now + 1

=============================================================================
