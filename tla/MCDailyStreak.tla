--------------------------- MODULE MCDailyStreak ----------------------------
(* Small instances of DailyStreak for TLC. *)
EXTENDS DailyStreak

=============================================================================
