-------------------------- MODULE MCDailyQuestion ---------------------------
(* Small instances of DailyQuestion for TLC. *)
EXTENDS DailyQuestion, TLC

=============================================================================
