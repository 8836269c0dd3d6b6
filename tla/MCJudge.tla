------------------------------ MODULE MCJudge -------------------------------
(* Judge for TLC; the bounds are in Judge.cfg. *)
EXTENDS Judge

=============================================================================
