----------------------------- MODULE MCPractice -----------------------------
(* Instance of Practice for TLC: one exercise of each kind in one chapter. *)
EXTENDS Practice, TLC

CONSTANTS a, b, k1, k2, s1, s2

MCExercise == 1..2
MCCoding == {1}
MCContents == 1 :> {1, 2}
MCVerdict == {"passed", "failed"}

\* Sound for what does not look at the future: tokens and slots are alike.
Symmetry == Permutations(Token) \cup Permutations(Slot) \cup Permutations(Tab)

=============================================================================
