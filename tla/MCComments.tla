----------------------------- MODULE MCComments -----------------------------
(* Small instances of Comments for TLC. *)
EXTENDS Comments, TLC

\* Sound for invariants and action properties: Comments tells no two tokens, channels
\* or comments apart.
Symmetry == Permutations(Token) \cup Permutations(Channel) \cup Permutations(Comment)

=============================================================================
