------------------------------ MODULE MCPosts ------------------------------
(* Small instances of Posts for TLC. *)
EXTENDS Posts, TLC

Symmetry == Permutations(Editor) \cup Permutations(Token)

=============================================================================
