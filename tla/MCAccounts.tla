----------------------------- MODULE MCAccounts -----------------------------
(* Small instances of Accounts for TLC. *)
EXTENDS Accounts, TLC

\* Sound for invariants: Accounts tells no two threads or tokens apart.
Symmetry == Permutations(Worker) \cup Permutations(Token)

=============================================================================
