---------------------------- MODULE MC_Accounts -----------------------------
\* Accounts with interchangeable requests.
EXTENDS Accounts, TLC

Symmetry == Permutations(Requests)

=============================================================================
