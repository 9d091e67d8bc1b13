-------------------------- MODULE MC_JudgePipeline --------------------------
(***************************************************************************)
(* Small instances of JudgePipeline.                                       *)
(***************************************************************************)
EXTENDS JudgePipeline, TLC

Symmetry == Permutations(Submissions) \cup Permutations(Attempts)
              \cup Permutations(Admins)

=============================================================================
