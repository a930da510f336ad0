-------------------------- MODULE MCCacheLearning --------------------------
(***************************************************************************)
(* Constant values for model checking CacheLearning.                       *)
(***************************************************************************)
EXTENDS CacheLearning, TLC

\* Every route keeps a cache for two units; the adapter has no hint.
MCTrueTTL == [r \in Routes |-> 2]
MCNone == Unknown

Symmetry == Permutations(Sessions) \cup Permutations(Contents) \cup Permutations(Routes)

=============================================================================
