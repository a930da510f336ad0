---------------------------- MODULE MCLeaseRelay ----------------------------
(***************************************************************************)
(* Constant values for model checking LeaseRelay.                          *)
(***************************************************************************)
EXTENDS LeaseRelay, TLC

\* Every fingerprint is a model of the same provider.
OneProvider == [f \in Fingerprints |-> "p"]

\* The deterministic jitter of a fingerprint: none, or the default 3% late.
NoJitter == [f \in Fingerprints |-> 0]
LateJitter == [f \in Fingerprints |-> 3]

\* The requests a configuration does not single out are interchangeable, and so
\* are sessions and fingerprints that differ in nothing.
RequestSymmetry == Permutations(Requests \ Unresolved)
SessionSymmetry == RequestSymmetry \cup Permutations(Sessions)
TimedSymmetry == SessionSymmetry \cup Permutations(Fingerprints)

=============================================================================
