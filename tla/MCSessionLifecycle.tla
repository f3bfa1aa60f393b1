------------------------- MODULE MCSessionLifecycle -------------------------
(* SessionLifecycle instantiated for TLC.                                   *)
EXTENDS SessionLifecycle, TLC

\* Policies with the same assembly profile are interchangeable.
Symmetry == Permutations(Policies \ LightPolicies)
=============================================================================
