---------------------------- MODULE MCKnowledge ----------------------------
(* Knowledge instantiated for TLC.                                          *)
EXTENDS Knowledge

CONSTANTS log, nar, ref, e1, e2, e3

\* A narrative of a log, a reflection on it, and the narrative rewritten from
\* the reflection: a cycle.
Derivations == {<<nar, log>>, <<ref, nar>>, <<nar, ref>>}
=============================================================================
