----------------------------- MODULE MCInbound -----------------------------
(* Inbound instantiated for TLC.                                            *)
EXTENDS Inbound

CONSTANTS c1

\* Two flagged messages before a clean one, and a clean line.
FirstFlagged == {<<c1, 1>>, <<c1, 2>>}
=============================================================================
