--------------------------- MODULE MCDispatchQueue --------------------------
(* Instances of DispatchQueue for TLC: two library threads and three or    *)
(* four messages.                                                          *)
EXTENDS DispatchQueue, TLC

CONSTANTS c1, c2, m1, m2, m3, m4

MCCallers == {c1, c2}
MCMessages == {m1, m2, m3, m4}
MCFewMessages == {m1, m2, m3}
MCSymmetry == Permutations(MCCallers) \cup Permutations(MCMessages)
AnyBoolean == BOOLEAN
InitialisedFalse == {FALSE}
=============================================================================
