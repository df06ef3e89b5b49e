--------------------------- MODULE MCSessionShell ---------------------------
EXTENDS SessionShell, TLC

\* Slots are interchangeable; sessions are not (Bundled).
SlotSymmetry == Permutations(Slots)
=============================================================================
