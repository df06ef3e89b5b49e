--------------------------- MODULE MCCaseLibrary ---------------------------
EXTENDS CaseLibrary, TLC

\* The windows are interchangeable: no definition and no property names one of them.
WindowSymmetry == Permutations(Tabs)
=============================================================================
