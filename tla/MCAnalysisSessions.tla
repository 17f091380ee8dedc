------------------------- MODULE MCAnalysisSessions -------------------------
\* Instances of AnalysisSessions for TLC.
EXTENDS AnalysisSessions, TLC

Symmetry == Permutations(Callers) \cup Permutations(Plans)
=============================================================================
