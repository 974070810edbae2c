--------------------------- MODULE MCTaskDecisions ---------------------------
EXTENDS TaskDecisions, TLC

Symmetry == Permutations(Workers) \cup Permutations(Clients) \cup Permutations(Option)
=============================================================================
