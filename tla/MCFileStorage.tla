---------------------------- MODULE MCFileStorage ----------------------------
EXTENDS FileStorage, TLC

CONSTANT Large       \* the large files

\* The first file is small, the others are larger than what is left of the limit.
OneSmall == [r \in Rows |-> IF r \in Large THEN MaxSize ELSE 1]

\* Failures leave at most one object behind.
InBounds == Cardinality(waste) <= 1

Symmetry == Permutations(Large) \cup Permutations(Sig) \cup Permutations(Workers)
=============================================================================
