----------------------------- MODULE MCMembership -----------------------------
EXTENDS Membership, TLC

Symmetry == Permutations(Person \ {Founder}) \cup Permutations(Row)
              \cup Permutations(Invitation) \cup Permutations(Workers)

\* Beside projects there are two members at a time, a third while there are none.
InBounds ==
  \/ Cardinality({r \in Row : row[r] # NoRow}) <= 2
  \/ \A p \in Project : project[p] = NoProject
=============================================================================
