--------------------------- MODULE MCTimeBilling ---------------------------
(* Small instances of TimeBilling for TLC. *)
EXTENDS TimeBilling, TLC

CONSTANTS Other,   \* an entry for another project than the others, which captures may be
          Third    \* an entry made only while there are no invoices

OtherProject == CHOOSE p \in Project : p # TaskProject
AllButOne == [e \in Entry |-> IF e = Other THEN OtherProject ELSE TaskProject]

Symmetry ==
  Permutations(Users) \cup Permutations(Invoice) \cup Permutations(Capture) \cup Permutations(Workers)

\* Timers and captures are explored with three entries and no invoices, invoices
\* with two entries and no captures.
InBounds ==
  \/ unused = Invoice /\ \A w \in Workers : pc[w] # "generate"
  \/ Third \in fresh /\ \A c \in Capture : capture[c] = "none"
=============================================================================
