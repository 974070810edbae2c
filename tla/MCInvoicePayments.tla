------------------------- MODULE MCInvoicePayments -------------------------
(* Small instances of InvoicePayments for TLC. *)
EXTENDS InvoicePayments, TLC

WorkerSymmetry ==
  Permutations(Workers) \cup Permutations(Session) \cup Permutations(Account)

\* Two accounts are switched in one step here, and nothing falls due: the requests
\* that save or clear settings and the overdue task are in the other run.
InBounds ==
  /\ due = "none"
  /\ \A w \in Workers : pc[w] \notin {"drop", "register", "save", "withdraw", "clear"}
=============================================================================
