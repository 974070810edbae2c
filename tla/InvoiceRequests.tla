-------------------------- MODULE InvoiceRequests --------------------------
(* The requests in flight that InvoicePayments and TimeBilling speak of: each  *)
(* is between two awaits of its handler, and keeps what it has read so far.    *)

CONSTANTS
  Workers,      \* API requests in flight together
  None

VARIABLES
  pc,           \* where each request is
  my            \* what each request has read

Goto(w, from, to) == pc[w] = from /\ pc' = [pc EXCEPT ![w] = to]
=============================================================================
