----------------------------- MODULE PlanBilling -----------------------------
(***************************************************************************)
(* Subscriptions of organizations (apps/api/src/billing).  Stripe is an    *)
(* external actor: it collects payments, keeps recurring subscriptions and *)
(* sends events at least once, in any order.                               *)
(*                                                                         *)
(* A recurring subscription is named by the session that paid for it.      *)
(* Prices and periods are left out; how limits bind is in FileStorage.     *)
(***************************************************************************)
EXTENDS Integers, FiniteSets

CONSTANTS
  Orgs,         \* organizations
  Customer,     \* identifiers of Stripe customers
  Session,      \* identifiers of Stripe checkout sessions
  Workers,      \* API requests in flight together
  Seats,        \* SubscriptionPlan.maxSeats of the lifetime plan
  None

Plans == {"free", "pro", "lifetime"}     \* "pro" is recurring

ASSUME PlanAssumption ==
  /\ IsFiniteSet(Orgs) /\ Seats \in Nat \ {0}
  /\ None \notin Orgs \cup Customer \cup Session \cup Plans

VARIABLES
  plan,       \* Subscription.planId; None: no such row
  status,     \* Subscription.status
  customer,   \* Subscription.stripeCustomerId
  paidBy,     \* Subscription.stripeSubscriptionId
  customers,  \* Stripe customers that exist
  session,    \* what each Stripe session was opened for
  checkout,   \* its state: "none", "open" or "paid"
  recurring,  \* the state of the subscription it pays for: "none" without one
  events,     \* events that may still be delivered
  raced,      \* history: a lifetime seat was sold while another was being sold
  replayed,   \* history: sessions whose completion came after their cancellation
  pc, my      \* where each request is, and what it knows

subVars == <<plan, status, customer, paidBy>>
stripeVars == <<customers, session, checkout, recurring>>
history == <<raced, replayed>>
vars == <<subVars, stripeVars, events, history, pc, my>>

Statuses == {"active", "past_due"}
Pc == {"idle", "init", "checkout", "ensure", "open"}
Memory == [org : Orgs \cup {None}, wish : Plans \cup {None}, customer : Customer \cup {None}]
Blank == [org |-> None, wish |-> None, customer |-> None]
Purpose == [org : Orgs \cup {None}, plan : Plans \cup {None}, customer : Customer \cup {None}]
NoPurpose == [org |-> None, plan |-> None, customer |-> None]
Event == [type : {"completed", "deleted"}, of : Session]

Goto(w, from, to) == pc[w] = from /\ pc' = [pc EXCEPT ![w] = to]
Remember(w, what) == my' = [my EXCEPT ![w] = what]
Forget(w) == Remember(w, Blank)

Taken == {o \in Orgs : plan[o] = "lifetime" /\ status[o] = "active"}
OrgsOf(c) == {o \in Orgs : customer[o] = c}

Init ==
  /\ plan = [o \in Orgs |-> None] /\ status = [o \in Orgs |-> "active"]
  /\ customer = [o \in Orgs |-> None] /\ paidBy = [o \in Orgs |-> None]
  /\ customers = {} /\ session = [s \in Session |-> NoPurpose]
  /\ checkout = [s \in Session |-> "none"] /\ recurring = [s \in Session |-> "none"]
  /\ events = {} /\ raced = FALSE /\ replayed = {}
  /\ pc = [w \in Workers |-> "idle"] /\ my = [w \in Workers |-> Blank]

----------------------------------------------------------------------------
(* initializeFreePlan(), at sign-up or when a subscription is looked up    *)
(* and not found: makes a Stripe customer, or goes on without one, then    *)
(* the row, which the unique organization may refuse.                      *)

InitRead(w, o) ==
  /\ Goto(w, "idle", "init")
  /\ plan[o] = None
  /\ Remember(w, [Blank EXCEPT !.org = o])
  /\ UNCHANGED <<subVars, stripeVars, events, history>>

InitWrite(w, c) ==
  /\ pc[w] = "init" /\ c \notin customers
  /\ plan[my[w].org] = None
  /\ customers' = IF c = None THEN customers ELSE customers \cup {c}
  /\ plan' = [plan EXCEPT ![my[w].org] = "free"]
  /\ customer' = [customer EXCEPT ![my[w].org] = c]
  /\ pc' = [pc EXCEPT ![w] = IF my[w].wish = None THEN "idle" ELSE "checkout"]
  /\ my' = IF my[w].wish = None THEN [my EXCEPT ![w] = Blank] ELSE my
  /\ UNCHANGED <<status, paidBy, session, checkout, recurring, events, history>>

\* Another request has made the row: the customer made for this one is left over.
InitFails(w, c) ==
  /\ Goto(w, "init", "idle") /\ c \notin customers
  /\ plan[my[w].org] # None
  /\ customers' = IF c = None THEN customers ELSE customers \cup {c}
  /\ Forget(w)
  /\ UNCHANGED <<subVars, session, checkout, recurring, events, history>>

----------------------------------------------------------------------------
(* createCheckoutSession() and createPortalSession(): the seats of the     *)
(* lifetime plan are counted first; then the subscription is looked up,    *)
(* with its customer, who may have to be made; then the session is opened. *)

SeatLeftOrOne(p) == p = "lifetime" => Cardinality(Taken) <= Seats  \* mutant: off by one
SeatLeft(p) == p = "lifetime" => Cardinality(Taken) < Seats

CheckoutRead(w, o, p) ==
  /\ Goto(w, "idle", "checkout")
  /\ SeatLeft(p)
  /\ Remember(w, [Blank EXCEPT !.org = o, !.wish = p])
  /\ UNCHANGED <<subVars, stripeVars, events, history>>

CheckoutFind(w) ==
  /\ pc[w] = "checkout"
  /\ LET o == my[w].org IN
       \/ /\ plan[o] = None /\ Goto(w, "checkout", "init") /\ UNCHANGED my
       \/ /\ plan[o] # None /\ customer[o] = None
          /\ Goto(w, "checkout", "ensure") /\ UNCHANGED my
       \/ /\ plan[o] # None /\ customer[o] # None
          /\ Goto(w, "checkout", "open")
          /\ Remember(w, [my[w] EXCEPT !.customer = customer[o]])
  /\ UNCHANGED <<subVars, stripeVars, events, history>>

\* ensureStripeCustomer(): writes over the customer another request has made.
EnsureCustomer(w, c) ==
  /\ Goto(w, "ensure", "open")
  /\ c \in Customer \ customers /\ customers' = customers \cup {c}
  /\ customer' = [customer EXCEPT ![my[w].org] = c]
  /\ Remember(w, [my[w] EXCEPT !.customer = c])
  /\ UNCHANGED <<plan, status, paidBy, session, checkout, recurring, events, history>>

\* A seat that is not counted yet, by an open session or an event under way.
Selling == {s \in Session : /\ session[s].plan = "lifetime"
                            /\ \/ checkout[s] = "open"
                               \/ [type |-> "completed", of |-> s] \in events}

OpenSession(w, s) ==
  /\ Goto(w, "open", "idle")
  /\ checkout[s] = "none"
  /\ checkout' = [checkout EXCEPT ![s] = "open"]
  /\ session' = [session EXCEPT ![s] = [org |-> my[w].org, plan |-> my[w].wish,
                                        customer |-> my[w].customer]]
  /\ raced' = (raced \/ (my[w].wish = "lifetime" /\ (Selling # {} \/ ~SeatLeft("lifetime"))))
  /\ Forget(w)
  /\ UNCHANGED <<subVars, customers, recurring, events, replayed>>

\* createPortalSession() looks for the customer alike and opens no session; Stripe
\* may also refuse the customer or the session.
OpenNothing(w) ==
  /\ \/ Goto(w, "open", "idle")
     \/ Goto(w, "ensure", "idle")
  /\ Forget(w)
  /\ UNCHANGED <<subVars, stripeVars, events, history>>

----------------------------------------------------------------------------
(* Stripe *)

Pay(s) ==
  /\ checkout[s] = "open" /\ checkout' = [checkout EXCEPT ![s] = "paid"]
  /\ recurring' = [recurring EXCEPT ![s] = IF session[s].plan = "pro" THEN "active" ELSE "none"]
  /\ events' = events \cup {[type |-> "completed", of |-> s]}
  /\ UNCHANGED <<subVars, customers, session, history, pc, my>>

\* A session expires after a day.
Expire(s) ==
  /\ checkout[s] = "open" /\ checkout' = [checkout EXCEPT ![s] = "expired"]
  /\ UNCHANGED <<subVars, customers, session, recurring, events, history, pc, my>>

\* The subscription ends.
Cancel(s) ==
  /\ recurring[s] = "active"
  /\ recurring' = [recurring EXCEPT ![s] = "canceled"]
  /\ events' = events \cup {[type |-> "deleted", of |-> s]}
  /\ UNCHANGED <<subVars, customers, session, checkout, history, pc, my>>

----------------------------------------------------------------------------
(* handleWebhookEvent().  A delivered event may be delivered again.        *)

Delivered(e) == e \in events /\ events' \in {events, events \ {e}}

\* handleCheckoutCompleted(), by the metadata of the session
Completed(s) ==
  /\ Delivered([type |-> "completed", of |-> s])
  /\ LET o == session[s].org IN
       /\ plan' = [plan EXCEPT ![o] = session[s].plan]
       /\ status' = [status EXCEPT ![o] = "active"]
       /\ paidBy' = [paidBy EXCEPT ![o] = IF session[s].plan = "pro" THEN s ELSE @]
       /\ raced' = (raced \/ (plan[o] = "lifetime" /\ status[o] # "active"))
  /\ replayed' = IF recurring[s] = "canceled" THEN replayed \cup {s} ELSE replayed
  /\ UNCHANGED <<customer, stripeVars, pc, my>>

\* handleSubscriptionUpdated(), handlePaymentFailed(), handleInvoicePaid(): payments
\* are missed and made up for at any time, and these events may come late or again.
Updated(s, to) ==
  /\ recurring[s] # "none"
  /\ status' = [o \in Orgs |-> IF o \in OrgsOf(session[s].customer) THEN to ELSE status[o]]
  /\ raced' = (raced \/ \E o \in OrgsOf(session[s].customer) : plan[o] = "lifetime")
  /\ UNCHANGED <<plan, customer, paidBy, stripeVars, events, replayed, pc, my>>

\* handleSubscriptionDeleted(): whatever the plan has become
DeletedIfPastDue(s) ==                \* mutant: an organization in good standing keeps it
  /\ Delivered([type |-> "deleted", of |-> s])
  /\ LET mine == {o \in OrgsOf(session[s].customer) : status[o] = "past_due"} IN
       /\ plan' = [o \in Orgs |-> IF o \in mine THEN "free" ELSE plan[o]]
       /\ status' = [o \in Orgs |-> IF o \in mine THEN "active" ELSE status[o]]
       /\ paidBy' = [o \in Orgs |-> IF o \in mine THEN None ELSE paidBy[o]]
  /\ UNCHANGED <<customer, stripeVars, history, pc, my>>

Deleted(s) ==
  /\ Delivered([type |-> "deleted", of |-> s])
  /\ LET mine == OrgsOf(session[s].customer) IN
       /\ plan' = [o \in Orgs |-> IF o \in mine THEN "free" ELSE plan[o]]
       /\ status' = [o \in Orgs |-> IF o \in mine THEN "active" ELSE status[o]]
       /\ paidBy' = [o \in Orgs |-> IF o \in mine THEN None ELSE paidBy[o]]
  /\ UNCHANGED <<customer, stripeVars, history, pc, my>>

----------------------------------------------------------------------------

Serve(w) ==
  \/ \E o \in Orgs : InitRead(w, o)
  \/ \E o \in Orgs, p \in {"pro", "lifetime"} : CheckoutRead(w, o, p)
  \/ CheckoutFind(w) \/ OpenNothing(w)
  \/ \E c \in Customer : EnsureCustomer(w, c)
  \/ \E c \in Customer \cup {None} : InitWrite(w, c) \/ InitFails(w, c)
  \/ \E s \in Session : OpenSession(w, s)

Webhook(s) == Completed(s) \/ Deleted(s) \/ \E to \in Statuses : Updated(s, to)

Stripe(s) == Pay(s) \/ Expire(s) \/ Cancel(s)

Next ==
  \/ \E w \in Workers : Serve(w)
  \/ \E s \in Session : Stripe(s) \/ Webhook(s)

Spec == Init /\ [][Next]_vars

----------------------------------------------------------------------------
(* Properties *)

\* Types; an organization that pays has a subscription row.
TypeOK ==
  /\ plan \in [Orgs -> Plans \cup {None}] /\ status \in [Orgs -> Statuses]
  /\ customer \in [Orgs -> customers \cup {None}] /\ paidBy \in [Orgs -> Session \cup {None}]
  /\ customers \in SUBSET Customer /\ session \in [Session -> Purpose]
  /\ checkout \in [Session -> {"none", "open", "paid", "expired"}]
  /\ recurring \in [Session -> {"none", "active", "canceled"}]
  /\ events \in SUBSET Event /\ raced \in BOOLEAN /\ replayed \in SUBSET Session
  /\ pc \in [Workers -> Pc] /\ my \in [Workers -> Memory]
  /\ \A s \in Session : checkout[s] # "none" => plan[session[s].org] # None

\* No more lifetime seats are taken than there are, unless two of them were being
\* sold at the same time or a past-due organization came back to its seat.
SeatsCapped == raced \/ Cardinality(Taken) <= Seats

\* A recurring plan whose Stripe subscription has ended is still to be taken back
\* by an event under way -- but for a completion delivered after the cancellation,
\* and a customer that was replaced by a concurrent checkout.
CancelledIsTakenBack ==
  \A o \in Orgs : plan[o] = "pro" /\ paidBy[o] # None /\ recurring[paidBy[o]] = "canceled" =>
    \/ [type |-> "deleted", of |-> paidBy[o]] \in events
    \/ paidBy[o] \in replayed
    \/ customer[o] # session[paidBy[o]].customer

\* Strengthening for the proofs: what a request knows of its organization ...
RequestsSane ==
  \A w \in Workers :
    /\ pc[w] # "idle" => my[w].org \in Orgs
    /\ pc[w] \in {"checkout", "ensure", "open"} => my[w].wish \in {"pro", "lifetime"}
    /\ pc[w] = "init" => my[w].wish \in {"pro", "lifetime", None}
    /\ pc[w] \in {"ensure", "open"} => plan[my[w].org] # None
    /\ pc[w] = "open" => my[w].customer \in customers

\* ... what Stripe knows of a session, and has said of it, ...
SessionsSane ==
  \A s \in Session :
    /\ checkout[s] # "none" => /\ session[s].org \in Orgs /\ session[s].plan \in {"pro", "lifetime"}
                               /\ session[s].customer \in customers
    /\ recurring[s] # "none" \/ [type |-> "completed", of |-> s] \in events => checkout[s] = "paid"
    /\ \A o \in Orgs : paidBy[o] = s => checkout[s] = "paid"

\* ... and that one seat at a time is sold: with its buyer the seats are still enough.
SellingSane ==
  ~raced => \A s \in Selling : /\ Cardinality(Taken \cup {session[s].org}) <= Seats
                               /\ \A t \in Selling : t = s

IInv == TypeOK /\ RequestsSane /\ SessionsSane /\ SellingSane /\ SeatsCapped /\ CancelledIsTakenBack
=============================================================================
