------------------------- MODULE PlanBilling_proofs -------------------------
(***************************************************************************)
(* Proofs about PlanBilling, for any number of organizations, sessions,    *)
(* requests and seats.                                                     *)
(***************************************************************************)
EXTENDS PlanBilling, FiniteSetTheorems, TLAPS

USE PlanAssumption

----------------------------------------------------------------------------
(* Counting seats *)

\* Fewer organizations take no more seats.
LEMMA FewerSeats ==
  ASSUME NEW S \in SUBSET Orgs, NEW T \in SUBSET S, Cardinality(S) <= Seats
  PROVE  Cardinality(T) <= Seats
<1>1. IsFiniteSet(S)
  BY FS_Subset
<1>2. /\ IsFiniteSet(T) /\ Cardinality(T) <= Cardinality(S)
      /\ Cardinality(S) \in Nat /\ Cardinality(T) \in Nat
  BY <1>1, FS_Subset, FS_CardinalityType
<1> QED BY <1>2

\* While a seat is left, one more buyer fits.
LEMMA OneMoreFits ==
  ASSUME NEW S \in SUBSET Orgs, NEW o \in Orgs, Cardinality(S) < Seats
  PROVE  Cardinality(S \cup {o}) <= Seats
<1>1. IsFiniteSet(S)
  BY FS_Subset
<1>2. /\ Cardinality(S \cup {o}) = Cardinality(S) \/ Cardinality(S \cup {o}) = Cardinality(S) + 1
      /\ Cardinality(S) \in Nat
  BY <1>1, FS_AddElement, FS_CardinalityType
<1> QED BY <1>2

\* No organization takes a seat that did not have one, and nothing new is sold: the
\* seats stay enough.
SellsNothing ==
  /\ Taken' \in SUBSET Taken /\ Selling' \in SUBSET Selling
  /\ raced' = FALSE => raced = FALSE
  /\ \A s \in Selling : session'[s] = session[s]

LEMMA SeatsKept ==
  ASSUME IInv, SellsNothing
  PROVE  SellingSane' /\ SeatsCapped'
<1> USE DEF IInv, SellsNothing
<1>0. /\ Taken \in SUBSET Orgs /\ raced \in BOOLEAN
      /\ \A s \in Selling : session[s].org \in Orgs
  BY DEF Taken, TypeOK, Selling, SessionsSane, Event
<1>1. SeatsCapped'
  <2> SUFFICES ASSUME ~raced' PROVE Cardinality(Taken') <= Seats
    BY DEF SeatsCapped
  <2>1. Cardinality(Taken) <= Seats
    BY <1>0 DEF SeatsCapped
  <2> QED BY <1>0, <2>1, FewerSeats
<1>2. SellingSane'
  <2> SUFFICES ASSUME ~raced', NEW s \in Selling'
               PROVE  /\ Cardinality(Taken' \cup {session'[s].org}) <= Seats
                      /\ \A t \in Selling' : t = s
    BY DEF SellingSane
  <2>1. s \in Selling /\ ~raced
    BY <1>0
  <2>2. /\ Cardinality(Taken \cup {session[s].org}) <= Seats
        /\ \A t \in Selling : t = s
    BY <2>1 DEF SellingSane
  <2>3. /\ Taken' \cup {session'[s].org} \in SUBSET (Taken \cup {session[s].org})
        /\ Taken \cup {session[s].org} \in SUBSET Orgs
    BY <1>0, <2>1
  <2> QED BY <2>2, <2>3, FewerSeats
<1> QED BY <1>1, <1>2

----------------------------------------------------------------------------
(* The invariant holds at first *)

LEMMA InitIInv == Init => IInv
<1> SUFFICES ASSUME Init PROVE IInv
  OBVIOUS
<1>1. TypeOK
  <2>1. /\ Blank \in Memory /\ NoPurpose \in Purpose
        /\ "idle" \in Pc /\ "active" \in Statuses
    BY DEF Memory, Blank, Purpose, NoPurpose, Pc, Statuses
  <2> QED BY <2>1 DEF Init, TypeOK
<1>2. RequestsSane /\ SessionsSane
  BY DEF Init, RequestsSane, SessionsSane, Blank, NoPurpose
<1>3. Selling = {} /\ Taken = {}
  BY DEF Init, Selling, Taken, NoPurpose, Plans
<1>4. SellingSane /\ SeatsCapped
  BY <1>3, FS_EmptySet DEF SellingSane, SeatsCapped
<1>5. CancelledIsTakenBack
  BY DEF Init, CancelledIsTakenBack
<1> QED BY <1>1, <1>2, <1>4, <1>5 DEF IInv

----------------------------------------------------------------------------
(* Types *)

LEMMA NextTypeOK == IInv /\ [Next]_vars => TypeOK'
<1> SUFFICES ASSUME IInv, [Next]_vars PROVE TypeOK'
  OBVIOUS
<1>0. TypeOK /\ RequestsSane /\ SessionsSane
  BY DEF IInv
<1>m. /\ Blank \in Memory
      /\ \A o \in Orgs : [Blank EXCEPT !.org = o] \in Memory
      /\ \A o \in Orgs, p \in Plans : [Blank EXCEPT !.org = o, !.wish = p] \in Memory
      /\ \A m \in Memory, c \in Customer : [m EXCEPT !.customer = c] \in Memory
  BY DEF Blank, Memory
<1>p. {"pro", "lifetime"} \subseteq Plans /\ {"idle", "init", "checkout", "ensure", "open"} = Pc
  BY DEF Plans, Pc
<1> USE DEF TypeOK, Goto, Remember, Forget
<1> HIDE DEF Memory, Blank, Pc, Purpose
<1>1. ASSUME NEW w \in Workers, NEW o \in Orgs, InitRead(w, o)
      PROVE  TypeOK'
  BY <1>0, <1>1, <1>m, <1>p DEF InitRead, subVars, stripeVars, history
<1>2. ASSUME NEW w \in Workers, NEW o \in Orgs, NEW p \in {"pro", "lifetime"}, CheckoutRead(w, o, p)
      PROVE  TypeOK'
  BY <1>0, <1>2, <1>m, <1>p DEF CheckoutRead, subVars, stripeVars, history
<1>3. ASSUME NEW w \in Workers, CheckoutFind(w)
      PROVE  TypeOK'
  <2>1. my[w].org \in Orgs
    BY <1>0, <1>3 DEF CheckoutFind, RequestsSane
  <2>2. my' = my \/ \E c \in Customer : my' = [my EXCEPT ![w] = [my[w] EXCEPT !.customer = c]]
    BY <1>0, <1>3, <2>1 DEF CheckoutFind
  <2>3. my' \in [Workers -> Memory]
    <3>1. my \in [Workers -> Memory]
      BY <1>0
    <3>2. \A c \in Customer : [my[w] EXCEPT !.customer = c] \in Memory
      BY <1>m, <3>1
    <3> QED BY <2>2, <3>1, <3>2
  <2> QED BY <1>0, <1>3, <1>p, <2>3 DEF CheckoutFind, subVars, stripeVars, history
<1>4. ASSUME NEW w \in Workers, OpenNothing(w)
      PROVE  TypeOK'
  BY <1>0, <1>4, <1>m, <1>p DEF OpenNothing, subVars, stripeVars, history
<1>5. ASSUME NEW w \in Workers, NEW c \in Customer, EnsureCustomer(w, c)
      PROVE  TypeOK'
  <2>1. my[w].org \in Orgs
    BY <1>0, <1>5 DEF EnsureCustomer, RequestsSane
  <2>2. customer' \in [Orgs -> customers' \cup {None}] /\ customers' \in SUBSET Customer
    BY <1>0, <1>5, <2>1 DEF EnsureCustomer
  <2>3. my' \in [Workers -> Memory]
    BY <1>0, <1>5, <1>m DEF EnsureCustomer
  <2>4. pc' \in [Workers -> Pc]
    BY <1>0, <1>5, <1>p DEF EnsureCustomer
  <2> QED BY <1>0, <1>5, <2>2, <2>3, <2>4 DEF EnsureCustomer, history
<1>6. ASSUME NEW w \in Workers, NEW c \in Customer \cup {None}, InitWrite(w, c)
      PROVE  TypeOK'
  <2>1. my[w].org \in Orgs /\ "free" \in Plans /\ None # "free"
    BY <1>0, <1>6 DEF InitWrite, RequestsSane, Plans
  <2>2. customer' \in [Orgs -> customers' \cup {None}] /\ customers' \in SUBSET Customer
    BY <1>0, <1>6, <2>1 DEF InitWrite
  <2>3. my' \in [Workers -> Memory]
    BY <1>0, <1>6, <1>m DEF InitWrite
  <2>4. pc' \in [Workers -> Pc]
    BY <1>0, <1>6, <1>p DEF InitWrite
  <2>5. plan' \in [Orgs -> Plans \cup {None}] /\ \A o \in Orgs : plan[o] # None => plan'[o] # None
    BY <1>0, <1>6, <2>1 DEF InitWrite
  <2>6. \A s \in Session : checkout[s] # "none" => session[s].org \in Orgs
    BY <1>0 DEF SessionsSane
  <2>7. \A s \in Session : checkout'[s] # "none" => plan'[session'[s].org] # None
    BY <1>0, <1>6, <2>5, <2>6 DEF InitWrite
  <2> QED BY <1>0, <1>6, <2>2, <2>3, <2>4, <2>5, <2>7 DEF InitWrite, history
<1>7. ASSUME NEW w \in Workers, NEW c \in Customer \cup {None}, InitFails(w, c)
      PROVE  TypeOK'
  BY <1>0, <1>7, <1>m, <1>p DEF InitFails, subVars, history
<1>8. ASSUME NEW w \in Workers, NEW s \in Session, OpenSession(w, s)
      PROVE  TypeOK'
  <2>1. /\ my[w].org \in Orgs /\ my[w].wish \in Plans /\ plan[my[w].org] # None
        /\ my[w].customer \in Customer
    BY <1>0, <1>8, <1>p DEF OpenSession, RequestsSane
  <2>2. session' \in [Session -> Purpose]
    BY <1>0, <1>8, <2>1 DEF OpenSession, Purpose
  <2>3. my' \in [Workers -> Memory]
    BY <1>0, <1>8, <1>m DEF OpenSession
  <2>6. pc' \in [Workers -> Pc]
    BY <1>0, <1>8, <1>p DEF OpenSession
  <2>4. raced' \in BOOLEAN
    BY <1>8, <1>0 DEF OpenSession
  <2>5. \A t \in Session : checkout'[t] # "none" => plan'[session'[t].org] # None
    BY <1>0, <1>8, <2>1 DEF OpenSession, subVars
  <2> QED BY <1>0, <1>8, <2>2, <2>3, <2>4, <2>5, <2>6 DEF OpenSession, subVars
<1>9. ASSUME NEW s \in Session, Pay(s)
      PROVE  TypeOK'
  BY <1>0, <1>9 DEF Pay, Event, subVars, history
<1>10. ASSUME NEW s \in Session, Expire(s)
       PROVE  TypeOK'
  BY <1>0, <1>10 DEF Expire, subVars, history
<1>11. ASSUME NEW s \in Session, Cancel(s)
       PROVE  TypeOK'
  BY <1>0, <1>11 DEF Cancel, Event, subVars, history
<1>12. ASSUME NEW s \in Session, Completed(s)
       PROVE  TypeOK'
  <2>1. session[s].org \in Orgs /\ session[s].plan \in {"pro", "lifetime"}
    BY <1>0, <1>12 DEF Completed, Delivered, SessionsSane
  <2>2. plan' \in [Orgs -> Plans \cup {None}] /\ \A o \in Orgs : plan[o] # None => plan'[o] # None
    BY <1>0, <1>12, <1>p, <2>1 DEF Completed
  <2>3. /\ status' \in [Orgs -> Statuses] /\ paidBy' \in [Orgs -> Session \cup {None}]
        /\ replayed' \in SUBSET Session /\ events' \in SUBSET Event
    BY <1>0, <1>12, <2>1 DEF Completed, Statuses, Delivered
  <2>4. raced' \in BOOLEAN
    BY <1>12, <1>0 DEF Completed
  <2>5. \A t \in Session : checkout'[t] # "none" => plan'[session'[t].org] # None
    BY <1>0, <1>12, <2>2 DEF Completed, SessionsSane, stripeVars
  <2> QED BY <1>0, <1>12, <2>2, <2>3, <2>4, <2>5 DEF Completed, stripeVars
<1>13. ASSUME NEW s \in Session, NEW to \in Statuses, Updated(s, to)
       PROVE  TypeOK'
  BY <1>0, <1>13 DEF Updated, stripeVars
<1>14. ASSUME NEW s \in Session, Deleted(s)
       PROVE  TypeOK'
  <2>1. /\ plan' \in [Orgs -> Plans \cup {None}] /\ \A o \in Orgs : plan[o] # None => plan'[o] # None
        /\ status' \in [Orgs -> Statuses] /\ paidBy' \in [Orgs -> Session \cup {None}]
        /\ events' \in SUBSET Event
    BY <1>0, <1>14 DEF Deleted, Statuses, Delivered, Plans
  <2>2. \A t \in Session : checkout'[t] # "none" => plan'[session'[t].org] # None
    BY <1>0, <1>14, <2>1 DEF Deleted, SessionsSane, stripeVars
  <2> QED BY <1>0, <1>14, <2>1, <2>2 DEF Deleted, stripeVars, history
<1>15. CASE UNCHANGED vars
  BY <1>0, <1>15 DEF vars, subVars, stripeVars, history
<1> QED
  BY <1>1, <1>2, <1>3, <1>4, <1>5, <1>6, <1>7, <1>8, <1>9, <1>10, <1>11, <1>12, <1>13, <1>14, <1>15
  DEF Next, Serve, Stripe, Webhook

----------------------------------------------------------------------------
(* What requests and sessions know stays true *)

\* No step takes a subscription row or a customer away, and a request goes on only with
\* what it has found.
LEMMA NextRequestsSane == IInv /\ [Next]_vars => RequestsSane'
<1> SUFFICES ASSUME IInv, [Next]_vars PROVE RequestsSane'
  OBVIOUS
<1>0. TypeOK /\ RequestsSane /\ SessionsSane
  BY DEF IInv
<1>w. ASSUME UNCHANGED <<pc, my>>, customers \subseteq customers',
             \A o \in Orgs : plan[o] # None => plan'[o] # None
      PROVE  RequestsSane'
  BY <1>0, <1>w DEF RequestsSane
<1> USE DEF Goto, Remember, Forget
<1>1. ASSUME NEW w \in Workers, NEW o \in Orgs, InitRead(w, o)
      PROVE  RequestsSane'
  BY <1>0, <1>1 DEF InitRead, RequestsSane, TypeOK, Blank, Memory, subVars, stripeVars
<1>2. ASSUME NEW w \in Workers, NEW o \in Orgs, NEW p \in {"pro", "lifetime"}, CheckoutRead(w, o, p)
      PROVE  RequestsSane'
  BY <1>0, <1>2 DEF CheckoutRead, RequestsSane, TypeOK, Blank, Memory, subVars, stripeVars
<1>3. ASSUME NEW w \in Workers, CheckoutFind(w)
      PROVE  RequestsSane'
  BY <1>0, <1>3 DEF CheckoutFind, RequestsSane, TypeOK, Memory, subVars, stripeVars
<1>4. ASSUME NEW w \in Workers, OpenNothing(w)
      PROVE  RequestsSane'
  BY <1>0, <1>4 DEF OpenNothing, RequestsSane, TypeOK, subVars, stripeVars
<1>5. ASSUME NEW w \in Workers, NEW c \in Customer, EnsureCustomer(w, c)
      PROVE  RequestsSane'
  BY <1>0, <1>5 DEF EnsureCustomer, RequestsSane, TypeOK, Memory
<1>6. ASSUME NEW w \in Workers, NEW c \in Customer \cup {None}, InitWrite(w, c)
      PROVE  RequestsSane'
  <2>1. /\ customers \subseteq customers'
        /\ \A o \in Orgs : plan[o] # None => plan'[o] # None
    BY <1>0, <1>6 DEF InitWrite, TypeOK, Plans
  <2>2. \A v \in Workers : v # w => pc'[v] = pc[v] /\ my'[v] = my[v]
    BY <1>0, <1>6 DEF InitWrite, TypeOK
  <2>3. CASE my[w].wish = None
    BY <1>0, <1>6, <2>1, <2>2, <2>3 DEF InitWrite, RequestsSane, TypeOK
  <2>4. CASE my[w].wish # None
    BY <1>0, <1>6, <2>1, <2>2, <2>4 DEF InitWrite, RequestsSane, TypeOK
  <2> QED BY <2>3, <2>4
<1>7. ASSUME NEW w \in Workers, NEW c \in Customer \cup {None}, InitFails(w, c)
      PROVE  RequestsSane'
  BY <1>0, <1>7 DEF InitFails, RequestsSane, TypeOK, subVars
<1>8. ASSUME NEW w \in Workers, NEW s \in Session, OpenSession(w, s)
      PROVE  RequestsSane'
  BY <1>0, <1>8 DEF OpenSession, RequestsSane, TypeOK, subVars
<1>9. ASSUME NEW s \in Session, Pay(s) \/ Expire(s) \/ Cancel(s)
      PROVE  RequestsSane'
  BY <1>9, <1>w DEF Pay, Expire, Cancel, subVars
<1>10. ASSUME NEW s \in Session, Completed(s)
       PROVE  RequestsSane'
  <2>1. session[s].plan \in {"pro", "lifetime"} /\ None \notin {"pro", "lifetime"}
    BY <1>0, <1>10 DEF Completed, Delivered, SessionsSane, Plans
  <2> QED BY <1>0, <1>10, <1>w, <2>1 DEF Completed, TypeOK, stripeVars
<1>11. ASSUME NEW s \in Session, NEW to \in Statuses, Updated(s, to)
       PROVE  RequestsSane'
  BY <1>11, <1>w DEF Updated, stripeVars
<1>12. ASSUME NEW s \in Session, Deleted(s)
       PROVE  RequestsSane'
  <2>1. None # "free"
    BY DEF Plans
  <2> QED BY <1>0, <1>12, <1>w, <2>1 DEF Deleted, TypeOK, stripeVars
<1>13. CASE UNCHANGED vars
  BY <1>13, <1>w DEF vars, subVars, stripeVars
<1> QED
  BY <1>1, <1>2, <1>3, <1>4, <1>5, <1>6, <1>7, <1>8, <1>9, <1>10, <1>11, <1>12, <1>13
  DEF Next, Serve, Stripe, Webhook

\* A session is opened for good, and paid for before anything is said of it.
LEMMA NextSessionsSane == IInv /\ [Next]_vars => SessionsSane'
<1> SUFFICES ASSUME IInv, [Next]_vars PROVE SessionsSane'
  OBVIOUS
<1>0. TypeOK /\ RequestsSane /\ SessionsSane
  BY DEF IInv
<1>w. ASSUME UNCHANGED <<session, checkout, recurring, events, paidBy>>, customers \subseteq customers'
      PROVE  SessionsSane'
  BY <1>0, <1>w DEF SessionsSane
<1> USE DEF Goto, Remember, Forget
<1>1. ASSUME NEW w \in Workers, NEW o \in Orgs,
             InitRead(w, o) \/ \E p \in {"pro", "lifetime"} : CheckoutRead(w, o, p)
      PROVE  SessionsSane'
  BY <1>1, <1>w DEF InitRead, CheckoutRead, subVars, stripeVars
<1>2. ASSUME NEW w \in Workers, CheckoutFind(w) \/ OpenNothing(w)
      PROVE  SessionsSane'
  BY <1>2, <1>w DEF CheckoutFind, OpenNothing, subVars, stripeVars
<1>3. ASSUME NEW w \in Workers, NEW c \in Customer, EnsureCustomer(w, c)
      PROVE  SessionsSane'
  BY <1>3, <1>w DEF EnsureCustomer
<1>4. ASSUME NEW w \in Workers, NEW c \in Customer \cup {None}, InitWrite(w, c) \/ InitFails(w, c)
      PROVE  SessionsSane'
  BY <1>4, <1>w DEF InitWrite, InitFails, subVars
<1>5. ASSUME NEW w \in Workers, NEW s \in Session, OpenSession(w, s)
      PROVE  SessionsSane'
  <2>1. /\ my[w].org \in Orgs /\ my[w].wish \in {"pro", "lifetime"}
        /\ my[w].customer \in customers
    BY <1>0, <1>5 DEF OpenSession, RequestsSane
  <2>2. UNCHANGED <<customers, recurring, events, paidBy>>
    BY <1>5 DEF OpenSession, subVars
  <2>3. \A t \in Session : t # s => checkout'[t] = checkout[t] /\ session'[t] = session[t]
    BY <1>0, <1>5 DEF OpenSession, TypeOK
  <2>4. /\ checkout[s] = "none" /\ session'[s].org = my[w].org /\ session'[s].plan = my[w].wish
        /\ session'[s].customer = my[w].customer
    BY <1>0, <1>5 DEF OpenSession, TypeOK
  <2> QED BY <1>0, <2>1, <2>2, <2>3, <2>4 DEF SessionsSane
<1>6. ASSUME NEW s \in Session, Pay(s)
      PROVE  SessionsSane'
  <2>1. UNCHANGED <<customers, session, paidBy>>
    BY <1>6 DEF Pay, subVars
  <2>2. /\ checkout[s] = "open" /\ checkout'[s] = "paid"
        /\ \A t \in Session \ {s} :
             /\ checkout'[t] = checkout[t] /\ recurring'[t] = recurring[t]
             /\ [type |-> "completed", of |-> t] \in events' =>
                  [type |-> "completed", of |-> t] \in events
    BY <1>0, <1>6 DEF Pay, TypeOK
  <2>3. \A t \in Session : recurring'[t] # "none" \/ [type |-> "completed", of |-> t] \in events' =>
                           checkout'[t] = "paid"
    BY <1>0, <2>2 DEF SessionsSane
  <2>4. \A o \in Orgs, t \in Session : paidBy'[o] = t => checkout'[t] = "paid"
    BY <1>0, <2>1, <2>2 DEF SessionsSane
  <2>5. \A t \in Session : checkout'[t] # "none" => checkout[t] # "none"
    BY <2>2
  <2> QED BY <1>0, <2>1, <2>3, <2>4, <2>5 DEF SessionsSane
<1>7. ASSUME NEW s \in Session, Expire(s)
      PROVE  SessionsSane'
  <2>1. UNCHANGED <<customers, session, recurring, events, paidBy>>
    BY <1>7 DEF Expire, subVars
  <2>2. /\ checkout[s] = "open" /\ \A t \in Session : t # s => checkout'[t] = checkout[t]
    BY <1>0, <1>7 DEF Expire, TypeOK
  <2> QED BY <1>0, <2>1, <2>2 DEF SessionsSane
<1>8. ASSUME NEW s \in Session, Cancel(s)
      PROVE  SessionsSane'
  <2>1. UNCHANGED <<customers, session, checkout, paidBy>>
    BY <1>8 DEF Cancel, subVars
  <2>2. \A t \in Session : /\ recurring'[t] # "none" => recurring[t] # "none"
                           /\ [type |-> "completed", of |-> t] \in events' =>
                                [type |-> "completed", of |-> t] \in events
    BY <1>0, <1>8 DEF Cancel, TypeOK
  <2> QED BY <1>0, <2>1, <2>2 DEF SessionsSane
<1>9. ASSUME NEW s \in Session, Completed(s) \/ Deleted(s)
      PROVE  SessionsSane'
  <2>1. UNCHANGED stripeVars /\ events' \subseteq events
    BY <1>9 DEF Completed, Deleted, Delivered
  <2>2. \A o \in Orgs, t \in Session : paidBy'[o] = t => paidBy[o] = t \/ checkout[t] = "paid"
    <3>1. CASE Completed(s)
      <4>1. checkout[s] = "paid"
        BY <1>0, <3>1 DEF Completed, Delivered, SessionsSane
      <4>2. \A o \in Orgs : paidBy'[o] = paidBy[o] \/ paidBy'[o] = s
        BY <1>0, <3>1 DEF Completed, TypeOK
      <4> QED BY <4>1, <4>2
    <3>2. CASE Deleted(s)
      <4>1. \A o \in Orgs : paidBy'[o] = paidBy[o] \/ paidBy'[o] = None
        BY <1>0, <3>2 DEF Deleted, TypeOK
      <4> QED BY <4>1
    <3> QED BY <1>9, <3>1, <3>2
  <2>3. \A t \in Session : [type |-> "completed", of |-> t] \in events' => checkout[t] = "paid"
    BY <1>0, <2>1 DEF SessionsSane
  <2>4. \A o \in Orgs, t \in Session : paidBy'[o] = t => checkout[t] = "paid"
    BY <1>0, <2>2 DEF SessionsSane
  <2> QED BY <1>0, <2>1, <2>3, <2>4 DEF SessionsSane, stripeVars
<1>10. ASSUME NEW s \in Session, NEW to \in Statuses, Updated(s, to)
       PROVE  SessionsSane'
  BY <1>10, <1>w DEF Updated, stripeVars
<1>11. CASE UNCHANGED vars
  BY <1>11, <1>w DEF vars, subVars, stripeVars
<1> QED
  BY <1>1, <1>2, <1>3, <1>4, <1>5, <1>6, <1>7, <1>8, <1>9, <1>10, <1>11
  DEF Next, Serve, Stripe, Webhook

----------------------------------------------------------------------------
(* Seats *)

\* One seat is sold at a time, and its buyer fits in.
LEMMA NextSeats == IInv /\ [Next]_vars => SellingSane' /\ SeatsCapped'
<1> SUFFICES ASSUME IInv, [Next]_vars PROVE SellingSane' /\ SeatsCapped'
  OBVIOUS
<1>0. TypeOK /\ RequestsSane /\ SessionsSane /\ SellingSane /\ SeatsCapped
  BY DEF IInv
<1>w. ASSUME UNCHANGED <<plan, status, session, checkout, events, raced>>
      PROVE  SellingSane' /\ SeatsCapped'
  BY <1>w, SeatsKept DEF SellsNothing, Taken, Selling
<1> USE DEF Goto, Remember, Forget
<1>1. ASSUME NEW w \in Workers, NEW o \in Orgs,
             InitRead(w, o) \/ \E p \in {"pro", "lifetime"} : CheckoutRead(w, o, p)
      PROVE  SellingSane' /\ SeatsCapped'
  BY <1>1, <1>w DEF InitRead, CheckoutRead, subVars, stripeVars, history
<1>2. ASSUME NEW w \in Workers, CheckoutFind(w) \/ OpenNothing(w)
      PROVE  SellingSane' /\ SeatsCapped'
  BY <1>2, <1>w DEF CheckoutFind, OpenNothing, subVars, stripeVars, history
<1>3. ASSUME NEW w \in Workers, NEW c \in Customer, EnsureCustomer(w, c)
      PROVE  SellingSane' /\ SeatsCapped'
  BY <1>3, <1>w DEF EnsureCustomer, history
<1>4. ASSUME NEW w \in Workers, NEW c \in Customer \cup {None}, InitFails(w, c)
      PROVE  SellingSane' /\ SeatsCapped'
  BY <1>4, <1>w DEF InitFails, subVars, history
<1>5. ASSUME NEW w \in Workers, NEW c \in Customer \cup {None}, InitWrite(w, c)
      PROVE  SellingSane' /\ SeatsCapped'
  <2>1. Taken' \in SUBSET Taken
    BY <1>0, <1>5 DEF InitWrite, Taken, TypeOK
  <2>2. UNCHANGED <<session, checkout, events, raced>>
    BY <1>5 DEF InitWrite, history
  <2> QED BY <2>1, <2>2, SeatsKept DEF SellsNothing, Selling
<1>6. ASSUME NEW w \in Workers, NEW s \in Session, OpenSession(w, s)
      PROVE  SellingSane' /\ SeatsCapped'
  <2>1. UNCHANGED <<plan, status, events>> /\ checkout[s] = "none"
    BY <1>6 DEF OpenSession, subVars
  <2>2. /\ session'[s].org = my[w].org /\ session'[s].plan = my[w].wish
        /\ \A t \in Session : t # s => checkout'[t] = checkout[t] /\ session'[t] = session[t]
    BY <1>0, <1>6 DEF OpenSession, TypeOK
  <2>3. s \notin Selling /\ [type |-> "completed", of |-> s] \notin events
    BY <1>0, <2>1 DEF SessionsSane, Selling
  <2>4. Taken' = Taken
    BY <2>1 DEF Taken
  <2>5. CASE my[w].wish = "lifetime"
    <3>1. /\ my[w].org \in Orgs /\ Taken \in SUBSET Orgs
          /\ ~raced' => ~raced /\ Selling = {} /\ Cardinality(Taken) < Seats
      BY <1>0, <1>6, <2>5 DEF OpenSession, RequestsSane, Taken, SeatLeft, TypeOK
    <3>2. \A t \in Selling' : t = s \/ t \in Selling
      BY <2>1, <2>2 DEF Selling
    <3>3. ~raced' => Cardinality(Taken \cup {my[w].org}) <= Seats
      BY <3>1, OneMoreFits
    <3>4. ~raced' => Cardinality(Taken) <= Seats
      BY <1>0, <3>1 DEF SeatsCapped
    <3>5. ~raced' => \A t \in Selling' : t = s
      BY <3>1, <3>2
    <3>6. SeatsCapped'
      BY <2>4, <3>4 DEF SeatsCapped
    <3>7. ASSUME ~raced', NEW t \in Selling'
          PROVE  Cardinality(Taken' \cup {session'[t].org}) <= Seats
      <4>1. t = s
        BY <3>5, <3>7
      <4> QED BY <2>2, <2>4, <3>3, <3>7, <4>1
    <3> QED BY <3>5, <3>6, <3>7 DEF SellingSane
  <2>6. CASE my[w].wish # "lifetime"
    <3>1. Selling' \in SUBSET Selling
      BY <2>1, <2>2, <2>6 DEF Selling
    <3>2. /\ raced' = FALSE => raced = FALSE
          /\ \A t \in Selling : session'[t] = session[t]
      BY <1>0, <1>6, <2>2, <2>3, <2>6 DEF OpenSession, Selling, TypeOK
    <3> QED BY <2>4, <3>1, <3>2, SeatsKept DEF SellsNothing
  <2> QED BY <2>5, <2>6
<1>7. ASSUME NEW s \in Session, Pay(s) \/ Expire(s) \/ Cancel(s)
      PROVE  SellingSane' /\ SeatsCapped'
  <2>1. UNCHANGED <<plan, status, session, raced>>
    BY <1>7 DEF Pay, Expire, Cancel, subVars, history
  <2>2. Selling' \in SUBSET Selling
    <3>1. CASE Pay(s)
      BY <1>0, <3>1 DEF Pay, Selling, TypeOK
    <3>2. CASE Expire(s)
      BY <1>0, <3>2 DEF Expire, Selling, TypeOK
    <3>3. CASE Cancel(s)
      BY <1>0, <3>3 DEF Cancel, Selling, TypeOK
    <3> QED BY <1>7, <3>1, <3>2, <3>3
  <2> QED BY <2>1, <2>2, SeatsKept DEF SellsNothing, Taken
<1>8. ASSUME NEW s \in Session, Completed(s)
      PROVE  SellingSane' /\ SeatsCapped'
  <2>1. UNCHANGED <<session, checkout>> /\ events' \subseteq events
    BY <1>8 DEF Completed, Delivered, stripeVars
  <2>2. Selling' \in SUBSET Selling
    BY <2>1 DEF Selling
  <2>3. raced' = FALSE => raced = FALSE
    BY <1>0, <1>8 DEF Completed, TypeOK
  <2>4. session[s].org \in Orgs /\ session[s].plan \in {"pro", "lifetime"}
    BY <1>0, <1>8 DEF Completed, Delivered, SessionsSane
  <2>5. CASE session[s].plan = "pro"
    <3>1. Taken' \in SUBSET Taken
      BY <1>0, <1>8, <2>4, <2>5 DEF Completed, Taken, TypeOK
    <3> QED BY <2>1, <2>2, <2>3, <3>1, SeatsKept DEF SellsNothing
  <2>6. CASE session[s].plan = "lifetime"
    <3>1. s \in Selling
      BY <1>8, <2>6 DEF Completed, Delivered, Selling
    <3>2. /\ Taken' \in SUBSET (Taken \cup {session[s].org})
          /\ Taken \cup {session[s].org} \in SUBSET Orgs
      BY <1>0, <1>8, <2>4 DEF Completed, Taken, TypeOK
    <3>3. ~raced' => /\ Cardinality(Taken \cup {session[s].org}) <= Seats
                     /\ \A t \in Selling : t = s
      <4>1. ~raced' => ~raced
        BY <1>8 DEF Completed
      <4> QED BY <1>0, <3>1, <4>1 DEF SellingSane
    <3>4. SeatsCapped'
      <4> SUFFICES ASSUME ~raced' PROVE Cardinality(Taken') <= Seats
        BY DEF SeatsCapped
      <4> QED BY <3>2, <3>3, FewerSeats
    <3>5. ASSUME ~raced', NEW t \in Selling'
          PROVE  /\ Cardinality(Taken' \cup {session'[t].org}) <= Seats
                 /\ \A u \in Selling' : u = t
      <4>1. t = s /\ \A u \in Selling' : u = s
        BY <2>2, <3>3, <3>5
      <4>2. Taken' \cup {session'[t].org} \in SUBSET (Taken \cup {session[s].org})
        BY <2>1, <3>2, <4>1
      <4>3. Cardinality(Taken' \cup {session'[t].org}) <= Seats
        BY <3>2, <3>3, <3>5, <4>2, FewerSeats
      <4> QED BY <4>1, <4>3
    <3> QED BY <3>4, <3>5 DEF SellingSane
  <2> QED BY <2>4, <2>5, <2>6
<1>9. ASSUME NEW s \in Session, NEW to \in Statuses, Updated(s, to)
      PROVE  SellingSane' /\ SeatsCapped'
  <2>1. UNCHANGED <<plan, session, checkout, events>>
    BY <1>9 DEF Updated, stripeVars
  <2>2. CASE raced'
    BY <2>2 DEF SellingSane, SeatsCapped
  <2>3. CASE ~raced'
    <3>1. raced = FALSE /\ Taken' \in SUBSET Taken
      BY <1>0, <1>9, <2>1, <2>3 DEF Updated, Taken, TypeOK
    <3> QED BY <2>1, <3>1, SeatsKept DEF SellsNothing, Selling
  <2> QED BY <2>2, <2>3
<1>10. ASSUME NEW s \in Session, Deleted(s)
       PROVE  SellingSane' /\ SeatsCapped'
  <2>1. UNCHANGED <<session, checkout, raced>> /\ events' \subseteq events
    BY <1>10 DEF Deleted, Delivered, stripeVars, history
  <2>2. Selling' \in SUBSET Selling
    BY <2>1 DEF Selling
  <2>3. Taken' \in SUBSET Taken
    BY <1>0, <1>10 DEF Deleted, Taken, TypeOK
  <2> QED BY <2>1, <2>2, <2>3, SeatsKept DEF SellsNothing
<1>11. CASE UNCHANGED vars
  BY <1>11, <1>w DEF vars, subVars, stripeVars, history
<1> QED
  BY <1>1, <1>2, <1>3, <1>4, <1>5, <1>6, <1>7, <1>8, <1>9, <1>10, <1>11
  DEF Next, Serve, Stripe, Webhook

----------------------------------------------------------------------------
(* Cancellations *)

\* An organization keeps a plan that has ended only while the event that takes it back
\* is under way, or for a known reason.
LEMMA NextCancelled == IInv /\ [Next]_vars => CancelledIsTakenBack'
<1> SUFFICES ASSUME IInv, [Next]_vars PROVE CancelledIsTakenBack'
  OBVIOUS
<1>0. TypeOK /\ RequestsSane /\ SessionsSane /\ CancelledIsTakenBack
  BY DEF IInv
<1>w. ASSUME UNCHANGED <<plan, paidBy, customer, session, recurring, events, replayed>>
      PROVE  CancelledIsTakenBack'
  BY <1>0, <1>w DEF CancelledIsTakenBack
<1>p. \A o \in Orgs : paidBy[o] # None => paidBy[o] \in Session /\ checkout[paidBy[o]] = "paid"
  <2>1. \A o \in Orgs : paidBy[o] # None => paidBy[o] \in Session
    BY <1>0 DEF TypeOK
  <2>2. \A o \in Orgs, s \in Session : paidBy[o] = s => checkout[s] = "paid"
    BY <1>0 DEF SessionsSane
  <2> QED BY <2>1, <2>2
<1> USE DEF Goto, Remember, Forget
<1>1. ASSUME NEW w \in Workers, NEW o \in Orgs,
             InitRead(w, o) \/ \E p \in {"pro", "lifetime"} : CheckoutRead(w, o, p)
      PROVE  CancelledIsTakenBack'
  BY <1>1, <1>w DEF InitRead, CheckoutRead, subVars, stripeVars, history
<1>2. ASSUME NEW w \in Workers, CheckoutFind(w) \/ OpenNothing(w)
      PROVE  CancelledIsTakenBack'
  BY <1>2, <1>w DEF CheckoutFind, OpenNothing, subVars, stripeVars, history
<1>3. ASSUME NEW w \in Workers, NEW c \in Customer \cup {None}, InitFails(w, c)
      PROVE  CancelledIsTakenBack'
  BY <1>3, <1>w DEF InitFails, subVars, history
<1>4. ASSUME NEW w \in Workers, NEW c \in Customer, EnsureCustomer(w, c)
      PROVE  CancelledIsTakenBack'
  <2>1. UNCHANGED <<plan, paidBy, session, recurring, events, replayed>> /\ c \notin customers
    BY <1>4 DEF EnsureCustomer, history
  <2>2. \A o \in Orgs : customer'[o] = customer[o] \/ customer'[o] = c
    BY <1>0, <1>4 DEF EnsureCustomer, TypeOK
  <2>3. \A o \in Orgs : paidBy[o] # None => session[paidBy[o]].customer # c
    BY <1>0, <1>p, <2>1 DEF SessionsSane
  <2> QED BY <1>0, <2>1, <2>2, <2>3 DEF CancelledIsTakenBack
<1>5. ASSUME NEW w \in Workers, NEW c \in Customer \cup {None}, InitWrite(w, c)
      PROVE  CancelledIsTakenBack'
  <2>1. UNCHANGED <<paidBy, session, recurring, events, replayed>>
    BY <1>5 DEF InitWrite, history
  <2>2. \A o \in Orgs : plan'[o] = "pro" => plan[o] = "pro" /\ customer'[o] = customer[o]
    BY <1>0, <1>5 DEF InitWrite, TypeOK
  <2> QED BY <1>0, <2>1, <2>2 DEF CancelledIsTakenBack
<1>6. ASSUME NEW w \in Workers, NEW s \in Session, OpenSession(w, s)
      PROVE  CancelledIsTakenBack'
  <2>1. UNCHANGED <<plan, customer, paidBy, recurring, events, replayed>>
    BY <1>6 DEF OpenSession, subVars
  <2>2. \A o \in Orgs : paidBy[o] # None => session'[paidBy[o]] = session[paidBy[o]]
    BY <1>0, <1>6, <1>p DEF OpenSession, TypeOK
  <2> QED BY <1>0, <2>1, <2>2 DEF CancelledIsTakenBack
<1>7. ASSUME NEW s \in Session, Pay(s) \/ Expire(s) \/ Cancel(s)
      PROVE  CancelledIsTakenBack'
  <2>1. UNCHANGED <<plan, customer, paidBy, session, replayed>> /\ events \subseteq events'
    BY <1>7 DEF Pay, Expire, Cancel, subVars, history
  <2>2. \A t \in Session : recurring'[t] = "canceled" =>
          recurring[t] = "canceled" \/ [type |-> "deleted", of |-> t] \in events'
    BY <1>0, <1>7 DEF Pay, Expire, Cancel, TypeOK
  <2> QED BY <1>0, <1>p, <2>1, <2>2 DEF CancelledIsTakenBack
<1>8. ASSUME NEW s \in Session, Completed(s)
      PROVE  CancelledIsTakenBack'
  <2>1. UNCHANGED <<customer, session, recurring>> /\ replayed \subseteq replayed'
    BY <1>8 DEF Completed, stripeVars
  <2>2. \A t \in Session : [type |-> "deleted", of |-> t] \in events => [type |-> "deleted", of |-> t] \in events'
    BY <1>8 DEF Completed, Delivered
  <2>3. session[s].org \in Orgs /\ session[s].plan \in {"pro", "lifetime"}
    BY <1>0, <1>8 DEF Completed, Delivered, SessionsSane
  <2>4. \A o \in Orgs : o # session[s].org => plan'[o] = plan[o] /\ paidBy'[o] = paidBy[o]
    BY <1>0, <1>8 DEF Completed, TypeOK
  <2>5. plan'[session[s].org] = "pro" => paidBy'[session[s].org] = s
    BY <1>0, <1>8, <2>3 DEF Completed, TypeOK
  <2>6. recurring[s] = "canceled" => s \in replayed'
    BY <1>8 DEF Completed
  <2> SUFFICES ASSUME NEW o \in Orgs, plan'[o] = "pro", paidBy'[o] # None,
                      recurring'[paidBy'[o]] = "canceled"
               PROVE  \/ [type |-> "deleted", of |-> paidBy'[o]] \in events'
                      \/ paidBy'[o] \in replayed'
                      \/ customer'[o] # session'[paidBy'[o]].customer
    BY DEF CancelledIsTakenBack
  <2>7. CASE o = session[s].org
    BY <2>1, <2>5, <2>6, <2>7
  <2>8. CASE o # session[s].org
    <3>1. plan[o] = "pro" /\ paidBy'[o] = paidBy[o] /\ paidBy[o] \in Session
      BY <1>p, <2>4, <2>8
    <3>2. \/ [type |-> "deleted", of |-> paidBy[o]] \in events
          \/ paidBy[o] \in replayed
          \/ customer[o] # session[paidBy[o]].customer
      BY <1>0, <2>1, <3>1 DEF CancelledIsTakenBack
    <3> QED BY <2>1, <2>2, <3>1, <3>2
  <2> QED BY <2>7, <2>8
<1>9. ASSUME NEW s \in Session, NEW to \in Statuses, Updated(s, to)
      PROVE  CancelledIsTakenBack'
  BY <1>9, <1>w DEF Updated, stripeVars
<1>10. ASSUME NEW s \in Session, Deleted(s)
       PROVE  CancelledIsTakenBack'
  <2>1. UNCHANGED <<customer, session, recurring, replayed>>
    BY <1>10 DEF Deleted, stripeVars, history
  <2>2. \A t \in Session : t # s /\ [type |-> "deleted", of |-> t] \in events =>
                            [type |-> "deleted", of |-> t] \in events'
    BY <1>10 DEF Deleted, Delivered
  <2>3. \A o \in Orgs : plan'[o] = "pro" => /\ plan[o] = "pro" /\ paidBy'[o] = paidBy[o]
                                            /\ customer[o] # session[s].customer
    BY <1>0, <1>10 DEF Deleted, OrgsOf, TypeOK
  <2> SUFFICES ASSUME NEW o \in Orgs, plan'[o] = "pro", paidBy'[o] # None,
                      recurring'[paidBy'[o]] = "canceled"
               PROVE  \/ [type |-> "deleted", of |-> paidBy'[o]] \in events'
                      \/ paidBy'[o] \in replayed'
                      \/ customer'[o] # session'[paidBy'[o]].customer
    BY DEF CancelledIsTakenBack
  <2>4. \/ [type |-> "deleted", of |-> paidBy[o]] \in events
        \/ paidBy[o] \in replayed
        \/ customer[o] # session[paidBy[o]].customer
    BY <1>0, <2>1, <2>3 DEF CancelledIsTakenBack
  <2>5. paidBy[o] \in Session /\ paidBy'[o] = paidBy[o] /\ customer[o] # session[s].customer
    BY <1>p, <2>3
  <2>6. CASE paidBy[o] = s
    BY <2>1, <2>5, <2>6
  <2>7. CASE paidBy[o] # s
    BY <2>1, <2>2, <2>4, <2>5, <2>7
  <2> QED BY <2>6, <2>7
<1>11. CASE UNCHANGED vars
  BY <1>11, <1>w DEF vars, subVars, stripeVars, history
<1> QED
  BY <1>1, <1>2, <1>3, <1>4, <1>5, <1>6, <1>7, <1>8, <1>9, <1>10, <1>11
  DEF Next, Serve, Stripe, Webhook

----------------------------------------------------------------------------

LEMMA IInvHolds == Spec => []IInv
<1>1. IInv /\ [Next]_vars => IInv'
  BY NextTypeOK, NextRequestsSane, NextSessionsSane, NextSeats, NextCancelled DEF IInv
<1> QED BY InitIInv, <1>1, PTL DEF Spec

\* Every reachable state is well typed, and an organization that pays has a row.
THEOREM TypeCorrect == Spec => []TypeOK
<1>1. IInv => TypeOK
  BY DEF IInv
<1> QED BY IInvHolds, <1>1, PTL

\* More lifetime plans than seats need two of them sold together, or a comeback.
THEOREM SeatsAreCapped == Spec => []SeatsCapped
<1>1. IInv => SeatsCapped
  BY DEF IInv
<1> QED BY IInvHolds, <1>1, PTL

\* A plan whose Stripe subscription has ended is taken back, or is known not to be.
THEOREM CancelledPlansEnd == Spec => []CancelledIsTakenBack
<1>1. IInv => CancelledIsTakenBack
  BY DEF IInv
<1> QED BY IInvHolds, <1>1, PTL
=============================================================================
