----------------------------- MODULE MoneyControls -----------------------------
(* The controls of an invoice, of the time of a billing client that is not yet *)
(* billed, of the organization's subscription and of its Stripe account: the   *)
(* invoices tab of the project, the billing page with its list of all          *)
(* invoices, the client's invoices, and the settings of billing and payments.  *)
(* An invoice belongs to a project or to a billing client only.                *)
EXTENDS Controls

-----------------------------------------------------------------------------
(* Invoices.                                                                   *)

Invoice == [kind : {"invoice"}, status : {"draft", "sent", "paid", "overdue", "cancelled"},
            uploaded : BOOLEAN,   \* type "uploaded": a file and an amount, no lines
            project  : BOOLEAN,
            zero     : BOOLEAN,   \* its total is nothing
            charged  : BOOLEAN,   \* stripePaymentIntentId is set
            checkout : BOOLEAN,   \* a Stripe session is open
            online   : BOOLEAN,   \* the organization takes payments online
            archived : BOOLEAN]

\* The forms: lines with a description of which one may be free of charge, a
\* file with an amount of at least one cent, and what bills recorded time, as a
\* draft of its own or recorded from elsewhere, with a file or without.
FreshInvoices == {i \in Invoice : i.status = "draft" /\ ~i.charged /\ ~i.checkout /\ ~i.archived}
CreateForm  == {i \in FreshInvoices : ~i.uploaded /\ i.project}
UploadForm  == {i \in FreshInvoices : i.uploaded /\ i.project /\ ~i.zero}
OfTime      == {i \in FreshInvoices : ~i.project /\ ~i.zero}
\* The form of a draft, whatever its type.
EditForm    == {"edit invoice"}
NewInvoices == CreateForm \cup UploadForm \cup OfTime

MarkAs == [sent |-> "send", paid |-> "mark paid", overdue |-> "mark overdue", cancelled |-> "cancel invoice"]
Marked(op) == {s \in DOMAIN MarkAs : MarkAs[s] = op}

\* The tab of the project ...
ProjectInvoice(i) ==
  When(i.project,
    {"pdf"}
    \cup When(~i.archived,
           When(i.status = "draft", {"send"} \cup EditForm)
           \cup When(i.status \in {"sent", "overdue"} /\ ~i.charged, {"mark paid"})
           \cup When(i.status # "paid" /\ ~i.charged, {"delete invoice"})))

\* ... the list of the billing page, which has its own table of transitions ...
STATUS_TRANSITIONS ==
  [draft |-> {"sent"}, sent |-> {"paid", "overdue", "cancelled"},
   overdue |-> {"paid", "cancelled"}, paid |-> {}, cancelled |-> {}]
BillingInvoice(i) == {MarkAs[s] : s \in STATUS_TRANSITIONS[i.status]} \cup {"pdf"}

\* ... and the portal, which is given neither drafts nor cancelled invoices.
PortalInvoice(v, i) ==
  When(i.project /\ ~i.archived /\ i.status \notin {"draft", "cancelled"},
    When(i.online /\ i.status \in {"sent", "overdue"} /\ v # "preview", {"pay"})
    \cup (IF i.uploaded THEN {"open upload"} ELSE {"own pdf"}))

InvoiceOffers(v, i) ==
  CASE v \in Staff -> ProjectInvoice(i) \cup BillingInvoice(i)
    [] v \in Clients \cup {"preview"} -> PortalInvoice(v, i)
    [] OTHER -> {}

InvoiceStaffRoutes == {MarkAs[s] : s \in DOMAIN MarkAs} \cup {"edit invoice", "delete invoice", "pdf"}
InvoiceReadRoutes  == {"own pdf", "open upload"}
allowedTransitions ==
  [draft |-> {"sent"}, sent |-> {"paid", "overdue", "cancelled"},
   overdue |-> {"paid", "cancelled"}, paid |-> {}, cancelled |-> {}]

\* A status that an invoice already has is no transition: nothing is checked.
InvoiceUpdateAccepts(op, i) ==
  IF op = "edit invoice" THEN ~i.uploaded ELSE Marked(op) \subseteq allowedTransitions[i.status] \cup {i.status}
CheckoutAcceptsAny(v, i) == v \in Clients /\ i.project /\ i.online /\ ~i.zero   \* mutant: whatever its status
CheckoutAccepts(v, i) == v \in Clients /\ i.project /\ i.online /\ i.status \in {"sent", "overdue"} /\ ~i.zero
InvoiceAccepts(v, op, i) ==
  \/ v = "stripe" /\ op = "charge" /\ i.checkout /\ i.status # "paid"
  \/ v = "stripe" /\ op = "deauthorize" /\ i.online
  \/ /\ v \in Sessions /\ ~(PreviewRefuses(v) /\ op \notin InvoiceReadRoutes)
     /\ CASE op = "pay" -> CheckoutAccepts(v, i)
          [] op = "own pdf" -> v \in Clients \cup {"preview"} /\ i.project
          [] op = "open upload" -> HasProjectAccess(v) /\ i.uploaded /\ i.project
          [] op = "pdf" -> v \in Staff
          [] op = "delete invoice" -> v \in Staff /\ ~i.charged
          [] OTHER -> op \in InvoiceStaffRoutes /\ v \in Staff /\ InvoiceUpdateAccepts(op, i)

\* The webhook of a completed session asks only whether the invoice is paid.
InvoiceAfter(op, i) ==
  CASE op = "pay" -> [i EXCEPT !.checkout = TRUE]
    [] op = "charge" -> [i EXCEPT !.checkout = FALSE, !.charged = TRUE, !.status = "paid"]
    [] op = "deauthorize" -> [i EXCEPT !.online = FALSE]
    [] op = "delete invoice" -> Gone
    [] Marked(op) # {} -> [i EXCEPT !.status = CHOOSE s \in Marked(op) : TRUE]
    [] OTHER -> i

\* Offered and refused: the form of an uploaded draft sends no lines, of which an
\* update must have one; Stripe is not asked for nothing.
InvoiceRefusals(i) == When(i.uploaded, {"edit invoice"}) \cup When(i.zero, {"pay"})

\* Kept by the screens only: what is not a draft is not edited, what was paid by
\* hand is not deleted, a cancelled invoice is not shown to clients, an archived
\* project is read-only.
InvoiceScreenRules(v, i) ==
  When(i.status # "draft" \/ i.archived, {"edit invoice"})
  \cup When(i.status = "paid" \/ i.archived, {"delete invoice"})
  \cup {MarkAs[s] : s \in {i.status} \ {"draft"}}
  \cup When(v \in Clients \cup {"preview"} /\ (i.status = "cancelled" \/ i.archived), InvoiceReadRoutes \cup {"pay"})

-----------------------------------------------------------------------------
(* The billing page: one billing client's time that no invoice has yet.        *)

\* "part": of the billable entries some have an hourly rate and some can get none.
Unbilled == [kind : {"unbilled"}, time : {"none", "rated", "part", "unrated"}, client : {"active", "archived"}]
NewUnbilled == {u \in Unbilled : u.client = "active"}

BillingClients(u) == u.client = "active"
\* Generating is disabled while the report's value is nothing ...
GenerateButton(u) == When(u.time \in {"rated", "part"}, {"generate"})
\* ... recording lists the entries, all of them selected, and takes one or more,
\* a reference and an amount, whatever the entries are worth.
EntriesListed(u)  == u.time # "none"
RecordForm(u)     == When(EntriesListed(u), {"record"})
BillingPage(v, u) == When(v \in Staff /\ BillingClients(u), GenerateButton(u) \cup RecordForm(u))
UnbilledAccepts(v, op, u) ==
  \/ v = "agent" /\ op = "archive billing client" /\ u.client = "active"
  \/ v \in Staff /\ CASE op = "generate" -> u.client = "active" /\ u.time = "rated"
                      [] op = "record" -> u.time # "none"
                      [] OTHER -> FALSE
UnbilledAfter(op, u) ==
  IF op = "archive billing client" THEN [u EXCEPT !.client = "archived"] ELSE [u EXCEPT !.time = "none"]
UnbilledRefusals(u) == When(u.time = "part", {"generate"})
UnbilledScreenRules(u) == When(u.client = "archived", {"record"})

-----------------------------------------------------------------------------
(* The subscription, and the Stripe account for the clients' payments.         *)

Subscription == [kind : {"subscription"}, plan : {"free", "pro", "lifetime"},
                 recurring : BOOLEAN,                        \* stripeSubscriptionId is set
                 seats     : BOOLEAN,                        \* lifetime seats are left
                 bought    : {"none", "pro", "lifetime"}]    \* of the last checkout opened
NewSubscriptions == {s \in Subscription : s.plan = "free" /\ ~s.recurring /\ s.bought = "none"}
Buy == [pro |-> "buy pro", lifetime |-> "buy lifetime"]

PlanCardSoldOut(s) == {Buy[p] : p \in DOMAIN Buy \ {s.plan}}   \* mutant: without the check of the seats
PlanCard(s) == {Buy[p] : p \in (DOMAIN Buy \ {s.plan}) \ When(~s.seats, {"lifetime"})}
SubscriptionOffers(v, s) == When(v \in Staff, PlanCard(s) \cup When(s.recurring, {"manage"}))
SubscriptionAccepts(v, op, s) ==
  \/ v = "stripe" /\ \/ op = "checkout completed" /\ s.bought # "none"
                     \/ op = "subscription deleted" /\ s.recurring
                     \/ op = "last seat" /\ s.seats
  \/ v \in Staff /\ CASE op = "buy lifetime" -> s.seats
                      [] op \in {"buy pro", "manage"} -> TRUE
                      [] OTHER -> FALSE
SubscriptionAfter(op, s) ==
  CASE op = "checkout completed" -> [s EXCEPT !.plan = s.bought, !.bought = "none",
                                                   !.recurring = s.recurring \/ s.bought = "pro"]
    [] op = "subscription deleted" -> [s EXCEPT !.plan = "free", !.recurring = FALSE]
    [] op = "last seat" -> [s EXCEPT !.seats = FALSE]
    [] op = "buy pro" -> [s EXCEPT !.bought = "pro"]
    [] op = "buy lifetime" -> [s EXCEPT !.bought = "lifetime"]
    [] OTHER -> s
\* The API sells the plan one has, and opens the portal of any customer.
SubscriptionScreenRules(s) == {Buy[p] : p \in {s.plan} \cap DOMAIN Buy} \cup {"manage"}

\* hosted: the installation has a Stripe Connect client (STRIPE_CONNECT_CLIENT_ID).
Stripe == [kind : {"stripe_account"}, hosted : BOOLEAN, uses : {"nothing", "key", "account"}]
NewStripe == {s \in Stripe : s.uses = "nothing"}

\* Status is an owner's to read; an admin's screen falls back to DISCONNECTED.
StatusShown(v, s) == IF v = "owner" THEN s ELSE [s EXCEPT !.hosted = FALSE, !.uses = "nothing"]
PaymentsSection(v, s) ==
  LET p == StatusShown(v, s) IN
  CASE p.uses = "key"     -> {"remove key", "save methods"}
    [] p.uses = "account" -> {"disconnect", "save methods"}
    [] OTHER              -> IF p.hosted THEN {"connect"} ELSE {"save key"}
StripeOffers(v, s) == When(v \in Staff, PaymentsSection(v, s))
StripeAccepts(v, op, s) ==
  \/ v = "stripe" /\ \/ op = "callback" /\ s.hosted
                     \/ op = "deauthorize" /\ s.uses = "account"
  \/ v = "owner" /\ CASE op = "remove key" -> s.uses = "key"
                      [] op = "disconnect" -> s.uses = "account"
                      [] op = "connect" -> s.hosted
                      [] OTHER -> op \in {"save key", "save methods"}
StripeAfter(op, s) ==
  CASE op = "callback" -> [s EXCEPT !.uses = "account"]
    [] op = "save key" -> [s EXCEPT !.uses = "key"]
    [] op \in {"remove key", "disconnect", "deauthorize"} -> [s EXCEPT !.uses = "nothing"]
    [] OTHER -> s
StripeRefusals(v) == When(v = "admin", {"save key"})
\* Two tabs: a key replaces an account and the other way round.
StripeScreenRules(s) == {"save key", "save methods", "connect"}

-----------------------------------------------------------------------------
(* Every kind of row above.                                                    *)

MoneyKinds == {"invoice", "unbilled", "subscription", "stripe_account"}
NewMoney == NewInvoices \cup NewUnbilled \cup NewSubscriptions \cup NewStripe
StripeOps == {"charge", "deauthorize", "callback", "checkout completed", "subscription deleted", "last seat"}
AgentOps  == {"archive billing client"}

MoneyOffers(v, r) ==
  CASE r.kind = "invoice"        -> InvoiceOffers(v, r)
    [] r.kind = "unbilled"       -> BillingPage(v, r)
    [] r.kind = "subscription"   -> SubscriptionOffers(v, r)
    [] r.kind = "stripe_account" -> StripeOffers(v, r)
MoneyAccepts(v, op, r) ==
  CASE r.kind = "invoice"        -> InvoiceAccepts(v, op, r)
    [] r.kind = "unbilled"       -> UnbilledAccepts(v, op, r)
    [] r.kind = "subscription"   -> SubscriptionAccepts(v, op, r)
    [] r.kind = "stripe_account" -> StripeAccepts(v, op, r)
MoneyAfter(op, r) ==
  CASE r.kind = "invoice"        -> InvoiceAfter(op, r)
    [] r.kind = "unbilled"       -> UnbilledAfter(op, r)
    [] r.kind = "subscription"   -> SubscriptionAfter(op, r)
    [] r.kind = "stripe_account" -> StripeAfter(op, r)
MoneyRefusals(v, r) ==
  CASE r.kind = "invoice"        -> InvoiceRefusals(r)
    [] r.kind = "unbilled"       -> UnbilledRefusals(r)
    [] r.kind = "stripe_account" -> StripeRefusals(v)
    [] OTHER                     -> {}
MoneyScreenRules(v, r) ==
  CASE r.kind = "invoice"        -> InvoiceScreenRules(v, r)
    [] r.kind = "unbilled"       -> UnbilledScreenRules(r)
    [] r.kind = "subscription"   -> SubscriptionScreenRules(r)
    [] r.kind = "stripe_account" -> StripeScreenRules(r)
=============================================================================
