-------------------------- MODULE InvoicePayments --------------------------
(***************************************************************************)
(* One invoice and its online payment: the staff handlers of              *)
(* apps/api/src/invoices that issue, edit and delete it, the hourly        *)
(* overdue task, the checkout of apps/api/src/payments that opens Stripe   *)
(* sessions for it, and the webhooks that report what became of them.      *)
(*                                                                         *)
(* A handler reads, then writes in a later step; only the writes that the  *)
(* code guards in the statement itself (updateMany with a condition) test  *)
(* the row they change.  Stripe is external: it charges and expires open   *)
(* sessions and delivers each event at least once, late and in any order.  *)
(***************************************************************************)
EXTENDS Integers, InvoiceRequests

CONSTANTS
  Session,      \* checkout sessions that may be created
  Amounts,      \* invoice totals, in cents
  Account,      \* Stripe accounts of the agency
  Endpoint,     \* webhook endpoints saveDirectKeys() may register
  Crashes,      \* may a request die between two awaits?
  StripeFaults  \* may sessions.retrieve fail on an open session?

Status == {"draft", "sent", "overdue", "paid", "cancelled"}
Mode == {"none", "connect", "direct"}
Settings == [mode : Mode, acct : Account \cup {None}, secret : Endpoint \cup {None}]
NoSettings == [mode |-> "none", acct |-> None, secret |-> None]  \* PAYMENTS_CLEAR_DATA

\* An event is delivered to the platform's webhook or to an endpoint of the account.
Route == Endpoint \cup {"platform"}

ASSUME PaymentsAssumption ==
  /\ Amounts \subseteq Nat /\ Amounts # {}
  /\ Crashes \in BOOLEAN /\ StripeFaults \in BOOLEAN
  /\ None \notin Session \cup Status
  /\ Account \cap {None, "none", "deleted"} = {} /\ Endpoint \cap {None, "platform"} = {}

VARIABLES
  exists,     \* is the invoice row there?
  status,     \* Invoice.status
  total,      \* calculateInvoiceTotal(invoice)
  due,        \* Invoice.dueDate: not set, to come, or gone by
  sessionId,  \* Invoice.stripeCheckoutSessionId
  intent,     \* the session whose payment intent the invoice records
  paidAmount, \* Invoice.paidAmount, 0 when not set
  settings,   \* SystemSettings: how the organization takes payments, on which
              \* account, and the endpoint whose secret verifies its webhooks
  endpoint,   \* Stripe: the account each endpoint is registered on
  session,    \* Stripe: state of each session
  charge,     \* Stripe: amount_total of each session
  account,    \* Stripe: the account each session was opened on
  sent,       \* Stripe: where the last event of each session is delivered
  acked,      \* which of these deliveries were answered with 2xx
  hookPc,     \* the delivery of a session's completion that will write
  blind,      \* history: the checkouts that cannot know of every session to pay
  loose       \* history: the sessions made by those, or that the invoice was not
              \* pointed to, or no longer, while they could be paid

invoiceRow == <<exists, status, total, due, sessionId, intent, paidAmount>>
settingVars == <<settings, endpoint>>
stripeVars == <<session, charge, account, sent>>
hookVars == <<acked, hookPc>>
workVars == <<pc, my>>
sightVars == <<blind, loose>>
paymentVars == <<invoiceRow, settingVars, stripeVars, hookVars, workVars, sightVars>>

\* What a request remembers: the settings it read or will write, the session and
\* total a checkout read, the session it created, the status an update will write.
PaymentMemory == [on : Settings, seen : Session \cup {None}, amount : Amounts,
           made : Session \cup {None}, wish : Status \cup {None}]
BlankPayment == [on |-> NoSettings, seen |-> None, amount |-> CHOOSE a \in Amounts : TRUE,
          made |-> None, wish |-> None]
PaymentPc == {"idle", "retrieve", "create", "link", "update", "remove",
              "drop", "register", "save", "withdraw", "clear"}

ForgetPayment(w) == my' = [my EXCEPT ![w] = BlankPayment]

\* The transition table of update().
Allowed ==
  [draft |-> {"sent"}, sent |-> {"paid", "overdue", "cancelled"},
   overdue |-> {"paid", "cancelled"}, paid |-> {}, cancelled |-> {}]

----------------------------------------------------------------------------

\* create() or createUploaded(): a draft with a total and maybe a due date.
PaymentsInit ==
  /\ exists = TRUE /\ status = "draft"
  /\ total \in Amounts
  /\ due \in {"none", "future"}
  /\ sessionId = None /\ intent = None /\ paidAmount = 0
  /\ settings = NoSettings
  /\ endpoint = [e \in Endpoint |-> "none"]
  /\ session = [s \in Session |-> "none"]
  /\ charge = [s \in Session |-> 0]
  /\ account = [s \in Session |-> None]
  /\ sent = [s \in Session |-> {}]
  /\ acked = {} /\ hookPc = [s \in Session |-> None]
  /\ pc = [w \in Workers |-> "idle"]
  /\ my = [w \in Workers |-> BlankPayment]
  /\ blind = {} /\ loose = {}

----------------------------------------------------------------------------
(* update(): checks the transition against what it read, then writes the   *)
(* wished status, a due date and new line items without looking again.     *)

InvoiceUpdateRead(w, wish) ==
  /\ Goto(w, "idle", "update")
  /\ exists
  /\ wish \in {None, status} \cup Allowed[status]
  /\ my' = [my EXCEPT ![w].wish = wish]
  /\ UNCHANGED <<invoiceRow, settingVars, stripeVars, hookVars, sightVars>>

InvoiceUpdateWrite(w) ==
  /\ Goto(w, "update", "idle")
  /\ exists
  /\ status' = IF my[w].wish = None THEN status ELSE my[w].wish
  /\ total' \in Amounts
  /\ due' \in {due, "none", "future"}
  /\ ForgetPayment(w)
  /\ UNCHANGED <<exists, sessionId, intent, paidAmount, settingVars, stripeVars, hookVars, sightVars>>

(* remove(): refuses an invoice paid via Stripe, then deletes it. *)

RemoveRead(w) ==
  /\ Goto(w, "idle", "remove")
  /\ exists
  /\ intent = None
  /\ UNCHANGED <<invoiceRow, settingVars, stripeVars, hookVars, my, sightVars>>

RemoveWrite(w) ==
  /\ Goto(w, "remove", "idle")
  /\ exists
  /\ exists' = FALSE
  /\ UNCHANGED <<status, total, due, sessionId, intent, paidAmount, settingVars,
                 stripeVars, hookVars, my, sightVars>>

\* The invoice was deleted in between: the write throws.
InvoiceWriteFails(w) ==
  /\ pc[w] \in {"update", "remove"}
  /\ ~exists
  /\ pc' = [pc EXCEPT ![w] = "idle"]
  /\ ForgetPayment(w)
  /\ UNCHANGED <<invoiceRow, settingVars, stripeVars, hookVars, sightVars>>

\* The due date goes by, and the hourly task marks the invoice.
Tick ==
  /\ due = "future" /\ due' = "past"
  /\ UNCHANGED <<exists, status, total, sessionId, intent, paidAmount, settingVars,
                 stripeVars, hookVars, workVars, sightVars>>

MarkOverdue ==
  /\ exists /\ status = "sent" /\ due = "past"
  /\ status' = "overdue"
  /\ UNCHANGED <<exists, total, due, sessionId, intent, paidAmount, settingVars,
                 stripeVars, hookVars, workVars, sightVars>>

----------------------------------------------------------------------------
(* createCheckoutSession(): reads the account and the invoice, reuses the  *)
(* open session the invoice points to, else creates one and points the     *)
(* invoice to it if it still points where it did.                          *)

CheckoutReadAnew(w) ==                   \* mutant: no open session is reused
  /\ Goto(w, "idle", "create")
  /\ exists /\ settings.mode # "none"
  /\ status \in {"sent", "overdue"}
  /\ my' = [my EXCEPT ![w].on = settings, ![w].seen = sessionId, ![w].amount = total]
  /\ blind' = IF \E v \in Workers : pc[v] = "link" THEN blind \cup {w} ELSE blind
  /\ UNCHANGED <<invoiceRow, settingVars, stripeVars, hookVars, loose>>

\* A session another request has made is not linked yet: this one does not see it.
CheckoutRead(w) ==
  /\ pc[w] = "idle"
  /\ exists /\ settings.mode # "none"
  /\ status \in {"sent", "overdue"}
  /\ pc' = [pc EXCEPT ![w] = IF sessionId = None THEN "create" ELSE "retrieve"]
  /\ my' = [my EXCEPT ![w].on = settings, ![w].seen = sessionId, ![w].amount = total]
  /\ blind' = IF \E v \in Workers : pc[v] = "link" THEN blind \cup {w} ELSE blind
  /\ UNCHANGED <<invoiceRow, settingVars, stripeVars, hookVars, loose>>

\* A client can pay s, or has paid it.
ToPay(s) == session[s] \in {"open", "complete"}

\* Asked with the account that was read now, Stripe knows the session as open.
IsOpen(w) == session[my[w].seen] = "open" /\ account[my[w].seen] = my[w].on.acct

CheckoutReuse(w) ==
  /\ Goto(w, "retrieve", "idle")
  /\ IsOpen(w)
  /\ ForgetPayment(w) /\ blind' = blind \ {w}
  /\ UNCHANGED <<invoiceRow, settingVars, stripeVars, hookVars, loose>>

\* Stripe does not show the session, or it is paid and the invoice does not say so.
CheckoutRetry(w) ==
  /\ Goto(w, "retrieve", "create")
  /\ StripeFaults \/ ~IsOpen(w)
  /\ blind' = IF ToPay(my[w].seen) THEN blind \cup {w} ELSE blind
  /\ UNCHANGED <<invoiceRow, settingVars, stripeVars, hookVars, my, loose>>

CheckoutCreate(w) ==
  /\ Goto(w, "create", "link")
  /\ my[w].amount > 0
  /\ \E s \in Session :
       /\ session[s] = "none"
       /\ session' = [session EXCEPT ![s] = "open"]
       /\ charge' = [charge EXCEPT ![s] = my[w].amount]
       /\ account' = [account EXCEPT ![s] = my[w].on.acct]
       /\ my' = [my EXCEPT ![w].made = s]
       /\ loose' = IF w \in blind THEN loose \cup {s} ELSE loose
  /\ blind' = (blind \cup {v \in Workers : pc[v] \in {"retrieve", "create"}}) \ {w}
  /\ UNCHANGED <<sent, invoiceRow, settingVars, hookVars>>

\* Nothing to pay, or Stripe refuses: the request fails.
CheckoutRefused(w) ==
  /\ Goto(w, "create", "idle")
  /\ ForgetPayment(w) /\ blind' = blind \ {w}
  /\ UNCHANGED <<invoiceRow, settingVars, stripeVars, hookVars, loose>>

\* The invoice forgets the session it pointed to, or never knows the new one.
CheckoutLink(w) ==
  /\ Goto(w, "link", "idle")
  /\ \/ /\ exists /\ sessionId = my[w].seen
        /\ sessionId' = my[w].made /\ loose' = loose \cup ({sessionId} \ {None})
     \/ /\ ~(exists /\ sessionId = my[w].seen)
        /\ sessionId' = sessionId /\ loose' = loose \cup {my[w].made}
  /\ ForgetPayment(w)
  /\ UNCHANGED <<exists, status, total, due, intent, paidAmount, settingVars, stripeVars,
                 hookVars, blind>>

----------------------------------------------------------------------------
(* Settings.  handleOAuthCallback() connects an account and forgets the    *)
(* keys: their endpoint stays at Stripe.  It may replace an account that   *)
(* sessions are open on.                                                   *)

Connect(a) ==
  /\ settings' = [mode |-> "connect", acct |-> a, secret |-> None]
  /\ UNCHANGED <<endpoint, invoiceRow, stripeVars, hookVars, workVars, sightVars>>

\* The endpoints of an account are deleted one by one; a failure ends it (best effort).
DropEndpoints(a) ==
  \E gone \in SUBSET {e \in Endpoint : endpoint[e] = a} :
    endpoint' = [e \in Endpoint |-> IF e \in gone THEN "deleted" ELSE endpoint[e]]

(* saveDirectKeys(): deletes the endpoint of the key in force, then proves *)
(* the new key, registers an endpoint with it and stores both.  A refused  *)
(* key leaves the old one in force without its endpoint.                   *)

SaveKeysRead(w) ==
  /\ Goto(w, "idle", "drop")
  /\ my' = [my EXCEPT ![w].on = IF settings.mode = "direct" THEN settings ELSE NoSettings]
  /\ UNCHANGED <<invoiceRow, settingVars, stripeVars, hookVars, sightVars>>

SaveKeysDrop(w) ==
  /\ Goto(w, "drop", "register")
  /\ DropEndpoints(my[w].on.acct) /\ ForgetPayment(w)
  /\ UNCHANGED <<settings, invoiceRow, stripeVars, hookVars, sightVars>>

SaveKeysRefused(w) ==
  /\ Goto(w, "register", "idle")
  /\ UNCHANGED <<invoiceRow, settingVars, stripeVars, hookVars, my, sightVars>>

SaveKeysRegister(w) ==
  /\ Goto(w, "register", "save")
  /\ \E a \in Account, e \in Endpoint :
       /\ endpoint[e] = "none"
       /\ endpoint' = [endpoint EXCEPT ![e] = a]
       /\ my' = [my EXCEPT ![w].on = [mode |-> "direct", acct |-> a, secret |-> e]]
  /\ UNCHANGED <<settings, invoiceRow, stripeVars, hookVars, sightVars>>

SaveKeysWrite(w) ==
  /\ Goto(w, "save", "idle")
  /\ settings' = my[w].on
  /\ ForgetPayment(w)
  /\ UNCHANGED <<endpoint, invoiceRow, stripeVars, hookVars, sightVars>>

(* disconnectAccount(), removeDirectKeys() and the deauthorized webhook    *)
(* read the settings, withdraw at Stripe (best effort), and clear whatever *)
(* is stored by then.                                                      *)

ClearRead(w) ==
  /\ Goto(w, "idle", "withdraw")
  /\ settings.mode # "none"
  /\ my' = [my EXCEPT ![w].on = settings]
  /\ UNCHANGED <<invoiceRow, settingVars, stripeVars, hookVars, sightVars>>

ClearWithdraw(w) ==
  /\ Goto(w, "withdraw", "clear")
  /\ DropEndpoints(IF my[w].on.mode = "direct" THEN my[w].on.acct ELSE None)
  /\ ForgetPayment(w)
  /\ UNCHANGED <<settings, invoiceRow, stripeVars, hookVars, sightVars>>

ClearWrite(w) ==
  /\ Goto(w, "clear", "idle")
  /\ settings' = NoSettings
  /\ UNCHANGED <<endpoint, invoiceRow, stripeVars, hookVars, my, sightVars>>

----------------------------------------------------------------------------
(* Stripe: a client pays an open session, or it expires.  The event goes    *)
(* to the endpoints the account has then, and to the platform while the    *)
(* account is connected to it: only Stripe knows, for the agency may have  *)
(* ended that, and disconnectAccount() tries to.                           *)

Settle(s, outcome) ==
  /\ session[s] = "open"
  /\ session' = [session EXCEPT ![s] = outcome]
  /\ \E platform \in SUBSET {"platform"} :
       sent' = [sent EXCEPT ![s] = platform \cup {e \in Endpoint : endpoint[e] = account[s]}]
  /\ UNCHANGED <<invoiceRow, settingVars, charge, account, hookVars, workVars, sightVars>>

Pay(s) == Settle(s, "complete")
Expire(s) == Settle(s, "expired")

(* Webhooks.  A delivery that is not answered is repeated; one that was may *)
(* be.  None goes to an endpoint that was deleted, and an endpoint's own    *)
(* are accepted only while its secret is the one in force.                  *)

Verified(s, r) ==
  /\ r \in sent[s]
  /\ r # "platform" => r = settings.secret /\ endpoint[r] \in Account

\* The platform's webhook takes the events of every connected account.
OwnAccount(s, r) ==
  r = "platform" => settings.mode = "connect" /\ settings.acct = account[s]

\* handleCheckoutCompleted(): drops an event of an account the organization no
\* longer has, or of an invoice that is gone.
CompletedDropped(s, r) ==
  /\ session[s] = "complete" /\ hookPc[s] = None /\ Verified(s, r)
  /\ ~exists \/ ~OwnAccount(s, r)
  /\ acked' = acked \cup {<<s, r>>}
  /\ UNCHANGED <<invoiceRow, settingVars, stripeVars, hookPc, workVars, sightVars>>

CompletedRead(s, r) ==
  /\ session[s] = "complete" /\ hookPc[s] = None /\ Verified(s, r)
  /\ exists /\ OwnAccount(s, r)
  /\ hookPc' = [hookPc EXCEPT ![s] = r]
  /\ UNCHANGED <<invoiceRow, settingVars, stripeVars, acked, workVars, sightVars>>

\* mutant: records the present total instead of what was charged
CompletedWriteTotal(s) ==
  /\ hookPc[s] # None
  /\ hookPc' = [hookPc EXCEPT ![s] = None]
  /\ acked' = acked \cup {<<s, hookPc[s]>>}
  /\ \/ /\ exists /\ status # "paid"
        /\ status' = "paid" /\ intent' = s /\ paidAmount' = total
     \/ /\ ~exists \/ status = "paid"
        /\ UNCHANGED <<status, intent, paidAmount>>
  /\ UNCHANGED <<exists, total, due, sessionId, settingVars, stripeVars, workVars, sightVars>>

\* mutant: only an issued invoice is marked as paid
CompletedWriteIssued(s) ==
  /\ hookPc[s] # None
  /\ hookPc' = [hookPc EXCEPT ![s] = None]
  /\ acked' = acked \cup {<<s, hookPc[s]>>}
  /\ \/ /\ exists /\ status \in {"sent", "overdue"}
        /\ status' = "paid" /\ intent' = s /\ paidAmount' = charge[s]
     \/ /\ ~exists \/ status \notin {"sent", "overdue"}
        /\ UNCHANGED <<status, intent, paidAmount>>
  /\ UNCHANGED <<exists, total, due, sessionId, settingVars, stripeVars, workVars, sightVars>>

\* The guarded write: only an invoice not yet paid is marked as paid.
CompletedWrite(s) ==
  /\ hookPc[s] # None
  /\ hookPc' = [hookPc EXCEPT ![s] = None]
  /\ acked' = acked \cup {<<s, hookPc[s]>>}
  /\ \/ /\ exists /\ status # "paid"
        /\ status' = "paid" /\ intent' = s /\ paidAmount' = charge[s]
     \/ /\ ~exists \/ status = "paid"
        /\ UNCHANGED <<status, intent, paidAmount>>
  /\ UNCHANGED <<exists, total, due, sessionId, settingVars, stripeVars, workVars, sightVars>>

ExpiredClearsAny(s, r) ==                   \* mutant: forgets whose event it is
  /\ session[s] = "expired" /\ Verified(s, r)
  /\ sessionId' = None
  /\ acked' = acked \cup {<<s, r>>}
  /\ UNCHANGED <<exists, status, total, due, intent, paidAmount, settingVars, stripeVars,
                 hookPc, workVars, sightVars>>

\* handleCheckoutExpired(): one guarded write.
Expired(s, r) ==
  /\ session[s] = "expired" /\ Verified(s, r)
  /\ sessionId' = IF exists /\ sessionId = s THEN None ELSE sessionId
  /\ acked' = acked \cup {<<s, r>>}
  /\ UNCHANGED <<exists, status, total, due, intent, paidAmount, settingVars, stripeVars,
                 hookPc, workVars, sightVars>>

\* A request, or the delivery of an event, dies; Stripe delivers again.
Crash(w) ==
  /\ Crashes /\ pc[w] # "idle"
  /\ pc' = [pc EXCEPT ![w] = "idle"]
  /\ ForgetPayment(w) /\ blind' = blind \ {w}
  /\ loose' = IF pc[w] = "link" THEN loose \cup {my[w].made} ELSE loose
  /\ UNCHANGED <<invoiceRow, settingVars, stripeVars, hookVars>>

HookCrash(s) ==
  /\ Crashes /\ hookPc[s] # None
  /\ hookPc' = [hookPc EXCEPT ![s] = None]
  /\ UNCHANGED <<invoiceRow, settingVars, stripeVars, acked, workVars, sightVars>>

----------------------------------------------------------------------------

Staff(w) ==
  \/ \E wish \in Status \cup {None} : InvoiceUpdateRead(w, wish)
  \/ InvoiceUpdateWrite(w) \/ RemoveRead(w) \/ RemoveWrite(w) \/ InvoiceWriteFails(w)

Owner(w) ==
  \/ SaveKeysRead(w) \/ SaveKeysDrop(w) \/ SaveKeysRefused(w) \/ SaveKeysRegister(w)
  \/ SaveKeysWrite(w) \/ ClearRead(w) \/ ClearWithdraw(w) \/ ClearWrite(w)

Checkout(w) ==
  \/ CheckoutRead(w) \/ CheckoutReuse(w) \/ CheckoutRetry(w) \/ CheckoutCreate(w)
  \/ CheckoutRefused(w) \/ CheckoutLink(w)

Hook(s) ==
  \/ \E r \in Route : CompletedDropped(s, r) \/ CompletedRead(s, r) \/ Expired(s, r)
  \/ CompletedWrite(s)

PaymentsNext ==
  \/ \E w \in Workers : Staff(w) \/ Owner(w) \/ Checkout(w) \/ Crash(w)
  \/ \E s \in Session : Pay(s) \/ Expire(s) \/ Hook(s) \/ HookCrash(s)
  \/ \E a \in Account : Connect(a)
  \/ Tick \/ MarkOverdue

PaymentsSpec == PaymentsInit /\ [][PaymentsNext]_paymentVars

\* Stripe repeats a delivery until it is answered, and one that was read is carried on.
Fairness ==
  \A s \in Session :
    /\ \A r \in Route :
         WF_paymentVars(<<s, r>> \notin acked /\ (CompletedDropped(s, r) \/ CompletedRead(s, r)))
    /\ WF_paymentVars(CompletedWrite(s))

FairSpec == PaymentsSpec /\ Fairness

----------------------------------------------------------------------------
(* Properties *)

\* Types; a session that was opened charges a positive amount.
PaymentsTypeOK ==
  /\ exists \in BOOLEAN /\ status \in Status /\ total \in Amounts
  /\ due \in {"none", "future", "past"}
  /\ sessionId \in Session \cup {None} /\ intent \in Session \cup {None}
  /\ paidAmount \in Nat
  /\ settings \in Settings
  /\ endpoint \in [Endpoint -> Account \cup {"none", "deleted"}]
  /\ session \in [Session -> {"none", "open", "complete", "expired"}]
  /\ charge \in [Session -> Nat] /\ account \in [Session -> Account \cup {None}]
  /\ sent \in [Session -> SUBSET Route]
  /\ acked \in SUBSET (Session \X Route) /\ hookPc \in [Session -> Route \cup {None}]
  /\ pc \in [Workers -> PaymentPc] /\ my \in [Workers -> PaymentMemory]
  /\ blind \in SUBSET Workers /\ loose \in SUBSET Session
  /\ \A s \in Session : session[s] # "none" => charge[s] > 0

\* The amount an invoice records as paid online is what Stripe charged in the
\* session it records, though line items stay editable while sessions are open
\* and events come late, twice and out of order.
PaidAmountIsCharge ==
  intent # None => session[intent] = "complete" /\ paidAmount = charge[intent]

\* An expiry event, however late, never makes the invoice forget a session
\* that is still open: a client's next checkout would open a second one.
ExpiryClearsOwnSession ==
  [][sessionId # None /\ session[sessionId] = "open" => sessionId' # None]_paymentVars

\* A client is not charged twice: of two sessions that are paid or can be, one was
\* made by a checkout that could not know of the other (two ran at once, Stripe did
\* not show the other, or it was paid and not recorded yet), or the invoice lost it
\* (the request died, or the pointer had changed, before it was linked).
OneSessionToPay ==
  \A s, t \in Session \ loose : ToPay(s) /\ ToPay(t) => s = t

\* The inductive invariant behind them: a delivery that will write has seen a
\* charge; a checkout that will link a session has created it; a session to pay
\* that is not loose is the one the invoice points to or is about to be; and a
\* checkout that is not blind knows of it.
DeliveriesSane == \A s \in Session : hookPc[s] # None => session[s] = "complete"
CheckoutsSane == \A w \in Workers : pc[w] = "link" => my[w].made \in Session
SessionsKnown ==
  \A s \in Session \ loose : ToPay(s) =>
    /\ s = sessionId \/ \E w \in Workers : pc[w] = "link" /\ my[w].made = s
    /\ \A w \in Workers \ blind :
         /\ pc[w] # "create"
         /\ pc[w] = "retrieve" => my[w].seen = s
PaymentsIInv ==
  /\ PaymentsTypeOK /\ PaidAmountIsCharge /\ DeliveriesSane /\ CheckoutsSane
  /\ OneSessionToPay /\ SessionsKnown

\* A charge reported to a webhook marks the invoice as paid, though deliveries fail,
\* come late and race edits of the invoice and each other: unless the invoice is
\* deleted, or before the delivery the organization gives up the account, connects
\* another, or stores other keys, whose saving takes the endpoint away.
ChargeRecorded ==
  \A s \in Session, r \in Route :
    (session[s] = "complete" /\ r \in sent[s] /\ <<s, r>> \notin acked)
       ~> (status = "paid" \/ ~exists \/ ~(Verified(s, r) /\ OwnAccount(s, r)))

----------------------------------------------------------------------------
(* Promises the code does not keep; the README tells how they break. *)

\* The record of a payment via Stripe is preserved: not deleted, and not
\* replaced (invoices.service.ts:488).
PaymentRecordKept ==
  [][intent # None => exists' = exists /\ intent' = intent]_paymentVars

\* While keys are in force, Stripe has the endpoint that reports their charges
\* (payments.service.ts:186).
KeysAreHooked ==
  settings.mode = "direct" => endpoint[settings.secret] = settings.acct
=============================================================================
