--------------------------- MODULE Invoices_proofs ---------------------------
(* Proofs about InvoicePayments, for any number of checkout sessions and       *)
(* requests in flight, and any amounts, and about TimeBilling, for any number  *)
(* of users, entries, invoices, captures and requests in flight.               *)
EXTENDS InvoicePayments, TimeBilling, TLAPS

-----------------------------------------------------------------------------
(* The payment of an invoice (InvoicePayments). *)

USE PaymentsAssumption

\* A finished request remembers nothing.
LEMMA BlankPaymentTyped == NoSettings \in Settings /\ BlankPayment \in PaymentMemory
<1>1. (CHOOSE a \in Amounts : TRUE) \in Amounts
  OBVIOUS
<1>2. NoSettings \in Settings
  BY DEF NoSettings, Settings, Mode
<1> QED BY <1>1, <1>2 DEF BlankPayment, PaymentMemory

\* What a request remembers has its type, whatever it has just read.
LEMMA PaymentMemoryTyped ==
  ASSUME PaymentsTypeOK, NEW w \in Workers
  PROVE  /\ my[w] \in PaymentMemory
         /\ my[w].wish \in Status \cup {None} /\ my[w].made \in Session \cup {None}
         /\ my[w].amount \in Amounts /\ my[w].on \in Settings
         /\ my[w].on.acct \in Account \cup {None}
         /\ \A on \in Settings : /\ [my[w] EXCEPT !.on = on] \in PaymentMemory
                               /\ [my[w] EXCEPT !.on = on].made = my[w].made
         /\ \A wish \in Status \cup {None} : [my[w] EXCEPT !.wish = wish] \in PaymentMemory
         /\ \A s \in Session : /\ [my[w] EXCEPT !.made = s] \in PaymentMemory
                               /\ [my[w] EXCEPT !.made = s].made = s
         /\ \A on \in Settings, s \in Session \cup {None}, a \in Amounts :
              [my[w] EXCEPT !.on = on, !.seen = s, !.amount = a] \in PaymentMemory
<1>1. my[w] \in PaymentMemory
  BY DEF PaymentsTypeOK
<1>2. my[w].on \in Settings
  BY <1>1 DEF PaymentMemory
<1>3. my[w].on.acct \in Account \cup {None}
  BY <1>2 DEF Settings
<1>4. \A on \in Settings : /\ [my[w] EXCEPT !.on = on] \in PaymentMemory
                        /\ [my[w] EXCEPT !.on = on].made = my[w].made
  BY <1>1 DEF PaymentMemory
<1>5. \A on \in Settings, s \in Session \cup {None}, a \in Amounts :
        [my[w] EXCEPT !.on = on, !.seen = s, !.amount = a] \in PaymentMemory
  BY <1>1 DEF PaymentMemory
<1> QED BY <1>1, <1>2, <1>3, <1>4, <1>5 DEF PaymentMemory

\* What a checkout remembers of the sessions it read and made; a step of one
\* request leaves what the others remember.
LEMMA CheckoutRemembers ==
  ASSUME PaymentsTypeOK, NEW w \in Workers
  PROVE  /\ CheckoutRead(w) =>
              my'[w].seen = sessionId /\ \A v \in Workers : v # w => my'[v] = my[v]
         /\ \A s \in Session : my' = [my EXCEPT ![w].made = s] =>
              my'[w].made = s /\ \A v \in Workers : v # w => my'[v] = my[v]
<1>1. my \in [Workers -> PaymentMemory]
  BY DEF PaymentsTypeOK
<1>2. [my[w] EXCEPT !.on = settings, !.seen = sessionId, !.amount = total].seen = sessionId
  BY <1>1 DEF PaymentMemory
<1>3. CheckoutRead(w) => my' = [my EXCEPT ![w] = [@ EXCEPT !.on = settings, !.seen = sessionId,
                                                          !.amount = total]]
  BY DEF CheckoutRead
<1>4. ASSUME NEW m, my' = [my EXCEPT ![w] = m]
      PROVE  my'[w] = m /\ \A v \in Workers : v # w => my'[v] = my[v]
  BY <1>1, <1>4
<1>5. CheckoutRead(w) =>
        my'[w].seen = sessionId /\ \A v \in Workers : v # w => my'[v] = my[v]
  BY <1>2, <1>3, <1>4
<1>6. ASSUME NEW s \in Session, my' = [my EXCEPT ![w].made = s]
      PROVE  my'[w].made = s /\ \A v \in Workers : v # w => my'[v] = my[v]
  <2>1. my' = [my EXCEPT ![w] = [my[w] EXCEPT !.made = s]]
    BY <1>6
  <2>2. [my[w] EXCEPT !.made = s].made = s
    BY PaymentMemoryTyped
  <2> QED
    BY <1>4, <2>1, <2>2
<1> QED
  BY <1>5, <1>6

\* The initial state satisfies the inductive invariant.
LEMMA PaymentsInitIInv == PaymentsInit => PaymentsIInv
<1> SUFFICES ASSUME PaymentsInit PROVE PaymentsIInv
  OBVIOUS
<1>1. PaymentsTypeOK
  BY BlankPaymentTyped DEF PaymentsInit, PaymentsTypeOK, Status, PaymentPc
<1>2. PaidAmountIsCharge /\ DeliveriesSane /\ CheckoutsSane
  BY DEF PaymentsInit, PaidAmountIsCharge, DeliveriesSane, CheckoutsSane
<1>3. OneSessionToPay /\ SessionsKnown
  BY DEF PaymentsInit, OneSessionToPay, SessionsKnown, ToPay
<1> QED BY <1>1, <1>2, <1>3 DEF PaymentsIInv

----------------------------------------------------------------------------
(* The invariant is preserved, one step per action. *)

Recorded == PaymentsTypeOK /\ PaidAmountIsCharge /\ DeliveriesSane /\ CheckoutsSane

\* Types, and what is recorded of a payment.
LEMMA NextRecorded == ASSUME Recorded, [PaymentsNext]_paymentVars PROVE Recorded'
<1> USE DEF Recorded, PaidAmountIsCharge, DeliveriesSane, CheckoutsSane, PaymentsTypeOK,
            Goto, invoiceRow, settingVars, stripeVars, hookVars, workVars, sightVars
<1>f. ASSUME NEW w \in Workers, ForgetPayment(w) PROVE my' \in [Workers -> PaymentMemory]
  BY <1>f, BlankPaymentTyped DEF ForgetPayment
<1>1. ASSUME NEW w \in Workers, NEW wish \in Status \cup {None}, InvoiceUpdateRead(w, wish) PROVE Recorded'
  <2>1. my' \in [Workers -> PaymentMemory]
    BY <1>1, PaymentMemoryTyped DEF InvoiceUpdateRead
  <2>2. \A v \in Workers : my'[v].made = my[v].made
    BY <1>1 DEF InvoiceUpdateRead, PaymentMemory
  <2> QED BY <1>1, <2>1, <2>2 DEF InvoiceUpdateRead, PaymentPc
<1>2. ASSUME NEW w \in Workers, InvoiceUpdateWrite(w) PROVE Recorded'
  <2>1. my' \in [Workers -> PaymentMemory] /\ \A v \in Workers \ {w} : my'[v] = my[v]
    BY <1>2, <1>f DEF InvoiceUpdateWrite, ForgetPayment
  <2>2. pc' = [pc EXCEPT ![w] = "idle"]
    BY <1>2 DEF InvoiceUpdateWrite
  <2>3. status' \in Status
    BY <1>2, PaymentMemoryTyped DEF InvoiceUpdateWrite
  <2>4. CheckoutsSane'
    BY <2>1, <2>2
  <2>5. /\ UNCHANGED <<exists, sessionId, intent, paidAmount, settingVars, stripeVars, hookVars, sightVars>>
        /\ total' \in Amounts /\ due' \in {"none", "future", "past"}
    BY <1>2 DEF InvoiceUpdateWrite
  <2>6. pc' \in [Workers -> PaymentPc]
    BY <2>2 DEF PaymentPc
  <2>7. PaymentsTypeOK'
    BY <2>1, <2>3, <2>5, <2>6
  <2>8. PaidAmountIsCharge' /\ DeliveriesSane'
    BY <2>5
  <2> QED
    BY <2>4, <2>7, <2>8
<1>3. ASSUME NEW w \in Workers, RemoveRead(w) \/ RemoveWrite(w) PROVE Recorded'
  <2>1. CASE RemoveRead(w)
    BY <2>1 DEF RemoveRead, PaymentPc
  <2>2. CASE RemoveWrite(w)
    BY <2>2 DEF RemoveWrite, PaymentPc
  <2> QED BY <1>3, <2>1, <2>2
<1>4. ASSUME NEW w \in Workers, InvoiceWriteFails(w) \/ Crash(w) PROVE Recorded'
  BY <1>4, <1>f DEF InvoiceWriteFails, Crash, PaymentPc, ForgetPayment
<1>d. ASSUME NEW a, DropEndpoints(a)
      PROVE  endpoint' \in [Endpoint -> Account \cup {"none", "deleted"}]
  BY <1>d DEF DropEndpoints
<1>o. ASSUME NEW w \in Workers, NEW on \in Settings, my' = [my EXCEPT ![w].on = on]
      PROVE  my' \in [Workers -> PaymentMemory] /\ \A v \in Workers : my'[v].made = my[v].made
  <2>1. my' = [my EXCEPT ![w] = [my[w] EXCEPT !.on = on]]
    BY <1>o
  <2>2. /\ [my[w] EXCEPT !.on = on] \in PaymentMemory
        /\ [my[w] EXCEPT !.on = on].made = my[w].made
    BY PaymentMemoryTyped
  <2> QED BY <2>1, <2>2
<1>r. ASSUME NEW w \in Workers, NEW to \in PaymentPc \ {"link"}, pc' = [pc EXCEPT ![w] = to],
             \/ \A v \in Workers : my'[v].made = my[v].made
             \/ \A v \in Workers \ {w} : my'[v] = my[v]
      PROVE  pc' \in [Workers -> PaymentPc] /\ CheckoutsSane'
  BY <1>r
<1>q. ASSUME NEW w \in Workers, SaveKeysRead(w) \/ ClearRead(w) PROVE Recorded'
  <2>1. PICK on \in Settings : my' = [my EXCEPT ![w].on = on]
    BY <1>q, BlankPaymentTyped DEF SaveKeysRead, ClearRead
  <2>2. PICK to \in {"drop", "withdraw"} : pc' = [pc EXCEPT ![w] = to]
    BY <1>q DEF SaveKeysRead, ClearRead
  <2>3. my' \in [Workers -> PaymentMemory] /\ \A v \in Workers : my'[v].made = my[v].made
    BY <2>1, <1>o
  <2>4. pc' \in [Workers -> PaymentPc] /\ CheckoutsSane'
    BY <2>2, <2>3, <1>r DEF PaymentPc
  <2>5. UNCHANGED <<invoiceRow, settingVars, stripeVars, hookVars, sightVars>>
    BY <1>q DEF SaveKeysRead, ClearRead
  <2> QED BY <2>3, <2>4, <2>5
<1>u. ASSUME NEW w \in Workers, SaveKeysDrop(w) \/ ClearWithdraw(w) PROVE Recorded'
  <2>1. PICK a : DropEndpoints(a)
    BY <1>u DEF SaveKeysDrop, ClearWithdraw
  <2>2. PICK to \in {"register", "clear"} : pc' = [pc EXCEPT ![w] = to]
    BY <1>u DEF SaveKeysDrop, ClearWithdraw
  <2>3. my' \in [Workers -> PaymentMemory] /\ \A v \in Workers \ {w} : my'[v] = my[v]
    BY <1>u, <1>f DEF SaveKeysDrop, ClearWithdraw, ForgetPayment
  <2>4. pc' \in [Workers -> PaymentPc] /\ CheckoutsSane'
    BY <2>2, <2>3, <1>r DEF PaymentPc
  <2>5. UNCHANGED <<settings, invoiceRow, stripeVars, hookVars, sightVars>>
    BY <1>u DEF SaveKeysDrop, ClearWithdraw
  <2>6. endpoint' \in [Endpoint -> Account \cup {"none", "deleted"}]
    BY <2>1, <1>d
  <2> QED BY <2>3, <2>4, <2>5, <2>6
<1>g. ASSUME NEW w \in Workers, SaveKeysRegister(w) PROVE Recorded'
  <2>1. PICK a \in Account, e \in Endpoint :
          /\ endpoint' = [endpoint EXCEPT ![e] = a]
          /\ my' = [my EXCEPT ![w].on = [mode |-> "direct", acct |-> a, secret |-> e]]
    BY <1>g DEF SaveKeysRegister
  <2>2. [mode |-> "direct", acct |-> a, secret |-> e] \in Settings
    BY DEF Settings, Mode
  <2>3. my' \in [Workers -> PaymentMemory] /\ \A v \in Workers : my'[v].made = my[v].made
    BY <2>1, <2>2, <1>o
  <2>4. pc' \in [Workers -> PaymentPc] /\ CheckoutsSane'
    BY <1>g, <2>3, <1>r DEF PaymentPc, SaveKeysRegister
  <2>5. UNCHANGED <<settings, invoiceRow, stripeVars, hookVars, sightVars>>
    BY <1>g DEF SaveKeysRegister
  <2>6. endpoint' \in [Endpoint -> Account \cup {"none", "deleted"}]
    BY <2>1
  <2> QED BY <2>3, <2>4, <2>5, <2>6
<1>5. ASSUME NEW w \in Workers, SaveKeysRefused(w) \/ SaveKeysWrite(w) \/ ClearWrite(w)
      PROVE  Recorded'
  <2>1. settings' \in Settings
    <3>1. settings' = settings \/ settings' = my[w].on \/ settings' = NoSettings
      BY <1>5 DEF SaveKeysRefused, SaveKeysWrite, ClearWrite
    <3>2. my[w].on \in Settings /\ settings \in Settings
      BY PaymentMemoryTyped
    <3> QED BY <3>1, <3>2, BlankPaymentTyped
  <2>2. pc' = [pc EXCEPT ![w] = "idle"]
    BY <1>5 DEF SaveKeysRefused, SaveKeysWrite, ClearWrite
  <2>3. my' \in [Workers -> PaymentMemory] /\ \A v \in Workers \ {w} : my'[v] = my[v]
    BY <1>5, <1>f DEF SaveKeysRefused, SaveKeysWrite, ClearWrite, ForgetPayment
  <2>4. pc' \in [Workers -> PaymentPc] /\ CheckoutsSane'
    BY <2>2, <2>3, <1>r DEF PaymentPc
  <2>5. UNCHANGED <<endpoint, invoiceRow, stripeVars, hookVars, sightVars>>
    BY <1>5 DEF SaveKeysRefused, SaveKeysWrite, ClearWrite
  <2> QED BY <2>1, <2>3, <2>4, <2>5
<1>6. ASSUME NEW w \in Workers, CheckoutRead(w) PROVE Recorded'
  <2>1. my' \in [Workers -> PaymentMemory]
    <3>1. [my[w] EXCEPT !.on = settings, !.seen = sessionId, !.amount = total] \in PaymentMemory
      BY PaymentMemoryTyped
    <3>2. my' = [my EXCEPT ![w] = [@ EXCEPT !.on = settings, !.seen = sessionId, !.amount = total]]
      BY <1>6 DEF CheckoutRead
    <3> QED BY <3>1, <3>2
  <2>2. pc' \in [Workers -> PaymentPc] /\ \A v \in Workers : pc'[v] = "link" => pc[v] = "link" /\ v # w
    BY <1>6 DEF CheckoutRead, PaymentPc
  <2>3. \A v \in Workers : v # w => my'[v] = my[v]
    BY <1>6 DEF CheckoutRead
  <2> QED BY <1>6, <2>1, <2>2, <2>3 DEF CheckoutRead
<1>7. ASSUME NEW w \in Workers, CheckoutReuse(w) \/ CheckoutRefused(w) PROVE Recorded'
  BY <1>7, <1>f DEF CheckoutReuse, CheckoutRefused, PaymentPc, ForgetPayment
<1>8. ASSUME NEW w \in Workers, CheckoutRetry(w) PROVE Recorded'
  BY <1>8 DEF CheckoutRetry, PaymentPc
<1>9. ASSUME NEW w \in Workers, CheckoutCreate(w) PROVE Recorded'
  <2>1. PICK s \in Session :
          /\ session[s] = "none"
          /\ session' = [session EXCEPT ![s] = "open"]
          /\ charge' = [charge EXCEPT ![s] = my[w].amount]
          /\ account' = [account EXCEPT ![s] = my[w].on.acct]
          /\ my' = [my EXCEPT ![w].made = s]
    BY <1>9 DEF CheckoutCreate
  <2>2. my' \in [Workers -> PaymentMemory] /\ my'[w].made = s /\ \A v \in Workers : v # w => my'[v] = my[v]
    BY <2>1, PaymentMemoryTyped
  <2>3. my[w].amount \in Nat /\ my[w].amount > 0 /\ my[w].on.acct \in Account \cup {None}
    BY <1>9, PaymentMemoryTyped DEF CheckoutCreate
  <2>4. /\ charge' \in [Session -> Nat] /\ account' \in [Session -> Account \cup {None}]
        /\ session' \in [Session -> {"none", "open", "complete", "expired"}]
        /\ \A t \in Session : session'[t] # "none" => charge'[t] > 0
    BY <2>1, <2>3
  <2> QED BY <1>9, <2>1, <2>2, <2>4 DEF CheckoutCreate, PaymentPc
<1>10. ASSUME NEW w \in Workers, CheckoutLink(w) PROVE Recorded'
  <2>1. my[w].made \in Session /\ pc[w] = "link"
    BY <1>10 DEF CheckoutLink
  <2>2. sessionId' \in Session \cup {None} /\ loose' \in SUBSET Session
    BY <1>10, <2>1 DEF CheckoutLink
  <2>3. my' \in [Workers -> PaymentMemory] /\ \A v \in Workers : v # w => my'[v] = my[v]
    BY <1>10, <1>f DEF CheckoutLink, ForgetPayment
  <2>4. pc' \in [Workers -> PaymentPc] /\ \A v \in Workers : pc'[v] = "link" => pc[v] = "link" /\ v # w
    BY <1>10 DEF CheckoutLink, PaymentPc
  <2> QED
    BY <1>10, <2>2, <2>3, <2>4 DEF CheckoutLink
<1>11. ASSUME NEW s \in Session, Pay(s) \/ Expire(s) PROVE Recorded'
  <2>1. PICK outcome \in {"complete", "expired"} : Settle(s, outcome)
    BY <1>11 DEF Pay, Expire
  <2>2. sent' \in [Session -> SUBSET Route]
    <3>1. PICK platform \in SUBSET {"platform"} :
            sent' = [sent EXCEPT ![s] = platform \cup {e \in Endpoint : endpoint[e] = account[s]}]
      BY <2>1 DEF Settle
    <3>2. platform \cup {e \in Endpoint : endpoint[e] = account[s]} \in SUBSET Route
      BY DEF Route
    <3> QED BY <3>1, <3>2
  <2> QED BY <2>1, <2>2 DEF Settle
<1>12. ASSUME NEW s \in Session, NEW r \in Route, CompletedDropped(s, r) \/ CompletedRead(s, r)
       PROVE  Recorded'
  BY <1>12 DEF CompletedDropped, CompletedRead
<1>13. ASSUME NEW s \in Session, CompletedWrite(s) PROVE Recorded'
  <2>1. hookPc[s] \in Route /\ session[s] = "complete"
    BY <1>13 DEF CompletedWrite
  <2>2. acked' \in SUBSET (Session \X Route) /\ hookPc' \in [Session -> Route \cup {None}]
    BY <1>13, <2>1 DEF CompletedWrite
  <2> QED BY <1>13, <2>1, <2>2 DEF CompletedWrite, Status
<1>14. ASSUME NEW s \in Session, NEW r \in Route, Expired(s, r) PROVE Recorded'
  BY <1>14 DEF Expired
<1>h. ASSUME NEW s \in Session, HookCrash(s) PROVE Recorded'
  BY <1>h DEF HookCrash
<1>15. ASSUME NEW a \in Account, Connect(a) PROVE Recorded'
  BY <1>15 DEF Connect, Settings, Mode
<1>16. CASE Tick \/ MarkOverdue
  BY <1>16 DEF Tick, MarkOverdue, Status
<1>17. CASE UNCHANGED paymentVars
  BY <1>17 DEF paymentVars
<1> QED
  BY <1>1, <1>2, <1>3, <1>4, <1>5, <1>6, <1>7, <1>8, <1>9, <1>10, <1>11, <1>12, <1>13,
     <1>14, <1>15, <1>16, <1>17, <1>q, <1>u, <1>g, <1>h
     DEF PaymentsNext, Staff, Owner, Checkout, Hook

\* The sessions a client can pay, or has paid.  A checkout that is not blind creates
\* one when there is no other; a link gives up the session it replaces.
Sighted == OneSessionToPay /\ SessionsKnown

LEMMA NextSighted == ASSUME PaymentsIInv, [PaymentsNext]_paymentVars PROVE Sighted'
<1> USE DEF PaymentsIInv, Sighted, PaymentsTypeOK, OneSessionToPay, SessionsKnown, ToPay, Goto,
            invoiceRow, settingVars, stripeVars, hookVars, workVars, sightVars
<1>1. ASSUME UNCHANGED <<session, sessionId, loose, blind>>,
             \A w \in Workers :
               /\ pc'[w] \in {"link", "create", "retrieve"} => pc'[w] = pc[w]
               /\ pc[w] = "link" => pc'[w] = "link"
               /\ my'[w].made = my[w].made \/ pc[w] \notin {"link", "create", "retrieve"}
               /\ my'[w].seen = my[w].seen \/ pc[w] \notin {"link", "create", "retrieve"}
      PROVE  Sighted'
  BY <1>1
<1>2. ASSUME NEW w \in Workers, NEW wish \in Status \cup {None}, InvoiceUpdateRead(w, wish)
      PROVE  Sighted'
  BY <1>2, <1>1 DEF InvoiceUpdateRead
<1>3. ASSUME NEW w \in Workers, InvoiceUpdateWrite(w) \/ InvoiceWriteFails(w) PROVE Sighted'
  BY <1>3, <1>1 DEF InvoiceUpdateWrite, InvoiceWriteFails, ForgetPayment
<1>4. ASSUME NEW w \in Workers, RemoveRead(w) \/ RemoveWrite(w) PROVE Sighted'
  BY <1>4, <1>1 DEF RemoveRead, RemoveWrite
<1>o. ASSUME NEW w \in Workers, Owner(w) PROVE Sighted'
  <2>1. SaveKeysRead(w) \/ SaveKeysRefused(w) => Sighted'
    BY <1>1 DEF SaveKeysRead, SaveKeysRefused
  <2>2. SaveKeysDrop(w) \/ SaveKeysRegister(w) => Sighted'
    BY <1>1 DEF SaveKeysDrop, SaveKeysRegister, ForgetPayment
  <2>3. SaveKeysWrite(w) => Sighted'
    BY <1>1 DEF SaveKeysWrite, ForgetPayment
  <2>4. ClearRead(w) \/ ClearWrite(w) => Sighted'
    BY <1>1 DEF ClearRead, ClearWrite
  <2>5. ClearWithdraw(w) => Sighted'
    BY <1>1 DEF ClearWithdraw, ForgetPayment
  <2> QED BY <1>o, <2>1, <2>2, <2>3, <2>4, <2>5 DEF Owner
<1>5. ASSUME NEW w \in Workers, CheckoutRead(w) PROVE Sighted'
  <2>1. /\ \A v \in Workers : v # w => my'[v] = my[v] /\ pc'[v] = pc[v]
        /\ my'[w].seen = sessionId
        /\ pc'[w] = IF sessionId = None THEN "create" ELSE "retrieve"
    <3>2. my'[w].seen = sessionId /\ \A v \in Workers : v # w => my'[v] = my[v]
      BY <1>5, CheckoutRemembers
    <3>3. /\ pc'[w] = IF sessionId = None THEN "create" ELSE "retrieve"
          /\ \A v \in Workers : v # w => pc'[v] = pc[v]
      BY <1>5 DEF CheckoutRead
    <3> QED
      BY <3>2, <3>3
  <2>2. pc[w] = "idle" /\ UNCHANGED <<session, sessionId, loose>>
    BY <1>5 DEF CheckoutRead
  <2>3. blind \subseteq blind' /\ ((\E v \in Workers : pc[v] = "link") => w \in blind')
    BY <1>5 DEF CheckoutRead
  <2> QED
    BY <2>1, <2>2, <2>3
<1>6. ASSUME NEW w \in Workers, CheckoutReuse(w) \/ CheckoutRefused(w) PROVE Sighted'
  BY <1>6 DEF CheckoutReuse, CheckoutRefused, ForgetPayment
<1>7. ASSUME NEW w \in Workers, CheckoutRetry(w) PROVE Sighted'
  BY <1>7 DEF CheckoutRetry
<1>8. ASSUME NEW w \in Workers, CheckoutCreate(w) PROVE Sighted'
  <2>1. PICK s \in Session :
          /\ session[s] = "none"
          /\ session' = [session EXCEPT ![s] = "open"]
          /\ my' = [my EXCEPT ![w].made = s]
          /\ loose' = IF w \in blind THEN loose \cup {s} ELSE loose
    BY <1>8 DEF CheckoutCreate
  <2>2. my'[w].made = s /\ \A v \in Workers : v # w => my'[v] = my[v] /\ pc'[v] = pc[v]
    <3>1. my'[w].made = s /\ \A v \in Workers : v # w => my'[v] = my[v]
      BY <2>1, CheckoutRemembers
    <3>2. \A v \in Workers : v # w => pc'[v] = pc[v]
      BY <1>8 DEF CheckoutCreate
    <3> QED
      BY <3>1, <3>2
  <2>3. pc[w] = "create" /\ pc'[w] = "link" /\ sessionId' = sessionId
    BY <1>8 DEF CheckoutCreate
  <2>4. \A v \in Workers \ blind' : pc'[v] \notin {"retrieve", "create"}
    BY <1>8, <2>2, <2>3 DEF CheckoutCreate
  <2>5. \A t \in Session \ loose : ToPay(t) => w \in blind
    BY <2>3
  <2>6. \A t \in Session \ loose' : ToPay(t)' => t = s \/ (t \notin loose /\ ToPay(t))
    BY <2>1
  <2>7. s \notin loose' => w \notin blind
    BY <2>1
  <2>8. OneSessionToPay'
    BY <2>5, <2>6, <2>7
  <2>9. ASSUME NEW t \in Session \ loose', ToPay(t)'
        PROVE  t = sessionId' \/ \E v \in Workers : pc'[v] = "link" /\ my'[v].made = t
    BY <2>2, <2>3, <2>6, <2>9
  <2> QED
    BY <2>4, <2>8, <2>9
<1>9. ASSUME NEW w \in Workers, CheckoutLink(w) PROVE Sighted'
  <2>1. pc[w] = "link" /\ pc'[w] = "idle"
        /\ \A v \in Workers : v # w => my'[v] = my[v] /\ pc'[v] = pc[v]
    BY <1>9 DEF CheckoutLink, ForgetPayment
  <2>2. UNCHANGED <<session, blind>> /\ loose \subseteq loose'
    BY <1>9 DEF CheckoutLink
  <2>3. \/ sessionId' = my[w].made /\ sessionId \in loose' \cup {None}
        \/ sessionId' = sessionId /\ my[w].made \in loose'
    BY <1>9 DEF CheckoutLink
  <2>4. ASSUME NEW t \in Session \ loose', ToPay(t)
        PROVE  t = sessionId' \/ \E v \in Workers : pc'[v] = "link" /\ my'[v].made = t
    BY <2>1, <2>2, <2>3, <2>4
  <2> QED
    BY <2>1, <2>2, <2>4
<1>10. ASSUME NEW w \in Workers, Crash(w) PROVE Sighted'
  BY <1>10 DEF Crash, ForgetPayment
<1>11. ASSUME NEW s \in Session, Pay(s) \/ Expire(s) PROVE Sighted'
  BY <1>11 DEF Pay, Expire, Settle
<1>12. ASSUME NEW s \in Session, CompletedWrite(s) \/ HookCrash(s) PROVE Sighted'
  BY <1>12, <1>1 DEF CompletedWrite, HookCrash
<1>r. ASSUME NEW s \in Session, NEW r \in Route, CompletedDropped(s, r) \/ CompletedRead(s, r)
      PROVE  Sighted'
  BY <1>r, <1>1 DEF CompletedDropped, CompletedRead
<1>13. ASSUME NEW s \in Session, NEW r \in Route, Expired(s, r) PROVE Sighted'
  BY <1>13 DEF Expired
<1>c. ASSUME NEW a \in Account, Connect(a) PROVE Sighted'
  BY <1>c, <1>1 DEF Connect
<1>14. CASE Tick \/ MarkOverdue \/ UNCHANGED paymentVars
  BY <1>14, <1>1 DEF Tick, MarkOverdue, paymentVars
<1> QED
  BY <1>2, <1>3, <1>4, <1>5, <1>6, <1>7, <1>8, <1>9, <1>10, <1>11, <1>12, <1>13, <1>14,
     <1>o, <1>r, <1>c
     DEF PaymentsNext, Staff, Checkout, Hook

\* The inductive invariant holds in every reachable state.
LEMMA PaymentsInductiveInvariant == PaymentsSpec => []PaymentsIInv
<1>1. PaymentsIInv /\ [PaymentsNext]_paymentVars => PaymentsIInv'
  BY NextRecorded, NextSighted DEF PaymentsIInv, Recorded, Sighted
<1> QED
  BY PaymentsInitIInv, <1>1, PTL DEF PaymentsSpec

\* The variables keep their types, and every session that was opened has a
\* positive amount.
THEOREM PaymentsTypeCorrect == PaymentsSpec => []PaymentsTypeOK
BY PaymentsInductiveInvariant, PTL DEF PaymentsIInv

\* What an invoice records as paid is what was charged in the session it records.
THEOREM PaidIsCharged == PaymentsSpec => []PaidAmountIsCharge
BY PaymentsInductiveInvariant, PTL DEF PaymentsIInv

\* A client has one session to pay at a time, and pays once, unless a checkout was
\* blind to the other session or the invoice lost it.
THEOREM ChargedOnce == PaymentsSpec => []OneSessionToPay
BY PaymentsInductiveInvariant, PTL DEF PaymentsIInv

----------------------------------------------------------------------------
(* The session an invoice points to. *)

\* Only a checkout and an expiry event write it.
LEMMA SessionWriters ==
  ASSUME [PaymentsNext]_paymentVars
  PROVE  \/ sessionId' = sessionId
         \/ \E w \in Workers : CheckoutLink(w)
         \/ \E s \in Session, r \in Route : Expired(s, r)
<1> USE DEF invoiceRow
<1>1. ASSUME NEW w \in Workers, Staff(w) PROVE sessionId' = sessionId
  BY <1>1 DEF Staff, InvoiceUpdateRead, InvoiceUpdateWrite, RemoveRead, RemoveWrite, InvoiceWriteFails
<1>o. ASSUME NEW w \in Workers, Owner(w) PROVE sessionId' = sessionId
  BY <1>o DEF Owner, SaveKeysRead, SaveKeysDrop, SaveKeysRefused, SaveKeysRegister, SaveKeysWrite,
              ClearRead, ClearWithdraw, ClearWrite
<1>2. ASSUME NEW w \in Workers, Checkout(w), ~CheckoutLink(w) PROVE sessionId' = sessionId
  BY <1>2 DEF Checkout, CheckoutRead, CheckoutReuse, CheckoutRetry, CheckoutCreate,
              CheckoutRefused
<1>3. ASSUME NEW s \in Session, Hook(s), ~\E r \in Route : Expired(s, r)
      PROVE  sessionId' = sessionId
  BY <1>3 DEF Hook, CompletedDropped, CompletedRead, CompletedWrite
<1>4. ASSUME NEW s \in Session, Pay(s) \/ Expire(s) \/ HookCrash(s) PROVE sessionId' = sessionId
  BY <1>4 DEF Pay, Expire, Settle, HookCrash
<1>5. ASSUME NEW w \in Workers, Crash(w) PROVE sessionId' = sessionId
  BY <1>5 DEF Crash
<1>c. ASSUME NEW a \in Account, Connect(a) PROVE sessionId' = sessionId
  BY <1>c DEF Connect
<1>6. ASSUME Tick \/ MarkOverdue \/ UNCHANGED paymentVars PROVE sessionId' = sessionId
  BY <1>6 DEF Tick, MarkOverdue, paymentVars
<1> QED BY <1>1, <1>2, <1>3, <1>4, <1>5, <1>6, <1>o, <1>c DEF PaymentsNext

\* An expiry event never makes the invoice forget an open session.
THEOREM OpenSessionIsKept == PaymentsSpec => ExpiryClearsOwnSession
<1>1. ASSUME PaymentsIInv, [PaymentsNext]_paymentVars, sessionId # None, session[sessionId] = "open"
      PROVE  sessionId' # None
  <2>1. ASSUME NEW w \in Workers, CheckoutLink(w) PROVE sessionId' # None
    BY <1>1, <2>1 DEF CheckoutLink, Goto, PaymentsIInv, CheckoutsSane
  <2>2. ASSUME NEW s \in Session, NEW r \in Route, Expired(s, r) PROVE sessionId' # None
    BY <1>1, <2>2 DEF Expired
  <2> QED BY <1>1, <2>1, <2>2, SessionWriters
<1>2. PaymentsIInv /\ [PaymentsNext]_paymentVars =>
        [sessionId # None /\ session[sessionId] = "open" => sessionId' # None]_paymentVars
  BY <1>1
<1> QED BY <1>2, PaymentsInductiveInvariant, PTL DEF PaymentsSpec, ExpiryClearsOwnSession

-----------------------------------------------------------------------------
(* Time entries and the invoices that charge them (TimeBilling). *)

HIDE PaymentsAssumption
USE BillingAssumption

\* The initial state satisfies the inductive invariants.
LEMMA InitIInv == Init => IInv
<1> SUFFICES ASSUME Init PROVE IInv
  OBVIOUS
<1>1. TypeOK
  BY DEF Init, TypeOK, Pc, Memory, Blank, Accepts
<1>2. MemorySane /\ OneTimer /\ CapturesResolved /\ CaptureOnce /\ ChecksHold
  BY DEF Init, MemorySane, OneTimer, CapturesResolved, CaptureOnce, Timers, Blank,
         ChecksHold, Checked
<1>3. ChargeInv
  BY DEF Init, ChargeInv, ChargedIsLocked, LockedIsCharged, DoubleChargeIsExplained
<1> QED BY <1>1, <1>2, <1>3 DEF IInv

----------------------------------------------------------------------------
(* TypeOK is preserved, one step per action. *)

\* A request remembers what it read in a record of the right type.
LEMMA MemoryTyped ==
  /\ \A u \in Users, e \in Entry \cup {None} : [Blank EXCEPT !.user = u, !.entry = e] \in Memory
  /\ \A u \in Users, p \in Project, e \in Entry \cup {None} :
       [Blank EXCEPT !.user = u, !.project = p, !.entry = e] \in Memory
  /\ \A e \in Entry, r \in BOOLEAN : [Blank EXCEPT !.entry = e, !.ran = r] \in Memory
  /\ \A picks \in SUBSET Entry : [Blank EXCEPT !.picks = picks] \in Memory
  /\ \A u \in Users, c \in Capture : [Blank EXCEPT !.user = u, !.capture = c] \in Memory
BY DEF Blank, Memory

\* Struck rows leave the others as they are.
LEMMA StrikeTyped ==
  ASSUME TypeOK, NEW entries \in SUBSET Entry, Strike(entries), live' = live
  PROVE  /\ owner' \in [Entry -> Users \cup {None}] /\ running' \in [Entry -> BOOLEAN]
         /\ billed' \in [Entry -> live' \cup {None}]
         /\ \A e \in Entry : owner'[e] = None => ~running'[e] /\ billed'[e] = None
         /\ \A e \in Entry : owner'[e] # None => e \notin entries /\ owner'[e] = owner[e]
         /\ \A e \in fresh' : owner'[e] = None /\ origin'[e] = None
BY DEF TypeOK, Strike

LEMMA NextTypeOK == ASSUME TypeOK, MemorySane, [Next]_vars PROVE TypeOK'
<1> USE DEF TypeOK, Goto, Pc, Accepts, entryVars, invoiceVars, chargeVars
<1>a. Blank \in Memory
  BY DEF Blank, Memory
<1>b. ASSUME NEW w \in Workers, Forget(w) PROVE my' \in [Workers -> Memory]
  BY <1>a, <1>b DEF Forget
<1>c. \A w \in Workers : /\ my[w].entry \in Entry \cup {None} /\ my[w].ran \in BOOLEAN
                          /\ my[w].picks \in SUBSET Entry
  BY DEF Memory
<1>1. ASSUME NEW w \in Workers, NEW u \in Users, NEW p \in Project, StartRead(w, u, p)
      PROVE  TypeOK'
  <2>1. PICK e \in Entry \cup {None} :
          Remember(w, [Blank EXCEPT !.user = u, !.project = p, !.entry = e])
    BY <1>1 DEF StartRead, Timers
  <2>2. my' \in [Workers -> Memory]
    BY <2>1, MemoryTyped DEF Remember, TypeOK
  <2> QED
    BY <1>1, <2>2 DEF StartRead
<1>2. ASSUME NEW w \in Workers, NEW u \in Users, StopRead(w, u) PROVE TypeOK'
  <2>1. PICK e \in Entry : Remember(w, [Blank EXCEPT !.user = u, !.entry = e])
    BY <1>2 DEF StopRead, Timers
  <2>2. my' \in [Workers -> Memory]
    BY <2>1, MemoryTyped DEF Remember, TypeOK
  <2> QED
    BY <1>2, <2>2 DEF StopRead
<1>3. ASSUME NEW w \in Workers, NEW e \in Entry, UpdateRead(w, e) \/ DeleteRead(w, e)
      PROVE  TypeOK'
  <2>1. PICK what \in {"update", "delete"} : OwnEntryRead(w, e, what)
    BY <1>3 DEF UpdateRead, DeleteRead
  <2>2. my' \in [Workers -> Memory]
    BY <2>1, MemoryTyped DEF OwnEntryRead, Remember, TypeOK
  <2> QED
    BY <2>1, <2>2 DEF OwnEntryRead
<1>4. ASSUME NEW w \in Workers, StartWrite(w) PROVE TypeOK'
  BY <1>4, <1>b, <1>c DEF StartWrite, StartSucceeds, Exists, MemorySane
<1>5. ASSUME NEW w \in Workers, StopWrite(w) PROVE TypeOK'
  BY <1>5, <1>b, <1>c DEF StopWrite, Exists
<1>6. ASSUME NEW w \in Workers, UpdateWrite(w) PROVE TypeOK'
  <2>1. PICK runs \in {FALSE, my[w].ran} :
            /\ UpdateSucceeds(w, runs)
            /\ running' = [running EXCEPT ![my[w].entry] = runs]
    BY <1>6 DEF UpdateWrite
  <2>2. runs \in BOOLEAN /\ Exists(my[w].entry) /\ my[w].entry \in Entry \cup {None}
    BY <1>c, <2>1 DEF UpdateSucceeds
  <2>3. running' \in [Entry -> BOOLEAN]
    BY <2>1, <2>2
  <2>4. \A e \in Entry : owner[e] = None => ~running'[e]
    BY <2>1, <2>2 DEF Exists
  <2> QED
    BY <1>6, <1>b, <2>3, <2>4 DEF UpdateWrite
<1>7. ASSUME NEW w \in Workers, DeleteWrite(w) PROVE TypeOK'
  <2>1. my[w].entry \in Entry
    BY <1>7, <1>c DEF DeleteWrite, Exists
  <2>2. Strike({my[w].entry}) /\ UNCHANGED <<gone, chargeVars, capture>>
    BY <1>7 DEF DeleteWrite
  <2>3. my' \in [Workers -> Memory]
    BY <1>7, <1>b DEF DeleteWrite
  <2>4. UNCHANGED <<fresh, origin>>
    BY <2>2 DEF Strike
  <2>5. \A e \in Entry : owner'[e] # None => Accepts(e, owner[e])'
    BY <2>1, <2>2, StrikeTyped
  <2>6. pc' \in [Workers -> Pc] /\ undercut' \in SUBSET Workers
    BY <1>7 DEF DeleteWrite
  <2> QED
    BY <2>1, <2>2, <2>3, <2>4, <2>5, <2>6, StrikeTyped
<1>p. ASSUME NEW p \in Project, RemoveProject(p) PROVE TypeOK'
  <2>1. /\ Strike({e \in Entry : ProjectOf[e] = p}) /\ gone' = gone \cup {p}
        /\ capture' \in [Capture -> {"none", "open", "resolved", "deleted"}]
        /\ UNCHANGED <<invoiceVars, pc, my>>
    BY <1>p DEF RemoveProject
  <2>2. UNCHANGED <<fresh, origin>>
    BY <2>1 DEF Strike
  <2>3. \A e \in Entry : owner'[e] # None => ProjectOf[e] # p /\ owner'[e] = owner[e]
    BY <2>1, StrikeTyped
  <2>4. \A e \in Entry : owner'[e] # None => Accepts(e, owner[e])'
    BY <2>1, <2>3
  <2> QED
    BY <2>1, <2>2, <2>4, StrikeTyped
<1>u. ASSUME NEW u \in Users, DeleteAccount(u) PROVE TypeOK'
  <2>1. /\ Strike({e \in Entry : owner[e] = u}) /\ gone' = gone \cup {u}
        /\ UNCHANGED <<invoiceVars, capture, pc, my>>
    BY <1>u DEF DeleteAccount
  <2>2. UNCHANGED <<fresh, origin>>
    BY <2>1 DEF Strike
  <2>3. \A e \in Entry : owner'[e] # None => owner[e] # u /\ owner'[e] = owner[e]
    BY <2>1, StrikeTyped
  <2>4. \A e \in Entry : owner'[e] # None => Accepts(e, owner[e])'
    BY <2>1, <2>3
  <2> QED
    BY <2>1, <2>2, <2>4, StrikeTyped
<1>8. ASSUME NEW w \in Workers, WriteFails(w) PROVE TypeOK'
  BY <1>8, <1>b, <1>c DEF WriteFails
<1>9. ASSUME NEW w \in Workers, GenerateRead(w) PROVE TypeOK'
  <2>1. PICK picks \in SUBSET Entry : Remember(w, [Blank EXCEPT !.picks = picks])
    BY <1>9 DEF GenerateRead, Billable
  <2>2. my' \in [Workers -> Memory]
    BY <2>1, MemoryTyped DEF Remember, TypeOK
  <2> QED
    BY <1>9, <2>2 DEF GenerateRead
<1>10. ASSUME NEW w \in Workers, NEW merged \in BOOLEAN, GenerateWrite(w, merged) PROVE TypeOK'
  BY <1>10, <1>b, <1>c DEF GenerateWrite, NewInvoice
<1>11. ASSUME NEW w \in Workers, GenerateFails(w) PROVE TypeOK'
  BY <1>11, <1>b, <1>c DEF GenerateFails
<1>12. ASSUME NEW w \in Workers, CaptureRead(w) \/ CaptureWrite(w) \/ CaptureFails(w) PROVE TypeOK'
  BY <1>12 DEF CaptureRead, CaptureWrite, CaptureFails
<1>13. ASSUME NEW w \in Workers, NEW u \in Users, NEW c \in Capture, ResolveRead(w, u, c)
       PROVE  TypeOK'
  <2>1. my' \in [Workers -> Memory]
    BY <1>13, MemoryTyped DEF ResolveRead, Remember, TypeOK
  <2> QED
    BY <1>13, <2>1 DEF ResolveRead
<1>14. ASSUME NEW w \in Workers, ResolveWrite(w) PROVE TypeOK'
  BY <1>14, <1>b, <1>c DEF ResolveWrite, Insert, MemorySane
<1>15. ASSUME NEW w \in Workers, ResolveFails(w) PROVE TypeOK'
  BY <1>15, <1>b, <1>c DEF ResolveFails
<1>16. ASSUME NEW u \in Users, CreateManual(u) PROVE TypeOK'
  BY <1>16 DEF CreateManual, Insert
<1>17. ASSUME NEW entries \in SUBSET Entry, RecordExternalInvoice(entries) PROVE TypeOK'
  BY <1>17 DEF RecordExternalInvoice, NewInvoice, Billable
<1>18. ASSUME NEW i \in Invoice, NEW lines \in SUBSET Entry, ReplaceLineItems(i, lines)
       PROVE  TypeOK'
  BY <1>18 DEF ReplaceLineItems, Release
<1>19. ASSUME NEW i \in Invoice, RemoveInvoice(i) PROVE TypeOK'
  BY <1>19 DEF RemoveInvoice, Release
<1>20. CASE UNCHANGED vars
  BY <1>20 DEF vars
<1> QED
  BY <1>1, <1>2, <1>3, <1>4, <1>5, <1>6, <1>7, <1>8, <1>9, <1>10, <1>11, <1>12, <1>13,
     <1>14, <1>15, <1>16, <1>17, <1>18, <1>19, <1>20, <1>p, <1>u
     DEF Next, Track, Bill, Complete

----------------------------------------------------------------------------
(* The rest of the invariant is preserved, one step per action. *)

Once == OneTimer /\ CapturesResolved /\ CaptureOnce

\* One timer a user and one entry a capture.
LEMMA NextOnce == ASSUME IInv, [Next]_vars PROVE Once'
<1> USE DEF IInv, TypeOK, Once, Goto, Memory, Forget, Remember, Blank, entryVars, invoiceVars,
            chargeVars, MemorySane, OneTimer, CapturesResolved, CaptureOnce, Timers
<1>1. ASSUME NEW w \in Workers, NEW u \in Users, NEW p \in Project, StartRead(w, u, p)
      PROVE  Once'
  BY <1>1 DEF StartRead
<1>2. ASSUME NEW w \in Workers, NEW u \in Users, StopRead(w, u) PROVE Once'
  BY <1>2 DEF StopRead
<1>3. ASSUME NEW w \in Workers, NEW e \in Entry, UpdateRead(w, e) \/ DeleteRead(w, e)
      PROVE  Once'
  <2>1. PICK what \in {"update", "delete"} : OwnEntryRead(w, e, what)
    BY <1>3 DEF UpdateRead, DeleteRead
  <2> QED
    BY <2>1 DEF OwnEntryRead
<1>4. ASSUME NEW w \in Workers, StartWrite(w) PROVE Once'
  BY <1>4 DEF StartWrite, StartSucceeds, Exists, OneTimerIndex
<1>5. ASSUME NEW w \in Workers, StopWrite(w) PROVE Once'
  BY <1>5 DEF StopWrite, Exists
<1>6. ASSUME NEW w \in Workers, UpdateWrite(w) PROVE Once'
  BY <1>6 DEF UpdateWrite, UpdateSucceeds, Exists, OneTimerIndex
<1>7. ASSUME NEW w \in Workers, DeleteWrite(w) PROVE Once'
  BY <1>7 DEF DeleteWrite, Strike, Exists
<1>8. ASSUME NEW w \in Workers, WriteFails(w) PROVE Once'
  BY <1>8 DEF WriteFails
<1>9. ASSUME NEW w \in Workers, GenerateRead(w) PROVE Once'
  BY <1>9 DEF GenerateRead, Billable
<1>10. ASSUME NEW w \in Workers, NEW merged \in BOOLEAN, GenerateWrite(w, merged) PROVE Once'
  BY <1>10 DEF GenerateWrite, NewInvoice
<1>11. ASSUME NEW w \in Workers, GenerateFails(w) PROVE Once'
  BY <1>11 DEF GenerateFails
<1>12. ASSUME NEW w \in Workers, CaptureRead(w) \/ CaptureWrite(w) \/ CaptureFails(w) PROVE Once'
  BY <1>12 DEF CaptureRead, CaptureWrite, CaptureFails
<1>13. ASSUME NEW w \in Workers, NEW u \in Users, NEW c \in Capture, ResolveRead(w, u, c)
       PROVE  Once'
  BY <1>13 DEF ResolveRead
<1>14. ASSUME NEW w \in Workers, ResolveWrite(w) PROVE Once'
  BY <1>14 DEF ResolveWrite, Insert
<1>15. ASSUME NEW w \in Workers, ResolveFails(w) PROVE Once'
  BY <1>15 DEF ResolveFails
<1>16. ASSUME NEW u \in Users, CreateManual(u) PROVE Once'
  BY <1>16 DEF CreateManual, Insert
<1>17. ASSUME NEW entries \in SUBSET Entry, RecordExternalInvoice(entries) PROVE Once'
  BY <1>17 DEF RecordExternalInvoice, NewInvoice, Billable
<1>18. ASSUME NEW i \in Invoice, RemoveInvoice(i) PROVE Once'
  BY <1>18 DEF RemoveInvoice, Release
<1>l. ASSUME NEW i \in Invoice, NEW lines \in SUBSET Entry, ReplaceLineItems(i, lines)
      PROVE  Once'
  BY <1>l DEF ReplaceLineItems, Release
<1>p. ASSUME NEW p \in Project, RemoveProject(p) PROVE Once'
  BY <1>p DEF RemoveProject, Strike
<1>u. ASSUME NEW u \in Users, DeleteAccount(u) PROVE Once'
  BY <1>u DEF DeleteAccount, Strike
<1>19. CASE UNCHANGED vars
  BY <1>19 DEF vars
<1> QED
  BY <1>1, <1>2, <1>3, <1>4, <1>5, <1>6, <1>7, <1>8, <1>9, <1>10, <1>11, <1>12, <1>13,
     <1>14, <1>15, <1>16, <1>17, <1>18, <1>19, <1>l, <1>p, <1>u
     DEF Next, Track, Bill, Complete


\* What a request remembers stays sane: it is read from the rows, and rows are
\* neither created again nor given to another user.
LEMMA NextMemorySane == ASSUME IInv, [Next]_vars PROVE MemorySane'
<1> USE DEF IInv, TypeOK, Goto, Memory, Forget, Remember, Blank, entryVars, invoiceVars,
            chargeVars, MemorySane, Timers, Exists
<1>1. ASSUME NEW w \in Workers, NEW u \in Users, NEW p \in Project, StartRead(w, u, p)
      PROVE  MemorySane'
  BY <1>1 DEF StartRead
<1>2. ASSUME NEW w \in Workers, NEW u \in Users, StopRead(w, u) PROVE MemorySane'
  BY <1>2 DEF StopRead
<1>3. ASSUME NEW w \in Workers, NEW e \in Entry, UpdateRead(w, e) \/ DeleteRead(w, e)
      PROVE  MemorySane'
  <2>1. PICK what \in {"update", "delete"} : OwnEntryRead(w, e, what)
    BY <1>3 DEF UpdateRead, DeleteRead
  <2>2. \A v \in Workers : my'[v] = IF v = w THEN [Blank EXCEPT !.entry = e, !.ran = running[e]]
                                          ELSE my[v]
    BY <2>1 DEF OwnEntryRead
  <2>3. pc'[w] = what /\ \A v \in Workers : v # w => pc'[v] = pc[v]
    BY <2>1 DEF OwnEntryRead
  <2>4. e \notin fresh /\ UNCHANGED <<fresh, owner>>
    BY <2>1 DEF OwnEntryRead, Billable
  <2>r. my'[w] = [Blank EXCEPT !.entry = e, !.ran = running[e]]
    BY <2>2
  <2>5. my'[w].entry = e /\ my'[w].picks = {}
    BY <2>r
  <2>6. pc'[w] \notin {"start", "resolve", "generate"}
    BY <2>3
  <2>7. my'[w].entry \notin fresh' /\ my'[w].picks \cap fresh' = {}
    BY <2>4, <2>5
  <2>8. \A v \in Workers \ {w} : my'[v] = my[v] /\ pc'[v] = pc[v]
    BY <2>2, <2>3
  <2> QED
    BY <2>4, <2>6, <2>7, <2>8
<1>4. ASSUME NEW w \in Workers, StartWrite(w) PROVE MemorySane'
  BY <1>4 DEF StartWrite, StartSucceeds, Exists, OneTimerIndex
<1>5. ASSUME NEW w \in Workers, StopWrite(w) PROVE MemorySane'
  BY <1>5 DEF StopWrite, Exists
<1>6. ASSUME NEW w \in Workers, UpdateWrite(w) PROVE MemorySane'
  BY <1>6 DEF UpdateWrite, UpdateSucceeds, Exists, OneTimerIndex
<1>7. ASSUME NEW w \in Workers, DeleteWrite(w) PROVE MemorySane'
  BY <1>7 DEF DeleteWrite, Strike, Exists
<1>8. ASSUME NEW w \in Workers, WriteFails(w) PROVE MemorySane'
  BY <1>8 DEF WriteFails
<1>9. ASSUME NEW w \in Workers, GenerateRead(w) PROVE MemorySane'
  <2>0. \A e \in Billable : e \notin fresh
    BY DEF Billable
  <2>1. PICK picks \in (SUBSET Billable) \ {{}} : Remember(w, [Blank EXCEPT !.picks = picks])
    BY <1>9 DEF GenerateRead
  <2>2. picks # {} /\ picks \cap fresh = {}
    BY <2>0
  <2>3. \A v \in Workers : my'[v] = IF v = w THEN [Blank EXCEPT !.picks = picks] ELSE my[v]
    BY <2>1
  <2>4. my'[w].entry = None /\ my'[w].picks = picks
    BY <2>3
  <2>5. pc'[w] = "generate" /\ (\A v \in Workers : v # w => pc'[v] = pc[v])
        /\ UNCHANGED <<fresh, owner>>
    BY <1>9 DEF GenerateRead
  <2>6. \A v \in Workers : v # w => my'[v] = my[v]
    BY <2>3
  <2>7. None \notin fresh
    BY BillingAssumption
  <2> QED
    BY <2>2, <2>4, <2>5, <2>6, <2>7
<1>10. ASSUME NEW w \in Workers, NEW merged \in BOOLEAN, GenerateWrite(w, merged) PROVE MemorySane'
  BY <1>10 DEF GenerateWrite, NewInvoice
<1>11. ASSUME NEW w \in Workers, GenerateFails(w) PROVE MemorySane'
  BY <1>11 DEF GenerateFails
<1>12. ASSUME NEW w \in Workers, CaptureRead(w) \/ CaptureWrite(w) \/ CaptureFails(w) PROVE MemorySane'
  BY <1>12 DEF CaptureRead, CaptureWrite, CaptureFails
<1>13. ASSUME NEW w \in Workers, NEW u \in Users, NEW c \in Capture, ResolveRead(w, u, c)
       PROVE  MemorySane'
  BY <1>13 DEF ResolveRead
<1>14. ASSUME NEW w \in Workers, ResolveWrite(w) PROVE MemorySane'
  BY <1>14 DEF ResolveWrite, Insert
<1>15. ASSUME NEW w \in Workers, ResolveFails(w) PROVE MemorySane'
  BY <1>15 DEF ResolveFails
<1>16. ASSUME NEW u \in Users, CreateManual(u) PROVE MemorySane'
  BY <1>16 DEF CreateManual, Insert
<1>17. ASSUME NEW entries \in SUBSET Entry, RecordExternalInvoice(entries) PROVE MemorySane'
  BY <1>17 DEF RecordExternalInvoice, NewInvoice, Billable
<1>18. ASSUME NEW i \in Invoice, RemoveInvoice(i) PROVE MemorySane'
  BY <1>18 DEF RemoveInvoice, Release
<1>l. ASSUME NEW i \in Invoice, NEW lines \in SUBSET Entry, ReplaceLineItems(i, lines)
      PROVE  MemorySane'
  BY <1>l DEF ReplaceLineItems, Release
<1>p. ASSUME NEW p \in Project, RemoveProject(p) PROVE MemorySane'
  BY <1>p DEF RemoveProject, Strike
<1>u. ASSUME NEW u \in Users, DeleteAccount(u) PROVE MemorySane'
  BY <1>u DEF DeleteAccount, Strike
<1>19. CASE UNCHANGED vars
  BY <1>19 DEF vars
<1> HIDE DEF IInv, TypeOK, MemorySane
<1> QED
  BY <1>1, <1>2, <1>3, <1>4, <1>5, <1>6, <1>7, <1>8, <1>9, <1>10, <1>11, <1>12, <1>13,
     <1>14, <1>15, <1>16, <1>17, <1>18, <1>19, <1>l, <1>p, <1>u
     DEF Next, Track, Bill, Complete


\* What an update() or a delete() has found free is free or undercut: only a new
\* invoice bills an entry.
LEMMA NextChecksHold == ASSUME IInv, [Next]_vars PROVE ChecksHold'
<1> USE DEF IInv, TypeOK, Goto, Memory, Forget, Remember, Blank, entryVars, invoiceVars,
            chargeVars, ChecksHold, Checked
<1>1. ASSUME NEW w \in Workers, NEW u \in Users, NEW p \in Project, StartRead(w, u, p)
      PROVE  ChecksHold'
  BY <1>1 DEF StartRead
<1>2. ASSUME NEW w \in Workers, NEW u \in Users, StopRead(w, u) PROVE ChecksHold'
  BY <1>2 DEF StopRead
<1>3. ASSUME NEW w \in Workers, NEW e \in Entry, UpdateRead(w, e) \/ DeleteRead(w, e)
      PROVE  ChecksHold'
  <2>1. PICK what \in {"update", "delete"} : OwnEntryRead(w, e, what)
    BY <1>3 DEF UpdateRead, DeleteRead
  <2>2. my' = [my EXCEPT ![w] = [Blank EXCEPT !.entry = e, !.ran = running[e]]]
    BY <2>1 DEF OwnEntryRead
  <2>3. my'[w].entry = e /\ pc'[w] \in {"update", "delete"}
    BY <2>1, <2>2 DEF OwnEntryRead
  <2>4. \A v \in Workers : v # w => my'[v] = my[v] /\ pc'[v] = pc[v]
    BY <2>1, <2>2 DEF OwnEntryRead
  <2>5. billed[e] = None /\ UNCHANGED <<billed, undercut>>
    BY <2>1 DEF OwnEntryRead, Billable
  <2> QED
    BY <2>3, <2>4, <2>5
<1>4. ASSUME NEW w \in Workers, StartWrite(w) PROVE ChecksHold'
  BY <1>4 DEF StartWrite, StartSucceeds, Exists, OneTimerIndex
<1>5. ASSUME NEW w \in Workers, StopWrite(w) PROVE ChecksHold'
  BY <1>5 DEF StopWrite, Exists
<1>6. ASSUME NEW w \in Workers, UpdateWrite(w) PROVE ChecksHold'
  BY <1>6 DEF UpdateWrite, UpdateSucceeds, Exists, OneTimerIndex
<1>7. ASSUME NEW w \in Workers, DeleteWrite(w) PROVE ChecksHold'
  BY <1>7 DEF DeleteWrite, Strike, Exists
<1>8. ASSUME NEW w \in Workers, WriteFails(w) PROVE ChecksHold'
  BY <1>8 DEF WriteFails
<1>9. ASSUME NEW w \in Workers, GenerateRead(w) PROVE ChecksHold'
  BY <1>9 DEF GenerateRead, Billable
<1>10. ASSUME NEW w \in Workers, NEW merged \in BOOLEAN, GenerateWrite(w, merged) PROVE ChecksHold'
  BY <1>10 DEF GenerateWrite, NewInvoice
<1>11. ASSUME NEW w \in Workers, GenerateFails(w) PROVE ChecksHold'
  BY <1>11 DEF GenerateFails
<1>12. ASSUME NEW w \in Workers, CaptureRead(w) \/ CaptureWrite(w) \/ CaptureFails(w) PROVE ChecksHold'
  BY <1>12 DEF CaptureRead, CaptureWrite, CaptureFails
<1>13. ASSUME NEW w \in Workers, NEW u \in Users, NEW c \in Capture, ResolveRead(w, u, c)
       PROVE  ChecksHold'
  BY <1>13 DEF ResolveRead
<1>14. ASSUME NEW w \in Workers, ResolveWrite(w) PROVE ChecksHold'
  BY <1>14 DEF ResolveWrite, Insert
<1>15. ASSUME NEW w \in Workers, ResolveFails(w) PROVE ChecksHold'
  BY <1>15 DEF ResolveFails
<1>16. ASSUME NEW u \in Users, CreateManual(u) PROVE ChecksHold'
  BY <1>16 DEF CreateManual, Insert
<1>17. ASSUME NEW entries \in SUBSET Entry, RecordExternalInvoice(entries) PROVE ChecksHold'
  BY <1>17 DEF RecordExternalInvoice, NewInvoice, Billable
<1>18. ASSUME NEW i \in Invoice, RemoveInvoice(i) PROVE ChecksHold'
  BY <1>18 DEF RemoveInvoice, Release
<1>l. ASSUME NEW i \in Invoice, NEW lines \in SUBSET Entry, ReplaceLineItems(i, lines)
      PROVE  ChecksHold'
  BY <1>l DEF ReplaceLineItems, Release
<1>p. ASSUME NEW p \in Project, RemoveProject(p) PROVE ChecksHold'
  BY <1>p DEF RemoveProject, Strike
<1>u. ASSUME NEW u \in Users, DeleteAccount(u) PROVE ChecksHold'
  BY <1>u DEF DeleteAccount, Strike
<1>19. CASE UNCHANGED vars
  BY <1>19 DEF vars
<1> QED
  BY <1>1, <1>2, <1>3, <1>4, <1>5, <1>6, <1>7, <1>8, <1>9, <1>10, <1>11, <1>12, <1>13,
     <1>14, <1>15, <1>16, <1>17, <1>18, <1>19, <1>l, <1>p, <1>u
     DEF Next, Track, Bill, Complete

----------------------------------------------------------------------------
(* What is charged and what is locked: one step per action that touches it. *)

\* A new invoice charges entries that are free, and others only by overtaking.
LEMMA NewInvoiceCharge ==
  ASSUME IInv, NEW i, NEW entries \in SUBSET Entry, NewInvoice(i, entries),
         UNCHANGED <<fresh, owner, relined>>,
         overtaken' = overtaken \cup (entries \ Billable),
         \A e \in entries : e \notin fresh
  PROVE  ChargeInv'
<1> USE DEF IInv, TypeOK, ChargeInv, NewInvoice, Billable
<1>1. ChargedIsLocked'
  BY DEF ChargedIsLocked
<1>2. LockedIsCharged'
  BY DEF LockedIsCharged
<1>3. \A j \in Invoice \ relined : charged[j] \cap entries \subseteq overtaken \cup (entries \ Billable)
  BY DEF ChargedIsLocked
<1>4. DoubleChargeIsExplained'
  BY <1>3 DEF DoubleChargeIsExplained
<1> QED BY <1>1, <1>2, <1>4

LEMMA NextChargeInv == ASSUME IInv, [Next]_vars PROVE ChargeInv'
<1>1. ASSUME NEW w \in Workers, NEW merged \in BOOLEAN, GenerateWrite(w, merged)
      PROVE  ChargeInv'
  <2>1. PICK i \in unused : NewInvoice(i, my[w].picks)
    BY <1>1 DEF GenerateWrite
  <2>2. my[w].picks \in SUBSET Entry /\ \A e \in my[w].picks : e \notin fresh
    BY DEF IInv, TypeOK, Memory, MemorySane
  <2> QED
    BY <1>1, <2>1, <2>2, NewInvoiceCharge DEF GenerateWrite
<1>2. ASSUME NEW entries \in SUBSET Entry, RecordExternalInvoice(entries) PROVE ChargeInv'
  <2>1. PICK i \in unused : NewInvoice(i, entries)
    BY <1>2 DEF RecordExternalInvoice
  <2>2. \A e \in entries : e \notin fresh
    BY <1>2 DEF RecordExternalInvoice, Billable, IInv, TypeOK
  <2>3. overtaken' = overtaken \cup (entries \ Billable)
    BY <1>2 DEF RecordExternalInvoice
  <2> QED
    BY <1>2, <2>1, <2>2, <2>3, NewInvoiceCharge DEF RecordExternalInvoice
<1> USE DEF IInv, TypeOK, ChargeInv, ChargedIsLocked, LockedIsCharged,
            DoubleChargeIsExplained, entryVars, invoiceVars, chargeVars
<1>3. ASSUME NEW i \in Invoice, RemoveInvoice(i) PROVE ChargeInv'
  BY <1>3 DEF RemoveInvoice, Release
<1>l. ASSUME NEW i \in Invoice, NEW lines \in SUBSET Entry, ReplaceLineItems(i, lines)
      PROVE  ChargeInv'
  BY <1>l DEF ReplaceLineItems, Release
<1>s. ASSUME NEW entries \in SUBSET Entry, Strike(entries), UNCHANGED chargeVars
      PROVE  ChargeInv'
  BY <1>s DEF Strike
<1>4. ASSUME NEW w \in Workers, DeleteWrite(w) PROVE ChargeInv'
  BY <1>4, <1>s DEF DeleteWrite, Exists, Memory
<1>p. ASSUME NEW p \in Project, RemoveProject(p) PROVE ChargeInv'
  BY <1>p, <1>s DEF RemoveProject
<1>u. ASSUME NEW u \in Users, DeleteAccount(u) PROVE ChargeInv'
  BY <1>u, <1>s DEF DeleteAccount
<1>5. ASSUME NEW w \in Workers, StartWrite(w) PROVE ChargeInv'
  BY <1>5 DEF StartWrite
<1>6. ASSUME NEW w \in Workers, ResolveWrite(w) PROVE ChargeInv'
  BY <1>6 DEF ResolveWrite, Insert
<1>7. ASSUME NEW u \in Users, CreateManual(u) PROVE ChargeInv'
  BY <1>7 DEF CreateManual, Insert
<1>8. ASSUME UNCHANGED <<fresh, owner, billed, charged, relined, overtaken>> PROVE ChargeInv'
  BY <1>8
<1>9. ASSUME NEW w \in Workers, StopWrite(w) \/ UpdateWrite(w) \/ WriteFails(w)
                \/ GenerateRead(w) \/ GenerateFails(w) \/ CaptureRead(w) \/ CaptureWrite(w)
                \/ CaptureFails(w) \/ ResolveFails(w)
      PROVE  UNCHANGED <<fresh, owner, billed, charged, relined, overtaken>>
  BY <1>9 DEF StopWrite, UpdateWrite, WriteFails, GenerateRead, GenerateFails, CaptureRead,
              CaptureWrite, CaptureFails, ResolveFails
<1>10. ASSUME NEW w \in Workers, NEW u \in Users,
              StopRead(w, u) \/ \E p \in Project : StartRead(w, u, p)
       PROVE  UNCHANGED <<fresh, owner, billed, charged, relined, overtaken>>
  BY <1>10 DEF StartRead, StopRead
<1>11. ASSUME NEW w \in Workers, NEW e \in Entry, UpdateRead(w, e) \/ DeleteRead(w, e)
       PROVE  UNCHANGED <<fresh, owner, billed, charged, relined, overtaken>>
  BY <1>11 DEF UpdateRead, DeleteRead, OwnEntryRead
<1>12. ASSUME NEW w \in Workers, NEW u \in Users, NEW c \in Capture, ResolveRead(w, u, c)
       PROVE  UNCHANGED <<fresh, owner, billed, charged, relined, overtaken>>
  BY <1>12 DEF ResolveRead
<1>13. CASE UNCHANGED vars
  BY <1>8, <1>13 DEF vars
<1> QED
  BY <1>1, <1>2, <1>3, <1>4, <1>5, <1>6, <1>7, <1>8, <1>9, <1>10, <1>11, <1>12, <1>13,
     <1>l, <1>p, <1>u
     DEF Next, Track, Bill, Complete

\* The inductive invariant holds in every reachable state.
LEMMA InductiveInvariant == Spec => []IInv
<1>1. Init => IInv
  BY InitIInv
<1>2. IInv /\ [Next]_vars => IInv'
  BY NextTypeOK, NextOnce, NextMemorySane, NextChecksHold, NextChargeInv DEF IInv, Once
<1> QED BY <1>1, <1>2, PTL DEF Spec

\* The variables keep their types, and a deleted entry neither runs nor is billed.
THEOREM TypeCorrect == Spec => []TypeOK
BY InductiveInvariant, PTL DEF IInv

\* No user ever has two running timers: start() ends the one it found and the
\* index refuses the others, for start() and for an edit of a stale entry.
THEOREM OneTimerPerUser == Spec => []OneTimer
BY InductiveInvariant, PTL DEF IInv

\* A capture is resolved into one entry: the claim lets one request through.
THEOREM CaptureResolvedOnce == Spec => []CaptureOnce
BY InductiveInvariant, PTL DEF IInv

\* Two invoices charge the same entry only where update() replaced the lines of one,
\* or a generateInvoice() charged it although it was billed or deleted since it was read.
THEOREM TimeChargedOnce == Spec => []DoubleChargeIsExplained
BY InductiveInvariant, PTL DEF IInv, ChargeInv

\* An entry locked as invoiced is always charged by the invoice it leads to.
THEOREM LockedTimeIsCharged == Spec => []LockedIsCharged
BY InductiveInvariant, PTL DEF IInv, ChargeInv

----------------------------------------------------------------------------
(* TimeBilling implements TimeLedger, one lemma per kind of step. *)

\* What is not frozen in the ledger: an entry that a request has found free, and
\* an entry that is billable.
LEMMA FreeWhenFound ==
  ASSUME IInv
  PROVE  /\ \A e \in Billable : Ledger!Taken(e) => e \in overtaken
         /\ \A w \in Workers : Checked(w) /\ Exists(my[w].entry) => Ledger!Free(my[w].entry)
<1> USE DEF IInv, TypeOK, ChargeInv, ChargedIsLocked, Ledger!Taken
<1>1. ASSUME NEW e \in Entry, owner[e] # None, billed[e] = None, Ledger!Taken(e)
      PROVE  e \in overtaken
  BY <1>1
<1>2. \A e \in Billable : Ledger!Taken(e) => e \in overtaken
  BY <1>1 DEF Billable
<1>3. ASSUME NEW w \in Workers, Checked(w), Exists(my[w].entry) PROVE Ledger!Free(my[w].entry)
  <2>1. my[w].entry \in Entry /\ owner[my[w].entry] # None
    BY <1>3 DEF ChecksHold, Exists
  <2>2. w \notin undercut => billed[my[w].entry] = None
    BY <1>3 DEF ChecksHold
  <2>3. w \in undercut => my[w].entry \in {my[v].entry : v \in undercut}
    OBVIOUS
  <2> QED
    BY <2>1, <2>2, <2>3, <1>1 DEF Ledger!Free
<1> QED
  BY <1>2, <1>3

\* A request that ends leaves the entries of the others as they are.
LEMMA OthersRace ==
  ASSUME IInv, NEW w \in Workers, Forget(w), undercut' = undercut \ {w}
  PROVE  Ledger!Finish
BY DEF IInv, TypeOK, Forget, Ledger!Finish

\* A request that was not undercut begins or ends.
LEMMA RaceUntouched ==
  ASSUME IInv, NEW w \in Workers, w \notin undercut, NEW m, my' = [my EXCEPT ![w] = m],
         undercut' = undercut
  PROVE  {my[v].entry : v \in undercut}' = {my[v].entry : v \in undercut}
BY DEF IInv, TypeOK

LEMMA StartIsWrite ==
  ASSUME IInv, NEW w \in Workers, StartWrite(w)
  PROVE  \E p \in Users, e \in Entry : Ledger!Write(p, e)
<1> USE DEF IInv, TypeOK, invoiceVars, chargeVars
<1> DEFINE u == my[w].user
<1>1. PICK e \in fresh :
        /\ StartSucceeds(w, e)
        /\ fresh' = fresh \ {e}
        /\ owner' = [owner EXCEPT ![e] = u]
        /\ running' = [d \in Entry |-> d = e \/ (running[d] /\ d # my[w].entry)]
  BY DEF StartWrite
<1>2. pc[w] = "start" /\ u \in Users /\ e \in Entry /\ owner[e] = None
  BY DEF StartWrite, Goto, MemorySane
<1>3. e \notin Timers(u) /\ Timers(u) \subseteq {my[w].entry}
  BY <1>1, <1>2 DEF StartSucceeds, OneTimerIndex, Timers
<1>4. \A d \in Entry : d = my[w].entry /\ running[d] => owner[d] = u
  BY <1>1, <1>2 DEF StartSucceeds, Exists, MemorySane
<1>5. {d \in Entry : running'[d]}
        = ({d \in Entry : running[d]} \ {d \in {c \in Entry : running[c]} : owner[d] = u}) \cup {e}
  BY <1>1, <1>2, <1>3, <1>4 DEF Timers
<1>6. {my[v].entry : v \in undercut}' = {my[v].entry : v \in undercut}
  <2>1. w \notin undercut
    BY <1>2 DEF ChecksHold, Checked
  <2> QED
    BY <2>1, RaceUntouched DEF StartWrite, Forget
<1>7. gone \cap {u, ProjectOf[e]} = {}
  BY <1>1 DEF StartSucceeds, Accepts
<1>8. Ledger!Write(u, e)
  BY <1>1, <1>2, <1>5, <1>6, <1>7 DEF Ledger!Write, Ledger!Running, Ledger!billVars, StartWrite
<1> QED
  BY <1>2, <1>8

\* Manual entries and resolved captures are written with the clock at rest.
LEMMA InsertIsWrite ==
  ASSUME IInv, NEW u \in Users, NEW e, NEW c, Insert(e, u, FALSE, c), UNCHANGED <<gone, invoiceVars>>,
         {my[v].entry : v \in undercut}' = {my[v].entry : v \in undercut}
  PROVE  e \in Entry /\ Ledger!Write(u, e)
<1> USE DEF IInv, TypeOK, Insert
<1>1. e \in Entry /\ ~running[e]
  OBVIOUS
<1>2. {d \in Entry : running'[d]} = {d \in Entry : running[d]}
  BY <1>1
<1>3. gone \cap {u, ProjectOf[e]} = {}
  BY DEF Accepts
<1> QED
  BY <1>1, <1>2, <1>3 DEF Ledger!Write, Ledger!billVars, invoiceVars, chargeVars

LEMMA ClockMoves ==
  ASSUME IInv, NEW w \in Workers, StopWrite(w) \/ UpdateWrite(w)
  PROVE  \E e \in Entry : Ledger!Stop(e) \/ \E p \in Users : Ledger!Resume(p, e)
<1> USE DEF IInv, TypeOK
<1>0. PICK e : e = my[w].entry
  OBVIOUS
<1>1. Exists(e)
  BY <1>0 DEF StopWrite, UpdateWrite, UpdateSucceeds
<1>2. e \in Entry /\ owner[e] \in Users
  BY <1>0, <1>1 DEF Exists, Memory
<1>3. ASSUME running' = [running EXCEPT ![e] = FALSE], Ledger!Finish,
             UNCHANGED <<gone, fresh, owner, chargeVars>>
      PROVE  Ledger!Stop(e)
  <2>1. {d \in Entry : running'[d]} = {d \in Entry : running[d]} \ {e}
    BY <1>0, <1>2, <1>3
  <2> QED
    BY <1>0, <1>3, <2>1 DEF Ledger!Stop, Ledger!billVars, chargeVars
<1>4. CASE StopWrite(w)
  <2>1. w \notin undercut
    BY <1>0, <1>4 DEF ChecksHold, Checked, StopWrite, Goto
  <2>2. Ledger!Finish
    BY <1>0, <1>4, <2>1, RaceUntouched DEF StopWrite, Forget, invoiceVars, Ledger!Finish
  <2> QED
    BY <1>0, <1>2, <1>3, <1>4, <2>2 DEF StopWrite, invoiceVars
<1>5. CASE UpdateWrite(w)
  <2>1. PICK runs \in {FALSE, my[w].ran} :
            /\ UpdateSucceeds(w, runs)
            /\ running' = [running EXCEPT ![e] = runs]
    BY <1>0, <1>5 DEF UpdateWrite
  <2>2. Ledger!Finish /\ UNCHANGED <<gone, fresh, owner, chargeVars>>
    BY <1>0, <1>5, OthersRace DEF UpdateWrite
  <2>3. runs \in BOOLEAN
    BY <1>0 DEF Memory
  <2>4. CASE runs = FALSE
    BY <1>0, <1>2, <1>3, <2>1, <2>2, <2>4
  <2>5. CASE runs = TRUE
    <3>1. Timers(owner[e]) \subseteq {e}
      BY <1>0, <2>1, <2>5 DEF UpdateSucceeds, OneTimerIndex
    <3>2. {d \in Entry : running'[d]} = {d \in Entry : running[d]} \cup {e}
      BY <1>0, <1>2, <2>1, <2>5
    <3>3. Ledger!Free(e)
      BY <1>0, <1>1, <1>5, FreeWhenFound DEF UpdateWrite, Goto, Checked
    <3>4. Ledger!Resume(owner[e], e)
      BY <1>0, <2>2, <3>1, <3>2, <3>3 DEF Ledger!Resume, Ledger!Running, Ledger!billVars, Timers,
                                                chargeVars
    <3> QED
      BY <1>0, <1>2, <3>4
  <2> QED
    BY <1>0, <2>3, <2>4, <2>5
<1> QED
  BY <1>0, <1>4, <1>5

LEMMA DeleteIsTakeBack ==
  ASSUME IInv, NEW w \in Workers, DeleteWrite(w)
  PROVE  \E e \in Entry : Ledger!TakeBack(e)
<1> USE DEF IInv, TypeOK
<1>0. PICK e : e = my[w].entry
  OBVIOUS
<1>1. e \in Entry
  BY <1>0 DEF DeleteWrite, Exists, Memory
<1>2. {d \in Entry : running'[d]} = {d \in Entry : running[d]} \ {e}
  BY <1>0, <1>1 DEF DeleteWrite, Strike
<1>3. Ledger!Free(e)
  BY <1>0, FreeWhenFound DEF DeleteWrite, Goto, Checked
<1>4. Ledger!Finish
  BY <1>0, OthersRace DEF DeleteWrite
<1>5. owner' = [owner EXCEPT ![e] = None] /\ UNCHANGED <<gone, fresh, chargeVars>>
  BY <1>0, <1>1 DEF DeleteWrite, Strike
<1>6. Ledger!TakeBack(e)
  BY <1>2, <1>3, <1>4, <1>5 DEF Ledger!TakeBack, Ledger!billVars, chargeVars
<1> QED
  BY <1>1, <1>6

\* The entries of a project or of a user go with it.
LEMMA StrikeIsClose ==
  ASSUME TypeOK, NEW x \in Users \cup Project, gone' = gone \cup {x},
         Strike({e \in Entry : x \in {owner[e], ProjectOf[e]}}), UNCHANGED <<invoiceVars, my>>
  PROVE  Ledger!Close(x)
<1> USE DEF TypeOK
<1>1. Ledger!Its(x) = {e \in Entry : x \in {owner[e], ProjectOf[e]}}
  BY DEF Ledger!Its
<1>2. {e \in Entry : running'[e]} = {e \in Entry : running[e]} \ Ledger!Its(x)
  BY <1>1 DEF Strike
<1>3. owner' = [e \in Entry |-> IF e \in Ledger!Its(x) THEN None ELSE owner[e]]
  BY <1>1 DEF Strike
<1>4. fresh' = fresh /\ {my[v].entry : v \in undercut}' = {my[v].entry : v \in undercut}
  BY DEF Strike, invoiceVars
<1> QED
  BY <1>2, <1>3, <1>4 DEF Ledger!Close, Ledger!billVars, invoiceVars, chargeVars

\* A new invoice disputes exactly the entries it charges although they are not
\* billable, and races with the requests it undercuts.
LEMMA NewInvoiceIsIssue ==
  ASSUME IInv, NEW i \in Invoice, NEW entries \in SUBSET Entry, NewInvoice(i, entries),
         entries # {}, entries \cap fresh = {}, UNCHANGED <<gone, fresh, owner, running, relined>>,
         overtaken' = overtaken \cup (entries \ Billable),
         \A v \in Workers : Checked(v) => my'[v] = my[v]
  PROVE  Ledger!Issue(i, entries)
<1> USE DEF IInv, TypeOK
<1>1. overtaken' = overtaken \cup {e \in entries : owner[e] = None \/ Ledger!Taken(e)}
  <2>1. ASSUME NEW e \in entries, owner[e] # None, billed[e] # None PROVE Ledger!Taken(e)
    <3>1. billed[e] \in Invoice \ relined /\ e \in charged[billed[e]]
      BY <2>1 DEF ChargeInv, LockedIsCharged
    <3> QED
      BY <3>1 DEF Ledger!Taken
  <2>2. \A e \in entries : e \in Billable /\ Ledger!Taken(e) => e \in overtaken
    BY FreeWhenFound
  <2>3. \A e \in entries : e \in Billable => owner[e] # None
    BY DEF Billable
  <2>4. \A e \in entries : e \notin Billable => owner[e] = None \/ billed[e] # None
    BY DEF Billable
  <2> QED
    BY <2>1, <2>2, <2>3, <2>4
<1>2. \A v \in undercut' : v \in Workers /\ my'[v] = my[v]
  BY DEF NewInvoice, ChecksHold
<1>3. undercut \subseteq undercut'
      /\ \A v \in undercut' \ undercut : my[v].entry \in entries
  BY DEF NewInvoice
<1>4. /\ {my[v].entry : v \in undercut} \subseteq {my[v].entry : v \in undercut}'
      /\ {my[v].entry : v \in undercut}' \subseteq {my[v].entry : v \in undercut} \cup entries
  BY <1>2, <1>3
<1> QED
  BY <1>1, <1>4 DEF NewInvoice, Ledger!Issue, Ledger!bookVars

\* Every step of TimeBilling is a step of the ledger or changes nothing in it.
LEMMA NextIsLedgerNext ==
  ASSUME IInv, [Next]_vars
  PROVE  [Ledger!LedgerNext]_(Ledger!ledgerVars)
<1>a. ASSUME NEW w \in Workers, ~Checked(w), NEW m, my' = [my EXCEPT ![w] = m],
             UNCHANGED <<entryVars, invoiceVars>>
      PROVE  UNCHANGED Ledger!ledgerVars
  <2>1. w \notin undercut
    BY <1>a DEF IInv, ChecksHold
  <2>2. {my[v].entry : v \in undercut}' = {my[v].entry : v \in undercut}
    BY <1>a, <2>1, RaceUntouched DEF invoiceVars
  <2> QED
    BY <1>a, <2>2 DEF entryVars, invoiceVars, chargeVars, Ledger!ledgerVars, Ledger!bookVars,
                      Ledger!billVars
<1>b. ASSUME UNCHANGED <<entryVars, invoiceVars, my>> PROVE UNCHANGED Ledger!ledgerVars
  BY <1>b DEF entryVars, invoiceVars, chargeVars, Ledger!ledgerVars, Ledger!bookVars,
              Ledger!billVars
<1>1. ASSUME NEW w \in Workers, NEW u \in Users,
             StopRead(w, u) \/ \E p \in Project : StartRead(w, u, p)
      PROVE  UNCHANGED Ledger!ledgerVars
  BY <1>1, <1>a DEF StartRead, StopRead, Goto, Checked, Remember
<1>2. ASSUME NEW w \in Workers, NEW e \in Entry, UpdateRead(w, e) \/ DeleteRead(w, e)
      PROVE  UNCHANGED Ledger!ledgerVars
  BY <1>2, <1>a DEF UpdateRead, DeleteRead, OwnEntryRead, Goto, Checked, Remember
<1>3. ASSUME NEW w \in Workers, GenerateRead(w) \/ GenerateFails(w) \/ ResolveFails(w)
      PROVE  UNCHANGED Ledger!ledgerVars
  BY <1>3, <1>a DEF GenerateRead, GenerateFails, ResolveFails, Goto, Checked, Remember, Forget
<1>4. ASSUME NEW w \in Workers, NEW u \in Users, NEW c \in Capture, ResolveRead(w, u, c)
      PROVE  UNCHANGED Ledger!ledgerVars
  BY <1>4, <1>a DEF ResolveRead, Goto, Checked, Remember
<1>5. ASSUME NEW w \in Workers, CaptureRead(w) \/ CaptureWrite(w) \/ CaptureFails(w)
      PROVE  UNCHANGED Ledger!ledgerVars
  BY <1>5, <1>b DEF CaptureRead, CaptureWrite, CaptureFails
<1>6. CASE UNCHANGED vars
  BY <1>6, <1>b DEF vars
<1>7. ASSUME NEW w \in Workers, WriteFails(w) PROVE Ledger!LedgerNext
  <2>1. Ledger!Finish
    BY <1>7, OthersRace DEF WriteFails
  <2>2. Ledger!GiveUp
    BY <1>7, <2>1 DEF WriteFails, Ledger!GiveUp, Ledger!bookVars, Ledger!billVars, entryVars,
                         chargeVars
  <2> QED
    BY <2>2 DEF Ledger!LedgerNext
<1>8. ASSUME NEW w \in Workers, StartWrite(w) PROVE Ledger!LedgerNext
  BY <1>8, StartIsWrite DEF Ledger!LedgerNext
<1>9. ASSUME NEW w \in Workers, StopWrite(w) \/ UpdateWrite(w) PROVE Ledger!LedgerNext
  BY <1>9, ClockMoves DEF Ledger!LedgerNext
<1>10. ASSUME NEW w \in Workers, DeleteWrite(w) PROVE Ledger!LedgerNext
  BY <1>10, DeleteIsTakeBack DEF Ledger!LedgerNext
<1>11. ASSUME NEW w \in Workers, ResolveWrite(w) PROVE Ledger!LedgerNext
  <2>1. w \notin undercut /\ my[w].user \in Users
    BY <1>11 DEF ResolveWrite, Goto, IInv, ChecksHold, Checked, MemorySane
  <2>2. {my[v].entry : v \in undercut}' = {my[v].entry : v \in undercut}
    BY <1>11, <2>1, RaceUntouched DEF ResolveWrite, Forget, invoiceVars
  <2>3. PICK e \in fresh : Insert(e, my[w].user, FALSE, my[w].capture)
    BY <1>11 DEF ResolveWrite
  <2>4. UNCHANGED <<gone, billed, invoiceVars>>
    BY <1>11 DEF ResolveWrite
  <2>5. e \in Entry /\ Ledger!Write(my[w].user, e)
    BY <2>1, <2>2, <2>3, <2>4, InsertIsWrite
  <2> QED
    BY <2>1, <2>5 DEF Ledger!LedgerNext
<1>12. ASSUME NEW u \in Users, CreateManual(u) PROVE Ledger!LedgerNext
  <2>1. PICK e \in fresh : Insert(e, u, FALSE, None)
    BY <1>12 DEF CreateManual
  <2>2. UNCHANGED <<gone, invoiceVars>> /\ {my[v].entry : v \in undercut}' = {my[v].entry : v \in undercut}
    BY <1>12 DEF CreateManual, invoiceVars
  <2>3. e \in Entry /\ Ledger!Write(u, e)
    BY <2>1, <2>2, InsertIsWrite
  <2> QED
    BY <2>3 DEF Ledger!LedgerNext
<1>13. ASSUME NEW w \in Workers, NEW merged \in BOOLEAN, GenerateWrite(w, merged)
       PROVE  Ledger!LedgerNext
  <2>0. PICK picks : picks = my[w].picks
    OBVIOUS
  <2>1. PICK i \in unused : NewInvoice(i, picks)
    BY <1>13, <2>0 DEF GenerateWrite
  <2>2. i \in Invoice /\ picks \in SUBSET Entry /\ picks # {} /\ picks \cap fresh = {}
    BY <1>13, <2>0 DEF GenerateWrite, Goto, IInv, TypeOK, MemorySane, Memory
  <2>3. \A v \in Workers : Checked(v) => my'[v] = my[v]
    BY <1>13 DEF GenerateWrite, Goto, Checked, Forget, IInv, TypeOK
  <2>4. Ledger!Issue(i, picks)
    <3>1. /\ UNCHANGED <<gone, fresh, owner, running, relined>>
          /\ overtaken' = overtaken \cup (picks \ Billable)
      BY <1>13, <2>0 DEF GenerateWrite
    <3> QED
      BY <2>1, <2>2, <2>3, <3>1, NewInvoiceIsIssue
  <2> QED
    BY <2>2, <2>4 DEF Ledger!LedgerNext
<1>14. ASSUME NEW entries \in SUBSET Entry, RecordExternalInvoice(entries)
       PROVE  Ledger!LedgerNext
  <2>1. PICK i \in unused : NewInvoice(i, entries)
    BY <1>14 DEF RecordExternalInvoice
  <2>2. i \in Invoice /\ entries # {} /\ entries \cap fresh = {} /\ entries \ Billable = {}
    BY <1>14 DEF RecordExternalInvoice, Billable, IInv, TypeOK
  <2>3. Ledger!Issue(i, entries)
    BY <1>14, <2>1, <2>2, NewInvoiceIsIssue DEF RecordExternalInvoice
  <2> QED
    BY <2>2, <2>3 DEF Ledger!LedgerNext
<1>15. ASSUME NEW i \in Invoice, RemoveInvoice(i) PROVE Ledger!LedgerNext
  <2>1. Ledger!Withdraw(i)
    BY <1>15 DEF RemoveInvoice, Ledger!Withdraw, Ledger!bookVars
  <2> QED
    BY <2>1 DEF Ledger!LedgerNext
<1>16. ASSUME NEW i \in Invoice, NEW lines \in SUBSET Entry, ReplaceLineItems(i, lines)
       PROVE  Ledger!LedgerNext
  <2>1. i \notin unused
    BY <1>16 DEF ReplaceLineItems, IInv, TypeOK
  <2>2. Ledger!Rewrite(i, lines)
    BY <1>16, <2>1 DEF ReplaceLineItems, Ledger!Rewrite, Ledger!bookVars
  <2> QED
    BY <2>2 DEF Ledger!LedgerNext
<1>17. ASSUME NEW p \in Project, RemoveProject(p) PROVE Ledger!LedgerNext
  <2>1. {e \in Entry : ProjectOf[e] = p} = {e \in Entry : p \in {owner[e], ProjectOf[e]}}
    BY DEF IInv, TypeOK
  <2>2. Ledger!Close(p)
    BY <1>17, <2>1, StrikeIsClose DEF RemoveProject, IInv
  <2> QED
    BY <2>2 DEF Ledger!LedgerNext
<1>18. ASSUME NEW u \in Users, DeleteAccount(u) PROVE Ledger!LedgerNext
  <2>1. {e \in Entry : owner[e] = u} = {e \in Entry : u \in {owner[e], ProjectOf[e]}}
    OBVIOUS
  <2>2. Ledger!Close(u)
    BY <1>18, <2>1, StrikeIsClose DEF DeleteAccount, IInv
  <2> QED
    BY <2>2 DEF Ledger!LedgerNext
<1> QED
  BY <1>1, <1>2, <1>3, <1>4, <1>5, <1>6, <1>7, <1>8, <1>9, <1>10, <1>11, <1>12, <1>13,
     <1>14, <1>15, <1>16, <1>17, <1>18 DEF Next, Track, Bill, Complete

\* TimeBilling implements TimeLedger: whatever requests interleave, entries and
\* invoices change only as the books on time allow.
THEOREM ImplementsTimeLedger == Spec => TimeLedgerSpec
<1>1. Init => Ledger!LedgerInit
  <2> SUFFICES ASSUME Init PROVE Ledger!LedgerInit
    OBVIOUS
  <2>1. {e \in Entry : running[e]} = {} /\ {my[w].entry : w \in undercut} = {}
    BY DEF Init
  <2> QED
    BY <2>1 DEF Init, Ledger!LedgerInit
<1>2. IInv /\ [Next]_vars => [Ledger!LedgerNext]_(Ledger!ledgerVars)
  BY NextIsLedgerNext
<1> QED
  BY InductiveInvariant, <1>1, <1>2, PTL DEF Spec, TimeLedgerSpec, Ledger!LedgerSpec
=============================================================================
