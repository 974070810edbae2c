---------------------------- MODULE ScreenControls ----------------------------
(* A row of the API, and the screens that show it as it was when they loaded   *)
(* it. The row changes by requests of screens, up to date or not, and by the   *)
(* machines; a screen loads it again at any time.                              *)
EXTENDS DocumentControls, WorkControls, MoneyControls, PeopleControls

CONSTANT MaxBehind     \* changes of the row a screen can have missed

VARIABLES row,         \* the row as the API has it
          seen,        \* the row as the open screens show it
          behind       \* changes since they loaded it
controls == <<row, seen, behind>>

NoRow == [kind |-> "none"]     \* no screen with a row is open
NoRowKinds == {"none", "gone"}

Offers(v, r) ==
  CASE r.kind \in FileKinds    -> StorageOffers(v, r)
    [] r.kind \in WorkKinds    -> WorkOffers(v, r)
    [] r.kind \in MoneyKinds   -> MoneyOffers(v, r)
    [] r.kind \in PeopleKinds  -> PeopleOffers(v, r)
    [] r.kind \in NoRowKinds   -> {}
Accepts(v, op, r) ==
  CASE r.kind \in FileKinds    -> StorageAccepts(v, op, r)
    [] r.kind \in WorkKinds    -> WorkAccepts(v, op, r)
    [] r.kind \in MoneyKinds   -> MoneyAccepts(v, op, r)
    [] r.kind \in PeopleKinds  -> PeopleAccepts(v, op, r)
    [] r.kind \in NoRowKinds   -> FALSE
After(v, op, r) ==
  CASE r.kind \in FileKinds    -> StorageAfter(v, op, r)
    [] r.kind \in WorkKinds    -> WorkAfter(v, op, r)
    [] r.kind \in MoneyKinds   -> MoneyAfter(op, r)
    [] r.kind \in PeopleKinds  -> PeopleAfter(op, r)
Refusals(v, r) ==
  CASE r.kind \in FileKinds    -> StorageRefusals(v, r)
    [] r.kind \in WorkKinds    -> WorkRefusals(v, r)
    [] r.kind \in MoneyKinds   -> MoneyRefusals(v, r)
    [] r.kind \in PeopleKinds  -> PeopleRefusals(v, r)
    [] r.kind \in NoRowKinds   -> {}
ScreenRules(v, r) ==
  CASE r.kind \in FileKinds    -> StorageScreenRules(v, r)
    [] r.kind \in WorkKinds    -> WorkScreenRules(v, r)
    [] r.kind \in MoneyKinds   -> MoneyScreenRules(v, r)
    [] r.kind \in PeopleKinds  -> PeopleScreenRules(v, r)
    [] r.kind \in NoRowKinds   -> {}

MachineOps == {"deadline", "lapse", "expire"} \cup AssignOps \cup StripeOps \cup AgentOps

ControlsInit ==
  /\ row \in NewDocuments \cup NewFiles \cup NewWork \cup NewMoney \cup NewPeople
  /\ seen = row
  /\ behind = 0

\* A request is accepted: of a screen that is up to date or not, or of a machine.
Asked(v) == IF v \in Machines THEN MachineOps ELSE Offers(v, seen) \cup Offers(v, row)
Operate ==
  /\ behind < MaxBehind
  /\ \E v \in Actors : \E op \in Asked(v) : Accepts(v, op, row) /\ row' = After(v, op, row)
  /\ row' # row
  /\ behind' = behind + 1
  /\ UNCHANGED seen

\* The project is archived, or taken back.
Archive ==
  /\ behind < MaxBehind
  /\ row.kind # "project" /\ "archived" \in DOMAIN row
  /\ row' = [row EXCEPT !.archived = ~row.archived]
  /\ behind' = behind + 1
  /\ UNCHANGED seen

Refresh ==
  /\ seen # row
  /\ seen' = row
  /\ behind' = 0
  /\ UNCHANGED row

ControlsNext == Operate \/ Archive \/ Refresh
ControlsSpec == ControlsInit /\ [][ControlsNext]_controls

\* What an up-to-date screen offers, the API accepts: nobody is shown a button
\* that can only fail, but for the refusals each module names.
OffersAreKept ==
  seen = row => \A v \in Viewers \ {"preview"} : \A op \in Offers(v, row) :
                    Accepts(v, op, row) <=> op \notin Refusals(v, row)

\* What a screen still offers though it is no longer so, the API refuses: a click
\* on a screen that others have overtaken does nothing that the same screen would
\* not offer if it were up to date, but for the rules that only the screens keep.
StaleOffersAreKnown ==
  \A v \in Viewers : \A op \in Offers(v, seen) :
     Accepts(v, op, row) => op \in Offers(v, row) \cup ScreenRules(v, row)

-----------------------------------------------------------------------------
(* The inductive invariant behind them.                                        *)

AnyRow == Document \cup File \cup Project \cup Task \cup Update \cup Comment \cup Note \cup Entry
            \cup Capture \cup Invoice \cup Unbilled \cup Subscription \cup Stripe \cup Member
            \cup Invitation \cup Workspace \cup Account \cup Setup \cup {Gone}
ControlsTypeOK == row \in AnyRow /\ seen \in AnyRow /\ behind \in Nat

\* What no sequence of requests makes of a row: a document has fields only when
\* it asks for a signature, and answers only when it asks for approval, and who
\* signs the one field it may have settles it; a client requests no decision;
\* a timer that runs is not billed.
DocumentSane(d) ==
  /\ d.wants # "signature" => d.fields = "none" /\ d.status # "signed"
  /\ d.wants # "approval" => \A c \in Clients : Unanswered(c, d)
  /\ d.signer # "nobody" => d.status = "signed" /\ d.fields # "none"
RowSane(r) ==
  /\ r.kind = "document" => DocumentSane(r)
  /\ r.kind = "task" => ~(r.decision /\ r.requester = "client")
  /\ r.kind = "entry" => ~(r.running /\ r.invoiced)

\* What stays of a row, however often it changes while a screen shows it as s,
\* until it is deleted.
DocumentFollows(s, d) ==
  /\ d.wants = s.wants /\ d.choices = s.choices
  /\ s.status # "draft" => d.status # "draft" /\ d.fields = s.fields
InvoiceFollows(s, i) ==
  /\ i.project = s.project /\ i.uploaded = s.uploaded
  /\ s.status # "draft" => i.status # "draft"
MemberFollows(s, m) == m.self \in {s.self, "nobody"} /\ (m.role = "member" <=> s.role = "member")
Follows(s, r) ==
  /\ r.kind = s.kind
  /\ r.kind = "document" => DocumentFollows(s, r)
  /\ r.kind = "invoice" => InvoiceFollows(s, r)
  /\ r.kind = "member" => MemberFollows(s, r)
  /\ r.kind = "setup" => r.preset = s.preset

ControlsInv ==
  /\ ControlsTypeOK
  /\ RowSane(row)
  /\ row = Gone \/ Follows(seen, row)

-----------------------------------------------------------------------------
(* Promises the code does not keep (README): no run checks this one.           *)

\* The banner of an archived project reads "Archived. Editing disabled."
ArchivedIsReadOnly ==
  "archived" \in DOMAIN row /\ row.kind # "project" /\ row.archived =>
    \A v \in Viewers : \A op \in Offers(v, row) : Accepts(v, op, row) => After(v, op, row) = row
=============================================================================
