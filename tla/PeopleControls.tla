---------------------------- MODULE PeopleControls ----------------------------
(* The controls of the people page, of the page of an invitation, of the       *)
(* settings of the workspace and of one's account, and of the setup wizard.    *)
EXTENDS Controls

-----------------------------------------------------------------------------
(* A member of the organization. Who asks holds the role of the viewer; self   *)
(* is the viewer whose own row this is, if any.                                *)

Member == {m \in [kind : {"member"}, role : {"owner", "admin", "member"}, self : Staff \cup {"nobody"}] :
             m.self = "nobody" \/ m.role = m.self}
NewMembers == Member

MakeRole == [owner |-> "make owner", admin |-> "make admin"]

TeamRow(v, m) ==
  When(v = "owner", {"set rate"})
  \cup When(v = "owner" /\ m.self # v, {"remove"} \cup {MakeRole[r] : r \in DOMAIN MakeRole \ {m.role}})
  \cup When(m.self # v /\ (v = "owner" \/ m.role # "owner"), {"reset password"})
ClientRow == {"view as", "reset password", "remove", "save profile"}
MemberOffers(v, m) ==
  IF v \in Staff THEN (IF m.role = "member" THEN ClientRow ELSE TeamRow(v, m)) ELSE {}

\* Only owners: a role, a rate, and whatever removes or resets an owner.
MemberAccepts(v, op, m) ==
  /\ v \in Staff
  /\ CASE op \in {"remove", "reset password"} -> m.self # v /\ (m.role = "owner" => v = "owner")
       [] op = "set rate" -> v = "owner"
       [] op \in {MakeRole[r] : r \in DOMAIN MakeRole} -> v = "owner" /\ m.self # v
       [] op = "view as" -> m.role = "member"
       [] OTHER -> op = "save profile"
\* To the owner who made him one, an admin is a colleague as before.
MemberAfter(op, m) ==
  CASE op = "remove" -> Gone
    [] op = "make owner" -> [m EXCEPT !.role = "owner", !.self = "nobody"]
    [] op = "make admin" -> [m EXCEPT !.role = "admin"]
    [] OTHER -> m

\* The screen alone keeps that admins remove clients only, and that the profile
\* of a client is one's to edit while he is a client. A second tab may set the
\* role that a colleague already has.
MemberScreenRules(v, m) ==
  {"save profile"} \cup When(v = "admin" /\ m.role = "admin", {"remove"})
  \cup {MakeRole[r] : r \in DOMAIN MakeRole \cap {m.role}}

-----------------------------------------------------------------------------
(* An invitation: "pending" is "expired" from a moment on, written or not.     *)

Invitation == [kind : {"invitation"}, status : {"pending", "accepted"}, expired : BOOLEAN]
NewInvitations == {i \in Invitation : i.status = "pending" /\ ~i.expired}

EffectiveStatus(i) == IF i.status = "pending" /\ i.expired THEN "expired" ELSE i.status
InvitePage(v, i) ==
  When(v = "guest" /\ EffectiveStatus(i) = "pending", {"accept"})
  \cup When(v \in Staff /\ i.status = "pending", {"copy link"})

\* The invited person signs in on the way; who has accepted may come back.
InvitationAccepts(v, op, i) ==
  \/ v = "cron" /\ op = "lapse" /\ ~i.expired
  \/ v = "guest" /\ op = "accept" /\ EffectiveStatus(i) # "expired"
  \/ v \in Staff /\ op = "copy link"
InvitationAfter(op, i) ==
  CASE op = "lapse" -> [i EXCEPT !.expired = TRUE]
    [] op = "accept" -> [i EXCEPT !.status = "accepted"]
    [] OTHER -> i
InvitationScreenRules(i) == When(i.status = "accepted", {"accept", "copy link"})

-----------------------------------------------------------------------------
(* The workspace: who is invited, what projects are made, and its settings.    *)
(* billing: the installation sells plans; full: it has all the projects the    *)
(* free plan allows, where one more fills it.                                  *)

Workspace == [kind : {"workspace"}, plan : {"none", "free", "paid"}, billing : BOOLEAN, domain : BOOLEAN, full : BOOLEAN]
NewWorkspaces == {w \in Workspace : ~w.domain}

\* The forms of the people page and of the list of projects. They look at the
\* plan's limits through a route that does not exist, and so at none.
TeamInviteForm(v) == When(v = "owner", {"invite team"})
ClientInviteForm  == {"invite client"}
CreateProjectForm == {"create project"}

GeneralForm  == {"save settings", "report errors", "test email"}
BrandingForm == {"save branding", "upload logo", "delete logo"}
LabelsForm   == {"create label", "edit label", "delete label"}

\* The plan gates the form; the domain itself is read by owners only.
CustomDomainForm(v, w) ==
  When(w.plan # "free", {"save domain"} \cup When(v = "owner" /\ w.domain, {"remove domain", "verify domain"}))
WorkspaceOffers(v, w) ==
  When(v \in Staff, GeneralForm \cup BrandingForm \cup LabelsForm \cup CustomDomainForm(v, w)
                    \cup TeamInviteForm(v) \cup ClientInviteForm \cup CreateProjectForm)

\* @PlanLimit("projects"); no route has @PlanLimit("members") or ("clients").
AtProjectLimit(w) == w.billing /\ w.plan = "free" /\ w.full

SettingsRoutes == GeneralForm \cup {"remove domain", "verify domain"}
WorkspaceAccepts(v, op, w) ==
  \/ v = "stripe" /\ op = "subscription deleted" /\ w.billing /\ w.plan = "paid"
  \/ v = "stripe" /\ op = "checkout completed" /\ w.billing
  \/ v = "owner" /\ (op \in SettingsRoutes \/ (op = "save domain" /\ (w.billing => w.plan = "paid")))
  \/ v \in Staff /\ op \in BrandingForm \cup LabelsForm \cup ClientInviteForm \cup {"invite team"}
  \/ v \in Staff /\ op \in CreateProjectForm /\ ~AtProjectLimit(w)
WorkspaceAfter(op, w) ==
  CASE op = "subscription deleted" -> [w EXCEPT !.plan = "free"]
    [] op = "checkout completed" -> [w EXCEPT !.plan = "paid"]
    [] op = "create project" -> [w EXCEPT !.full = TRUE]
    [] op = "save domain" -> [w EXCEPT !.domain = TRUE]
    [] op = "remove domain" -> [w EXCEPT !.domain = FALSE]
    [] OTHER -> w

\* Admins get the owners' forms; an organization whose subscription never got a
\* plan is taken for a paying one.
WorkspaceRefusals(v, w) ==
  When(v = "admin", GeneralForm \cup {"save domain"})
  \cup When(w.plan = "none" /\ w.billing, {"save domain"})
  \cup When(AtProjectLimit(w), {"create project"})
\* The gate is the screen's where no plans are sold, and a domain that is saved
\* already outlives the plan. Removing or verifying none does nothing.
WorkspaceScreenRules(w) == {"remove domain", "verify domain"} \cup When(~w.billing, {"save domain"})

-----------------------------------------------------------------------------
(* One's own account: the profile settings of staff and of clients. A          *)
(* preview shows the account of the client.                                    *)

Account == [kind : {"account"}, holder : Staff \cup {"client"}]
ProfileForms == {"save name", "change password", "delete account"}
AccountOffers(v, a) ==
  When(PreviewAs[v] = a.holder, ProfileForms \cup When(a.holder = "client", {"save own profile"}))

\* auth.controller.ts has routes neither for the name nor for the password.
AuthRoutes == {"signin", "callback", "get-session", "signout", "set-active", "send-verification-email"}
AccountRoutes == {"delete account", "save own profile"}
AccountAccepts(v, op, a) == v = a.holder /\ op \in AuthRoutes \cup AccountRoutes
AccountAfter(op, a) == IF op = "delete account" THEN Gone ELSE a
AccountRefusals == {"save name", "change password"}

-----------------------------------------------------------------------------
(* The setup wizard of a new organization, preset: its mail is configured by   *)
(* the installation. A step can be passed over, so each is offered in turn.    *)

Setup == [kind : {"setup"}, completed : BOOLEAN, preset : BOOLEAN]
NewSetups == {s \in Setup : ~s.completed}
StepOrgProfile   == {"save branding", "upload logo", "delete logo"}
StepEmailConfig  == {"save email", "test setup email"}
StepFirstProject == {"first project"}
StepInviteClient == {"invite first"}
StepComplete     == {"complete"}
\* The layouts take owners here until the setup is complete, and nobody after.
SetupOffers(v, s) ==
  When(v = "owner" /\ ~s.completed,
    StepOrgProfile \cup When(~s.preset, StepEmailConfig)
    \cup StepFirstProject \cup StepInviteClient \cup StepComplete)
SetupAccepts(v, op, s) ==
  \/ v = "owner" /\ op \in StepEmailConfig \cup StepComplete
  \/ v \in Staff /\ op \in StepOrgProfile \cup StepFirstProject \cup StepInviteClient
SetupAfter(op, s) == IF op = "complete" THEN [s EXCEPT !.completed = TRUE] ELSE s
\* Every step is also an operation of the running portal.
SetupScreenRules(s) ==
  When(s.completed, StepOrgProfile \cup StepEmailConfig \cup StepFirstProject \cup StepInviteClient \cup StepComplete)

-----------------------------------------------------------------------------
(* Every kind of row above.                                                    *)

PeopleKinds == {"member", "invitation", "workspace", "account", "setup"}
NewPeople == NewMembers \cup NewInvitations \cup NewWorkspaces \cup Account \cup NewSetups

PeopleOffers(v, r) ==
  CASE r.kind = "member"     -> MemberOffers(v, r)
    [] r.kind = "invitation" -> InvitePage(v, r)
    [] r.kind = "workspace"  -> WorkspaceOffers(v, r)
    [] r.kind = "account"    -> AccountOffers(v, r)
    [] r.kind = "setup"      -> SetupOffers(v, r)
PeopleAccepts(v, op, r) ==
  CASE r.kind = "member"     -> MemberAccepts(v, op, r)
    [] r.kind = "invitation" -> InvitationAccepts(v, op, r)
    [] r.kind = "workspace"  -> WorkspaceAccepts(v, op, r)
    [] r.kind = "account"    -> AccountAccepts(v, op, r)
    [] r.kind = "setup"      -> SetupAccepts(v, op, r)
PeopleAfter(op, r) ==
  CASE r.kind = "member"     -> MemberAfter(op, r)
    [] r.kind = "invitation" -> InvitationAfter(op, r)
    [] r.kind = "workspace"  -> WorkspaceAfter(op, r)
    [] r.kind = "account"    -> AccountAfter(op, r)
    [] r.kind = "setup"      -> SetupAfter(op, r)
PeopleRefusals(v, r) ==
  CASE r.kind = "workspace"  -> WorkspaceRefusals(v, r)
    [] r.kind = "account"    -> AccountRefusals
    [] OTHER                 -> {}
PeopleScreenRules(v, r) ==
  CASE r.kind = "member"     -> MemberScreenRules(v, r)
    [] r.kind = "invitation" -> InvitationScreenRules(r)
    [] r.kind = "workspace"  -> WorkspaceScreenRules(r)
    [] r.kind = "setup"      -> SetupScreenRules(r)
    [] OTHER                 -> {}
=============================================================================
