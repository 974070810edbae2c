----------------------------- MODULE WorkControls -----------------------------
(* The controls of a project and of what is in it besides documents and        *)
(* invoices: tasks and decisions, updates, comments, notes, time entries and   *)
(* completed tasks whose time is still to be booked. A row carries the         *)
(* archived flag of its project, as the project page passes it to its tabs.    *)
EXTENDS Controls

-----------------------------------------------------------------------------
(* Projects.                                                                   *)

Project == [kind : {"project"}, archived : BOOLEAN]

\* The panel and the status pipeline, the list of clients, the menu, the owner's
\* danger zone, and what the tabs let be added.
StatusPipeline == {"set status"}
DetailsPanel   == {"set dates", "set rate"}
PanelOps == StatusPipeline \cup DetailsPanel
LabelForm == {"set labels"}
ProjectPanel(p) == When(~p.archived, PanelOps \cup LabelForm)
ClientAssignment(p) == When(~p.archived, {"set clients"})
DuplicateForm == {"duplicate"}
MoreActions(v, p) ==
  When(~p.archived, DuplicateForm)
  \cup When(v = "owner", IF p.archived THEN {"unarchive"} ELSE {"archive"})
OwnerActions(v) == When(v = "owner", {"delete project"})
AddTaskForm     == {"add task", "add decision"}
AddFileMenu     == {"add file", "add document"}
AddLinkForm     == {"add link"}
AddNoteForm     == {"add note"}
ManualEntryForm == {"add entry"}
AddInvoiceMenu  == {"add invoice", "upload invoice"}
ComposeForm     == {"add update"}
TabOps == AddTaskForm \cup AddFileMenu \cup AddLinkForm \cup AddNoteForm \cup ManualEntryForm
            \cup AddInvoiceMenu
ProjectTabs(p) == When(~p.archived, TabOps \cup ComposeForm)

PortalComposeForm == {"add update"}
PortalRequestForm == {"add request"}
PortalUploadForm  == {"add own file"}
PortalTabs == PortalComposeForm \cup PortalRequestForm \cup PortalUploadForm

ProjectOffers(v, p) ==
  CASE v \in Staff -> ProjectPanel(p) \cup ClientAssignment(p) \cup MoreActions(v, p)
                        \cup OwnerActions(v) \cup ProjectTabs(p)
    [] v \in Clients \cup {"preview"} -> When(~p.archived, PortalTabs)
    [] OTHER -> {}

\* @Roles of the routes: an admin may archive too, only an owner may delete.
ProjectRouteOpen(v, op) ==
  CASE op = "delete project" -> v = "owner"
    [] op \in {"add request", "add own file"} -> v \in Clients
    [] op = "add update" -> v \in Staff \cup Clients
    [] OTHER -> v \in Staff

\* Two services look at archivedAt: ProjectsService.update() and uploadAsClient().
ProjectAccepts(v, op, p) ==
  /\ v \in Sessions /\ ~PreviewRefuses(v) /\ ProjectRouteOpen(v, op)
  /\ op \in PanelOps \cup {"set clients", "add own file"} => ~p.archived

ProjectAfter(op, p) ==
  CASE op = "archive"        -> [p EXCEPT !.archived = TRUE]
    [] op = "unarchive"      -> [p EXCEPT !.archived = FALSE]
    [] op = "delete project" -> Gone
    [] OTHER -> p

\* An archived project is read-only on its page and hidden from its clients;
\* archiving it a second time moves the date, which nobody is offered.
ProjectScreenRules(p) ==
  When(p.archived, TabOps \cup {"set labels", "duplicate", "add update", "add request", "archive"})
  \cup When(~p.archived, {"unarchive"})

-----------------------------------------------------------------------------
(* Tasks and decisions.                                                        *)

TaskStatus == {"open", "in_progress", "done", "cancelled"}
Task == [kind : {"task"}, decision : BOOLEAN, status : TaskStatus, closed : BOOLEAN,
         requester : {"staff", "client"}, archived : BOOLEAN]
NewTasks == {t \in Task : /\ t.status = "open" /\ ~t.closed /\ ~t.archived
                          /\ t.requester = "client" => ~t.decision}
SetStatus == [open |-> "reopen", in_progress |-> "begin", done |-> "finish", cancelled |-> "call off"]
StatusOps == {SetStatus[s] : s \in TaskStatus}

\* The list of tasks hides its bin in an archived project; the modal over it is
\* not told of the archive.
TaskRowActions(t) == When(~t.archived, {"delete task"})
DetailHeader    == {"delete task"}
DetailText      == {"edit task"}
DetailDecision(t) == When(t.decision /\ ~t.closed, {"close voting"})
DetailStatus(t) == StatusOps \ {SetStatus[t.status]}
DetailAssignee  == {"assign"}
DetailDueDate   == {"set due date"}
DetailLabels    == {"label task"}
AgencyDetail(t) == DetailHeader \cup DetailText \cup DetailDecision(t) \cup DetailStatus(t)
                     \cup DetailAssignee \cup DetailDueDate \cup DetailLabels \cup {"comment"}

\* The same modal in the portal; a previewing session asks /auth/get-session who
\* it is, and is told the staff member.
IsOwnRequest(v, t) == t.requester = "client" /\ v = "client"
ClientCancel(v, t) == When(IsOwnRequest(v, t) /\ t.status = "open", {"cancel request"})
ClientVote(t) == When(t.decision /\ ~t.closed, {"vote"})
ClientDetail(v, t) == ClientCancel(v, t) \cup ClientVote(t) \cup {"comment"}
\* A row of the portal's list only opens the modal.
PortalTaskRows(v, t) == When(~t.archived, ClientDetail(v, t))

TaskOffers(v, t) ==
  CASE v \in Staff -> TaskRowActions(t) \cup AgencyDetail(t)
    [] v \in Clients \cup {"preview"} -> PortalTaskRows(v, t)
    [] OTHER -> {}

TaskStaffRoutes == StatusOps \cup {"delete task", "edit task", "assign", "set due date", "label task", "close voting"}
TaskOps == TaskStaffRoutes \cup {"vote", "cancel request", "comment"}
TaskAccepts(v, op, t) ==
  /\ v \in Sessions /\ ~PreviewRefuses(v)
  /\ CASE op = "close voting" -> v \in Staff /\ t.decision /\ ~t.closed /\ t.status # "cancelled"
       [] op = "vote" -> v \in Clients /\ t.decision /\ ~t.closed
       [] op = "cancel request" -> IsOwnRequest(v, t) /\ ~t.decision /\ t.status = "open"
       [] op = "comment" -> HasProjectAccess(v)
       [] OTHER -> op \in TaskStaffRoutes /\ v \in Staff

TaskAfter(op, t) ==
  CASE op \in StatusOps -> [t EXCEPT !.status = CHOOSE s \in TaskStatus : op = SetStatus[s]]
    [] op = "close voting" -> [t EXCEPT !.closed = TRUE, !.status = "done"]
    [] op = "cancel request" -> [t EXCEPT !.status = "cancelled"]
    [] op = "delete task" -> Gone
    [] OTHER -> t

\* A cancelled decision still has its button; voting goes on.
TaskRefusals(t) == When(t.status = "cancelled", {"close voting"})
TaskScreenRules(v, t) == When(t.archived /\ v \in Clients, {"vote", "cancel request", "comment"})
                           \cup When(v \in Staff, {SetStatus[t.status]})

-----------------------------------------------------------------------------
(* Updates, comments and notes.                                                *)

Update == [kind : {"update"}, author : {"owner", "admin", "client"}, archived : BOOLEAN]
UpdateCard(v, u) ==
  When(~u.archived, {"edit update", "delete update"}) \cup {"set previews", "comment"}
PortalUpdateCard(v, u) ==
  When(~u.archived, When(u.author = v \/ (v = "preview" /\ u.author \in Staff), {"edit update"})
                      \cup {"set previews", "comment"})
UpdateOffers(v, u) ==
  CASE v \in Staff -> UpdateCard(v, u)
    [] v \in Clients \cup {"preview"} -> PortalUpdateCard(v, u)
    [] OTHER -> {}
UpdateOps == {"edit update", "delete update", "set previews", "comment"}
UpdateAccepts(v, op, u) ==
  /\ v \in Sessions /\ ~PreviewRefuses(v) /\ HasProjectAccess(v)
  /\ CASE op = "edit update" -> v \in Staff \/ u.author = v
       [] op = "delete update" -> v \in Staff
       [] OTHER -> op \in UpdateOps
UpdateAfter(op, u) == IF op = "delete update" THEN Gone ELSE u

Comment == [kind : {"comment"}, author : {"owner", "client"}, archived : BOOLEAN]
CommentOffers(v, c) ==
  CASE v \in Staff -> {"delete comment"}
    [] v \in Clients -> When(~c.archived /\ c.author = v, {"delete comment"})
    [] v = "preview" -> When(~c.archived, {"delete comment"})
    [] OTHER -> {}
CommentAccepts(v, op, c) ==
  /\ op = "delete comment" /\ v \in Sessions /\ ~PreviewRefuses(v)
  /\ v \in Staff \/ c.author = v

Note == [kind : {"note"}, archived : BOOLEAN]
NoteOffers(v, n) == When(v \in Staff /\ ~n.archived, {"delete note"})
NoteAccepts(v, op, n) == op = "delete note" /\ v \in Staff

\* Of these the API keeps none of the archive.
PostScreenRules(r) ==
  When(r.archived, UpdateOps \cup {"delete comment", "delete note"})

-----------------------------------------------------------------------------
(* Time. The tab lists everybody's entries; a timer that runs in the project   *)
(* takes the place of the start button, whoever runs it.                       *)

Entry == [kind : {"entry"}, user : Staff, running : BOOLEAN, invoiced : BOOLEAN, archived : BOOLEAN]
NewEntries == {e \in Entry : ~e.invoiced /\ ~e.archived}
Capture == [kind : {"capture"}, archived : BOOLEAN]

StopForm == {"stop"}
TimerBar(e) == When(~e.archived, IF e.running THEN StopForm \cup {"describe"} ELSE {"start"})
Journal(e) == When(e.running /\ ~e.archived, {"add journal", "delete journal"})
EntryRow(e) == When(~e.invoiced /\ ~e.archived /\ ~e.running, {"edit entry", "delete entry"})
GenerateFromTime(e) == When(~e.archived /\ ~e.running /\ ~e.invoiced, {"bill"})
EntryOffers(v, e) ==
  When(v \in Staff, TimerBar(e) \cup Journal(e) \cup EntryRow(e) \cup GenerateFromTime(e))

EntryOps == {"start", "stop", "describe", "add journal", "delete journal", "edit entry", "delete entry", "bill"}
OwnEntry(v, e) == e.user = v /\ ~e.invoiced
EntryAccepts(v, op, e) ==
  /\ v \in Staff
  /\ CASE op = "stop" -> e.user = v /\ e.running
       [] op \in {"describe", "edit entry", "delete entry"} -> OwnEntry(v, e)
       [] op \in {"add journal", "delete journal"} -> ~e.invoiced
       [] op = "bill" -> ~e.running /\ ~e.invoiced
       [] OTHER -> op = "start"
EntryAfter(v, op, e) ==
  CASE op = "stop" -> [e EXCEPT !.running = FALSE]
    [] op = "start" -> IF e.user = v THEN [e EXCEPT !.running = FALSE] ELSE e
    [] op = "bill" -> [e EXCEPT !.invoiced = TRUE]
    [] op = "delete entry" -> Gone
    [] OTHER -> e
\* Offered for a colleague's entry and refused.
EntryRefusals(v, e) == When(e.user # v, {"stop", "describe", "edit entry", "delete entry"})
EntryScreenRules(e) ==
  When(e.archived, EntryOps) \cup When(e.running, {"edit entry", "delete entry", "start"})
    \cup When(~e.running, {"describe", "add journal", "delete journal"})

LogTimeForm == {"book time"}
PendingCaptures(v, c) == When(v \in Staff /\ ~c.archived, LogTimeForm)
CaptureAccepts(v, op, c) == op = "book time" /\ v \in Staff
CaptureScreenRules(c) == When(c.archived, {"book time"})

-----------------------------------------------------------------------------
(* Every kind of row above.                                                    *)

WorkKinds == {"project", "task", "update", "comment", "note", "entry", "capture"}
NewWork == NewTasks \cup NewEntries \cup {r \in Project \cup Update \cup Comment \cup Note \cup Capture : ~r.archived}

WorkOffers(v, r) ==
  CASE r.kind = "project" -> ProjectOffers(v, r)
    [] r.kind = "task"    -> TaskOffers(v, r)
    [] r.kind = "update"  -> UpdateOffers(v, r)
    [] r.kind = "comment" -> CommentOffers(v, r)
    [] r.kind = "note"    -> NoteOffers(v, r)
    [] r.kind = "entry"   -> EntryOffers(v, r)
    [] r.kind = "capture" -> PendingCaptures(v, r)
WorkAccepts(v, op, r) ==
  CASE r.kind = "project" -> ProjectAccepts(v, op, r)
    [] r.kind = "task"    -> TaskAccepts(v, op, r)
    [] r.kind = "update"  -> UpdateAccepts(v, op, r)
    [] r.kind = "comment" -> CommentAccepts(v, op, r)
    [] r.kind = "note"    -> NoteAccepts(v, op, r)
    [] r.kind = "entry"   -> EntryAccepts(v, op, r)
    [] r.kind = "capture" -> CaptureAccepts(v, op, r)
WorkAfter(v, op, r) ==
  CASE r.kind = "project" -> ProjectAfter(op, r)
    [] r.kind = "task"    -> TaskAfter(op, r)
    [] r.kind = "update"  -> UpdateAfter(op, r)
    [] r.kind = "entry"   -> EntryAfter(v, op, r)
    [] OTHER              -> Gone
WorkRefusals(v, r) ==
  CASE r.kind = "task"  -> TaskRefusals(r)
    [] r.kind = "entry" -> EntryRefusals(v, r)
    [] OTHER            -> {}
WorkScreenRules(v, r) ==
  CASE r.kind = "project" -> ProjectScreenRules(r)
    [] r.kind = "task"    -> TaskScreenRules(v, r)
    [] r.kind = "entry"   -> EntryScreenRules(r)
    [] r.kind = "capture" -> CaptureScreenRules(r)
    [] OTHER              -> PostScreenRules(r)

\* NOT kept by the tab: whoever has no timer running can start one from it.
TimerCanStart(e) == ~e.archived => \A v \in Staff \ {e.user} : "start" \in EntryOffers(v, e)
=============================================================================
