------------------------------ MODULE WebScreens ------------------------------
(* One open screen of apps/web and the API behind it. The dashboard and the    *)
(* portal keep no client cache: every screen loads a list with apiFetch into   *)
(* React state and changes it through handlers that call the API and then, one *)
(* way or another, bring the list up to date. The screens differ in few ways,  *)
(* and those are the fields of a screen and of its handlers below: how the     *)
(* list is cut into views, whether an earlier load is dropped when the view    *)
(* changes, whether the list is hidden while it loads; and for a handler what  *)
(* it asks of the API, whether a flag keeps a second click out, whether the    *)
(* change is shown before the answer, after it, or by loading the list again,  *)
(* whether a refusal restores what was shown, whether it sends the whole list, *)
(* and whether a second request can still fail after the first was stored.     *)
(*                                                                             *)
(* A handler is a closure of the render it began in, so the load that follows  *)
(* its answer asks for the view of the moment of the click. Answers come back  *)
(* in any order and may be lost. A screen holds one row per page here (10 or   *)
(* 20 in the code); a filter is a view; handlers with the same fields are one  *)
(* handler. What a row says is reduced to a mark that a click turns over.      *)
(* Nobody else changes the list: the screen is compared with the API's rows    *)
(* where its own user is the only writer.                                      *)
EXTENDS Integers, FiniteSets

CONSTANTS
    MaxRows,     \* rows ever created, the two of the start included
    MaxClicks,   \* clicks on handlers
    MaxTurns,    \* changes of page or filter
    MaxFaults    \* requests or answers lost

ASSUME BoundsAssumption == MaxRows \in Nat /\ MaxRows >= 2 /\ {MaxClicks, MaxTurns, MaxFaults} \subseteq Nat

-----------------------------------------------------------------------------
(* The kinds of handlers.                                                      *)

\* Awaits the call, then loads the list again; a refusal is only reported.
Reloads(op) == [op |-> op, busy |-> FALSE, shows |-> "by loading", restores |-> FALSE,
                whole |-> FALSE, second |-> FALSE]
\* Awaits the call, then changes the row in the list it has.
Patches(op) == [Reloads(op) EXCEPT !.shows = "after"]
\* Changes the row first and does not load again; a refusal is ignored ...
Assumes(op) == [Reloads(op) EXCEPT !.shows = "before"]
\* ... or restores what was shown at the click.
Tries(op)   == [Assumes(op) EXCEPT !.restores = TRUE]

\* A flag set at the click, cleared with the answer, that disables the button.
Guarded(h)  == [h EXCEPT !.busy = TRUE]
\* Sends every row as it is shown, not the one that was clicked.
Whole(h)    == [h EXCEPT !.whole = TRUE]
\* Makes a second request whose failure reports the whole as failed.
InTwo(h)    == [h EXCEPT !.second = TRUE]

Screen(views, handlers) == [views |-> views, handlers |-> handlers, drops |-> FALSE, hides |-> {}]
\* The clean-up of the effect that loads drops or ignores the earlier answer.
Dropping(s) == [s EXCEPT !.drops = TRUE]
\* A skeleton takes the place of these parts of the list until an answer is there.
Hiding(parts, s) == [s EXCEPT !.hides = parts]

-----------------------------------------------------------------------------
(* The portal: the client's project page, its invoices, its list of projects.  *)

PortalPostUpdate      == Guarded(Reloads("add"))
PortalSaveEdit        == Guarded(Reloads("mark"))
PortalPrefsChange     == Assumes("mark")
PortalUpdates         == Screen("pages", {PortalPostUpdate, PortalSaveEdit, PortalPrefsChange})
PortalPostRequest     == Guarded(Reloads("add"))
PortalTasks           == Screen("pages", {PortalPostRequest})
PortalDocumentConfirm == Guarded(Reloads("mark"))
PortalDocumentRespond == Reloads("mark")
PortalDocuments       == Screen("pages", {PortalDocumentConfirm, PortalDocumentRespond})
PortalUpload          == Guarded(Reloads("add"))
PortalProject         == Screen("one", {PortalUpload})
PortalInvoices        == Hiding({"rows", "pager"}, Screen("pages", {}))
PortalProjects        == Hiding({"rows", "pager"}, Screen("pages", {}))
ClientProfile         == Screen("one", {Assumes("mark")})

(* The dashboard's project page, tab by tab.                                   *)

ProjectChange     == Reloads("mark")
ProjectPage       == Screen("one", {ProjectChange})
ClientToggle      == Whole(Reloads("mark"))
ProjectClients    == Screen("one", {ClientToggle})
TimelineSaveEdit  == Guarded(Reloads("mark"))
TimelinePost      == Guarded(Reloads("add"))
TimelinePrefs     == Assumes("mark")
TimelineDelete    == Reloads("remove")
ProjectTimeline   == Screen("pages", {TimelineSaveEdit, TimelinePost, TimelinePrefs, TimelineDelete})
TaskAdd           == Reloads("add")
TaskDelete        == Reloads("remove")
ProjectTasks      == Screen("pages", {TaskAdd, TaskDelete})
FileDelete        == Reloads("remove")
FileEditSave      == Guarded(Reloads("mark"))
LinkSubmit        == Guarded(Reloads("add"))
ProjectFiles      == Screen("one", {FileDelete, FileEditSave, LinkSubmit})
DocumentUpload    == InTwo(Guarded(Reloads("add")))
DocumentSend      == Reloads("mark")
DocumentVoid      == Reloads("mark")
DocumentDelete    == Reloads("remove")
DocumentVersion   == Reloads("mark")
DocumentRestore   == Reloads("mark")
ProjectDocuments  == Screen("pages", {DocumentUpload, DocumentSend, DocumentVoid, DocumentDelete,
                                      DocumentVersion, DocumentRestore})
SigningLinkCreate == Reloads("add")
SigningLinkRevoke == Reloads("remove")
SigningLinks      == Screen("one", {SigningLinkCreate, SigningLinkRevoke})
InvoiceCreate     == Guarded(Reloads("add"))
InvoiceUpload     == Guarded(Reloads("add"))
InvoiceStatus     == Reloads("mark")
InvoiceSaveEdit   == Guarded(Reloads("mark"))
InvoiceDelete     == Reloads("remove")
ProjectInvoices   == Hiding({"rows"}, Screen("pages", {InvoiceCreate, InvoiceUpload, InvoiceStatus,
                                                       InvoiceSaveEdit, InvoiceDelete}))
NoteAdd           == Reloads("add")
NoteDeleteUnloaded == [Reloads("remove") EXCEPT !.shows = "never"]   \* mutant: no loadNotes() after it
NoteDelete        == Reloads("remove")
ProjectNotes      == Screen("pages", {NoteAdd, NoteDelete})
TimerStart        == Guarded(Reloads("add"))
TimerStop         == Guarded(Reloads("mark"))
TimerDescribe     == Reloads("mark")
JournalAdd        == Guarded(Reloads("add"))
JournalDelete     == Reloads("remove")
TimerComplete     == Reloads("mark")
EntryDelete       == Reloads("remove")
ProjectTime       == Screen("one", {TimerStart, TimerStop, TimerDescribe, JournalAdd, JournalDelete,
                                    TimerComplete, EntryDelete})
DetailSave        == Guarded(Tries("mark"))
DetailLabel       == Tries("mark")
TaskDetail        == Screen("one", {DetailSave, DetailLabel})

(* The rest of the dashboard.                                                  *)

CommentPost       == Guarded(Reloads("add"))
CommentDelete     == Reloads("remove")
Comments          == Screen("one", {CommentPost, CommentDelete})
ProjectCreate     == Guarded(Reloads("add"))
Projects          == Hiding({"rows", "pager"}, Screen("pages", {ProjectCreate}))
MemberRemove      == Reloads("remove")
MemberRate        == Patches("mark")
MemberRole        == Reloads("mark")
Members           == Hiding({"rows"}, Screen("one", {MemberRemove, MemberRate, MemberRole}))
TeamInvite        == Guarded(Reloads("add"))
ClientInvite      == Guarded(Reloads("add"))
Invitations       == Screen("one", {TeamInvite, ClientInvite})
MemberProfile     == Screen("one", {Guarded(Patches("mark"))})
BillingGenerate   == Guarded(Reloads("mark"))
BillingReports    == Screen("filters", {BillingGenerate})
BillingStatus     == Guarded(Reloads("mark"))
BillingInvoices   == Hiding({"rows"}, Screen("filters", {BillingStatus}))
Calendar          == Dropping(Screen("filters", {}))
Search            == Dropping(Screen("filters", {}))
MarkRead          == Assumes("mark")
Notifications     == Screen("one", {MarkRead})
LabelPick         == Guarded(Reloads("add"))
LabelCreate       == Guarded(Reloads("add"))
LabelSaveEdit     == Reloads("mark")
LabelDelete       == Reloads("remove")
Labels            == Screen("one", {LabelPick, LabelCreate, LabelSaveEdit, LabelDelete})
GeneralSettings   == Screen("one", {Guarded(Patches("mark")), Patches("mark")})
CustomDomain      == Screen("one", {Guarded(Patches("mark"))})
PaymentSettings   == Screen("one", {Guarded(Patches("mark"))})
Logo              == Screen("one", {Guarded(Patches("mark")), Patches("mark")})
SignField         == Guarded(Reloads("mark"))
SigningViewer     == Screen("one", {SignField})

Screens == {PortalUpdates, PortalTasks, PortalDocuments, PortalProject, PortalInvoices, PortalProjects,
            ClientProfile, ProjectPage, ProjectClients, ProjectTimeline, ProjectTasks, ProjectFiles, ProjectDocuments,
            SigningLinks, ProjectInvoices, ProjectNotes, ProjectTime, TaskDetail, Comments, Projects,
            Members, Invitations, MemberProfile, BillingReports, BillingInvoices, Calendar, Search,
            Notifications, Labels, GeneralSettings, CustomDomain, PaymentSettings, Logo, SigningViewer}

-----------------------------------------------------------------------------
VARIABLES
    screen,     \* the screen that is open
    rows,       \* the API's rows
    view,       \* page or filter the screen is on
    pages,      \* totalPages of the last answer shown
    shown,      \* the rows in React state
    loading,    \* the loading flag of the screen
    gets,       \* loads in flight
    calls,      \* handlers awaiting their answer
    forms,      \* per adding handler: how often its form was cleared
    asked,      \* per row: what its last successful click wanted
    issued,     \* loads begun
    latest,     \* the latest load whose answer was shown
    strays,     \* what has come in the way so far
    made,       \* number of the newest row any call has asked for
    spent       \* clicks, turns and faults used

vars == <<screen, rows, view, pages, shown, loading, gets, calls, forms, asked, issued, latest, strays, made, spent>>

Ids   == 1..MaxRows
Marks == {"off", "on"}
Other(m) == IF m = "on" THEN "off" ELSE "on"

\* A row of the start came from no form.
Row(id, mark, form) == [id |-> id, mark |-> mark, form |-> form]
NoForm == [handler |-> {}, fill |-> 0]
IdsOf(s) == {r.id : r \in s}

\* Lists are newest first, with one row on a page; a filter picks by the mark.
InView(v, s) ==
    CASE screen.views = "one"     -> s
      [] screen.views = "pages"   -> {r \in s : Cardinality({q \in s : q.id > r.id}) = v - 1}
      [] screen.views = "filters" -> {r \in s : v = 1 \/ r.mark = "on"}

\* What a stored call does to a set of rows; a row that is gone stays gone.
Effect(c, s) ==
    CASE c.handler.op = "add"    -> s \cup c.sends
      [] c.handler.op = "remove" -> {r \in s : r.id \notin IdsOf(c.sends)}
      [] c.handler.op = "mark"   -> {IF r.id \in IdsOf(c.sends)
                                     THEN [r EXCEPT !.mark = (CHOOSE q \in c.sends : q.id = r.id).mark]
                                     ELSE r : r \in s}

Load(v) == [n |-> issued + 1, view |-> v, served |-> FALSE, answer |-> {}, behind |-> FALSE]

\* loadX(): begin a load of view v; earlier ones go on unless the screen drops them.
BeginLoad(v, others) ==
    /\ gets' = others \cup {Load(v)}
    /\ issued' = issued + 1
    /\ loading' = TRUE

Init ==
    /\ screen \in Screens
    /\ rows = {Row(1, "off", NoForm), Row(2, "off", NoForm)}
    /\ view = 1 /\ pages = 1 /\ shown = {} /\ loading = TRUE
    /\ gets = {[n |-> 1, view |-> 1, served |-> FALSE, answer |-> {}, behind |-> FALSE]}
    /\ calls = {}
    /\ forms = [h \in {k \in screen.handlers : k.op = "add"} |-> 1]
    /\ asked = [i \in Ids |-> "nothing"]
    /\ issued = 1 /\ latest = 0 /\ strays = {} /\ made = 2
    /\ spent = [clicks |-> 0, turns |-> 0, faults |-> 0]

Spend(what, max) == spent[what] < max /\ spent' = [spent EXCEPT ![what] = @ + 1]

-----------------------------------------------------------------------------
(* Loads.                                                                      *)

\* Answers that will be shown without the change of a call that loads nothing
\* after it: the call was shown first, or is stored, but not in this answer.
Behind(c, s) == {IF g.served /\ c.handler.shows # "by loading" THEN [g EXCEPT !.behind = TRUE] ELSE g : g \in s}

ServeLoad(g) ==
    /\ ~g.served
    /\ gets' = (gets \ {g}) \cup {[g EXCEPT !.served = TRUE, !.answer = rows,
                  !.behind = \E c \in calls : c.state = "sent" /\ c.handler.shows = "before"]}
    /\ UNCHANGED <<screen, rows, view, pages, shown, loading, calls, forms, asked, issued, latest, strays, made, spent>>

\* setX(res.data); setTotalPages(res.meta.totalPages)
ShowLoad(g) ==
    /\ g.served
    /\ shown' = InView(g.view, g.answer)
    /\ pages' = IF screen.views = "pages" THEN Cardinality(g.answer) ELSE 1
    /\ loading' = FALSE
    /\ gets' = gets \ {g}
    /\ latest' = IF g.n > latest THEN g.n ELSE latest
    /\ strays' = strays \cup (IF g.n < latest THEN {"overtaken"} ELSE {})
                        \cup (IF g.view # view THEN {"another view"} ELSE {})
                        \cup (IF g.behind THEN {"behind"} ELSE {})
    /\ UNCHANGED <<screen, rows, view, calls, forms, asked, issued, made, spent>>

\* catch: reported, and the rows stay as they are.
LoadFails(g) ==
    /\ Spend("faults", MaxFaults)
    /\ gets' = gets \ {g}
    /\ loading' = FALSE
    /\ strays' = strays \cup {"not loaded"}
    /\ UNCHANGED <<screen, rows, view, pages, shown, calls, forms, asked, issued, latest, made>>

\* The pager is there for two pages or more; a filter can always be changed.
CanTurnTo(v) ==
    IF screen.views = "pages"
    THEN /\ pages > 1 /\ v \in {view - 1, view + 1} /\ v \in 1..pages
         /\ ~(loading /\ "pager" \in screen.hides)
    ELSE screen.views = "filters" /\ v # view

KeptLoads == IF screen.drops THEN {} ELSE gets

Turn(v) ==
    /\ CanTurnTo(v)
    /\ Spend("turns", MaxTurns)
    /\ view' = v
    /\ BeginLoad(v, KeptLoads)
    /\ UNCHANGED <<screen, rows, pages, shown, calls, forms, asked, latest, strays, made>>

-----------------------------------------------------------------------------
(* Handlers.                                                                   *)

DisabledNever(h) == FALSE                \* mutant: the button stays enabled
Disabled(h) == h.busy /\ \E c \in calls : c.handler = h

\* What a click on row r sends.
Sent(h, r) ==
    LET turned == IF h.op = "mark" THEN [r EXCEPT !.mark = Other(@)] ELSE r
    IN  {turned} \cup (IF h.whole THEN {q \in shown : q.id # r.id} ELSE {})

Begin(h, id, sends) ==
    LET c == [handler |-> h, id |-> id, sends |-> sends, view |-> view, shown |-> shown, state |-> "sent"]
    IN  /\ ~Disabled(h)
        /\ c \notin calls
        /\ Spend("clicks", MaxClicks)
        /\ calls' = calls \cup {c}
        /\ shown' = IF h.shows = "before" THEN Effect(c, shown) ELSE shown
        /\ gets' = IF h.shows = "before" THEN Behind(c, gets) ELSE gets
        /\ strays' = strays \cup (IF \E d \in calls : d.id = id THEN {"same row"} ELSE {})
                            \cup (IF h.whole /\ (calls # {} \/ gets # {} \/ strays # {}) THEN {"old list"} ELSE {})
        /\ UNCHANGED <<screen, rows, view, pages, loading, forms, asked, issued, latest>>

ClickRow(h) ==
    /\ h.op \in {"mark", "remove"}
    /\ ~(loading /\ "rows" \in screen.hides)
    /\ \E r \in shown : Begin(h, r.id, Sent(h, r))
    /\ UNCHANGED made

Submit(h) ==
    /\ h.op = "add"
    /\ made < MaxRows /\ made' = made + 1
    /\ Begin(h, made', {Row(made', "off", [handler |-> {h}, fill |-> forms[h]])})

\* The API stores the call. (apiFetch sends a request again only when the first
\* was refused for its CSRF token, so a call is stored at most once.)
Store(c) ==
    /\ c.state = "sent"
    /\ c.handler.op = "add" \/ c.id \in IdsOf(rows)
    /\ rows' = Effect(c, rows)
    /\ calls' = (calls \ {c}) \cup {[c EXCEPT !.state = "stored"]}
    /\ gets' = IF c.handler.shows = "after" THEN Behind(c, gets) ELSE gets
    /\ UNCHANGED <<screen, view, pages, shown, loading, forms, asked, issued, latest, strays, made, spent>>

\* The API refuses it, or doFetch does in a read-only preview.
Refuse(c) ==
    /\ c.state = "sent"
    /\ calls' = (calls \ {c}) \cup {[c EXCEPT !.state = "refused"]}
    /\ UNCHANGED <<screen, rows, view, pages, shown, loading, gets, forms, asked, issued, latest, strays, made, spent>>

Wanted(c) == IF c.handler.op = "remove" THEN "gone"
             ELSE (CHOOSE q \in c.sends : q.id = c.id).mark

\* The lines after the await. The loader is the one of the render of the click.
Succeed(c) ==
    /\ c.state = "stored"
    /\ calls' = calls \ {c}
    /\ asked' = [asked EXCEPT ![c.id] = Wanted(c)]
    /\ forms' = IF c.handler.op = "add" THEN [forms EXCEPT ![c.handler] = @ + 1] ELSE forms
    /\ shown' = IF c.handler.shows = "after" THEN Effect(c, shown) ELSE shown
    /\ IF c.handler.shows = "by loading" THEN BeginLoad(c.view, gets) ELSE UNCHANGED <<gets, issued, loading>>
    /\ UNCHANGED <<screen, rows, view, pages, latest, strays, made, spent>>

\* The catch block: reported, restored where the handler does; the form stays.
Caught(c, why) ==
    /\ calls' = calls \ {c}
    /\ shown' = IF c.handler.restores THEN c.shown ELSE shown
    /\ strays' = strays \cup why
                        \cup (IF c.handler.shows = "before" /\ ~c.handler.restores THEN {"not restored"} ELSE {})
                        \cup (IF c.handler.restores /\ shown # Effect(c, c.shown) THEN {"restored too much"} ELSE {})
    /\ UNCHANGED <<screen, rows, view, pages, loading, gets, forms, asked, issued, latest, made>>

Fail(c) == c.state = "refused" /\ Caught(c, {}) /\ UNCHANGED spent

LoseAnswer(c) == c.state = "stored" /\ Spend("faults", MaxFaults) /\ Caught(c, {"answer lost"})

\* The row is stored, the request after it is not.
SecondFails(c) ==
    c.state = "stored" /\ c.handler.second /\ Spend("faults", MaxFaults) /\ Caught(c, {"half done"})

Next ==
    \/ \E g \in gets : ServeLoad(g) \/ ShowLoad(g) \/ LoadFails(g)
    \/ \E v \in 1..MaxRows : Turn(v)
    \/ \E h \in screen.handlers : ClickRow(h) \/ Submit(h)
    \/ \E c \in calls : Store(c) \/ Refuse(c) \/ Succeed(c) \/ Fail(c) \/ LoseAnswer(c) \/ SecondFails(c)

Spec == Init /\ [][Next]_vars

-----------------------------------------------------------------------------
Quiet == gets = {} /\ calls = {}

\* A screen with nothing in flight shows the API's rows of its view, unless one
\* of these came in the way: a load that failed, an answer that was lost or half
\* of a form that failed; an answer overtaken by a later one, of a view that was
\* left, or from before a change that no load follows; a refusal the screen does
\* not take back or takes back with other changes; two clicks on one row at once.
ShowsItsView == Quiet /\ strays \subseteq {"old list"} => shown = InView(view, rows)

\* A screen that drops earlier loads never shows an answer late or elsewhere.
LateAnswersDropped == screen.drops => {"overtaken", "another view"} \cap strays = {}

\* Every handler that succeeds leaves its screen right, whoever waits for each
\* answer is never shown anything else, and the screens that drop earlier loads
\* (calendar, search) need no such care.
QuietScreenIsTrue == ShowsItsView /\ LateAnswersDropped

\* One filled form is stored as one row, even after a refusal and another try,
\* where a flag keeps the second click out.
FormStoredOnce ==
    \A q, r \in rows :
        /\ q.form = r.form /\ q.form # NoForm
        /\ \A h \in q.form.handler : h.busy
        /\ {"answer lost", "half done"} \cap strays = {}
        => q = r

\* What a click that succeeded asked for is what the API has, until the next
\* click on the row; only a handler that sends the whole list from a list that
\* is not current can undo it.
ClickKept ==
    \A i \in Ids :
        /\ asked[i] # "nothing"
        /\ \A c \in calls : i \notin IdsOf(c.sends)
        /\ {"same row", "old list", "answer lost"} \cap strays = {}
        => IF asked[i] = "gone" THEN i \notin IdsOf(rows)
           ELSE \E r \in rows : r.id = i /\ r.mark = asked[i]

\* A click that succeeded counts, and counts once.
EveryClickCountsOnce == FormStoredOnce /\ ClickKept

-----------------------------------------------------------------------------
(* The inductive invariant behind them.                                        *)

Handler == [op : {"add", "mark", "remove"}, busy : BOOLEAN, shows : {"by loading", "after", "before"},
            restores : BOOLEAN, whole : BOOLEAN, second : BOOLEAN]
Form    == [handler : SUBSET Handler, fill : Nat]
RowSet  == [id : Ids, mark : Marks, form : Form]
LoadSet == [n : Nat, view : 1..MaxRows, served : BOOLEAN, answer : SUBSET RowSet, behind : BOOLEAN]
CallSet == [handler : screen.handlers, id : Ids, sends : SUBSET RowSet, view : 1..MaxRows,
            shown : SUBSET RowSet, state : {"sent", "stored", "refused"}]
Strays  == {"overtaken", "another view", "behind", "not loaded", "same row", "old list", "not restored",
            "restored too much", "answer lost", "half done"}
Adders  == {h \in screen.handlers : h.op = "add"}

\* What all screens have in common: a row is shown before or after an answer only
\* where it is changed in place, and never where a filter picks by what changes;
\* who sends whole lists, or takes changes back, does nothing else and has one view.
ProperHandler(h) ==
    /\ h.op # "mark" => h.shows = "by loading"
    /\ h.whole => h.op = "mark" /\ h.shows = "by loading"
    /\ h.second => h.op = "add"
    /\ h.restores => h.shows = "before"
ProperScreen(s) ==
    /\ s.views \in {"one", "pages", "filters"} /\ s.drops \in BOOLEAN /\ s.handlers \in SUBSET Handler
    /\ \A h \in s.handlers : ProperHandler(h)
    /\ s.drops => s.handlers = {}
    /\ s.views = "filters" => \A h \in s.handlers : h.shows = "by loading"
    /\ (\E h \in s.handlers : h.whole) => s.views = "one" /\ \A h \in s.handlers : h.whole
    /\ (\E h \in s.handlers : h.restores) => s.views = "one" /\ \A h \in s.handlers : h.shows = "before"

TypeOK ==
    /\ ProperScreen(screen)
    /\ rows \in SUBSET RowSet /\ shown \in SUBSET RowSet
    /\ view \in 1..MaxRows /\ loading \in BOOLEAN
    /\ gets \in SUBSET LoadSet /\ calls \in SUBSET CallSet
    /\ forms \in [Adders -> Nat]
    /\ asked \in [Ids -> {"nothing", "gone"} \cup Marks]
    /\ issued \in Nat /\ latest \in Nat /\ made \in 2..MaxRows
    /\ strays \in SUBSET Strays
    /\ spent \in [{"clicks", "turns", "faults"} -> Nat]

\* No two rows with one id, in the API or on the screen; a row that is asked for
\* is in neither until it is stored, and was asked for by one call.
Unique(s) == \A q, r \in s : q.id = r.id => q = r
RowsSane ==
    /\ Unique(rows) /\ Unique(shown)
    /\ \A g \in gets : Unique(g.answer)
    /\ \A c \in calls : Unique(c.shown)
Pending == {c \in calls : c.handler.op = "add" /\ c.state = "sent"}
Known(i) == \/ i \in IdsOf(rows) \cup IdsOf(shown)
            \/ \E g \in gets : i \in IdsOf(g.answer)
            \/ \E c \in calls : i \in IdsOf(c.shown)
NewRowsSane ==
    /\ \A i \in Ids : Known(i) => i <= made
    /\ \A c \in calls : c.id <= made
    /\ \A c \in Pending : ~Known(c.id)
    /\ \A c, d \in calls : c.handler.op = "add" /\ d.handler.op = "add" /\ c.id = d.id => c = d

\* A call sends its row; only who sends the whole list sends others.
SendsSane ==
    \A c \in calls :
        /\ Unique(c.sends) /\ c.id \in IdsOf(c.sends)
        /\ ~c.handler.whole => IdsOf(c.sends) = {c.id}

\* Loads are numbered; where earlier ones are dropped there is one.
LoadsSane ==
    /\ latest <= issued
    /\ \A g \in gets : g.n <= issued /\ g.n # latest
    /\ \A g, h \in gets : g.n = h.n => g = h
    /\ screen.drops => \A g \in gets : g.n = issued /\ g.view = view

\* An answer from before a change that is shown already is known as such.
BehindSane == \A g \in gets, c \in calls :
                 g.served /\ c.state = "sent" /\ c.handler.shows = "before" => g.behind

\* Two calls at once on one row are a stray.
OneCallPerRow == "same row" \notin strays => \A c, d \in calls : c.id = d.id => c = d

\* Only who sends the whole list can have sent an old one; a list that is not old
\* is the API's, but for the row that was clicked, and nobody else is changing it.
WholeSane ==
    /\ "old list" \in strays => \E h \in screen.handlers : h.whole
    /\ "old list" \notin strays =>
         \A c \in calls : c.handler.whole => calls = {c} /\ \A q \in c.sends : q.id # c.id => q \in rows

\* What a call has stored stays, while it waits for the answer.
Kept(i, wanted) == IF wanted = "gone" THEN i \notin IdsOf(rows)
                   ELSE \E r \in rows : r.id = i /\ r.mark = wanted
StoredIsKept == {"same row", "old list"} \cap strays = {} =>
                  \A c \in calls : c.state = "stored" => Kept(c.id, Wanted(c))

\* A screen that takes changes back loads once, before the first of them, and
\* has kept for every row what the API still has.
RestoreSane ==
    (\E h \in screen.handlers : h.restores) =>
        /\ \A g, h \in gets : g = h
        /\ gets = {} \/ (calls = {} /\ shown = {})
        /\ strays = {} => \A c \in calls : c.handler.restores /\ c.state # "stored" =>
             \A r \in rows : \A q \in c.shown : r.id = c.id /\ q.id = c.id => r.mark = q.mark

\* The screen shows its view of the API's rows, but for the marks of rows with a
\* call that the one knows of and the other does not.
Unsettled(i) == \E c \in calls : /\ c.id = i
                                 /\ \/ c.handler.shows = "before" /\ c.state # "stored"
                                    \/ c.handler.shows = "after" /\ c.state = "stored"
Agrees ==
    /\ \A r \in shown : \E q \in InView(view, rows) :
          q.id = r.id /\ q.form = r.form /\ (q.mark = r.mark \/ Unsettled(r.id))
    /\ \A q \in InView(view, rows) : \E r \in shown : r.id = q.id
    /\ \A c \in calls, r \in shown :
          c.handler.shows = "before" /\ c.state = "sent" /\ r.id = c.id => r.mark = Wanted(c)

\* If nothing came in the way, a call will load the list again, or the latest
\* load is on its way with the API's rows, or the screen shows them.
WillLoad  == \E c \in calls : c.state = "stored" /\ c.handler.shows = "by loading"
OnItsWay  == \E g \in gets : g.n = issued /\ (g.served => g.behind \/ g.answer = rows)
UpToDate  == strays \subseteq {"old list"} => WillLoad \/ OnItsWay \/ (latest = issued /\ Agrees)

\* A guarded handler is in one call at a time; what a form sends is off, bears
\* the form's name and, where the form is guarded, counts as the form still does:
\* the form is cleared with the answer, so a row of the form as it is now is there
\* only while the call that stored it is waiting.
GuardHolds  == \A c, d \in calls : c.handler.busy /\ c.handler = d.handler => c = d
FormsSent   == \A c \in calls : c.handler.op = "add" =>
                 \A q \in c.sends : /\ q.mark = "off" /\ q.form.handler = {c.handler}
                                    /\ c.handler.busy => q.form.fill = forms[c.handler]
FormsNamed  == \A r \in rows : r.form = NoForm \/ \E h \in Adders : r.form.handler = {h}
FormsCleared ==
    {"answer lost", "half done"} \cap strays = {} =>
      \A r \in rows, h \in Adders : h.busy /\ r.form.handler = {h} =>
          /\ r.form.fill <= forms[h]
          /\ r.form.fill = forms[h] => \E c \in calls : c.handler = h /\ c.state = "stored" /\ c.id = r.id
FormsSane == GuardHolds /\ FormsSent /\ FormsNamed /\ FormsCleared

\* What was asked for is there, unless a call has changed it and is waiting.
AskedIsKept ==
    /\ "same row" \notin strays =>
         \A c \in calls : c.handler.op = "add" => asked[c.id] = "nothing"
    /\ \A i \in Ids : asked[i] # "nothing" => i <= made
    /\ {"same row", "old list", "answer lost"} \cap strays = {} =>
         \A i \in Ids : asked[i] # "nothing" =>
             Kept(i, asked[i]) \/ \E c \in calls : c.state = "stored" /\ c.id = i

IInv == /\ TypeOK /\ RowsSane /\ NewRowsSane /\ SendsSane /\ LoadsSane /\ BehindSane
        /\ OneCallPerRow /\ WholeSane /\ StoredIsKept /\ RestoreSane /\ UpToDate
        /\ FormsSane /\ FormStoredOnce /\ AskedIsKept /\ LateAnswersDropped
=============================================================================
