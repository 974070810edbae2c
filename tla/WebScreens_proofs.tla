-------------------------- MODULE WebScreens_proofs --------------------------
(* Proofs about WebScreens, for every screen of the web application and any     *)
(* number of rows, clicks, changes of view and faults; and, in the second half, *)
(* about ScreenControls, for every kind of row and any number of changes that a *)
(* screen has missed.                                                           *)
EXTENDS WebScreens, ScreenControls, FiniteSetTheorems, FunctionTheorems, TLAPS

USE BoundsAssumption

-----------------------------------------------------------------------------
(* The screens: each is proper.                                                *)

\* A handler that neither sends the whole list nor takes its change back, and
\* one of these that loads the list again.
Single(h) == h \in Handler /\ ProperHandler(h) /\ ~h.whole /\ ~h.restores
Plain(h)  == Single(h) /\ h.shows = "by loading"

LEMMA PlainHandlers ==
  /\ \A op \in {"add", "mark", "remove"} : Plain(Reloads(op)) /\ Plain(Guarded(Reloads(op)))
  /\ Plain(InTwo(Guarded(Reloads("add"))))
BY DEF Plain, Single, Handler, ProperHandler, Reloads, Guarded, InTwo

LEMMA SingleHandlers ==
  Single(Assumes("mark")) /\ Single(Patches("mark")) /\ Single(Guarded(Patches("mark")))
BY DEF Single, Handler, ProperHandler, Reloads, Guarded, Assumes, Patches

LEMMA PlainScreen ==
  ASSUME NEW views \in {"one", "pages", "filters"}, NEW hs, \A h \in hs : Plain(h)
  PROVE  ProperScreen(Screen(views, hs))
BY DEF ProperScreen, Screen, Plain, Single

LEMMA SingleScreen ==
  ASSUME NEW views \in {"one", "pages"}, NEW hs, \A h \in hs : Single(h)
  PROVE  ProperScreen(Screen(views, hs))
BY DEF ProperScreen, Screen, Single

LEMMA HidingScreen ==
  ASSUME NEW parts, NEW views, NEW hs, ProperScreen(Screen(views, hs))
  PROVE  ProperScreen(Hiding(parts, Screen(views, hs)))
BY DEF ProperScreen, Screen, Hiding

LEMMA ScreensProper == \A s \in Screens : ProperScreen(s)
<1>1. ProperScreen(PortalUpdates)
  BY PlainHandlers, SingleHandlers, SingleScreen DEF PortalUpdates,
     PortalPostUpdate, PortalSaveEdit, PortalPrefsChange, Plain
<1>2. ProperScreen(PortalTasks)
  BY PlainHandlers, PlainScreen DEF PortalTasks, PortalPostRequest
<1>3. ProperScreen(PortalDocuments)
  BY PlainHandlers, PlainScreen DEF PortalDocuments, PortalDocumentConfirm,
     PortalDocumentRespond
<1>4. ProperScreen(PortalProject)
  BY PlainHandlers, PlainScreen DEF PortalProject, PortalUpload
<1>5. ProperScreen(PortalInvoices)
  BY PlainScreen, HidingScreen DEF PortalInvoices
<1>6. ProperScreen(PortalProjects)
  BY PlainScreen, HidingScreen DEF PortalProjects
<1>7. ProperScreen(ClientProfile)
  BY SingleHandlers, SingleScreen DEF ClientProfile
<1>8. ProperScreen(ProjectPage)
  BY PlainHandlers, PlainScreen DEF ProjectPage, ProjectChange
<1>9. ProperScreen(ProjectClients)
  BY DEF ProjectClients, ClientToggle, Screen, ProperScreen, ProperHandler, Handler,
     Reloads, Whole
<1>10. ProperScreen(ProjectTimeline)
  BY PlainHandlers, SingleHandlers, SingleScreen DEF ProjectTimeline,
     TimelineSaveEdit, TimelinePost, TimelinePrefs, TimelineDelete, Plain
<1>11. ProperScreen(ProjectTasks)
  BY PlainHandlers, PlainScreen DEF ProjectTasks, TaskAdd, TaskDelete
<1>12. ProperScreen(ProjectFiles)
  BY PlainHandlers, PlainScreen DEF ProjectFiles, FileDelete, FileEditSave,
     LinkSubmit
<1>13. ProperScreen(ProjectDocuments)
  BY PlainHandlers, PlainScreen DEF ProjectDocuments, DocumentUpload, DocumentSend,
     DocumentVoid, DocumentDelete, DocumentVersion, DocumentRestore
<1>14. ProperScreen(SigningLinks)
  BY PlainHandlers, PlainScreen DEF SigningLinks, SigningLinkCreate,
     SigningLinkRevoke
<1>15. ProperScreen(ProjectInvoices)
  BY PlainHandlers, PlainScreen, HidingScreen DEF ProjectInvoices, InvoiceCreate,
     InvoiceUpload, InvoiceStatus, InvoiceSaveEdit, InvoiceDelete
<1>16. ProperScreen(ProjectNotes)
  BY PlainHandlers, PlainScreen DEF ProjectNotes, NoteAdd, NoteDelete
<1>17. ProperScreen(ProjectTime)
  BY PlainHandlers, PlainScreen DEF ProjectTime, TimerStart, TimerStop,
     TimerDescribe, JournalAdd, JournalDelete, TimerComplete, EntryDelete
<1>18. ProperScreen(TaskDetail)
  BY DEF TaskDetail, DetailSave, DetailLabel, Screen, ProperScreen, ProperHandler,
     Handler, Reloads, Assumes, Tries, Guarded
<1>19. ProperScreen(Comments)
  BY PlainHandlers, PlainScreen DEF Comments, CommentPost, CommentDelete
<1>20. ProperScreen(Projects)
  BY PlainHandlers, PlainScreen, HidingScreen DEF Projects, ProjectCreate
<1>21. ProperScreen(Members)
  BY PlainHandlers, SingleHandlers, SingleScreen, HidingScreen DEF Members,
     MemberRemove, MemberRate, MemberRole, Plain
<1>22. ProperScreen(Invitations)
  BY PlainHandlers, PlainScreen DEF Invitations, TeamInvite, ClientInvite
<1>23. ProperScreen(MemberProfile)
  BY SingleHandlers, SingleScreen DEF MemberProfile
<1>24. ProperScreen(BillingReports)
  BY PlainHandlers, PlainScreen DEF BillingReports, BillingGenerate
<1>25. ProperScreen(BillingInvoices)
  BY PlainHandlers, PlainScreen, HidingScreen DEF BillingInvoices, BillingStatus
<1>26. ProperScreen(Calendar)
  BY DEF Calendar, Dropping, Screen, ProperScreen
<1>27. ProperScreen(Search)
  BY DEF Search, Dropping, Screen, ProperScreen
<1>28. ProperScreen(Notifications)
  BY SingleHandlers, SingleScreen DEF Notifications, MarkRead
<1>29. ProperScreen(Labels)
  BY PlainHandlers, PlainScreen DEF Labels, LabelPick, LabelCreate, LabelSaveEdit,
     LabelDelete
<1>30. ProperScreen(GeneralSettings)
  BY SingleHandlers, SingleScreen DEF GeneralSettings
<1>31. ProperScreen(CustomDomain)
  BY SingleHandlers, SingleScreen DEF CustomDomain
<1>32. ProperScreen(PaymentSettings)
  BY SingleHandlers, SingleScreen DEF PaymentSettings
<1>33. ProperScreen(Logo)
  BY SingleHandlers, SingleScreen DEF Logo
<1>34. ProperScreen(SigningViewer)
  BY PlainHandlers, PlainScreen DEF SigningViewer, SignField
<1> QED
  BY <1>1, <1>2, <1>3, <1>4, <1>5, <1>6, <1>7, <1>8, <1>9, <1>10, <1>11, <1>12,
     <1>13, <1>14, <1>15, <1>16, <1>17, <1>18, <1>19, <1>20, <1>21, <1>22, <1>23,
     <1>24, <1>25, <1>26, <1>27, <1>28, <1>29, <1>30, <1>31, <1>32, <1>33, <1>34 DEF
     Screens

-----------------------------------------------------------------------------
(* Rows, views, and what a stored call does to them.                           *)

\* Of rows with an id of their own, as many are newer as have a larger id.
LEMMA NewerIds ==
  ASSUME NEW s, Unique(s), IdsOf(s) \subseteq Ids, NEW i \in Ids
  PROVE  Cardinality({q \in s : q.id > i}) = Cardinality({j \in IdsOf(s) : j > i})
<1> DEFINE J == {j \in IdsOf(s) : j > i}
           S == {q \in s : q.id > i}
           F == [j \in J |-> CHOOSE q \in S : q.id = j]
<1>1. IsFiniteSet(J)
  <2>1. IsFiniteSet(1..MaxRows)
    BY FS_Interval
  <2> QED BY <2>1, FS_Subset DEF Ids
<1>2. \A j \in J : F[j] \in S /\ F[j].id = j
  BY DEF IdsOf
<1>3. F \in [J -> S]
  BY <1>2
<1>4. \A j, k \in J : F[j] = F[k] => j = k
  BY <1>2
<1>5. ASSUME NEW q \in S PROVE \E j \in J : F[j] = q
  <2>1. q.id \in J
    BY DEF IdsOf
  <2> QED BY <1>2, <2>1 DEF Unique
<1>6. F \in Bijection(J, S)
  BY <1>3, <1>4, <1>5, Fun_IsBij
<1>7. ExistsBijection(J, S)
  BY <1>6 DEF ExistsBijection
<1> QED BY <1>1, <1>7, FS_Bijection

\* A view is a part of the list, and all of it where there is one.
LEMMA ViewPart ==
  ASSUME ProperScreen(screen), NEW v, NEW s
  PROVE  InView(v, s) \subseteq s /\ (screen.views = "one" => InView(v, s) = s)
BY DEF InView, ProperScreen

\* Which rows are on a page is a matter of the ids alone.
LEMMA ViewIds ==
  ASSUME screen.views \in {"one", "pages"}, NEW v,
         NEW s \in SUBSET RowSet, Unique(s), NEW t \in SUBSET RowSet, Unique(t), IdsOf(s) = IdsOf(t),
         NEW q \in s, NEW r \in t, q.id = r.id
  PROVE  q \in InView(v, s) <=> r \in InView(v, t)
<1>1. IdsOf(s) \subseteq Ids /\ q.id \in Ids
  BY DEF IdsOf, RowSet
<1>2. Cardinality({p \in s : p.id > q.id}) = Cardinality({j \in IdsOf(s) : j > q.id})
  BY <1>1, NewerIds
<1>3. Cardinality({p \in t : p.id > r.id}) = Cardinality({j \in IdsOf(t) : j > r.id})
  BY <1>1, NewerIds
<1> QED BY <1>2, <1>3 DEF InView

\* A row is what its fields are.
LEMMA SameRow ==
  ASSUME NEW q \in RowSet, NEW r \in RowSet, q.id = r.id, q.form = r.form, q.mark = r.mark
  PROVE  q = r
BY DEF RowSet

\* A call that marks rows changes the marks of those it sends, and nothing else.
LEMMA EffectMark ==
  ASSUME NEW c, c.handler.op = "mark", c.sends \in SUBSET RowSet, Unique(c.sends),
         NEW s \in SUBSET RowSet, Unique(s)
  PROVE  /\ Effect(c, s) \in SUBSET RowSet /\ Unique(Effect(c, s)) /\ IdsOf(Effect(c, s)) = IdsOf(s)
         /\ \A r \in s : r.id \notin IdsOf(c.sends) => r \in Effect(c, s)
         /\ \A r \in s, q \in c.sends : q.id = r.id => [r EXCEPT !.mark = q.mark] \in Effect(c, s)
         /\ \A e \in Effect(c, s) : \E r \in s :
              /\ r.id = e.id /\ r.form = e.form
              /\ e.id \notin IdsOf(c.sends) => e = r
              /\ \A q \in c.sends : q.id = e.id => e.mark = q.mark
<1> DEFINE New(r) == IF r.id \in IdsOf(c.sends)
                     THEN [r EXCEPT !.mark = (CHOOSE q \in c.sends : q.id = r.id).mark]
                     ELSE r
<1>1. Effect(c, s) = {New(r) : r \in s}
  BY DEF Effect
<1>2. ASSUME NEW r \in s
      PROVE  /\ New(r) \in RowSet /\ New(r).id = r.id /\ New(r).form = r.form
             /\ r.id \notin IdsOf(c.sends) => New(r) = r
             /\ \A q \in c.sends : q.id = r.id => New(r) = [r EXCEPT !.mark = q.mark] /\ New(r).mark = q.mark
  <2>1. r \in RowSet
    OBVIOUS
  <2>2. CASE r.id \notin IdsOf(c.sends)
    BY <2>1, <2>2 DEF IdsOf
  <2>3. CASE r.id \in IdsOf(c.sends)
    <3>1. PICK q \in c.sends : q.id = r.id
      BY <2>3 DEF IdsOf
    <3>2. \A p \in c.sends : p.id = r.id => p = q
      BY <3>1 DEF Unique
    <3>3. (CHOOSE p \in c.sends : p.id = r.id) = q
      BY <3>1, <3>2
    <3>4. New(r) = [r EXCEPT !.mark = q.mark] /\ q.mark \in Marks
      BY <2>3, <3>3 DEF RowSet
    <3> QED BY <2>1, <2>3, <3>2, <3>4 DEF RowSet
  <2> QED BY <2>2, <2>3
<1> HIDE DEF New
<1>3. Effect(c, s) \in SUBSET RowSet
  BY <1>1, <1>2
<1>4. Unique(Effect(c, s))
  BY <1>1, <1>2 DEF Unique
<1>5. IdsOf(Effect(c, s)) = IdsOf(s)
  BY <1>1, <1>2 DEF IdsOf
<1>6. /\ \A r \in s : r.id \notin IdsOf(c.sends) => r \in Effect(c, s)
      /\ \A r \in s, q \in c.sends : q.id = r.id => [r EXCEPT !.mark = q.mark] \in Effect(c, s)
  BY <1>1, <1>2
<1>7. ASSUME NEW e \in Effect(c, s)
      PROVE  \E r \in s : /\ r.id = e.id /\ r.form = e.form
                          /\ e.id \notin IdsOf(c.sends) => e = r
                          /\ \A q \in c.sends : q.id = e.id => e.mark = q.mark
  BY <1>1, <1>2
<1> QED BY <1>3, <1>4, <1>5, <1>6, <1>7

\* A call leaves rows rows.
LEMMA EffectTyped ==
  ASSUME TypeOK, NEW c \in CallSet, Unique(c.sends), NEW s \in SUBSET RowSet, Unique(s)
  PROVE  Effect(c, s) \in SUBSET RowSet
<1>1. c.handler.op \in {"add", "mark", "remove"} /\ c.sends \in SUBSET RowSet
  BY DEF CallSet, TypeOK, ProperScreen, Handler
<1>2. CASE c.handler.op = "mark"
  BY <1>1, <1>2, EffectMark
<1>3. CASE c.handler.op # "mark"
  BY <1>1, <1>3 DEF Effect
<1> QED BY <1>2, <1>3

\* A row on a page keeps its place when marks change.
LEMMA EffectView ==
  ASSUME screen.views \in {"one", "pages"}, NEW v,
         NEW c, c.handler.op = "mark", c.sends \in SUBSET RowSet, Unique(c.sends),
         NEW s \in SUBSET RowSet, Unique(s),
         NEW q \in s, NEW r \in Effect(c, s), q.id = r.id
  PROVE  q \in InView(v, s) <=> r \in InView(v, Effect(c, s))
BY EffectMark, ViewIds

\* What a call wants of its row is what it sends.
LEMMA WantedSent ==
  ASSUME NEW c, c.handler.op # "remove", Unique(c.sends), NEW q \in c.sends, q.id = c.id
  PROVE  Wanted(c) = q.mark
<1>1. \A p \in c.sends : p.id = c.id => p = q
  BY DEF Unique
<1> QED BY <1>1 DEF Wanted

-----------------------------------------------------------------------------
(* What a click begins.                                                        *)

\* Call c of handler h is made for a row that is shown, or for a new one.
Clicks(h, c) ==
  /\ c \in CallSet /\ c \notin calls
  /\ c.handler = h /\ c.view = view /\ c.shown = shown /\ c.state = "sent"
  /\ ~Disabled(h)
  /\ Unique(c.sends) /\ c.id \in IdsOf(c.sends) /\ (~h.whole => IdsOf(c.sends) = {c.id})
  /\ \/ /\ h.op = "add" /\ made' = made + 1 /\ c.id = made'
        /\ c.sends = {Row(c.id, "off", [handler |-> {h}, fill |-> forms[h]])}
     \/ /\ h.op # "add" /\ made' = made
        /\ \E r \in shown : c.id = r.id /\ (h.op = "mark" => Wanted(c) # r.mark)
        /\ \A q \in c.sends : q.id # c.id => q \in shown
  /\ calls' = calls \cup {c}
  /\ shown' = IF h.shows = "before" THEN Effect(c, shown) ELSE shown
  /\ gets' = IF h.shows = "before" THEN Behind(c, gets) ELSE gets
  /\ strays' = strays \cup (IF \E d \in calls : d.id = c.id THEN {"same row"} ELSE {})
                      \cup (IF h.whole /\ (calls # {} \/ gets # {} \/ strays # {}) THEN {"old list"} ELSE {})
  /\ spent' \in [{"clicks", "turns", "faults"} -> Nat]
  /\ made' \in 2..MaxRows
  /\ UNCHANGED <<screen, rows, view, pages, loading, forms, asked, issued, latest>>

LEMMA SpendTyped ==
  ASSUME TypeOK, NEW what \in {"clicks", "turns", "faults"}, NEW max \in Nat, Spend(what, max)
  PROVE  spent' \in [{"clicks", "turns", "faults"} -> Nat]
BY DEF TypeOK, Spend

LEMMA ClickRowClicks ==
  ASSUME TypeOK, RowsSane, NEW h \in screen.handlers, ClickRow(h)
  PROVE  \E c : Clicks(h, c)
<1>1. PICK r \in shown : Begin(h, r.id, Sent(h, r))
  BY DEF ClickRow
<1> DEFINE c == [handler |-> h, id |-> r.id, sends |-> Sent(h, r), view |-> view, shown |-> shown,
                 state |-> "sent"]
<1>2. h.op \in {"mark", "remove"} /\ made' = made /\ r \in RowSet /\ h \in Handler
  BY DEF ClickRow, TypeOK, ProperScreen
<1>3. PICK t \in RowSet : /\ t.id = r.id /\ (h.op = "mark" => t.mark # r.mark)
                          /\ Sent(h, r) = {t} \cup (IF h.whole THEN {q \in shown : q.id # r.id} ELSE {})
  <2>1. CASE h.op = "mark"
    <3>1. [r EXCEPT !.mark = Other(@)] \in RowSet
      BY <1>2 DEF RowSet, Other, Marks
    <3>2. [r EXCEPT !.mark = Other(@)].id = r.id /\ [r EXCEPT !.mark = Other(@)].mark # r.mark
      BY <1>2 DEF RowSet, Other, Marks
    <3> QED BY <2>1, <3>1, <3>2 DEF Sent
  <2>2. CASE h.op # "mark"
    BY <1>2, <2>2 DEF Sent
  <2> QED BY <2>1, <2>2
<1>4. Unique(c.sends) /\ r.id \in IdsOf(c.sends) /\ (~h.whole => IdsOf(c.sends) = {r.id})
  BY <1>3 DEF Unique, RowsSane, IdsOf
<1>5. c.sends \in SUBSET RowSet /\ \A q \in c.sends : q.id # r.id => q \in shown
  BY <1>3 DEF TypeOK
<1>6. c \in CallSet
  BY <1>2, <1>5 DEF CallSet, TypeOK, RowSet
<1>7. h.op = "mark" => Wanted(c) # r.mark
  BY <1>3, <1>4, WantedSent
<1>8. spent' \in [{"clicks", "turns", "faults"} -> Nat]
  BY <1>1, SpendTyped DEF Begin
<1>9. /\ ~Disabled(h) /\ c \notin calls /\ calls' = calls \cup {c}
      /\ shown' = IF h.shows = "before" THEN Effect(c, shown) ELSE shown
      /\ gets' = IF h.shows = "before" THEN Behind(c, gets) ELSE gets
      /\ strays' = strays \cup (IF \E d \in calls : d.id = r.id THEN {"same row"} ELSE {})
                      \cup (IF h.whole /\ (calls # {} \/ gets # {} \/ strays # {}) THEN {"old list"} ELSE {})
      /\ UNCHANGED <<screen, rows, view, pages, loading, forms, asked, issued, latest>>
  BY <1>1 DEF Begin
<1>10. Clicks(h, c)
  BY <1>2, <1>4, <1>5, <1>6, <1>7, <1>8, <1>9 DEF Clicks, TypeOK
<1> QED BY <1>10

LEMMA SubmitClicks ==
  ASSUME TypeOK, NEW h \in screen.handlers, Submit(h)
  PROVE  \E c : Clicks(h, c)
<1> DEFINE newRow == Row(made', "off", [handler |-> {h}, fill |-> forms[h]])
           c == [handler |-> h, id |-> made', sends |-> {newRow}, view |-> view, shown |-> shown, state |-> "sent"]
<1>1. h.op = "add" /\ made < MaxRows /\ made' = made + 1 /\ h \in Adders /\ h \in Handler
  BY DEF Submit, TypeOK, ProperScreen, Adders
<1>2. made' \in 2..MaxRows /\ made' \in Ids
  BY <1>1 DEF TypeOK, Ids
<1>3. newRow \in RowSet /\ newRow.id = made'
  BY <1>1, <1>2 DEF Row, RowSet, Marks, Form, TypeOK
<1>4. c \in CallSet
  BY <1>2, <1>3 DEF CallSet, TypeOK
<1>5. Unique(c.sends) /\ IdsOf(c.sends) = {made'}
  BY <1>3 DEF Unique, IdsOf
<1>6. spent' \in [{"clicks", "turns", "faults"} -> Nat]
  BY SpendTyped DEF Submit, Begin
<1>7. /\ ~Disabled(h) /\ c \notin calls /\ calls' = calls \cup {c}
      /\ shown' = IF h.shows = "before" THEN Effect(c, shown) ELSE shown
      /\ gets' = IF h.shows = "before" THEN Behind(c, gets) ELSE gets
      /\ strays' = strays \cup (IF \E d \in calls : d.id = made' THEN {"same row"} ELSE {})
                      \cup (IF h.whole /\ (calls # {} \/ gets # {} \/ strays # {}) THEN {"old list"} ELSE {})
      /\ UNCHANGED <<screen, rows, view, pages, loading, forms, asked, issued, latest>>
  BY DEF Submit, Begin
<1>8. Clicks(h, c)
  BY <1>1, <1>2, <1>4, <1>5, <1>6, <1>7 DEF Clicks
<1> QED BY <1>8

-----------------------------------------------------------------------------
(* What the steps do to the rows, the loads and the calls.                     *)

\* A call moves on: it is the same call in another state.
SameCall(d, c) == /\ d.handler = c.handler /\ d.id = c.id /\ d.sends = c.sends
                  /\ d.view = c.view /\ d.shown = c.shown /\ Wanted(d) = Wanted(c)
Moves(c, st) == calls' = (calls \ {c}) \cup {[c EXCEPT !.state = st]}

LEMMA MovedCalls ==
  ASSUME TypeOK, NEW c \in calls, NEW st \in {"stored", "refused"}, Moves(c, st)
  PROVE  /\ calls' \in SUBSET CallSet
         /\ \A d \in calls' : (d \in calls /\ d # c) \/ (d.state = st /\ SameCall(d, c))
         /\ \A d \in calls : d # c => d \in calls'
         /\ \E d \in calls' : d.state = st /\ SameCall(d, c)
         /\ \A d, e \in calls' : d.state = st /\ SameCall(d, c) /\ e.state = st /\ SameCall(e, c) => d = e
<1> DEFINE m == [c EXCEPT !.state = st]
<1>1. c \in CallSet
  BY DEF TypeOK
<1>2. m \in CallSet /\ m.state = st
  BY <1>1 DEF CallSet
<1>3. SameCall(m, c)
  BY <1>1 DEF CallSet, SameCall, Wanted
<1>4. calls' = (calls \ {c}) \cup {m}
  BY DEF Moves
<1> HIDE DEF m
<1>5. calls' \in SUBSET CallSet
  BY <1>2, <1>4 DEF TypeOK
<1>6. ASSUME NEW d \in calls', NEW e \in calls', d.state = st, SameCall(d, c), e.state = st, SameCall(e, c)
      PROVE  d = e
  <2>1. d \in CallSet /\ e \in CallSet
    BY <1>5
  <2> QED BY <1>6, <2>1 DEF SameCall, CallSet
<1>7. \A d \in calls' : (d \in calls /\ d # c) \/ (d.state = st /\ SameCall(d, c))
  BY <1>2, <1>3, <1>4
<1>8. m \in calls' /\ \A d \in calls : d # c => d \in calls'
  BY <1>4
<1> QED BY <1>2, <1>3, <1>5, <1>6, <1>7, <1>8

\* The loads are the same, but for the served ones that are now known to be behind.
SameLoad(f, g) == /\ f.n = g.n /\ f.view = g.view /\ f.served = g.served /\ f.answer = g.answer
                  /\ g.behind => f.behind

LEMMA BehindLoads ==
  ASSUME NEW c, NEW s \in SUBSET LoadSet
  PROVE  /\ Behind(c, s) \in SUBSET LoadSet
         /\ \A f \in Behind(c, s) : \E g \in s :
              SameLoad(f, g) /\ (g.served /\ c.handler.shows # "by loading" => f.behind)
         /\ \A g \in s : \E f \in Behind(c, s) :
              SameLoad(f, g) /\ (g.served /\ c.handler.shows # "by loading" => f.behind)
         /\ (\A g, h \in s : g.n = h.n => g = h) => \A f, k \in Behind(c, s) : f.n = k.n => f = k
         /\ s = {} => Behind(c, s) = {}
<1> DEFINE New(g) == IF g.served /\ c.handler.shows # "by loading" THEN [g EXCEPT !.behind = TRUE] ELSE g
<1>1. Behind(c, s) = {New(g) : g \in s}
  BY DEF Behind
<1>2. ASSUME NEW g \in s
      PROVE  /\ New(g) \in LoadSet /\ SameLoad(New(g), g) /\ New(g).n = g.n
             /\ g.served /\ c.handler.shows # "by loading" => New(g).behind
  <2>1. g \in LoadSet
    OBVIOUS
  <2> QED BY <2>1 DEF LoadSet, SameLoad
<1> HIDE DEF New
<1>3. ASSUME \A g, h \in s : g.n = h.n => g = h, NEW f \in Behind(c, s), NEW k \in Behind(c, s), f.n = k.n
      PROVE  f = k
  <2>1. PICK g \in s : f = New(g)
    BY <1>1
  <2>2. PICK h \in s : k = New(h)
    BY <1>1
  <2>3. g.n = h.n
    BY <1>2, <1>3, <2>1, <2>2
  <2>4. g = h
    BY <1>3, <2>3
  <2> QED BY <2>1, <2>2, <2>4
<1>4. ASSUME NEW f \in Behind(c, s)
      PROVE  f \in LoadSet /\ \E g \in s : SameLoad(f, g) /\ (g.served /\ c.handler.shows # "by loading" => f.behind)
  <2>1. PICK g \in s : f = New(g)
    BY <1>1
  <2> QED BY <1>2, <2>1
<1>5. ASSUME NEW g \in s
      PROVE  \E f \in Behind(c, s) : SameLoad(f, g) /\ (g.served /\ c.handler.shows # "by loading" => f.behind)
  <2>1. New(g) \in Behind(c, s)
    BY <1>1
  <2> QED BY <1>2, <2>1
<1>6. Behind(c, s) \in SUBSET LoadSet
  BY <1>4
<1>7. s = {} => Behind(c, s) = {}
  BY <1>1
<1>8. (\A g, h \in s : g.n = h.n => g = h) => \A f, k \in Behind(c, s) : f.n = k.n => f = k
  BY <1>3
<1> QED BY <1>4, <1>5, <1>6, <1>7, <1>8

\* So they are after a click and after a call is stored.
LEMMA LoadsGoOn ==
  ASSUME TypeOK, NEW c, gets' = gets \/ gets' = Behind(c, gets)
  PROVE  /\ gets' \in SUBSET LoadSet
         /\ \A f \in gets' : \E g \in gets : SameLoad(f, g)
         /\ \A g \in gets : \E f \in gets' : SameLoad(f, g)
         /\ (\A g, h \in gets : g.n = h.n => g = h) => \A f, k \in gets' : f.n = k.n => f = k
<1>1. \A g \in gets : SameLoad(g, g)
  BY DEF SameLoad
<1>2. gets \in SUBSET LoadSet
  BY DEF TypeOK
<1> QED BY <1>1, <1>2, BehindLoads

\* The fields of a handler that a click depends on.
LEMMA CallHandler ==
  ASSUME TypeOK, NEW c \in CallSet
  PROVE  /\ c.handler \in screen.handlers /\ c.handler \in Handler /\ ProperHandler(c.handler)
         /\ c.handler.op \in {"add", "mark", "remove"} /\ c.sends \in SUBSET RowSet /\ c.shown \in SUBSET RowSet
         /\ c.handler.op # "mark" => c.handler.shows = "by loading" /\ ~c.handler.whole
         /\ c.handler.shows # "by loading" => c.handler.op = "mark" /\ ~c.handler.whole /\
                                              screen.views \in {"one", "pages"}
         /\ c.handler.whole => screen.views = "one" /\ \A h \in screen.handlers : h.whole
BY DEF CallSet, TypeOK, ProperScreen, ProperHandler, Handler

\* A change that is shown in place is one of marks.
LEMMA EffectInPlace ==
  ASSUME TypeOK, NEW c \in CallSet, c.handler.shows # "by loading", Unique(c.sends),
         NEW s \in SUBSET RowSet, Unique(s)
  PROVE  c.handler.op = "mark" /\ IdsOf(Effect(c, s)) = IdsOf(s)
<1>1. c.handler.op = "mark" /\ c.sends \in SUBSET RowSet
  BY CallHandler
<1> QED BY <1>1, EffectMark

\* The rows a call did not mean are as before, if it sends them as they were.
LEMMA EffectElsewhere ==
  ASSUME TypeOK, NEW c \in CallSet, Unique(c.sends), c.id \in IdsOf(c.sends),
         ~c.handler.whole => IdsOf(c.sends) = {c.id},
         NEW s \in SUBSET RowSet, Unique(s), \A q \in c.sends : q.id # c.id => q \in s,
         NEW r, r.id # c.id
  PROVE  r \in Effect(c, s) <=> r \in s
<1>1. /\ c.handler.op \in {"add", "mark", "remove"} /\ c.sends \in SUBSET RowSet
      /\ c.handler.op # "mark" => IdsOf(c.sends) = {c.id}
  BY CallHandler
<1>2. CASE c.handler.op = "add"
  BY <1>1, <1>2 DEF Effect, IdsOf
<1>3. CASE c.handler.op = "remove"
  BY <1>1, <1>3 DEF Effect, IdsOf
<1>4. CASE c.handler.op = "mark"
  <2>1. ASSUME r \in s PROVE r \in Effect(c, s)
    <3>1. CASE r.id \notin IdsOf(c.sends)
      BY <1>1, <1>4, <2>1, <3>1, EffectMark
    <3>2. CASE r.id \in IdsOf(c.sends)
      <4>1. PICK q \in c.sends : q.id = r.id
        BY <3>2 DEF IdsOf
      <4>2. q = r
        BY <2>1, <4>1 DEF Unique
      <4>3. [r EXCEPT !.mark = q.mark] = r
        BY <2>1, <4>2 DEF RowSet
      <4> QED BY <1>1, <1>4, <2>1, <4>1, <4>3, EffectMark
    <3> QED BY <3>1, <3>2
  <2>2. ASSUME r \in Effect(c, s) PROVE r \in s
    <3>1. PICK p \in s : /\ p.id = r.id /\ p.form = r.form
                         /\ r.id \notin IdsOf(c.sends) => r = p
                         /\ \A q \in c.sends : q.id = r.id => r.mark = q.mark
      BY <1>1, <1>4, <2>2, EffectMark
    <3>2. CASE r.id \in IdsOf(c.sends)
      <4>1. PICK q \in c.sends : q.id = r.id
        BY <3>2 DEF IdsOf
      <4>2. q = p
        BY <3>1, <4>1 DEF Unique
      <4>3. r \in RowSet
        BY <1>1, <1>4, <2>2, EffectMark
      <4>4. r.mark = p.mark
        BY <3>1, <4>1, <4>2
      <4>5. r = p
        BY <3>1, <4>3, <4>4 DEF RowSet
      <4> QED BY <3>1, <4>5
    <3> QED BY <3>1, <3>2
  <2> QED BY <2>1, <2>2
<1> QED BY <1>1, <1>2, <1>3, <1>4

\* The row a call means is as it wants it, where it can be stored.
LEMMA EffectOwn ==
  ASSUME TypeOK, NEW c \in CallSet, Unique(c.sends), c.id \in IdsOf(c.sends),
         NEW s \in SUBSET RowSet, Unique(s), c.handler.op = "add" \/ c.id \in IdsOf(s)
  PROVE  IF Wanted(c) = "gone" THEN c.id \notin IdsOf(Effect(c, s))
         ELSE \E r \in Effect(c, s) : r.id = c.id /\ r.mark = Wanted(c)
<1>1. c.handler.op \in {"add", "mark", "remove"} /\ c.sends \in SUBSET RowSet
  BY CallHandler
<1>2. PICK q \in c.sends : q.id = c.id
  BY DEF IdsOf
<1>3. q.mark # "gone"
  BY <1>1, <1>2 DEF RowSet, Marks
<1>4. CASE c.handler.op = "remove"
  BY <1>4 DEF Wanted, Effect, IdsOf
<1>5. CASE c.handler.op = "add"
  <2>1. q \in Effect(c, s)
    BY <1>2, <1>5 DEF Effect
  <2>2. Wanted(c) = q.mark
    BY <1>2, <1>5, WantedSent
  <2> QED BY <1>2, <1>3, <2>1, <2>2
<1>6. CASE c.handler.op = "mark"
  <2>1. PICK r \in s : r.id = c.id
    BY <1>6 DEF IdsOf
  <2>2. [r EXCEPT !.mark = q.mark] \in Effect(c, s)
    BY <1>1, <1>2, <1>6, <2>1, EffectMark
  <2>3. [r EXCEPT !.mark = q.mark].id = c.id /\ [r EXCEPT !.mark = q.mark].mark = q.mark
    BY <2>1 DEF RowSet
  <2>4. Wanted(c) = q.mark
    BY <1>2, <1>6, WantedSent
  <2> QED BY <1>3, <2>2, <2>3, <2>4
<1> QED BY <1>1, <1>4, <1>5, <1>6

\* Rows keep an id of their own, and no other ids come in than a new row's.
LEMMA EffectIds ==
  ASSUME TypeOK, NEW c \in CallSet, Unique(c.sends), c.id \in IdsOf(c.sends),
         ~c.handler.whole => IdsOf(c.sends) = {c.id},
         NEW s \in SUBSET RowSet, Unique(s), c.handler.op = "add" => c.id \notin IdsOf(s)
  PROVE  /\ Unique(Effect(c, s))
         /\ IdsOf(Effect(c, s)) \subseteq IdsOf(s) \cup (IF c.handler.op = "add" THEN {c.id} ELSE {})
<1>1. /\ c.handler.op \in {"add", "mark", "remove"} /\ c.sends \in SUBSET RowSet
      /\ c.handler.op # "mark" => IdsOf(c.sends) = {c.id}
  BY CallHandler
<1>2. CASE c.handler.op = "add"
  BY <1>1, <1>2 DEF Effect, IdsOf, Unique
<1>3. CASE c.handler.op = "remove"
  BY <1>1, <1>3 DEF Effect, IdsOf, Unique
<1>4. CASE c.handler.op = "mark"
  BY <1>1, <1>4, EffectMark
<1> QED BY <1>1, <1>2, <1>3, <1>4

\* The steps, with a click on a row and the sending of a form as one.
Step ==
  \/ \E g \in gets : ServeLoad(g) \/ ShowLoad(g) \/ LoadFails(g)
  \/ \E v \in 1..MaxRows : Turn(v)
  \/ \E h \in screen.handlers : \E c : Clicks(h, c)
  \/ \E c \in calls : Store(c) \/ Refuse(c) \/ Succeed(c) \/ Fail(c) \/ LoseAnswer(c) \/ SecondFails(c)

LEMMA NextStep ==
  ASSUME TypeOK, RowsSane, Next
  PROVE  Step
BY ClickRowClicks, SubmitClicks DEF Next, Step

-----------------------------------------------------------------------------
(* The inductive invariant, conjunct by conjunct.                              *)

LEMMA InitIInv ==
  ASSUME Init
  PROVE  IInv
<1> DEFINE load == [n |-> 1, view |-> 1, served |-> FALSE, answer |-> {}, behind |-> FALSE]
<1>1. ProperScreen(screen) /\ gets = {load} /\ calls = {} /\ shown = {} /\ strays = {}
  BY ScreensProper DEF Init
<1>2. NoForm \in Form /\ Row(1, "off", NoForm) \in RowSet /\ Row(2, "off", NoForm) \in RowSet
  BY DEF NoForm, Form, RowSet, Row, Ids, Marks
<1>3. TypeOK
  <2>1. load \in LoadSet
    BY DEF LoadSet
  <2>2. forms \in [Adders -> Nat]
    BY DEF Init, Adders
  <2> QED BY <1>1, <1>2, <2>1, <2>2 DEF Init, TypeOK
<1>4. RowsSane
  BY <1>1 DEF Init, RowsSane, Unique, Row
<1>5. NewRowsSane
  BY <1>1 DEF Init, NewRowsSane, Known, Pending, IdsOf, Row
<1>6. LoadsSane /\ LateAnswersDropped
  BY <1>1 DEF Init, LoadsSane, LateAnswersDropped
<1>7. SendsSane /\ BehindSane /\ OneCallPerRow /\ WholeSane /\ StoredIsKept /\ RestoreSane
  BY <1>1 DEF SendsSane, BehindSane, OneCallPerRow, WholeSane, StoredIsKept, RestoreSane
<1>8. UpToDate
  BY <1>1 DEF Init, UpToDate, OnItsWay
<1>9. FormsSane /\ FormStoredOnce
  <2>1. NoForm.handler = {} /\ Row(1, "off", NoForm).form = NoForm /\ Row(2, "off", NoForm).form = NoForm
    BY DEF Row, NoForm
  <2>2. \A r \in rows : r.form = NoForm /\ r.form.handler = {}
    BY <2>1 DEF Init
  <2> QED BY <1>1, <2>2 DEF FormsSane, GuardHolds, FormsSent, FormsNamed, FormsCleared, FormStoredOnce
<1>10. AskedIsKept
  BY <1>1 DEF Init, AskedIsKept
<1> QED BY <1>3, <1>4, <1>5, <1>6, <1>7, <1>8, <1>9, <1>10 DEF IInv

LEMMA NextTypeOK ==
  ASSUME TypeOK, RowsSane, SendsSane, Step
  PROVE  TypeOK'
<1> DEFINE Same == /\ ProperScreen(screen)' /\ LoadSet' = LoadSet /\ CallSet' = CallSet /\ Adders' = Adders
                   /\ RowSet' = RowSet
<1>1. screen' = screen => Same
  BY DEF TypeOK, ProperScreen, LoadSet, CallSet, Adders
<1>2. ASSUME NEW g \in gets, ServeLoad(g)
      PROVE  TypeOK'
  <2>1. g \in LoadSet /\ (\E c \in calls : c.state = "sent" /\ c.handler.shows = "before") \in BOOLEAN
    BY DEF TypeOK
  <2>2. [g EXCEPT !.served = TRUE, !.answer = rows,
           !.behind = \E c \in calls : c.state = "sent" /\ c.handler.shows = "before"] \in LoadSet
    BY <2>1 DEF TypeOK, LoadSet
  <2>3. gets' \in SUBSET LoadSet
    BY <1>2, <2>2 DEF ServeLoad, TypeOK
  <2> QED BY <1>1, <1>2, <2>3 DEF ServeLoad, TypeOK
<1>3. ASSUME NEW g \in gets, ShowLoad(g)
      PROVE  TypeOK'
  <2>1. g \in LoadSet /\ g.n \in Nat /\ g.answer \in SUBSET RowSet
    BY DEF TypeOK, LoadSet
  <2>2. shown' \in SUBSET RowSet
    BY <1>3, <2>1, ViewPart DEF ShowLoad, TypeOK
  <2>3. latest' \in Nat /\ strays' \in SUBSET Strays /\ loading' \in BOOLEAN /\ gets' \in SUBSET LoadSet
    BY <1>3, <2>1 DEF ShowLoad, TypeOK, Strays
  <2> QED BY <1>1, <1>3, <2>2, <2>3 DEF ShowLoad, TypeOK
<1>4. ASSUME NEW g \in gets, LoadFails(g)
      PROVE  TypeOK'
  <2>1. spent' \in [{"clicks", "turns", "faults"} -> Nat]
    BY <1>4, SpendTyped DEF LoadFails
  <2> QED BY <1>1, <1>4, <2>1 DEF LoadFails, TypeOK, Strays
<1>5. ASSUME NEW v \in 1..MaxRows, NEW s \in SUBSET LoadSet, screen' = screen, BeginLoad(v, s)
      PROVE  gets' \in SUBSET LoadSet /\ issued' \in Nat /\ loading' \in BOOLEAN
  <2>1. Load(v) \in LoadSet
    BY DEF Load, LoadSet, TypeOK
  <2> QED BY <1>5, <2>1 DEF BeginLoad, TypeOK
<1>6. ASSUME NEW v \in 1..MaxRows, Turn(v)
      PROVE  TypeOK'
  <2>1. spent' \in [{"clicks", "turns", "faults"} -> Nat]
    BY <1>6, SpendTyped DEF Turn
  <2>2. gets' \in SUBSET LoadSet /\ issued' \in Nat /\ loading' \in BOOLEAN
    BY <1>5, <1>6 DEF Turn, KeptLoads, TypeOK
  <2> QED BY <1>1, <1>6, <2>1, <2>2 DEF Turn, TypeOK
<1>7. ASSUME NEW h \in screen.handlers, NEW c, Clicks(h, c)
      PROVE  TypeOK'
  <2>1. c \in CallSet /\ c.handler = h /\ Unique(c.sends) /\ calls' \in SUBSET CallSet
    BY <1>7 DEF Clicks, TypeOK
  <2>2. shown' \in SUBSET RowSet
    BY <1>7, <2>1, EffectTyped DEF Clicks, TypeOK, RowsSane
  <2>3. gets' \in SUBSET LoadSet
    BY <1>7, LoadsGoOn DEF Clicks
  <2>4. strays' \in SUBSET Strays
    BY <1>7 DEF Clicks, TypeOK, Strays
  <2> QED BY <1>1, <1>7, <2>1, <2>2, <2>3, <2>4 DEF Clicks, TypeOK
<1>8. ASSUME NEW c \in calls, Store(c)
      PROVE  TypeOK'
  <2>1. c \in CallSet /\ Unique(c.sends)
    BY DEF TypeOK, SendsSane
  <2>2. calls' \in SUBSET CallSet
    BY <1>8, MovedCalls DEF Store, Moves
  <2>3. rows' \in SUBSET RowSet
    BY <1>8, <2>1, EffectTyped DEF Store, TypeOK, RowsSane
  <2>4. gets' \in SUBSET LoadSet
    BY <1>8, LoadsGoOn DEF Store
  <2> QED BY <1>1, <1>8, <2>2, <2>3, <2>4 DEF Store, TypeOK
<1>9. ASSUME NEW c \in calls, Refuse(c)
      PROVE  TypeOK'
  <2>1. calls' \in SUBSET CallSet
    BY <1>9, MovedCalls DEF Refuse, Moves
  <2> QED BY <1>1, <1>9, <2>1 DEF Refuse, TypeOK
<1>10. ASSUME NEW c \in calls, Succeed(c)
      PROVE  TypeOK'
  <2>1. c \in CallSet /\ Unique(c.sends) /\ c.id \in Ids /\ c.id \in IdsOf(c.sends)
    BY DEF TypeOK, SendsSane, CallSet
  <2>2. Wanted(c) \in {"gone"} \cup Marks
    <3>1. PICK q \in c.sends : q.id = c.id
      BY <2>1 DEF IdsOf
    <3>2. q.mark \in Marks
      BY <2>1, <3>1, CallHandler DEF RowSet
    <3> QED BY <2>1, <3>1, <3>2, WantedSent DEF Wanted
  <2>3. asked' \in [Ids -> {"nothing", "gone"} \cup Marks]
    BY <1>10, <2>1, <2>2 DEF Succeed, TypeOK
  <2>4. forms' \in [Adders -> Nat]
    <3>1. CASE c.handler.op = "add"
      <4>1. c.handler \in Adders /\ forms' = [forms EXCEPT ![c.handler] = @ + 1]
        BY <1>10, <2>1, <3>1, CallHandler DEF Succeed, Adders
      <4> QED BY <4>1 DEF TypeOK
    <3>2. CASE c.handler.op # "add"
      BY <1>10, <3>2 DEF Succeed, TypeOK
    <3> QED BY <3>1, <3>2
  <2>5. shown' \in SUBSET RowSet
    BY <1>10, <2>1, EffectTyped DEF Succeed, TypeOK, RowsSane
  <2>6. screen' = screen /\ c.view \in 1..MaxRows
    BY <1>10, <2>1 DEF Succeed, CallSet
  <2>7. gets' \in SUBSET LoadSet /\ issued' \in Nat /\ loading' \in BOOLEAN
    <3>1. CASE c.handler.shows = "by loading"
      BY <1>5, <1>10, <2>6, <3>1 DEF Succeed, TypeOK
    <3>2. CASE c.handler.shows # "by loading"
      BY <1>10, <3>2 DEF Succeed, TypeOK
    <3> QED BY <3>1, <3>2
  <2> QED BY <1>1, <1>10, <2>3, <2>4, <2>5, <2>7 DEF Succeed, TypeOK
<1>11. ASSUME NEW c \in calls, NEW why \in SUBSET Strays, Caught(c, why),
              spent' \in [{"clicks", "turns", "faults"} -> Nat]
      PROVE  TypeOK'
  <2>1. shown' \in SUBSET RowSet
    BY <1>11 DEF Caught, TypeOK, CallSet
  <2>2. strays' \in SUBSET Strays
    BY <1>11 DEF Caught, TypeOK, Strays
  <2> QED BY <1>1, <1>11, <2>1, <2>2 DEF Caught, TypeOK
<1>12. ASSUME NEW c \in calls, Fail(c) \/ LoseAnswer(c) \/ SecondFails(c)
      PROVE  TypeOK'
  <2>1. CASE Fail(c)
    BY <1>11, <2>1 DEF Fail, TypeOK
  <2>2. CASE LoseAnswer(c)
    BY <1>11, <2>2, SpendTyped DEF LoseAnswer, Strays
  <2>3. CASE SecondFails(c)
    BY <1>11, <2>3, SpendTyped DEF SecondFails, Strays
  <2> QED BY <1>12, <2>1, <2>2, <2>3
<1> QED BY <1>2, <1>3, <1>4, <1>6, <1>7, <1>8, <1>9, <1>10, <1>12 DEF Step

LEMMA NextRowsSane ==
  ASSUME TypeOK, RowsSane, NewRowsSane, SendsSane, Step
  PROVE  RowsSane'
<1>1. ASSUME NEW g \in gets, ServeLoad(g)
      PROVE  RowsSane'
  <2>1. \A f \in gets' : f \in gets \/ f.answer = rows
    BY <1>1 DEF ServeLoad, TypeOK, LoadSet
  <2> QED BY <1>1, <2>1 DEF ServeLoad, RowsSane, Unique
<1>2. ASSUME NEW g \in gets, ShowLoad(g)
      PROVE  RowsSane'
  <2>1. shown' \subseteq g.answer
    BY <1>2, ViewPart DEF ShowLoad, TypeOK
  <2>2. Unique(g.answer)
    BY DEF RowsSane
  <2> QED BY <1>2, <2>1, <2>2 DEF ShowLoad, RowsSane, Unique
<1>3. ASSUME NEW g \in gets, LoadFails(g)
      PROVE  RowsSane'
  BY <1>3 DEF LoadFails, RowsSane, Unique
<1>4. ASSUME NEW v, NEW s \in SUBSET gets, BeginLoad(v, s)
      PROVE  \A g \in gets' : Unique(g.answer)
  BY <1>4 DEF BeginLoad, Load, RowsSane, Unique
<1>5. ASSUME NEW v \in 1..MaxRows, Turn(v)
      PROVE  RowsSane'
  <2>1. \A g \in gets' : Unique(g.answer)
    BY <1>4, <1>5 DEF Turn, KeptLoads
  <2> QED BY <1>5, <2>1 DEF Turn, RowsSane, Unique
<1>6. ASSUME NEW c, gets' = gets \/ gets' = Behind(c, gets)
      PROVE  \A g \in gets' : Unique(g.answer)
  <2>1. \A f \in gets' : \E g \in gets : f.answer = g.answer
    BY <1>6, LoadsGoOn DEF SameLoad
  <2> QED BY <2>1 DEF RowsSane
<1>7. ASSUME NEW h \in screen.handlers, NEW c, Clicks(h, c)
      PROVE  RowsSane'
  <2>1. c \in CallSet /\ Unique(c.sends) /\ c.shown = shown
    BY <1>7 DEF Clicks
  <2>2. Unique(shown')
    <3>1. CASE h.shows = "before"
      <4>1. c.handler.op = "mark" /\ c.sends \in SUBSET RowSet
        BY <1>7, <2>1, <3>1, CallHandler DEF Clicks
      <4> QED BY <1>7, <2>1, <3>1, <4>1, EffectMark DEF Clicks, RowsSane, TypeOK
    <3> QED BY <1>7, <3>1 DEF Clicks, RowsSane
  <2>3. \A g \in gets' : Unique(g.answer)
    BY <1>6, <1>7 DEF Clicks
  <2>4. \A d \in calls' : Unique(d.shown)
    BY <1>7, <2>1 DEF Clicks, RowsSane
  <2>5. rows' = rows
    BY <1>7 DEF Clicks
  <2> QED BY <2>2, <2>3, <2>4, <2>5 DEF RowsSane, Unique
<1>8. ASSUME NEW c \in calls, Store(c)
      PROVE  RowsSane'
  <2>1. c \in CallSet /\ Unique(c.sends) /\ c.id \in IdsOf(c.sends) /\ (~c.handler.whole => IdsOf(c.sends) = {c.id})
    BY DEF TypeOK, SendsSane
  <2>2. c.handler.op = "add" => c.id \notin IdsOf(rows)
    BY <1>8 DEF Store, NewRowsSane, Pending, Known
  <2>3. Unique(rows')
    BY <1>8, <2>1, <2>2, EffectIds DEF Store, RowsSane, TypeOK
  <2>4. \A g \in gets' : Unique(g.answer)
    BY <1>6, <1>8 DEF Store
  <2>5. \A d \in calls' : Unique(d.shown)
    BY <1>8, MovedCalls DEF Store, Moves, SameCall, RowsSane
  <2> QED BY <1>8, <2>3, <2>4, <2>5 DEF Store, RowsSane, Unique
<1>9. ASSUME NEW c \in calls, Refuse(c)
      PROVE  RowsSane'
  <2>1. \A d \in calls' : Unique(d.shown)
    BY <1>9, MovedCalls DEF Refuse, Moves, SameCall, RowsSane
  <2> QED BY <1>9, <2>1 DEF Refuse, RowsSane, Unique
<1>10. ASSUME NEW c \in calls, Succeed(c)
      PROVE  RowsSane'
  <2>1. Unique(shown')
    <3>1. CASE c.handler.shows = "after"
      <4>1. c.handler.op = "mark" /\ c.sends \in SUBSET RowSet /\ Unique(c.sends)
        BY <3>1, CallHandler DEF TypeOK, SendsSane
      <4> QED BY <1>10, <3>1, <4>1, EffectMark DEF Succeed, RowsSane, TypeOK
    <3> QED BY <1>10, <3>1 DEF Succeed, RowsSane
  <2>2. \A g \in gets' : Unique(g.answer)
    <3>1. CASE c.handler.shows = "by loading"
      BY <1>4, <1>10, <3>1 DEF Succeed
    <3> QED BY <1>10, <3>1 DEF Succeed, RowsSane
  <2> QED BY <1>10, <2>1, <2>2 DEF Succeed, RowsSane, Unique
<1>11. ASSUME NEW c \in calls, NEW why, Caught(c, why)
      PROVE  RowsSane'
  BY <1>11 DEF Caught, RowsSane, Unique
<1> QED BY <1>1, <1>2, <1>3, <1>5, <1>7, <1>8, <1>9, <1>10, <1>11 DEF Step, Fail, LoseAnswer, SecondFails

LEMMA NextSendsSane ==
  ASSUME TypeOK, SendsSane, Step
  PROVE  SendsSane'
<1>1. ASSUME NEW c \in calls, NEW st \in {"stored", "refused"},
             Moves(c, st)
      PROVE  SendsSane'
  <2>1. \A d \in calls' : \E e \in calls : d.sends = e.sends /\ d.id = e.id /\ d.handler = e.handler
    BY <1>1, MovedCalls DEF SameCall
  <2> QED BY <2>1 DEF SendsSane
<1>2. ASSUME calls' \subseteq calls
      PROVE  SendsSane'
  BY <1>2 DEF SendsSane
<1>3. ASSUME NEW h \in screen.handlers, NEW c, Clicks(h, c)
      PROVE  SendsSane'
  BY <1>3 DEF Clicks, SendsSane
<1>4. ASSUME NEW c \in calls, Store(c) \/ Refuse(c)
      PROVE  SendsSane'
  BY <1>1, <1>4 DEF Store, Refuse, Moves
<1>5. ASSUME NEW c \in calls, Succeed(c) \/ Fail(c) \/ LoseAnswer(c) \/ SecondFails(c)
      PROVE  SendsSane'
  BY <1>2, <1>5 DEF Succeed, Fail, LoseAnswer, SecondFails, Caught
<1>6. ASSUME NEW g \in gets, ServeLoad(g) \/ ShowLoad(g) \/ LoadFails(g)
      PROVE  SendsSane'
  BY <1>2, <1>6 DEF ServeLoad, ShowLoad, LoadFails
<1>7. ASSUME NEW v \in 1..MaxRows, Turn(v)
      PROVE  SendsSane'
  BY <1>2, <1>7 DEF Turn
<1> QED BY <1>3, <1>4, <1>5, <1>6, <1>7 DEF Step

LEMMA NextNewRowsSane ==
  ASSUME TypeOK, RowsSane, NewRowsSane, SendsSane, Step
  PROVE  NewRowsSane'
\* Nothing new is known, and no call is new.
<1>1. ASSUME made' = made, \A i \in Ids : Known(i)' => Known(i),
             \A d \in calls' : \E e \in calls : d.handler = e.handler /\ d.id = e.id /\
                                                (d.state = "sent" => e.state = "sent"),
             \A d, e \in calls' : d.handler.op = "add" /\ e.handler.op = "add" /\ d.id = e.id => d = e
      PROVE  NewRowsSane'
  <2>1. \A d \in calls' : d.id <= made
    BY <1>1 DEF NewRowsSane
  <2>2. \A d \in Pending' : ~Known(d.id)'
    <3>1. ASSUME NEW d \in Pending' PROVE ~Known(d.id)'
      <4>1. PICK e \in calls : d.handler = e.handler /\ d.id = e.id /\ (d.state = "sent" => e.state = "sent")
        BY <1>1 DEF Pending
      <4>2. e \in Pending /\ e.id \in Ids
        BY <4>1 DEF Pending, TypeOK, CallSet
      <4> QED BY <1>1, <4>1, <4>2 DEF NewRowsSane
    <3> QED BY <3>1
  <2> QED BY <1>1, <2>1, <2>2 DEF NewRowsSane
<1>2. ASSUME calls' \subseteq calls
      PROVE  /\ \A d \in calls' : \E e \in calls : d.handler = e.handler /\ d.id = e.id /\
                                                   (d.state = "sent" => e.state = "sent")
             /\ \A d, e \in calls' : d.handler.op = "add" /\ e.handler.op = "add" /\ d.id = e.id => d = e
  BY <1>2 DEF NewRowsSane
<1>3. ASSUME NEW g \in gets, ServeLoad(g)
      PROVE  NewRowsSane'
  <2>1. \A f \in gets' : f \in gets \/ f.answer = rows
    BY <1>3 DEF ServeLoad, TypeOK, LoadSet
  <2>2. \A i \in Ids : Known(i)' => Known(i)
    BY <1>3, <2>1 DEF ServeLoad, Known
  <2> QED BY <1>1, <1>2, <1>3, <2>2 DEF ServeLoad
<1>4. ASSUME NEW g \in gets, ShowLoad(g) \/ LoadFails(g)
      PROVE  NewRowsSane'
  <2>1. IdsOf(shown') \subseteq IdsOf(shown) \cup IdsOf(g.answer)
    BY <1>4, ViewPart DEF ShowLoad, LoadFails, TypeOK, IdsOf
  <2>2. \A i \in Ids : Known(i)' => Known(i)
    BY <1>4, <2>1 DEF ShowLoad, LoadFails, Known
  <2> QED BY <1>1, <1>2, <1>4, <2>2 DEF ShowLoad, LoadFails
<1>5. ASSUME NEW v, NEW s \in SUBSET gets, BeginLoad(v, s)
      PROVE  \A i : (\E g \in gets' : i \in IdsOf(g.answer)) => \E g \in gets : i \in IdsOf(g.answer)
  BY <1>5 DEF BeginLoad, Load, IdsOf
<1>6. ASSUME NEW v \in 1..MaxRows, Turn(v)
      PROVE  NewRowsSane'
  <2>1. \A i \in Ids : Known(i)' => Known(i)
    <3>1. \A i : (\E g \in gets' : i \in IdsOf(g.answer)) => \E g \in gets : i \in IdsOf(g.answer)
      BY <1>5, <1>6 DEF Turn, KeptLoads
    <3> QED BY <1>6, <3>1 DEF Turn, Known
  <2> QED BY <1>1, <1>2, <1>6, <2>1 DEF Turn
<1>7. ASSUME NEW c, gets' = gets \/ gets' = Behind(c, gets)
      PROVE  \A i : (\E g \in gets' : i \in IdsOf(g.answer)) => \E g \in gets : i \in IdsOf(g.answer)
  BY <1>7, LoadsGoOn DEF SameLoad
<1>8. ASSUME NEW h \in screen.handlers, NEW c, Clicks(h, c)
      PROVE  NewRowsSane'
  <2>1. /\ c \in CallSet /\ c.handler = h /\ Unique(c.sends) /\ c.shown = shown /\ c.id \in Ids
        /\ c.sends \in SUBSET RowSet /\ c.state = "sent" /\ calls' = calls \cup {c}
    BY <1>8, CallHandler DEF Clicks, CallSet
  <2>2. IdsOf(shown') = IdsOf(shown)
    <3>1. CASE h.shows = "before"
      <4>1. shown \in SUBSET RowSet /\ Unique(shown) /\ shown' = Effect(c, shown)
        BY <1>8, <3>1 DEF Clicks, TypeOK, RowsSane
      <4> QED BY <2>1, <3>1, <4>1, EffectInPlace
    <3> QED BY <1>8, <3>1 DEF Clicks
  <2>3. \A i \in Ids : Known(i)' => Known(i)
    BY <1>7, <1>8, <2>1, <2>2 DEF Clicks, Known
  <2>4. c.id <= made' /\ made <= made' /\ made \in Nat /\ made' \in Nat /\ (h.op = "add" => c.id > made)
    <3>1. made \in Nat
      BY DEF TypeOK
    <3>2. CASE h.op = "add"
      <4>1. made' = made + 1 /\ c.id = made'
        BY <1>8, <3>2 DEF Clicks
      <4> QED BY <3>1, <4>1
    <3>3. CASE h.op # "add"
      <4>1. made' = made /\ \E r \in shown : c.id = r.id
        BY <1>8, <3>3 DEF Clicks
      <4>2. Known(c.id)
        BY <4>1 DEF Known, IdsOf
      <4>3. c.id <= made
        BY <2>1, <4>2 DEF NewRowsSane
      <4> QED BY <3>1, <3>3, <4>1, <4>3
    <3> QED BY <3>2, <3>3
  <2>5. \A i \in Ids : Known(i)' => i <= made'
    BY <2>3, <2>4 DEF NewRowsSane, Ids
  <2>6. \A d \in calls : d \in CallSet /\ d.id \in Ids /\ d.id \in Nat /\ d.id <= made
    BY DEF NewRowsSane, TypeOK, CallSet, Ids
  <2>7. \A d \in calls' : d.id <= made'
    BY <2>1, <2>4, <2>6
  <2>8. \A d \in Pending' : ~Known(d.id)'
    <3>1. ASSUME NEW d \in Pending', Known(d.id)' PROVE FALSE
      <4>1. CASE d = c
        BY <2>1, <2>3, <2>4, <3>1, <4>1 DEF Pending, NewRowsSane, Ids
      <4>2. CASE d # c
        <5>1. d \in Pending
          BY <2>1, <4>2 DEF Pending
        <5> QED BY <2>3, <2>6, <3>1, <5>1 DEF NewRowsSane, Pending
      <4> QED BY <4>1, <4>2
    <3> QED BY <3>1
  <2>9. \A d, e \in calls' : d.handler.op = "add" /\ e.handler.op = "add" /\ d.id = e.id => d = e
    BY <2>1, <2>4, <2>6 DEF NewRowsSane, Ids
  <2> QED BY <2>5, <2>7, <2>8, <2>9 DEF NewRowsSane
<1>9. ASSUME NEW c \in calls, Store(c)
      PROVE  NewRowsSane'
  <2>1. /\ c \in CallSet /\ Unique(c.sends) /\ c.id \in IdsOf(c.sends) /\ c.id \in Ids /\ c.id <= made
        /\ ~c.handler.whole => IdsOf(c.sends) = {c.id}
        /\ c.state = "sent"
    BY <1>9 DEF TypeOK, SendsSane, CallSet, NewRowsSane, Store
  <2>2. c.handler.op = "add" => c.id \notin IdsOf(rows)
    BY <2>1 DEF NewRowsSane, Pending, Known
  <2>3. IdsOf(rows') \subseteq IdsOf(rows) \cup (IF c.handler.op = "add" THEN {c.id} ELSE {})
    BY <1>9, <2>1, <2>2, EffectIds DEF Store, RowsSane, TypeOK
  <2>4. /\ \A d \in calls' : (d \in calls /\ d # c) \/ (d.state = "stored" /\ SameCall(d, c))
        /\ \A d, e \in calls' : d.state = "stored" /\ SameCall(d, c) /\ e.state = "stored" /\ SameCall(e, c) => d = e
    BY <1>9, MovedCalls DEF Store, Moves
  <2>5. \A i \in Ids : Known(i)' => Known(i) \/ (c.handler.op = "add" /\ i = c.id)
    <3>1. \A i : (\E d \in calls' : i \in IdsOf(d.shown)) => \E d \in calls : i \in IdsOf(d.shown)
      BY <2>4 DEF SameCall
    <3> QED BY <1>7, <1>9, <2>3, <3>1 DEF Store, Known
  <2>6. \A d \in calls' : d.id <= made
    BY <2>1, <2>4 DEF NewRowsSane, SameCall
  <2>7. \A d \in Pending' : ~Known(d.id)'
    <3>1. ASSUME NEW d \in Pending' PROVE ~Known(d.id)'
      <4>1. d \in Pending /\ d # c
        BY <2>4 DEF Pending
      <4>2. d.id \in Ids /\ ~Known(d.id)
        BY <4>1 DEF Pending, TypeOK, CallSet, NewRowsSane
      <4>3. c.handler.op = "add" => d.id # c.id
        BY <4>1 DEF Pending, NewRowsSane
      <4> QED BY <2>5, <4>2, <4>3
    <3> QED BY <3>1
  <2>8. \A d, e \in calls' : d.handler.op = "add" /\ e.handler.op = "add" /\ d.id = e.id => d = e
    BY <2>4 DEF NewRowsSane, SameCall
  <2> QED BY <1>9, <2>1, <2>5, <2>6, <2>7, <2>8 DEF NewRowsSane, Store
<1>10. ASSUME NEW c \in calls, Refuse(c)
      PROVE  NewRowsSane'
  <2>1. /\ \A d \in calls' : (d \in calls /\ d # c) \/ (d.state = "refused" /\ SameCall(d, c))
        /\ \A d, e \in calls' : d.state = "refused" /\ SameCall(d, c) /\ e.state = "refused" /\ SameCall(e, c) => d = e
    BY <1>10, MovedCalls DEF Refuse, Moves
  <2>2. \A i \in Ids : Known(i)' => Known(i)
    BY <1>10, <2>1 DEF Refuse, Known, SameCall
  <2>3. \A d, e \in calls' : d.handler.op = "add" /\ e.handler.op = "add" /\ d.id = e.id => d = e
    BY <2>1 DEF NewRowsSane, SameCall
  <2>4. \A d \in calls' : \E e \in calls : d.handler = e.handler /\ d.id = e.id /\
                                            (d.state = "sent" => e.state = "sent")
    BY <2>1 DEF SameCall
  <2> QED BY <1>1, <1>10, <2>2, <2>3, <2>4 DEF Refuse
<1>11. ASSUME NEW c \in calls, Succeed(c)
      PROVE  NewRowsSane'
  <2>1. IdsOf(shown') = IdsOf(shown)
    <3>1. CASE c.handler.shows = "after"
      <4>1. /\ shown \in SUBSET RowSet /\ Unique(shown) /\ shown' = Effect(c, shown)
            /\ c \in CallSet /\ Unique(c.sends)
        BY <1>11, <3>1 DEF Succeed, TypeOK, RowsSane, SendsSane
      <4> QED BY <3>1, <4>1, EffectInPlace
    <3> QED BY <1>11, <3>1 DEF Succeed
  <2>2. \A i : (\E g \in gets' : i \in IdsOf(g.answer)) => \E g \in gets : i \in IdsOf(g.answer)
    BY <1>5, <1>11 DEF Succeed
  <2>3. \A i \in Ids : Known(i)' => Known(i)
    BY <1>11, <2>1, <2>2 DEF Succeed, Known
  <2> QED BY <1>1, <1>2, <1>11, <2>3 DEF Succeed
<1>12. ASSUME NEW c \in calls, NEW why, Caught(c, why)
      PROVE  NewRowsSane'
  <2>1. \A i \in Ids : Known(i)' => Known(i)
    BY <1>12 DEF Caught, Known
  <2> QED BY <1>1, <1>2, <1>12, <2>1 DEF Caught
<1> QED BY <1>3, <1>4, <1>6, <1>8, <1>9, <1>10, <1>11, <1>12 DEF Step, Fail, LoseAnswer, SecondFails

LEMMA NextLoadsSane ==
  ASSUME TypeOK, LoadsSane, LateAnswersDropped, Step
  PROVE  LoadsSane' /\ LateAnswersDropped'
<1>1. \A g \in gets : g \in LoadSet /\ g.n \in Nat
  BY DEF TypeOK, LoadSet
<1>2. screen' = screen
  BY DEF Step, ServeLoad, ShowLoad, LoadFails, Turn, Clicks, Store, Refuse, Succeed, Fail, LoseAnswer,
         SecondFails, Caught
<1>3. screen.drops => calls = {} /\ screen.handlers = {}
  BY DEF TypeOK, ProperScreen, CallSet
\* The same loads, or fewer.
<1>4. ASSUME UNCHANGED <<latest, issued, view>>, \A f \in gets' : \E g \in gets : f.n = g.n /\ f.view = g.view,
             \A f, k \in gets' : f.n = k.n => f = k
      PROVE  LoadsSane'
  BY <1>2, <1>4 DEF LoadsSane
<1>5. ASSUME NEW g \in gets, ServeLoad(g)
      PROVE  LoadsSane' /\ LateAnswersDropped'
  <2> DEFINE f == [g EXCEPT !.served = TRUE, !.answer = rows,
                     !.behind = \E c \in calls : c.state = "sent" /\ c.handler.shows = "before"]
  <2>1. f.n = g.n /\ f.view = g.view
    BY <1>1 DEF LoadSet
  <2>2. gets' = (gets \ {g}) \cup {f}
    BY <1>5 DEF ServeLoad
  <2> HIDE DEF f
  <2>3. \A k, l \in gets' : k.n = l.n => k = l
    BY <2>1, <2>2 DEF LoadsSane
  <2>4. LoadsSane'
    BY <1>4, <1>5, <2>1, <2>2, <2>3 DEF ServeLoad
  <2> QED BY <1>5, <2>4 DEF ServeLoad, LateAnswersDropped
<1>6. ASSUME NEW g \in gets, ShowLoad(g)
      PROVE  LoadsSane' /\ LateAnswersDropped'
  <2>1. LoadsSane'
    <3>1. /\ gets' = gets \ {g} /\ latest' = (IF g.n > latest THEN g.n ELSE latest)
          /\ issued' = issued /\ view' = view /\ g.n \in Nat /\ latest \in Nat /\ issued \in Nat
      BY <1>1, <1>6 DEF ShowLoad, TypeOK
    <3>2. latest' <= issued
      BY <3>1 DEF LoadsSane
    <3>3. \A k \in gets' : k.n <= issued /\ k.n # latest'
      BY <3>1 DEF LoadsSane
    <3> QED BY <1>2, <3>1, <3>2, <3>3 DEF LoadsSane
  <2>2. screen.drops => g.n = issued /\ g.view = view /\ ~(g.n < latest)
    BY <1>1 DEF LoadsSane, TypeOK
  <2>3. LateAnswersDropped'
    BY <1>2, <1>6, <2>2 DEF ShowLoad, LateAnswersDropped
  <2> QED BY <2>1, <2>3
<1>7. ASSUME NEW g \in gets, LoadFails(g)
      PROVE  LoadsSane' /\ LateAnswersDropped'
  BY <1>7 DEF LoadFails, LoadsSane, LateAnswersDropped
<1>8. ASSUME NEW v \in 1..MaxRows, Turn(v)
      PROVE  LoadsSane' /\ LateAnswersDropped'
  <2>1. /\ Load(v).n = issued + 1 /\ Load(v).view = v
        /\ gets' = KeptLoads \cup {Load(v)} /\ issued' = issued + 1 /\ view' = v /\ latest' = latest
    BY <1>8 DEF Turn, BeginLoad, Load
  <2>2. LoadsSane'
    <3>1. issued \in Nat /\ latest \in Nat /\ \A k \in KeptLoads : k \in gets /\ ~screen.drops
      BY DEF TypeOK, KeptLoads
    <3>2. \A k \in gets' : k = Load(v) \/ (k \in gets /\ ~screen.drops)
      BY <2>1, <3>1
    <3>3. latest' <= issued'
      BY <2>1, <3>1 DEF LoadsSane
    <3>4. \A k \in gets' : k.n <= issued' /\ k.n # latest'
      BY <1>1, <2>1, <3>1, <3>2 DEF LoadsSane
    <3>5. \A k, l \in gets' : k.n = l.n => k = l
      BY <1>1, <2>1, <3>1, <3>2 DEF LoadsSane
    <3>6. screen.drops => \A k \in gets' : k.n = issued' /\ k.view = view'
      BY <2>1, <3>2
    <3> QED BY <1>2, <3>3, <3>4, <3>5, <3>6 DEF LoadsSane
  <2> QED BY <1>8, <2>2 DEF Turn, LateAnswersDropped
<1>9. ASSUME NEW h \in screen.handlers, NEW c, Clicks(h, c)
      PROVE  LoadsSane' /\ LateAnswersDropped'
  <2>1. LoadsSane'
    <3>1. UNCHANGED <<latest, issued, view>> /\ (gets' = gets \/ gets' = Behind(c, gets))
      BY <1>9 DEF Clicks
    <3>2. \A f \in gets' : \E g \in gets : f.n = g.n /\ f.view = g.view
      BY <3>1, LoadsGoOn DEF SameLoad
    <3>3. \A f, k \in gets' : f.n = k.n => f = k
      BY <3>1, LoadsGoOn DEF LoadsSane
    <3> QED BY <1>4, <3>1, <3>2, <3>3
  <2> QED BY <1>2, <1>3, <1>9, <2>1 DEF LateAnswersDropped
<1>10. ASSUME NEW c \in calls, Store(c)
      PROVE  LoadsSane' /\ LateAnswersDropped'
  <2>1. LoadsSane'
    <3>1. UNCHANGED <<latest, issued, view>> /\ (gets' = gets \/ gets' = Behind(c, gets))
      BY <1>10 DEF Store
    <3>2. \A f \in gets' : \E g \in gets : f.n = g.n /\ f.view = g.view
      BY <3>1, LoadsGoOn DEF SameLoad
    <3>3. \A f, k \in gets' : f.n = k.n => f = k
      BY <3>1, LoadsGoOn DEF LoadsSane
    <3> QED BY <1>4, <3>1, <3>2, <3>3
  <2> QED BY <1>2, <1>3, <1>10, <2>1 DEF LateAnswersDropped
<1>11. ASSUME NEW c \in calls, Refuse(c) \/ Fail(c) \/ LoseAnswer(c) \/ SecondFails(c)
      PROVE  LoadsSane' /\ LateAnswersDropped'
  <2>1. LoadsSane'
    BY <1>4, <1>11 DEF Refuse, Fail, LoseAnswer, SecondFails, Caught, LoadsSane
  <2> QED BY <1>2, <1>3, <1>11, <2>1 DEF LateAnswersDropped
<1>12. ASSUME NEW c \in calls, Succeed(c)
      PROVE  LoadsSane' /\ LateAnswersDropped'
  <2>1. CASE c.handler.shows = "by loading"
    <3>1. /\ Load(c.view).n = issued + 1
          /\ gets' = gets \cup {Load(c.view)} /\ issued' = issued + 1 /\ latest' = latest
      BY <1>12, <2>1 DEF Succeed, BeginLoad, Load
    <3>2. LoadsSane'
      <4>1. issued \in Nat /\ latest \in Nat /\ ~screen.drops
        BY <1>3 DEF TypeOK
      <4>2. \A k \in gets' : k.n <= issued' /\ k.n # latest'
        BY <1>1, <3>1, <4>1 DEF LoadsSane
      <4>3. \A k, l \in gets' : k.n = l.n => k = l
        BY <1>1, <3>1, <4>1 DEF LoadsSane
      <4>4. latest' <= issued'
        BY <3>1, <4>1 DEF LoadsSane
      <4> QED BY <1>2, <4>1, <4>2, <4>3, <4>4 DEF LoadsSane
    <3> QED BY <1>2, <1>3, <1>12, <3>2 DEF LateAnswersDropped
  <2>2. CASE c.handler.shows # "by loading"
    BY <1>2, <1>3, <1>12, <2>2 DEF Succeed, LoadsSane, LateAnswersDropped
  <2> QED BY <2>1, <2>2
<1> QED BY <1>5, <1>6, <1>7, <1>8, <1>9, <1>10, <1>11, <1>12 DEF Step

LEMMA NextBehindSane ==
  ASSUME TypeOK, BehindSane, Step
  PROVE  BehindSane'
\* Loads that go on and calls that wait on, or fewer of both.
<1>1. ASSUME \A f \in gets' : ~f.served \/ \E g \in gets : SameLoad(f, g),
             \A d \in calls' : d.state = "sent" => d \in calls
      PROVE  BehindSane'
  BY <1>1 DEF BehindSane, SameLoad
<1>2. \A g \in gets : SameLoad(g, g)
  BY DEF SameLoad
<1>3. ASSUME NEW g \in gets, ServeLoad(g)
      PROVE  BehindSane'
  <2> DEFINE late == \E c \in calls : c.state = "sent" /\ c.handler.shows = "before"
  <2>1. g \in LoadSet /\ late \in BOOLEAN
    BY DEF TypeOK
  <2>2. [g EXCEPT !.served = TRUE, !.answer = rows, !.behind = late].behind = late
    BY <2>1 DEF LoadSet
  <2>3. \A f \in gets' : f \in gets \/ f.behind = late
    BY <1>3, <2>2 DEF ServeLoad
  <2>4. calls' = calls
    BY <1>3 DEF ServeLoad
  <2> QED BY <2>3, <2>4 DEF BehindSane
<1>4. ASSUME NEW g \in gets, ShowLoad(g) \/ LoadFails(g)
      PROVE  BehindSane'
  BY <1>1, <1>2, <1>4 DEF ShowLoad, LoadFails
<1>5. ASSUME NEW v, NEW s \in SUBSET gets, BeginLoad(v, s)
      PROVE  \A f \in gets' : ~f.served \/ \E g \in gets : SameLoad(f, g)
  BY <1>2, <1>5 DEF BeginLoad, Load
<1>6. ASSUME NEW v \in 1..MaxRows, Turn(v)
      PROVE  BehindSane'
  <2>1. \A f \in gets' : ~f.served \/ \E g \in gets : SameLoad(f, g)
    BY <1>5, <1>6 DEF Turn, KeptLoads
  <2> QED BY <1>1, <1>6, <2>1 DEF Turn
<1>7. ASSUME NEW h \in screen.handlers, NEW c, Clicks(h, c)
      PROVE  BehindSane'
  <2>1. c.handler = h /\ calls' = calls \cup {c}
    BY <1>7 DEF Clicks
  <2>2. CASE h.shows = "before"
    <3>1. gets' = Behind(c, gets) /\ gets \in SUBSET LoadSet
      BY <1>7, <2>2 DEF Clicks, TypeOK
    <3>2. \A f \in gets' : f.served => f.behind
      BY <2>1, <2>2, <3>1, BehindLoads DEF SameLoad
    <3> QED BY <3>2 DEF BehindSane
  <2>3. CASE h.shows # "before"
    <3>1. gets' = gets
      BY <1>7, <2>3 DEF Clicks
    <3> QED BY <2>1, <2>3, <3>1 DEF BehindSane
  <2> QED BY <2>2, <2>3
<1>8. ASSUME NEW c \in calls, Store(c)
      PROVE  BehindSane'
  <2>1. \A d \in calls' : (d \in calls /\ d # c) \/ d.state = "stored"
    BY <1>8, MovedCalls DEF Store, Moves
  <2>2. \A f \in gets' : \E g \in gets : SameLoad(f, g)
    BY <1>8, LoadsGoOn DEF Store
  <2> QED BY <1>1, <2>1, <2>2
<1>9. ASSUME NEW c \in calls, Refuse(c)
      PROVE  BehindSane'
  <2>1. \A d \in calls' : (d \in calls /\ d # c) \/ d.state = "refused"
    BY <1>9, MovedCalls DEF Refuse, Moves
  <2> QED BY <1>1, <1>2, <1>9, <2>1 DEF Refuse
<1>10. ASSUME NEW c \in calls, Succeed(c)
      PROVE  BehindSane'
  <2>1. \A f \in gets' : ~f.served \/ \E g \in gets : SameLoad(f, g)
    BY <1>2, <1>5, <1>10 DEF Succeed
  <2> QED BY <1>1, <1>10, <2>1 DEF Succeed
<1>11. ASSUME NEW c \in calls, NEW why, Caught(c, why)
      PROVE  BehindSane'
  BY <1>1, <1>2, <1>11 DEF Caught
<1> QED BY <1>3, <1>4, <1>6, <1>7, <1>8, <1>9, <1>10, <1>11 DEF Step, Fail, LoseAnswer, SecondFails

LEMMA NextOneCallPerRow ==
  ASSUME TypeOK, OneCallPerRow, Step
  PROVE  OneCallPerRow'
<1>1. ASSUME calls' \subseteq calls, strays \subseteq strays'
      PROVE  OneCallPerRow'
  BY <1>1 DEF OneCallPerRow
<1>2. ASSUME NEW c \in calls, NEW st \in {"stored", "refused"}, Moves(c, st), strays' = strays
      PROVE  OneCallPerRow'
  <2>1. /\ \A d \in calls' : (d \in calls /\ d # c) \/ (d.state = st /\ SameCall(d, c))
        /\ \A d, e \in calls' : d.state = st /\ SameCall(d, c) /\ e.state = st /\ SameCall(e, c) => d = e
    BY <1>2, MovedCalls
  <2> QED BY <1>2, <2>1 DEF OneCallPerRow, SameCall
<1>3. ASSUME NEW h \in screen.handlers, NEW c, Clicks(h, c)
      PROVE  OneCallPerRow'
  <2>1. /\ calls' = calls \cup {c} /\ strays \subseteq strays'
        /\ (\E d \in calls : d.id = c.id) => "same row" \in strays'
    BY <1>3 DEF Clicks
  <2> QED BY <2>1 DEF OneCallPerRow
<1>4. ASSUME NEW g \in gets, ServeLoad(g) \/ ShowLoad(g) \/ LoadFails(g)
      PROVE  OneCallPerRow'
  BY <1>1, <1>4 DEF ServeLoad, ShowLoad, LoadFails
<1>5. ASSUME NEW v \in 1..MaxRows, Turn(v)
      PROVE  OneCallPerRow'
  BY <1>1, <1>5 DEF Turn
<1>6. ASSUME NEW c \in calls, Store(c) \/ Refuse(c)
      PROVE  OneCallPerRow'
  BY <1>2, <1>6 DEF Store, Refuse, Moves
<1>7. ASSUME NEW c \in calls, Succeed(c)
      PROVE  OneCallPerRow'
  BY <1>1, <1>7 DEF Succeed
<1>8. ASSUME NEW c \in calls, NEW why, Caught(c, why)
      PROVE  OneCallPerRow'
  BY <1>1, <1>8 DEF Caught
<1> QED BY <1>3, <1>4, <1>5, <1>6, <1>7, <1>8 DEF Step, Fail, LoseAnswer, SecondFails

\* A quiet list that nothing came in the way of is the API's.
LEMMA QuietListIsCurrent ==
  ASSUME TypeOK, UpToDate, strays \subseteq {"old list"}, gets = {}, calls = {}, screen.views = "one"
  PROVE  shown \subseteq rows
<1>1. Agrees
  BY DEF UpToDate, WillLoad, OnItsWay
<1>2. InView(view, rows) = rows
  BY ViewPart DEF TypeOK
<1>3. ASSUME NEW r \in shown PROVE r \in rows
  <2>1. PICK q \in rows : q.id = r.id /\ q.form = r.form /\ q.mark = r.mark
    BY <1>1, <1>2 DEF Agrees, Unsettled
  <2>2. q \in RowSet /\ r \in RowSet
    BY DEF TypeOK
  <2> QED BY <2>1, <2>2, SameRow
<1> QED BY <1>3

LEMMA NextWholeSane ==
  ASSUME TypeOK, RowsSane, SendsSane, WholeSane, UpToDate, Step
  PROVE  WholeSane'
<1>1. ASSUME screen' = screen, strays' \ strays \subseteq Strays \ {"old list"}, strays \subseteq strays',
             calls' = calls, rows' = rows
      PROVE  WholeSane'
  BY <1>1 DEF WholeSane
\* A call that sends the whole list is alone: who leaves, leaves nobody.
<1>2. ASSUME NEW c \in calls, screen' = screen, strays' \ strays \subseteq Strays \ {"old list"}, strays \subseteq strays',
             calls' = calls \ {c}, rows' = rows
      PROVE  WholeSane'
  BY <1>2 DEF WholeSane
<1>3. ASSUME NEW h \in screen.handlers, NEW c, Clicks(h, c)
      PROVE  WholeSane'
  <2>1. /\ c \in CallSet /\ c.handler = h /\ calls' = calls \cup {c} /\ rows' = rows /\ screen' = screen
        /\ strays \subseteq strays'
        /\ "old list" \in strays' => "old list" \in strays \/ h.whole
        /\ h.op = "add" \/ \A q \in c.sends : q.id # c.id => q \in shown
    BY <1>3 DEF Clicks
  <2>2. CASE h.whole
    <3>1. h.op = "mark" /\ screen.views = "one"
      BY <2>1, <2>2, CallHandler
    <3>2. ASSUME "old list" \notin strays'
          PROVE  calls' = {c} /\ \A q \in c.sends : q.id # c.id => q \in rows
      <4>1. calls = {} /\ gets = {} /\ strays = {}
        BY <1>3, <2>2, <3>2 DEF Clicks
      <4>2. shown \subseteq rows
        BY <3>1, <4>1, QuietListIsCurrent
      <4> QED BY <2>1, <3>1, <4>1, <4>2
    <3> QED BY <2>1, <2>2, <3>2 DEF WholeSane
  <2>3. CASE ~h.whole
    <3>1. \A d \in calls' : ~d.handler.whole
      BY <2>1, <2>3, CallHandler DEF TypeOK
    <3> QED BY <2>1, <2>3, <3>1 DEF WholeSane
  <2> QED BY <2>2, <2>3
<1>4. ASSUME NEW c \in calls, NEW st \in {"stored", "refused"}, Moves(c, st), screen' = screen, strays' = strays,
             rows' = rows \/ rows' = Effect(c, rows)
      PROVE  WholeSane'
  <2>1. /\ \A d \in calls' : (d \in calls /\ d # c) \/ (d.state = st /\ SameCall(d, c))
        /\ \A d, e \in calls' : d.state = st /\ SameCall(d, c) /\ e.state = st /\ SameCall(e, c) => d = e
    BY <1>4, MovedCalls
  <2>2. ASSUME "old list" \notin strays, NEW d \in calls', d.handler.whole
        PROVE  calls' = {d} /\ \A q \in d.sends : q.id # d.id => q \in rows'
    <3>1. calls = {c} /\ c.handler.whole /\ SameCall(d, c) /\ \A q \in c.sends : q.id # c.id => q \in rows
      BY <2>1, <2>2 DEF WholeSane, SameCall
    <3>2. calls' = {d}
      BY <2>1, <2>2, <3>1
    <3>3. ASSUME NEW q \in c.sends, q.id # c.id PROVE q \in rows'
      <4>1. c \in CallSet /\ Unique(c.sends) /\ c.id \in IdsOf(c.sends) /\ rows \in SUBSET RowSet /\ Unique(rows)
        BY DEF TypeOK, SendsSane, RowsSane
      <4>2. q \in Effect(c, rows) <=> q \in rows
        BY <3>1, <3>3, <4>1, EffectElsewhere
      <4> QED BY <1>4, <3>1, <3>3, <4>2
    <3> QED BY <3>1, <3>2, <3>3 DEF SameCall
  <2> QED BY <1>4, <2>2 DEF WholeSane
<1>5. ASSUME NEW g \in gets, ServeLoad(g) \/ ShowLoad(g) \/ LoadFails(g)
      PROVE  WholeSane'
  BY <1>1, <1>5 DEF ServeLoad, ShowLoad, LoadFails, Strays
<1>6. ASSUME NEW v \in 1..MaxRows, Turn(v)
      PROVE  WholeSane'
  BY <1>1, <1>6 DEF Turn
<1>7. ASSUME NEW c \in calls, Store(c) \/ Refuse(c)
      PROVE  WholeSane'
  BY <1>4, <1>7 DEF Store, Refuse, Moves
<1>8. ASSUME NEW c \in calls, Succeed(c)
      PROVE  WholeSane'
  BY <1>2, <1>8 DEF Succeed
<1>9. ASSUME NEW c \in calls, NEW why \in SUBSET {"answer lost", "half done"}, Caught(c, why)
      PROVE  WholeSane'
  BY <1>2, <1>9 DEF Caught, Strays
<1>10. ASSUME NEW c \in calls, Fail(c) \/ LoseAnswer(c) \/ SecondFails(c)
      PROVE  WholeSane'
  BY <1>9, <1>10 DEF Fail, LoseAnswer, SecondFails
<1> QED BY <1>3, <1>5, <1>6, <1>7, <1>8, <1>10 DEF Step

\* What the step of the API leaves of a row that no other call means.
LEMMA StoreElsewhere ==
  ASSUME TypeOK, RowsSane, SendsSane, WholeSane, "old list" \notin strays,
         NEW c \in calls, Store(c), NEW r, r.id # c.id
  PROVE  r \in rows' <=> r \in rows
<1>1. /\ c \in CallSet /\ Unique(c.sends) /\ c.id \in IdsOf(c.sends)
      /\ ~c.handler.whole => IdsOf(c.sends) = {c.id}
      /\ rows \in SUBSET RowSet /\ Unique(rows)
  BY DEF TypeOK, SendsSane, RowsSane
<1>2. \A q \in c.sends : q.id # c.id => q \in rows
  BY <1>1 DEF WholeSane, IdsOf
<1>3. rows' = Effect(c, rows)
  BY DEF Store
<1> QED BY <1>1, <1>2, <1>3, EffectElsewhere

LEMMA NextStoredIsKept ==
  ASSUME TypeOK, RowsSane, SendsSane, OneCallPerRow, WholeSane, StoredIsKept, Step
  PROVE  StoredIsKept'
<1>1. ASSUME strays \subseteq strays', \A d \in calls' : d.state = "stored" => d \in calls, rows' = rows
      PROVE  StoredIsKept'
  BY <1>1 DEF StoredIsKept, Kept
<1>2. ASSUME NEW h \in screen.handlers, NEW c, Clicks(h, c)
      PROVE  StoredIsKept'
  BY <1>1, <1>2 DEF Clicks
<1>3. ASSUME NEW c \in calls, Store(c)
      PROVE  StoredIsKept'
  <2>1. \A d \in calls' : (d \in calls /\ d # c) \/ (d.state = "stored" /\ SameCall(d, c))
    BY <1>3, MovedCalls DEF Store, Moves
  <2>2. ASSUME {"same row", "old list"} \cap strays = {}, NEW d \in calls', d.state = "stored"
        PROVE  Kept(d.id, Wanted(d))'
    <3>1. CASE SameCall(d, c)
      <4>1. /\ c \in CallSet /\ Unique(c.sends) /\ c.id \in IdsOf(c.sends)
            /\ rows \in SUBSET RowSet /\ Unique(rows)
        BY DEF TypeOK, SendsSane, RowsSane
      <4>2. rows' = Effect(c, rows) /\ (c.handler.op = "add" \/ c.id \in IdsOf(rows))
        BY <1>3 DEF Store
      <4>3. IF Wanted(c) = "gone" THEN c.id \notin IdsOf(rows') ELSE \E r \in rows' : r.id = c.id /\ r.mark = Wanted(c)
        BY <4>1, <4>2, EffectOwn
      <4> QED BY <3>1, <4>3 DEF Kept, SameCall
    <3>2. CASE d \in calls /\ d # c
      <4>1. d.id # c.id /\ Kept(d.id, Wanted(d))
        BY <2>2, <3>2 DEF OneCallPerRow, StoredIsKept
      <4>2. \A r : r.id # c.id => (r \in rows' <=> r \in rows)
        BY <1>3, <2>2, StoreElsewhere
      <4> QED BY <4>1, <4>2 DEF Kept, IdsOf
    <3> QED BY <2>1, <2>2, <3>1, <3>2
  <2> QED BY <1>3, <2>2 DEF StoredIsKept, Store
<1>4. ASSUME NEW c \in calls, Refuse(c)
      PROVE  StoredIsKept'
  <2>1. \A d \in calls' : (d \in calls /\ d # c) \/ d.state = "refused"
    BY <1>4, MovedCalls DEF Refuse, Moves
  <2> QED BY <1>1, <1>4, <2>1 DEF Refuse
<1>5. ASSUME NEW g \in gets, ServeLoad(g) \/ ShowLoad(g) \/ LoadFails(g)
      PROVE  StoredIsKept'
  BY <1>1, <1>5 DEF ServeLoad, ShowLoad, LoadFails
<1>6. ASSUME NEW v \in 1..MaxRows, Turn(v)
      PROVE  StoredIsKept'
  BY <1>1, <1>6 DEF Turn
<1>7. ASSUME NEW c \in calls, Succeed(c)
      PROVE  StoredIsKept'
  BY <1>1, <1>7 DEF Succeed
<1>8. ASSUME NEW c \in calls, NEW why, Caught(c, why)
      PROVE  StoredIsKept'
  BY <1>1, <1>8 DEF Caught
<1> QED BY <1>2, <1>3, <1>4, <1>5, <1>6, <1>7, <1>8 DEF Step, Fail, LoseAnswer, SecondFails

LEMMA NextRestoreSane ==
  ASSUME TypeOK, RowsSane, SendsSane, LoadsSane, OneCallPerRow, WholeSane, RestoreSane, UpToDate, Step
  PROVE  RestoreSane'
<1>1. screen' = screen
  BY DEF Step, ServeLoad, ShowLoad, LoadFails, Turn, Clicks, Store, Refuse, Succeed, Fail, LoseAnswer,
         SecondFails, Caught
<1> DEFINE Restored(c) == \A r \in rows : \A q \in c.shown : r.id = c.id /\ q.id = c.id => r.mark = q.mark
<1> SUFFICES ASSUME NEW k \in screen.handlers, k.restores
             PROVE  /\ \A g, h \in gets' : g = h
                    /\ gets' = {} \/ (calls' = {} /\ shown' = {})
                    /\ strays' = {} => \A c \in calls' : c.handler.restores /\ c.state # "stored" => Restored(c)'
  BY <1>1 DEF RestoreSane
<1>2. /\ screen.views = "one"
      /\ \A h \in screen.handlers : h.shows = "before" /\ h.op = "mark" /\ ~h.whole
  BY DEF TypeOK, ProperScreen, ProperHandler, Handler
<1>3. \A c \in calls : c \in CallSet /\ c.handler \in screen.handlers
  BY DEF TypeOK, CallSet
<1>4. /\ \A g, h \in gets : g = h
      /\ gets = {} \/ (calls = {} /\ shown = {})
      /\ strays = {} => \A c \in calls : c.handler.restores /\ c.state # "stored" => Restored(c)
  BY DEF RestoreSane
<1>5. "old list" \notin strays
  BY <1>2 DEF WholeSane
\* The list and the calls are as they were, or some calls are done.
<1>6. ASSUME strays \subseteq strays', rows' = rows, \A c \in calls' : c \in calls
      PROVE  strays' = {} => \A c \in calls' : c.handler.restores /\ c.state # "stored" => Restored(c)'
  BY <1>4, <1>6
<1>7. ASSUME NEW g \in gets, ServeLoad(g)
      PROVE  RestoreSane'
  <2>1. calls' = {} /\ shown' = {}
    BY <1>4, <1>7 DEF ServeLoad
  <2>2. \A f, h \in gets' : f = h
    BY <1>4, <1>7 DEF ServeLoad
  <2> QED BY <2>1, <2>2 DEF RestoreSane
<1>8. ASSUME NEW g \in gets, ShowLoad(g) \/ LoadFails(g)
      PROVE  RestoreSane'
  <2>1. gets' = {} /\ calls' = {}
    BY <1>4, <1>8 DEF ShowLoad, LoadFails
  <2> QED BY <2>1 DEF RestoreSane
<1>9. ASSUME NEW v \in 1..MaxRows, Turn(v)
      PROVE  RestoreSane'
  BY <1>2, <1>9 DEF Turn, CanTurnTo
<1>10. ASSUME NEW h \in screen.handlers, NEW c, Clicks(h, c)
      PROVE  RestoreSane'
  <2>1. /\ c.handler = h /\ c.shown = shown /\ calls' = calls \cup {c} /\ rows' = rows
        /\ gets' = Behind(c, gets) /\ strays \subseteq strays'
        /\ (\E d \in calls : d.id = c.id) => "same row" \in strays'
        /\ \E r \in shown : c.id = r.id
    BY <1>2, <1>10 DEF Clicks
  <2>2. gets = {} /\ gets' = {}
    BY <1>4, <2>1, BehindLoads DEF TypeOK
  <2>3. ASSUME strays' = {} PROVE Restored(c)'
    <3>1. strays = {} /\ \A d \in calls : d.id # c.id
      BY <2>1, <2>3
    <3>2. ~WillLoad
      BY <1>2, <1>3 DEF WillLoad
    <3>3. Agrees
      BY <2>2, <3>1, <3>2 DEF UpToDate, OnItsWay
    <3>4. InView(view, rows) = rows
      BY <1>2, ViewPart DEF TypeOK
    <3>5. ASSUME NEW r \in rows, NEW q \in shown, r.id = c.id, q.id = c.id
          PROVE  r.mark = q.mark
      <4>1. ~Unsettled(q.id)
        BY <3>1, <3>5 DEF Unsettled
      <4>2. PICK p \in rows : p.id = q.id /\ p.mark = q.mark
        BY <3>3, <3>4, <4>1 DEF Agrees
      <4> QED BY <3>5, <4>2 DEF RowsSane, Unique
    <3> QED BY <2>1, <3>5
  <2>4. ASSUME strays' = {}, NEW d \in calls, d.handler.restores, d.state # "stored" PROVE Restored(d)'
    BY <1>4, <2>1, <2>4
  <2>5. strays' = {} => \A d \in calls' : d.handler.restores /\ d.state # "stored" => Restored(d)'
    BY <2>1, <2>3, <2>4
  <2> QED BY <2>2, <2>5 DEF RestoreSane
<1>11. ASSUME NEW c \in calls, Store(c)
      PROVE  RestoreSane'
  <2>1. c.handler \in screen.handlers /\ gets' = {}
    BY <1>2, <1>3, <1>4, <1>11 DEF Store
  <2>2. \A d \in calls' : (d \in calls /\ d # c) \/ d.state = "stored"
    BY <1>11, MovedCalls DEF Store, Moves
  <2>3. ASSUME strays' = {}, NEW d \in calls', d.handler.restores, d.state # "stored" PROVE Restored(d)'
    <3>1. strays = {}
      BY <1>11, <2>3 DEF Store
    <3>2. d \in calls /\ d.id # c.id
      BY <2>2, <2>3, <3>1 DEF OneCallPerRow
    <3>3. \A r : r.id # c.id => (r \in rows' <=> r \in rows)
      BY <1>5, <1>11, StoreElsewhere
    <3>4. Restored(d)
      BY <1>4, <2>3, <3>1, <3>2
    <3> QED BY <3>2, <3>3, <3>4
  <2> QED BY <2>1, <2>3 DEF RestoreSane
<1>12. ASSUME NEW c \in calls, Refuse(c)
      PROVE  RestoreSane'
  <2>1. gets' = {} /\ strays' = strays /\ rows' = rows
    BY <1>4, <1>12 DEF Refuse
  <2>2. \A d \in calls' : (d \in calls /\ d # c) \/ (d.state = "refused" /\ SameCall(d, c))
    BY <1>12, MovedCalls DEF Refuse, Moves
  <2>3. ASSUME strays' = {}, NEW d \in calls', d.handler.restores, d.state # "stored" PROVE Restored(d)'
    <3>1. PICK e \in calls : e.handler = d.handler /\ e.state # "stored" /\ e.shown = d.shown /\ e.id = d.id
      BY <1>12, <2>2, <2>3 DEF SameCall, Refuse
    <3>2. Restored(e)
      BY <1>4, <2>1, <2>3, <3>1
    <3> QED BY <2>1, <3>1, <3>2
  <2> QED BY <2>1, <2>3 DEF RestoreSane
<1>13. ASSUME NEW c \in calls, Succeed(c)
      PROVE  RestoreSane'
  <2>1. c.handler.shows = "before"
    BY <1>2, <1>3
  <2>2. gets' = {} /\ strays' = strays /\ rows' = rows /\ calls' = calls \ {c}
    BY <1>4, <1>13, <2>1 DEF Succeed
  <2> QED BY <1>6, <2>2 DEF RestoreSane
<1>14. ASSUME NEW c \in calls, NEW why, Caught(c, why)
      PROVE  RestoreSane'
  <2>1. gets' = {} /\ strays \subseteq strays' /\ rows' = rows /\ calls' = calls \ {c}
    BY <1>4, <1>14 DEF Caught
  <2> QED BY <1>6, <2>1 DEF RestoreSane
<1>15. RestoreSane'
  BY <1>7, <1>8, <1>9, <1>10, <1>11, <1>12, <1>13, <1>14 DEF Step, Fail, LoseAnswer, SecondFails
<1> QED BY <1>1, <1>15 DEF RestoreSane

-----------------------------------------------------------------------------
(* The list stays up to date.                                                  *)

\* Nothing that came in the way goes out of it.
Clear      == strays \subseteq {"old list"}
StaysClear == Clear /\ Clear'

LEMMA StraysStay ==
  ASSUME Step
  PROVE  screen' = screen /\ (Clear' => StaysClear)
BY DEF StaysClear, Clear, Step, ServeLoad, ShowLoad, LoadFails, Turn, Clicks, Store, Refuse, Succeed, Fail, LoseAnswer,
       SecondFails, Caught

\* The view is cut from the rows as before.
LEMMA ViewStays ==
  ASSUME screen' = screen, view' = view, rows' = rows
  PROVE  InView(view, rows)' = InView(view, rows)
BY DEF InView

\* What is to come still comes.
LEMMA ComingStays ==
  ASSUME TypeOK, WillLoad \/ OnItsWay,
         \A d \in calls : d.state = "stored" /\ d.handler.shows = "by loading" => d \in calls',
         \A g \in gets : \E f \in gets' : SameLoad(f, g),
         issued' = issued, rows' = rows
  PROVE  WillLoad' \/ OnItsWay'
<1>1. CASE WillLoad
  BY <1>1 DEF WillLoad
<1>2. CASE OnItsWay
  <2>1. PICK g \in gets : g.n = issued /\ (g.served => g.behind \/ g.answer = rows)
    BY <1>2 DEF OnItsWay
  <2>2. PICK f \in gets' : SameLoad(f, g)
    BY <2>1
  <2>3. f.n = g.n /\ f.served = g.served /\ f.answer = g.answer /\ (g.behind => f.behind)
    BY <2>2 DEF SameLoad
  <2>4. f.n = issued'
    BY <2>1, <2>3
  <2>5. f.served => f.behind \/ f.answer = rows'
    BY <2>1, <2>3
  <2> QED BY <2>2, <2>4, <2>5 DEF OnItsWay
<1> QED BY <1>1, <1>2

LEMMA BeginComes ==
  ASSUME NEW v, NEW s, BeginLoad(v, s)
  PROVE  OnItsWay'
<1>1. Load(v) \in gets' /\ Load(v).n = issued' /\ ~Load(v).served
  BY DEF BeginLoad, Load
<1> QED BY <1>1 DEF OnItsWay

\* A load is served, shown, or fails; the view turns.
LoadStep == \/ \E g \in gets : ServeLoad(g) \/ ShowLoad(g) \/ LoadFails(g)
            \/ \E v \in 1..MaxRows : Turn(v)

LEMMA LoadUpToDate ==
  ASSUME TypeOK, LoadsSane, BehindSane, UpToDate, StaysClear, LoadStep
  PROVE  WillLoad' \/ OnItsWay' \/ (latest' = issued' /\ Agrees')
<1>1. WillLoad \/ OnItsWay \/ (latest = issued /\ Agrees)
  BY DEF UpToDate, StaysClear, Clear
<1>2. \A g \in gets : g \in LoadSet /\ g.n \in Nat /\ SameLoad(g, g)
  BY DEF TypeOK, LoadSet, SameLoad
<1>3. ASSUME NEW g \in gets, ServeLoad(g)
      PROVE  WillLoad' \/ OnItsWay' \/ (latest' = issued' /\ Agrees')
  <2> DEFINE f == [g EXCEPT !.served = TRUE, !.answer = rows,
                     !.behind = \E c \in calls : c.state = "sent" /\ c.handler.shows = "before"]
  <2>1. f.n = g.n /\ f.answer = rows
    BY <1>2 DEF LoadSet
  <2>2. gets' = (gets \ {g}) \cup {f}
    BY <1>3 DEF ServeLoad
  <2> HIDE DEF f
  <2>3. UNCHANGED <<screen, view, rows, shown, calls, issued, latest>>
    BY <1>3 DEF ServeLoad
  <2>4. CASE WillLoad
    BY <2>3, <2>4 DEF WillLoad
  <2>5. CASE OnItsWay
    <3>1. PICK k \in gets : k.n = issued /\ (k.served => k.behind \/ k.answer = rows)
      BY <2>5 DEF OnItsWay
    <3>2. CASE k = g
      <4>1. f \in gets' /\ f.n = issued' /\ f.answer = rows'
        BY <2>1, <2>2, <2>3, <3>1, <3>2
      <4> QED BY <4>1 DEF OnItsWay
    <3>3. CASE k # g
      <4>1. k \in gets' /\ k.n = issued' /\ (k.served => k.behind \/ k.answer = rows')
        BY <2>2, <2>3, <3>1, <3>3
      <4> QED BY <4>1 DEF OnItsWay
    <3> QED BY <3>2, <3>3
  <2>6. CASE latest = issued /\ Agrees
    <3>1. InView(view, rows)' = InView(view, rows)
      BY <2>3, ViewStays
    <3>2. \A i : Unsettled(i)' <=> Unsettled(i)
      BY <2>3 DEF Unsettled
    <3>3. Agrees'
      BY <2>3, <2>6, <3>1, <3>2 DEF Agrees
    <3> QED BY <2>3, <2>6, <3>3
  <2> QED BY <1>1, <2>4, <2>5, <2>6
<1>4. ASSUME NEW g \in gets, ShowLoad(g)
      PROVE  WillLoad' \/ OnItsWay' \/ (latest' = issued' /\ Agrees')
  <2>1. /\ UNCHANGED <<screen, view, rows, calls, issued>> /\ gets' = gets \ {g}
        /\ g.served /\ shown' = InView(g.view, g.answer)
        /\ latest' = IF g.n > latest THEN g.n ELSE latest
    BY <1>4 DEF ShowLoad
  <2>2. ~(g.n < latest) /\ g.view = view
    BY <1>4 DEF ShowLoad, StaysClear, Clear
  <2>7. ~g.behind
    BY <1>4 DEF ShowLoad, StaysClear, Clear
  <2>3. g.n > latest /\ g.n <= issued /\ latest' = g.n
    <3>1. g.n \in Nat /\ latest \in Nat /\ issued \in Nat /\ g.n <= issued /\ g.n # latest
      BY <1>2 DEF LoadsSane, TypeOK
    <3>2. g.n > latest
      BY <2>2, <3>1
    <3> QED BY <2>1, <3>1, <3>2
  <2>4. CASE WillLoad
    BY <2>1, <2>4 DEF WillLoad
  <2>5. CASE OnItsWay
    <3>1. PICK k \in gets : k.n = issued /\ (k.served => k.behind \/ k.answer = rows)
      BY <2>5 DEF OnItsWay
    <3>2. CASE k # g
      BY <2>1, <3>1, <3>2 DEF OnItsWay
    <3>3. CASE k = g
      <4>1. shown' = InView(view, rows) /\ latest' = issued'
        BY <2>1, <2>2, <2>3, <2>7, <3>1, <3>3
      <4>2. InView(view, rows)' = shown'
        BY <2>1, <4>1, ViewStays
      <4>3. \A c \in calls' : ~(c.handler.shows = "before" /\ c.state = "sent")
        BY <2>1, <2>7 DEF BehindSane
      <4>4. Agrees'
        BY <4>2, <4>3 DEF Agrees
      <4> QED BY <4>1, <4>4
    <3> QED BY <3>2, <3>3
  <2>6. CASE latest = issued
    <3>1. g.n \in Nat /\ latest \in Nat /\ issued \in Nat
      BY <1>2 DEF TypeOK
    <3> QED BY <2>3, <2>6, <3>1
  <2> QED BY <1>1, <2>4, <2>5, <2>6
<1>5. ASSUME NEW g \in gets, LoadFails(g)
      PROVE  FALSE
  BY <1>5 DEF LoadFails, StaysClear, Clear
<1>6. ASSUME NEW v \in 1..MaxRows, Turn(v)
      PROVE  OnItsWay'
  BY <1>6, BeginComes DEF Turn
<1> QED BY <1>3, <1>4, <1>5, <1>6 DEF LoadStep

\* A click shows its change before the API has it, or nothing yet.
LEMMA ClickUpToDate ==
  ASSUME TypeOK, RowsSane, UpToDate, NEW h \in screen.handlers, NEW c, Clicks(h, c), StaysClear
  PROVE  WillLoad' \/ OnItsWay' \/ (latest' = issued' /\ Agrees')
<1>1. /\ c \in CallSet /\ c.handler = h /\ c.state = "sent" /\ calls' = calls \cup {c}
      /\ Unique(c.sends) /\ c.id \in IdsOf(c.sends) /\ (~h.whole => IdsOf(c.sends) = {c.id})
      /\ UNCHANGED <<screen, view, rows, issued, latest>>
      /\ shown' = IF h.shows = "before" THEN Effect(c, shown) ELSE shown
      /\ gets' = gets \/ gets' = Behind(c, gets)
  BY DEF Clicks
<1>2. \A d \in calls : d.id # c.id
  BY DEF Clicks, StaysClear, Clear
<1>3. CASE WillLoad \/ OnItsWay
  <2>1. \A g \in gets : \E f \in gets' : SameLoad(f, g)
    BY <1>1, LoadsGoOn
  <2> QED BY <1>1, <1>3, <2>1, ComingStays
<1>4. CASE latest = issued /\ Agrees
  <2>1. InView(view, rows)' = InView(view, rows)
    BY <1>1, ViewStays
  <2>2. \A i : Unsettled(i) => Unsettled(i)'
    BY <1>1 DEF Unsettled
  <2>3. CASE h.shows # "before"
    <3>1. shown' = shown /\ \A d \in calls' : d.handler.shows = "before" => d \in calls
      BY <1>1, <2>3
    <3>2. Agrees'
      BY <1>4, <2>1, <2>2, <3>1 DEF Agrees
    <3> QED BY <1>1, <1>4, <3>2
  <2>4. CASE h.shows = "before"
    <3>1. /\ c.handler.op = "mark" /\ c.sends \in SUBSET RowSet /\ IdsOf(c.sends) = {c.id} /\ Unique(c.sends)
          /\ shown' = Effect(c, shown) /\ shown \in SUBSET RowSet /\ Unique(shown)
      BY <1>1, <2>4, CallHandler DEF TypeOK, RowsSane
    <3>2. IdsOf(shown') = IdsOf(shown)
      BY <3>1, EffectMark
    <3>3. \A e \in shown' : \E r \in shown :
            /\ r.id = e.id /\ r.form = e.form
            /\ e.id # c.id => e = r
            /\ \A q \in c.sends : q.id = e.id => e.mark = q.mark
      <4>1. \A e \in shown' : \E r \in shown :
              /\ r.id = e.id /\ r.form = e.form
              /\ e.id \notin IdsOf(c.sends) => e = r
              /\ \A q \in c.sends : q.id = e.id => e.mark = q.mark
        BY <3>1, EffectMark
      <4> QED BY <3>1, <4>1
    <3>4. Unsettled(c.id)'
      BY <1>1, <2>4 DEF Unsettled
    <3>5. ASSUME NEW e \in shown'
          PROVE  \E q \in InView(view, rows) :
                   q.id = e.id /\ q.form = e.form /\ (q.mark = e.mark \/ Unsettled(e.id)')
      <4>1. PICK r \in shown : r.id = e.id /\ r.form = e.form /\ (e.id # c.id => e = r)
        BY <3>3
      <4>2. PICK q \in InView(view, rows) :
                   q.id = r.id /\ q.form = r.form /\ (q.mark = r.mark \/ Unsettled(r.id))
        BY <1>4 DEF Agrees
      <4> QED BY <2>2, <3>4, <4>1, <4>2
    <3>6. ASSUME NEW q \in InView(view, rows)
          PROVE  \E e \in shown' : e.id = q.id
      <4>1. PICK r \in shown : r.id = q.id
        BY <1>4 DEF Agrees
      <4> QED BY <3>2, <4>1 DEF IdsOf
    <3>7. ASSUME NEW d \in calls', NEW e \in shown', d.handler.shows = "before", d.state = "sent", e.id = d.id
          PROVE  e.mark = Wanted(d)
      <4>1. PICK r \in shown : /\ r.id = e.id /\ (e.id # c.id => e = r)
                               /\ \A q \in c.sends : q.id = e.id => e.mark = q.mark
        BY <3>3
      <4>2. CASE d = c
        <5>1. PICK q \in c.sends : q.id = c.id
          BY <1>1 DEF IdsOf
        <5>2. Wanted(c) = q.mark
          BY <1>1, <3>1, <5>1, WantedSent
        <5> QED BY <3>7, <4>1, <4>2, <5>1, <5>2
      <4>3. CASE d # c
        <5>1. d \in calls /\ d.id # c.id
          BY <1>1, <1>2, <4>3
        <5> QED BY <1>4, <3>7, <4>1, <5>1 DEF Agrees
      <4> QED BY <4>2, <4>3
    <3>8. Agrees'
      BY <2>1, <3>5, <3>6, <3>7 DEF Agrees
    <3> QED BY <1>1, <1>4, <3>8
  <2> QED BY <2>3, <2>4
<1> QED BY <1>3, <1>4 DEF UpToDate, StaysClear, Clear

\* A change that is stored is shown already, will be with the answer, or loaded.
LEMMA StoreUpToDate ==
  ASSUME TypeOK, RowsSane, SendsSane, BehindSane, OneCallPerRow, UpToDate, NEW c \in calls, Store(c), StaysClear
  PROVE  WillLoad' \/ OnItsWay' \/ (latest' = issued' /\ Agrees')
<1>1. /\ c \in CallSet /\ c.state = "sent" /\ Unique(c.sends) /\ c.id \in IdsOf(c.sends)
      /\ ~c.handler.whole => IdsOf(c.sends) = {c.id}
      /\ UNCHANGED <<screen, view, shown, issued, latest>>
      /\ rows' = Effect(c, rows)
  BY DEF Store, TypeOK, SendsSane
<1>2. /\ \A d \in calls' : (d \in calls /\ d # c) \/ (d.state = "stored" /\ SameCall(d, c))
      /\ \A d \in calls : d # c => d \in calls'
      /\ \E d \in calls' : d.state = "stored" /\ SameCall(d, c)
  BY MovedCalls DEF Store, Moves
<1>3. \A d \in calls : d # c => d.id # c.id
  BY DEF OneCallPerRow, StaysClear, Clear
<1>4. CASE c.handler.shows = "by loading"
  <2>1. WillLoad'
    BY <1>2, <1>4 DEF WillLoad, SameCall
  <2> QED BY <2>1
<1>5. CASE c.handler.shows # "by loading"
  <2>1. CASE WillLoad
    BY <1>1, <1>2, <2>1 DEF WillLoad
  <2>2. CASE OnItsWay
    <3>1. PICK g \in gets : g.n = issued /\ (g.served => g.behind \/ g.answer = rows)
      BY <2>2 DEF OnItsWay
    <3>2. PICK f \in gets' : SameLoad(f, g) /\ (g.served => f.behind)
      <4>1. CASE c.handler.shows = "after"
        <5>1. gets' = Behind(c, gets) /\ gets \in SUBSET LoadSet
          BY <4>1 DEF Store, TypeOK
        <5> QED BY <1>5, <5>1, BehindLoads
      <4>2. CASE c.handler.shows = "before"
        <5>1. gets' = gets /\ (g.served => g.behind)
          BY <1>1, <4>2 DEF Store, BehindSane
        <5> QED BY <5>1 DEF SameLoad
      <4>3. c.handler.shows \in {"by loading", "after", "before"}
        BY <1>1, CallHandler DEF Handler
      <4> QED BY <1>5, <4>1, <4>2, <4>3
    <3>3. f.n = issued' /\ (f.served => f.behind)
      BY <1>1, <3>1, <3>2 DEF SameLoad
    <3> QED BY <3>2, <3>3 DEF OnItsWay
  <2>3. CASE latest = issued /\ Agrees
    <3>1. /\ c.handler.op = "mark" /\ c.sends \in SUBSET RowSet /\ IdsOf(c.sends) = {c.id}
          /\ Unique(c.sends) /\ rows \in SUBSET RowSet /\ Unique(rows) /\ screen.views \in {"one", "pages"}
      BY <1>1, <1>5, CallHandler DEF TypeOK, RowsSane
    <3>2. InView(view, rows)' = InView(view, Effect(c, rows))
      BY <1>1 DEF InView
    <3>3. \A e \in Effect(c, rows) : \E q \in rows :
            /\ q.id = e.id /\ q.form = e.form
            /\ e.id \notin IdsOf(c.sends) => e = q
            /\ \A p \in c.sends : p.id = e.id => e.mark = p.mark
      BY <3>1, EffectMark
    <3>4. IdsOf(Effect(c, rows)) = IdsOf(rows) /\ Unique(Effect(c, rows))
      BY <3>1, EffectMark
    <3>5. ASSUME NEW q \in rows, NEW e \in Effect(c, rows), q.id = e.id
          PROVE  q \in InView(view, rows) <=> e \in InView(view, rows)'
      BY <3>1, <3>2, <3>5, EffectView
    <3>6. \A q \in InView(view, rows) : q \in rows
      BY ViewPart DEF TypeOK
    <3>7. \A e \in InView(view, rows)' : e \in Effect(c, rows)
      BY <3>2, ViewPart DEF TypeOK
    \* The change of a call that was shown at its click is now the API's too.
    <3>8. ASSUME NEW r \in shown
          PROVE  \E e \in InView(view, rows)' :
                   e.id = r.id /\ e.form = r.form /\ (e.mark = r.mark \/ Unsettled(r.id)')
      <4>1. PICK q \in InView(view, rows) :
                   q.id = r.id /\ q.form = r.form /\ (q.mark = r.mark \/ Unsettled(r.id))
        BY <2>3 DEF Agrees
      <4>2. PICK e \in Effect(c, rows) : e.id = q.id
        BY <3>4, <3>6 DEF IdsOf
      <4>3. e \in InView(view, rows)' /\ q \in rows
        BY <3>5, <3>6, <4>2
      <4>4. PICK p \in rows : /\ p.id = e.id /\ p.form = e.form
                              /\ e.id \notin IdsOf(c.sends) => e = p
                              /\ \A t \in c.sends : t.id = e.id => e.mark = t.mark
        BY <3>3
      <4>5. p = q
        BY <3>1, <4>2, <4>3, <4>4 DEF Unique
      <4>6. CASE r.id # c.id
        <5>1. e = q
          BY <3>1, <4>1, <4>2, <4>4, <4>5, <4>6
        <5>2. Unsettled(r.id) => Unsettled(r.id)'
          BY <1>2, <4>6 DEF Unsettled
        <5> QED BY <4>1, <4>3, <5>1, <5>2
      <4>7. CASE r.id = c.id /\ c.handler.shows = "after"
        <5>1. Unsettled(r.id)'
          BY <1>2, <4>7 DEF Unsettled, SameCall
        <5> QED BY <4>1, <4>2, <4>3, <4>4, <4>5, <5>1
      <4>8. CASE r.id = c.id /\ c.handler.shows = "before"
        <5>1. r.mark = Wanted(c)
          BY <1>1, <2>3, <4>8 DEF Agrees
        <5>2. PICK t \in c.sends : t.id = c.id
          BY <1>1 DEF IdsOf
        <5>3. Wanted(c) = t.mark
          BY <3>1, <5>2, WantedSent
        <5>4. e.mark = r.mark
          BY <4>1, <4>2, <4>4, <4>8, <5>1, <5>2, <5>3
        <5> QED BY <4>1, <4>2, <4>3, <4>4, <4>5, <5>4
      <4>9. c.handler.shows \in {"by loading", "after", "before"}
        BY <1>1, CallHandler DEF Handler
      <4> QED BY <1>5, <4>6, <4>7, <4>8, <4>9
    <3>9. ASSUME NEW e \in InView(view, rows)'
          PROVE  \E r \in shown : r.id = e.id
      <4>1. PICK q \in rows : q.id = e.id
        BY <3>3, <3>7
      <4>2. q \in InView(view, rows)
        BY <3>5, <3>7, <4>1
      <4> QED BY <2>3, <4>1, <4>2 DEF Agrees
    <3>10. ASSUME NEW d \in calls', NEW r \in shown, d.handler.shows = "before", d.state = "sent", r.id = d.id
           PROVE  r.mark = Wanted(d)
      <4>1. d \in calls
        BY <1>2, <3>10
      <4> QED BY <2>3, <3>10, <4>1 DEF Agrees
    <3>11. Agrees'
      BY <1>1, <3>8, <3>9, <3>10 DEF Agrees
    <3> QED BY <1>1, <2>3, <3>11
  <2> QED BY <2>1, <2>2, <2>3 DEF UpToDate, StaysClear, Clear
<1> QED BY <1>4, <1>5

LEMMA RefuseUpToDate ==
  ASSUME TypeOK, UpToDate, NEW c \in calls, Refuse(c), StaysClear
  PROVE  WillLoad' \/ OnItsWay' \/ (latest' = issued' /\ Agrees')
<1>1. UNCHANGED <<screen, view, rows, shown, gets, issued, latest>> /\ c.state = "sent"
  BY DEF Refuse
<1>2. /\ \A d \in calls' : (d \in calls /\ d # c) \/ (d.state = "refused" /\ SameCall(d, c))
      /\ \A d \in calls : d # c => d \in calls'
      /\ \E d \in calls' : d.state = "refused" /\ SameCall(d, c)
  BY MovedCalls DEF Refuse, Moves
<1>3. CASE WillLoad \/ OnItsWay
  <2>1. \A g \in gets : \E f \in gets' : SameLoad(f, g)
    BY <1>1 DEF SameLoad
  <2> QED BY <1>1, <1>2, <1>3, <2>1, ComingStays
<1>4. CASE latest = issued /\ Agrees
  <2>1. InView(view, rows)' = InView(view, rows)
    BY <1>1, ViewStays
  <2>2. \A i : Unsettled(i) => Unsettled(i)'
    <3>1. ASSUME NEW i, NEW d \in calls, d.id = i,
                 \/ d.handler.shows = "before" /\ d.state # "stored"
                 \/ d.handler.shows = "after" /\ d.state = "stored"
          PROVE  Unsettled(i)'
      <4>1. CASE d # c
        BY <1>2, <3>1, <4>1 DEF Unsettled
      <4>2. CASE d = c
        <5>1. PICK e \in calls' : e.state = "refused" /\ SameCall(e, c)
          BY <1>2
        <5> QED BY <1>1, <3>1, <4>2, <5>1 DEF Unsettled, SameCall
      <4> QED BY <4>1, <4>2
    <3> QED BY <3>1 DEF Unsettled
  <2>3. \A d \in calls' : d.state = "sent" => d \in calls
    BY <1>2
  <2>4. Agrees'
    BY <1>1, <1>4, <2>1, <2>2, <2>3 DEF Agrees
  <2> QED BY <1>1, <1>4, <2>4
<1> QED BY <1>3, <1>4 DEF UpToDate, StaysClear, Clear

\* The lines after the await: they load the list, or change the row in it, or
\* leave it, for the change was shown at the click.
LEMMA SucceedUpToDate ==
  ASSUME TypeOK, RowsSane, SendsSane, OneCallPerRow, WholeSane, StoredIsKept, UpToDate,
         NEW c \in calls, Succeed(c), StaysClear
  PROVE  WillLoad' \/ OnItsWay' \/ (latest' = issued' /\ Agrees')
<1>1. /\ c \in CallSet /\ c.state = "stored" /\ Unique(c.sends) /\ c.id \in IdsOf(c.sends)
      /\ ~c.handler.whole => IdsOf(c.sends) = {c.id}
      /\ UNCHANGED <<screen, view, rows, latest>> /\ calls' = calls \ {c}
      /\ shown' = IF c.handler.shows = "after" THEN Effect(c, shown) ELSE shown
  BY DEF Succeed, TypeOK, SendsSane
<1>2. \A d \in calls : d # c => d.id # c.id
  BY DEF OneCallPerRow, StaysClear, Clear
<1>3. c.handler.shows \in {"by loading", "after", "before"}
  BY <1>1, CallHandler DEF Handler
<1>4. CASE c.handler.shows = "by loading"
  BY <1>4, BeginComes DEF Succeed
<1>5. CASE c.handler.shows # "by loading"
  <2>1. UNCHANGED <<gets, issued>>
    BY <1>5 DEF Succeed
  <2>2. CASE WillLoad \/ OnItsWay
    <3>1. \A g \in gets : \E f \in gets' : SameLoad(f, g)
      BY <2>1 DEF SameLoad
    <3>2. \A d \in calls : d.state = "stored" /\ d.handler.shows = "by loading" => d \in calls'
      BY <1>1, <1>5
    <3> QED BY <1>1, <2>1, <2>2, <3>1, <3>2, ComingStays
  <2>3. CASE latest = issued /\ Agrees
    <3>1. InView(view, rows)' = InView(view, rows)
      BY <1>1, ViewStays
    <3>2. \A i : i # c.id => (Unsettled(i) => Unsettled(i)')
      BY <1>1 DEF Unsettled
    <3>3. CASE c.handler.shows = "before"
      <4>1. shown' = shown
        BY <1>1, <3>3
      <4>2. ~Unsettled(c.id)
        BY <1>1, <1>2, <3>3 DEF Unsettled
      <4>3. Agrees'
        BY <1>1, <2>3, <3>1, <3>2, <4>1, <4>2 DEF Agrees
      <4> QED BY <1>1, <2>1, <2>3, <4>3
    <3>4. CASE c.handler.shows = "after"
      <4>1. /\ c.handler.op = "mark" /\ c.sends \in SUBSET RowSet /\ IdsOf(c.sends) = {c.id}
            /\ Unique(c.sends) /\ shown' = Effect(c, shown) /\ shown \in SUBSET RowSet /\ Unique(shown)
        BY <1>1, <1>5, <3>4, CallHandler DEF TypeOK, RowsSane
      <4>2. IdsOf(shown') = IdsOf(shown)
        BY <4>1, EffectMark
      <4>3. \A e \in shown' : \E r \in shown :
              /\ r.id = e.id /\ r.form = e.form
              /\ e.id \notin IdsOf(c.sends) => e = r
              /\ \A q \in c.sends : q.id = e.id => e.mark = q.mark
        BY <4>1, EffectMark
      \* What it stored is still there: nobody here sends whole lists.
      <4>4. Kept(c.id, Wanted(c))
        <5>1. "old list" \notin strays
          <6>1. c.handler \in screen.handlers /\ ~c.handler.whole
            BY <1>1, <1>5, CallHandler
          <6> QED BY <6>1 DEF WholeSane, TypeOK, ProperScreen
        <5>2. {"same row", "old list"} \cap strays = {}
          BY <5>1 DEF StaysClear, Clear
        <5> QED BY <1>1, <5>2 DEF StoredIsKept
      <4>5. PICK t \in c.sends : t.id = c.id
        BY <1>1 DEF IdsOf
      <4>6. Wanted(c) = t.mark /\ t.mark # "gone"
        BY <4>1, <4>5, WantedSent DEF RowSet, Marks
      <4>7. PICK p \in rows : p.id = c.id /\ p.mark = t.mark
        BY <4>4, <4>6 DEF Kept
      <4>8. \A q \in InView(view, rows) : q \in rows
        BY ViewPart DEF TypeOK
      <4>9. ASSUME NEW e \in shown'
            PROVE  \E q \in InView(view, rows) :
                     q.id = e.id /\ q.form = e.form /\ (q.mark = e.mark \/ Unsettled(e.id)')
        <5>1. PICK r \in shown : /\ r.id = e.id /\ r.form = e.form
                                 /\ e.id \notin IdsOf(c.sends) => e = r
                                 /\ \A q \in c.sends : q.id = e.id => e.mark = q.mark
          BY <4>3
        <5>2. PICK q \in InView(view, rows) :
                     q.id = r.id /\ q.form = r.form /\ (q.mark = r.mark \/ Unsettled(r.id))
          BY <2>3 DEF Agrees
        <5>3. CASE e.id # c.id
          BY <3>2, <4>1, <5>1, <5>2, <5>3
        <5>4. CASE e.id = c.id
          <6>1. q = p
            BY <4>7, <4>8, <5>1, <5>2, <5>4 DEF RowsSane, Unique
          <6>2. q.mark = e.mark
            BY <4>5, <4>7, <5>1, <5>4, <6>1
          <6> QED BY <5>1, <5>2, <6>2
        <5> QED BY <5>3, <5>4
      <4>10. ASSUME NEW q \in InView(view, rows)
             PROVE  \E e \in shown' : e.id = q.id
        <5>1. PICK r \in shown : r.id = q.id
          BY <2>3 DEF Agrees
        <5> QED BY <4>2, <5>1 DEF IdsOf
      <4>11. ASSUME NEW d \in calls', NEW e \in shown', d.handler.shows = "before", d.state = "sent", e.id = d.id
             PROVE  e.mark = Wanted(d)
        <5>1. d \in calls /\ d.id # c.id
          BY <1>1, <1>2
        <5>2. PICK r \in shown : r.id = e.id /\ (e.id \notin IdsOf(c.sends) => e = r)
          BY <4>3
        <5> QED BY <2>3, <4>1, <4>11, <5>1, <5>2 DEF Agrees
      <4>12. Agrees'
        BY <3>1, <4>9, <4>10, <4>11 DEF Agrees
      <4> QED BY <1>1, <2>1, <2>3, <4>12
    <3> QED BY <1>3, <1>5, <3>3, <3>4
  <2> QED BY <2>2, <2>3 DEF UpToDate, StaysClear, Clear
<1> QED BY <1>4, <1>5

\* A refusal takes back what it had shown, and no more than that.
LEMMA FailUpToDate ==
  ASSUME TypeOK, RowsSane, SendsSane, OneCallPerRow, WholeSane, RestoreSane, UpToDate,
         NEW c \in calls, Fail(c), StaysClear
  PROVE  WillLoad' \/ OnItsWay' \/ (latest' = issued' /\ Agrees')
<1>1. /\ c \in CallSet /\ c.state = "refused" /\ Unique(c.sends) /\ c.id \in IdsOf(c.sends)
      /\ ~c.handler.whole => IdsOf(c.sends) = {c.id}
      /\ UNCHANGED <<screen, view, rows, gets, issued, latest>> /\ calls' = calls \ {c}
      /\ shown' = IF c.handler.restores THEN c.shown ELSE shown
  BY DEF Fail, Caught, TypeOK, SendsSane
<1>2. \A d \in calls : d # c => d.id # c.id
  BY DEF OneCallPerRow, StaysClear, Clear
<1>3. CASE WillLoad \/ OnItsWay
  <2>1. \A g \in gets : \E f \in gets' : SameLoad(f, g)
    BY <1>1 DEF SameLoad
  <2>2. \A d \in calls : d.state = "stored" /\ d.handler.shows = "by loading" => d \in calls'
    BY <1>1
  <2> QED BY <1>1, <1>3, <2>1, <2>2, ComingStays
<1>4. CASE latest = issued /\ Agrees
  <2>1. InView(view, rows)' = InView(view, rows)
    BY <1>1, ViewStays
  <2>2. \A i : i # c.id => (Unsettled(i) => Unsettled(i)')
    BY <1>1 DEF Unsettled
  <2>3. CASE ~c.handler.restores
    <3>1. c.handler.shows # "before"
      BY <2>3 DEF Fail, Caught, StaysClear, Clear
    <3>2. shown' = shown /\ ~Unsettled(c.id)
      BY <1>1, <1>2, <2>3, <3>1 DEF Unsettled
    <3>3. Agrees'
      BY <1>1, <1>4, <2>1, <2>2, <3>2 DEF Agrees
    <3> QED BY <1>1, <1>4, <3>3
  <2>4. CASE c.handler.restores
    <3>1. shown' = c.shown /\ shown = Effect(c, c.shown)
      BY <1>1, <2>4 DEF Fail, Caught, StaysClear, Clear
    <3>2. c.handler \in screen.handlers /\ c.handler.shows = "before" /\ screen.views = "one"
      BY <1>1, <2>4, CallHandler DEF ProperHandler, TypeOK, ProperScreen
    <3>3. /\ c.handler.op = "mark" /\ c.sends \in SUBSET RowSet /\ IdsOf(c.sends) = {c.id}
          /\ c.shown \in SUBSET RowSet /\ Unique(c.shown)
      BY <1>1, <3>2, CallHandler DEF RowsSane
    <3>4. IdsOf(shown) = IdsOf(c.shown)
      BY <1>1, <3>1, <3>3, EffectMark
    <3>5. \A r \in c.shown : r.id \notin IdsOf(c.sends) => r \in shown
      BY <1>1, <3>1, <3>3, EffectMark
    <3>6. \A e \in shown : \E r \in c.shown : r.id = e.id /\ r.form = e.form
      BY <1>1, <3>1, <3>3, EffectMark
    <3>7. InView(view, rows) = rows
      BY <3>2, ViewPart DEF TypeOK
    <3>8. \A r \in rows : \A q \in c.shown : r.id = c.id /\ q.id = c.id => r.mark = q.mark
      <4>1. strays = {}
        <5>1. "old list" \notin strays
          <6>1. c.handler \in screen.handlers /\ ~c.handler.whole
            BY <1>1, <3>2, CallHandler
          <6> QED BY <6>1 DEF WholeSane, TypeOK, ProperScreen
        <5> QED BY <5>1 DEF StaysClear, Clear
      <4> QED BY <1>1, <2>4, <3>2, <4>1 DEF RestoreSane
    <3>9. ASSUME NEW r \in c.shown
          PROVE  \E q \in rows : q.id = r.id /\ q.form = r.form /\ (q.mark = r.mark \/ Unsettled(r.id)')
      <4>1. CASE r.id # c.id
        <5>1. r \in shown
          BY <3>3, <3>5, <4>1
        <5> QED BY <1>4, <2>2, <3>7, <4>1, <5>1 DEF Agrees
      <4>2. CASE r.id = c.id
        <5>1. PICK e \in shown : e.id = r.id
          BY <3>4 DEF IdsOf
        <5>2. PICK p \in c.shown : p.id = e.id /\ p.form = e.form
          BY <3>6
        <5>3. p = r
          BY <3>3, <5>1, <5>2 DEF Unique
        <5>4. PICK q \in rows : q.id = e.id /\ q.form = e.form
          BY <1>4, <3>7 DEF Agrees
        <5>5. q.mark = r.mark
          BY <3>8, <4>2, <5>1, <5>4
        <5> QED BY <5>1, <5>2, <5>3, <5>4, <5>5
      <4> QED BY <4>1, <4>2
    <3>10. ASSUME NEW q \in rows
           PROVE  \E r \in c.shown : r.id = q.id
      <4>1. PICK e \in shown : e.id = q.id
        BY <1>4, <3>7 DEF Agrees
      <4> QED BY <3>6, <4>1
    <3>11. ASSUME NEW d \in calls', NEW r \in c.shown, d.handler.shows = "before", d.state = "sent", r.id = d.id
           PROVE  r.mark = Wanted(d)
      <4>1. d \in calls /\ d.id # c.id
        BY <1>1, <1>2
      <4>2. r \in shown
        BY <3>3, <3>5, <3>11, <4>1
      <4> QED BY <1>4, <3>11, <4>1, <4>2 DEF Agrees
    <3>12. Agrees'
      BY <2>1, <3>1, <3>7, <3>9, <3>10, <3>11 DEF Agrees
    <3> QED BY <1>1, <1>4, <3>12
  <2> QED BY <2>3, <2>4
<1> QED BY <1>3, <1>4 DEF UpToDate, StaysClear, Clear

LEMMA NextUpToDate ==
  ASSUME TypeOK, RowsSane, SendsSane, LoadsSane, BehindSane, OneCallPerRow, WholeSane, StoredIsKept,
         RestoreSane, UpToDate, Step
  PROVE  UpToDate'
<1> SUFFICES ASSUME StaysClear
             PROVE  WillLoad' \/ OnItsWay' \/ (latest' = issued' /\ Agrees')
  BY StraysStay DEF UpToDate, Clear
<1>1. ASSUME NEW c \in calls, LoseAnswer(c) \/ SecondFails(c)
      PROVE  FALSE
  <2>1. "answer lost" \in strays' \/ "half done" \in strays'
    BY <1>1 DEF LoseAnswer, SecondFails, Caught
  <2> QED BY <2>1 DEF StaysClear, Clear
<1>2. CASE LoadStep
  BY <1>2, LoadUpToDate
<1>3. CASE \E h \in screen.handlers : \E c : Clicks(h, c)
  BY <1>3, ClickUpToDate
<1>4. ASSUME NEW c \in calls, Store(c) \/ Refuse(c) \/ Succeed(c) \/ Fail(c)
      PROVE  WillLoad' \/ OnItsWay' \/ (latest' = issued' /\ Agrees')
  BY <1>4, StoreUpToDate, RefuseUpToDate, SucceedUpToDate, FailUpToDate
<1> QED BY <1>1, <1>2, <1>3, <1>4 DEF Step, LoadStep

-----------------------------------------------------------------------------
(* A form is stored once, and what was asked for is kept.                      *)

LEMMA NextGuardHolds ==
  ASSUME TypeOK, GuardHolds, Step
  PROVE  GuardHolds'
<1>1. ASSUME \A d \in calls' : d \in calls
      PROVE  GuardHolds'
  BY <1>1 DEF GuardHolds
<1>2. ASSUME NEW c \in calls, NEW st \in {"stored", "refused"}, Moves(c, st)
      PROVE  GuardHolds'
  <2>1. /\ \A d \in calls' : (d \in calls /\ d # c) \/ (d.state = st /\ SameCall(d, c))
        /\ \A d, e \in calls' : d.state = st /\ SameCall(d, c) /\ e.state = st /\ SameCall(e, c) => d = e
    BY <1>2, MovedCalls
  <2>2. ASSUME NEW d \in calls', NEW e \in calls', d.handler.busy, d.handler = e.handler
        PROVE  d = e
    <3>1. CASE d \in calls /\ d # c /\ e \in calls /\ e # c
      BY <2>2, <3>1 DEF GuardHolds
    <3>2. CASE d \in calls /\ d # c /\ SameCall(e, c)
      <4>1. d.handler = c.handler
        BY <2>2, <3>2 DEF SameCall
      <4> QED BY <2>2, <3>2, <4>1 DEF GuardHolds
    <3>3. CASE SameCall(d, c) /\ e \in calls /\ e # c
      <4>1. c.handler.busy /\ e.handler = c.handler
        BY <2>2, <3>3 DEF SameCall
      <4> QED BY <3>3, <4>1 DEF GuardHolds
    <3>4. CASE d.state = st /\ SameCall(d, c) /\ e.state = st /\ SameCall(e, c)
      BY <2>1, <3>4
    <3> QED BY <2>1, <3>1, <3>2, <3>3, <3>4
  <2> QED BY <2>2 DEF GuardHolds
<1>3. ASSUME NEW h \in screen.handlers, NEW c, Clicks(h, c)
      PROVE  GuardHolds'
  <2>1. calls' = calls \cup {c} /\ c.handler = h /\ ~Disabled(h)
    BY <1>3 DEF Clicks
  <2>2. ASSUME NEW d \in calls, d.handler = h, h.busy PROVE FALSE
    BY <2>1, <2>2 DEF Disabled
  <2>3. ASSUME NEW d \in calls', NEW e \in calls', d.handler.busy, d.handler = e.handler
        PROVE  d = e
    <3>1. CASE d = c /\ e # c
      BY <2>1, <2>2, <2>3, <3>1
    <3>2. CASE e = c /\ d # c
      <4>1. d \in calls /\ d.handler = h
        BY <2>1, <2>3, <3>2
      <4> QED BY <2>2, <2>3, <4>1
    <3>3. CASE d # c /\ e # c
      BY <2>1, <2>3, <3>3 DEF GuardHolds
    <3> QED BY <3>1, <3>2, <3>3
  <2> QED BY <2>3 DEF GuardHolds
<1>4. ASSUME NEW g \in gets, ServeLoad(g) \/ ShowLoad(g) \/ LoadFails(g)
      PROVE  GuardHolds'
  BY <1>1, <1>4 DEF ServeLoad, ShowLoad, LoadFails
<1>5. ASSUME NEW v \in 1..MaxRows, Turn(v)
      PROVE  GuardHolds'
  BY <1>1, <1>5 DEF Turn
<1>6. ASSUME NEW c \in calls, Store(c) \/ Refuse(c)
      PROVE  GuardHolds'
  BY <1>2, <1>6 DEF Store, Refuse, Moves
<1>7. ASSUME NEW c \in calls, Succeed(c)
      PROVE  GuardHolds'
  BY <1>1, <1>7 DEF Succeed
<1>8. ASSUME NEW c \in calls, NEW why, Caught(c, why)
      PROVE  GuardHolds'
  BY <1>1, <1>8 DEF Caught
<1> QED BY <1>3, <1>4, <1>5, <1>6, <1>7, <1>8 DEF Step, Fail, LoseAnswer, SecondFails

LEMMA NextFormsSent ==
  ASSUME TypeOK, GuardHolds, FormsSent, Step
  PROVE  FormsSent'
<1>1. ASSUME forms' = forms, \A d \in calls' : \E e \in calls : d.handler = e.handler /\ d.sends = e.sends
      PROVE  FormsSent'
  <2> SUFFICES ASSUME NEW d \in calls', d.handler.op = "add", NEW q \in d.sends
               PROVE  /\ q.mark = "off" /\ q.form.handler = {d.handler}
                      /\ d.handler.busy => q.form.fill = forms'[d.handler]
    BY DEF FormsSent
  <2>1. PICK e \in calls : d.handler = e.handler /\ d.sends = e.sends
    BY <1>1
  <2>2. e.handler.op = "add" /\ q \in e.sends
    BY <2>1
  <2>3. /\ q.mark = "off" /\ q.form.handler = {e.handler}
        /\ e.handler.busy => q.form.fill = forms[e.handler]
    BY <2>2 DEF FormsSent
  <2> QED BY <1>1, <2>1, <2>3
<1>2. ASSUME NEW h \in screen.handlers, NEW c, Clicks(h, c)
      PROVE  FormsSent'
  <2>1. /\ forms' = forms /\ calls' = calls \cup {c} /\ c.handler = h
        /\ h.op = "add" => c.sends = {Row(c.id, "off", [handler |-> {h}, fill |-> forms[h]])}
    BY <1>2 DEF Clicks
  <2> SUFFICES ASSUME NEW d \in calls', d.handler.op = "add", NEW q \in d.sends
               PROVE  /\ q.mark = "off" /\ q.form.handler = {d.handler}
                      /\ d.handler.busy => q.form.fill = forms'[d.handler]
    BY DEF FormsSent
  <2>2. CASE d = c
    <3>1. q = Row(c.id, "off", [handler |-> {h}, fill |-> forms[h]])
      BY <2>1, <2>2
    <3>2. q.mark = "off" /\ q.form.handler = {h} /\ q.form.fill = forms[h]
      BY <3>1 DEF Row
    <3> QED BY <2>1, <2>2, <3>2
  <2>3. CASE d # c
    <3>1. d \in calls
      BY <2>1, <2>3
    <3>2. /\ q.mark = "off" /\ q.form.handler = {d.handler}
          /\ d.handler.busy => q.form.fill = forms[d.handler]
      BY <3>1 DEF FormsSent
    <3> QED BY <2>1, <3>2
  <2> QED BY <2>2, <2>3
<1>3. ASSUME NEW c \in calls, Store(c) \/ Refuse(c)
      PROVE  FormsSent'
  <2>1. forms' = forms
    BY <1>3 DEF Store, Refuse
  <2>2. PICK st \in {"stored", "refused"} : Moves(c, st)
    BY <1>3 DEF Store, Refuse, Moves
  <2>3. \A d \in calls' : \E e \in calls : d.handler = e.handler /\ d.sends = e.sends
    BY <2>2, MovedCalls DEF SameCall
  <2> QED BY <1>1, <2>1, <2>3
\* The form that is cleared is in no other call.
<1>4. ASSUME NEW c \in calls, Succeed(c)
      PROVE  FormsSent'
  <2>1. /\ calls' = calls \ {c}
        /\ forms' = IF c.handler.op = "add" THEN [forms EXCEPT ![c.handler] = @ + 1] ELSE forms
    BY <1>4 DEF Succeed
  <2> SUFFICES ASSUME NEW d \in calls', d.handler.op = "add", NEW q \in d.sends
               PROVE  /\ q.mark = "off" /\ q.form.handler = {d.handler}
                      /\ d.handler.busy => q.form.fill = forms'[d.handler]
    BY DEF FormsSent
  <2>2. d \in calls /\ d # c
    BY <2>1
  <2>3. /\ q.mark = "off" /\ q.form.handler = {d.handler}
        /\ d.handler.busy => q.form.fill = forms[d.handler]
    BY <2>2 DEF FormsSent
  <2>4. d.handler \in Adders
    BY <2>2 DEF Adders, TypeOK, CallSet
  <2>5. d.handler.busy => d.handler # c.handler
    BY <2>2 DEF GuardHolds
  <2>6. d.handler # c.handler => forms'[d.handler] = forms[d.handler]
    BY <2>1, <2>4 DEF TypeOK
  <2> QED BY <2>3, <2>5, <2>6
<1>5. ASSUME NEW g \in gets, ServeLoad(g) \/ ShowLoad(g) \/ LoadFails(g)
      PROVE  FormsSent'
  BY <1>1, <1>5 DEF ServeLoad, ShowLoad, LoadFails
<1>6. ASSUME NEW v \in 1..MaxRows, Turn(v)
      PROVE  FormsSent'
  BY <1>1, <1>6 DEF Turn
<1>7. ASSUME NEW c \in calls, NEW why, Caught(c, why)
      PROVE  FormsSent'
  BY <1>1, <1>7 DEF Caught
<1> QED BY <1>2, <1>3, <1>4, <1>5, <1>6, <1>7 DEF Step, Fail, LoseAnswer, SecondFails

\* A stored row comes from a row that was there, or is the one its form is for.
LEMMA StoredRow ==
  ASSUME TypeOK, RowsSane, SendsSane, NEW c \in calls, Store(c), NEW r \in rows'
  PROVE  \/ \E p \in rows : p.id = r.id /\ p.form = r.form
         \/ c.handler.op = "add" /\ c.handler \in Adders /\ r \in c.sends /\ r.id = c.id
<1>1. /\ c \in CallSet /\ Unique(c.sends) /\ c.id \in IdsOf(c.sends)
      /\ rows' = Effect(c, rows) /\ rows \in SUBSET RowSet /\ Unique(rows)
      /\ ~c.handler.whole => IdsOf(c.sends) = {c.id}
  BY DEF Store, TypeOK, SendsSane, RowsSane
<1>2. c.handler.op \in {"add", "mark", "remove"} /\ c.handler \in screen.handlers /\ c.sends \in SUBSET RowSet
  BY <1>1, CallHandler
<1>3. CASE c.handler.op = "mark"
  BY <1>1, <1>2, <1>3, EffectMark
<1>4. CASE c.handler.op = "remove"
  BY <1>1, <1>4 DEF Effect
<1>5. CASE c.handler.op = "add"
  <2>1. rows' = rows \cup c.sends
    BY <1>1, <1>5 DEF Effect
  <2>2. IdsOf(c.sends) = {c.id}
    BY <1>1, <1>5, CallHandler
  <2> QED BY <1>2, <1>5, <2>1, <2>2 DEF IdsOf, Adders
<1> QED BY <1>2, <1>3, <1>4, <1>5

LEMMA NextFormsNamed ==
  ASSUME TypeOK, RowsSane, SendsSane, FormsSent, FormsNamed, Step
  PROVE  FormsNamed'
<1>1. Adders' = Adders
  BY StraysStay DEF Adders
<1>2. ASSUME NEW c \in calls, Store(c)
      PROVE  FormsNamed'
  <2> SUFFICES ASSUME NEW r \in rows'
               PROVE  r.form = NoForm \/ \E h \in Adders : r.form.handler = {h}
    BY <1>1 DEF FormsNamed
  <2>1. CASE \E p \in rows : p.id = r.id /\ p.form = r.form
    BY <2>1 DEF FormsNamed
  <2>2. CASE c.handler.op = "add" /\ c.handler \in Adders /\ r \in c.sends /\ r.id = c.id
    BY <2>2 DEF FormsSent
  <2> QED BY <1>2, <2>1, <2>2, StoredRow
<1>3. ASSUME rows' = rows
      PROVE  FormsNamed'
  BY <1>1, <1>3 DEF FormsNamed
<1>4. rows' = rows \/ \E c \in calls : Store(c)
  BY DEF Step, ServeLoad, ShowLoad, LoadFails, Turn, Clicks, Refuse, Succeed, Fail, LoseAnswer,
         SecondFails, Caught
<1> QED BY <1>2, <1>3, <1>4

\* No answer has been lost and no form half stored, before the step and after it.
NothingIsLost == {"answer lost", "half done"} \cap strays = {}

LEMMA NothingWasLost ==
  ASSUME Step, NothingIsLost'
  PROVE  NothingIsLost /\ \A c \in calls : ~LoseAnswer(c) /\ ~SecondFails(c)
<1>1. \A c \in calls : ~LoseAnswer(c) /\ ~SecondFails(c)
  BY DEF NothingIsLost, LoseAnswer, SecondFails, Caught
<1>2. NothingIsLost
  BY DEF NothingIsLost, Step, ServeLoad, ShowLoad, LoadFails, Turn, Clicks, Store, Refuse, Succeed, Fail, LoseAnswer,
         SecondFails, Caught
<1> QED BY <1>1, <1>2

LEMMA NextFormsCleared ==
  ASSUME TypeOK, RowsSane, SendsSane, FormsSent, FormsCleared, Step
  PROVE  FormsCleared'
<1> SUFFICES ASSUME NothingIsLost', NEW r \in rows', NEW h \in Adders, h.busy, r.form.handler = {h}
             PROVE  /\ r.form.fill <= forms'[h]
                    /\ r.form.fill = forms'[h] => \E c \in calls' : c.handler = h /\ c.state = "stored" /\ c.id = r.id
  <2>1. Adders' = Adders
    BY StraysStay DEF Adders
  <2> QED BY <2>1 DEF FormsCleared, NothingIsLost
<1>1. NothingIsLost /\ \A c \in calls : ~LoseAnswer(c) /\ ~SecondFails(c)
  BY NothingWasLost
<1>2. \A p \in rows : p.form.handler = {h} =>
        /\ p.form.fill <= forms[h] /\ p.form.fill \in Nat
        /\ p.form.fill = forms[h] => \E c \in calls : c.handler = h /\ c.state = "stored" /\ c.id = p.id
  BY <1>1 DEF FormsCleared, NothingIsLost, TypeOK, RowSet, Form
<1>3. forms[h] \in Nat
  BY DEF TypeOK
\* The stored calls wait on.
<1>4. ASSUME rows' = rows, forms' = forms, \A c \in calls : c.state = "stored" => c \in calls'
      PROVE  /\ r.form.fill <= forms'[h]
             /\ r.form.fill = forms'[h] => \E c \in calls' : c.handler = h /\ c.state = "stored" /\ c.id = r.id
  BY <1>2, <1>4
<1>5. ASSUME NEW k \in screen.handlers, NEW c, Clicks(k, c)
      PROVE  rows' = rows /\ forms' = forms /\ \A d \in calls : d.state = "stored" => d \in calls'
  BY <1>5 DEF Clicks
<1>6. ASSUME NEW g \in gets, ServeLoad(g) \/ ShowLoad(g) \/ LoadFails(g)
      PROVE  rows' = rows /\ forms' = forms /\ \A d \in calls : d.state = "stored" => d \in calls'
  BY <1>6 DEF ServeLoad, ShowLoad, LoadFails
<1>7. ASSUME NEW v \in 1..MaxRows, Turn(v)
      PROVE  rows' = rows /\ forms' = forms /\ \A d \in calls : d.state = "stored" => d \in calls'
  BY <1>7 DEF Turn
<1>8. ASSUME NEW c \in calls, Refuse(c) \/ Fail(c)
      PROVE  rows' = rows /\ forms' = forms /\ \A d \in calls : d.state = "stored" => d \in calls'
  BY <1>8 DEF Refuse, Fail, Caught
<1>9. ASSUME NEW c \in calls, Store(c)
      PROVE  /\ r.form.fill <= forms'[h]
             /\ r.form.fill = forms'[h] => \E d \in calls' : d.handler = h /\ d.state = "stored" /\ d.id = r.id
  <2>1. forms' = forms /\ c.state = "sent"
    BY <1>9 DEF Store
  <2>2. /\ \A d \in calls : d # c => d \in calls'
        /\ \E d \in calls' : d.state = "stored" /\ d.handler = c.handler /\ d.id = c.id
    BY <1>9, MovedCalls DEF Store, Moves, SameCall
  <2>3. CASE \E p \in rows : p.id = r.id /\ p.form = r.form
    <3>1. PICK p \in rows : p.id = r.id /\ p.form = r.form
      BY <2>3
    <3>2. /\ p.form.fill <= forms[h]
          /\ p.form.fill = forms[h] => \E d \in calls : d.handler = h /\ d.state = "stored" /\ d.id = p.id
      BY <1>2, <3>1
    <3>3. p.form.fill = forms[h] => \E d \in calls' : d.handler = h /\ d.state = "stored" /\ d.id = p.id
      BY <2>1, <2>2, <3>2
    <3> QED BY <2>1, <3>1, <3>2, <3>3
  <2>4. CASE c.handler.op = "add" /\ r \in c.sends /\ r.id = c.id
    <3>1. r.form.handler = {c.handler} /\ (c.handler.busy => r.form.fill = forms[c.handler])
      BY <2>4 DEF FormsSent
    <3>2. c.handler = h
      BY <3>1
    <3>3. r.form.fill = forms[h]
      BY <3>1, <3>2
    <3> QED BY <1>3, <2>1, <2>2, <2>4, <3>2, <3>3
  <2> QED BY <1>9, <2>3, <2>4, StoredRow
<1>10. ASSUME NEW c \in calls, Succeed(c)
       PROVE  /\ r.form.fill <= forms'[h]
              /\ r.form.fill = forms'[h] => \E d \in calls' : d.handler = h /\ d.state = "stored" /\ d.id = r.id
  <2>1. /\ rows' = rows /\ calls' = calls \ {c}
        /\ forms' = IF c.handler.op = "add" THEN [forms EXCEPT ![c.handler] = @ + 1] ELSE forms
    BY <1>10 DEF Succeed
  <2>2. /\ r.form.fill <= forms[h] /\ r.form.fill \in Nat
        /\ r.form.fill = forms[h] => \E d \in calls : d.handler = h /\ d.state = "stored" /\ d.id = r.id
    BY <1>2, <2>1
  <2>3. CASE h = c.handler
    <3>1. forms'[h] = forms[h] + 1
      BY <2>1, <2>3 DEF TypeOK, Adders
    <3> QED BY <1>3, <2>2, <3>1
  <2>4. CASE h # c.handler
    <3>1. forms'[h] = forms[h]
      BY <2>1, <2>4 DEF TypeOK
    <3> QED BY <2>1, <2>2, <2>4, <3>1
  <2> QED BY <2>3, <2>4
<1> QED BY <1>1, <1>4, <1>5, <1>6, <1>7, <1>8, <1>9, <1>10 DEF Step

LEMMA NextFormStoredOnce ==
  ASSUME TypeOK, RowsSane, SendsSane, FormsSane, FormStoredOnce, RowsSane', Step
  PROVE  FormStoredOnce'
<1>1. ASSUME NothingIsLost', rows' = rows
      PROVE  FormStoredOnce'
  <2>1. NothingIsLost
    BY <1>1, NothingWasLost
  <2> QED BY <1>1, <2>1 DEF FormStoredOnce, NothingIsLost
\* A second row of the form would be another guarded call's, or be stored before.
<1>2. ASSUME NothingIsLost', NEW c \in calls, Store(c)
      PROVE  FormStoredOnce'
  <2>1. NothingIsLost /\ c.state = "sent"
    BY <1>2, NothingWasLost DEF Store
  <2>2. ASSUME NEW h \in Adders, h.busy, NEW s \in rows, NEW t \in c.sends, c.handler.op = "add",
               s.form = t.form, t.form.handler = {h}
        PROVE  FALSE
    <3>1. t.form.handler = {c.handler} /\ (c.handler.busy => t.form.fill = forms[c.handler])
      BY <2>2 DEF FormsSane, FormsSent
    <3>2. c.handler = h
      BY <2>2, <3>1
    <3>3. s.form.handler = {h} /\ s.form.fill = forms[h]
      BY <2>2, <3>1, <3>2
    <3>4. PICK d \in calls : d.handler = h /\ d.state = "stored"
      BY <2>1, <2>2, <3>3 DEF FormsSane, FormsCleared, NothingIsLost
    <3>5. d = c
      BY <2>2, <3>2, <3>4 DEF FormsSane, GuardHolds
    <3> QED BY <2>1, <3>4, <3>5
  <2>3. ASSUME NEW q \in rows', NEW r \in rows', q.form = r.form, q.form # NoForm,
               \A h \in q.form.handler : h.busy
        PROVE  q.id = r.id
    <3>1. PICK h \in Adders : q.form.handler = {h} /\ h.busy
      <4>1. FormsNamed' /\ Adders' = Adders
        BY NextFormsNamed, StraysStay DEF FormsSane, Adders
      <4>2. PICK h \in Adders : q.form.handler = {h}
        BY <2>3, <4>1 DEF FormsNamed
      <4> QED BY <2>3, <4>2
    <3>2. CASE /\ \E p \in rows : p.id = q.id /\ p.form = q.form
               /\ \E s \in rows : s.id = r.id /\ s.form = r.form
      <4>1. PICK p \in rows : p.id = q.id /\ p.form = q.form
        BY <3>2
      <4>2. PICK s \in rows : s.id = r.id /\ s.form = r.form
        BY <3>2
      <4>3. p = s
        BY <2>1, <2>3, <4>1, <4>2 DEF FormStoredOnce, NothingIsLost
      <4> QED BY <4>1, <4>2, <4>3
    <3>3. CASE /\ \E p \in rows : p.id = q.id /\ p.form = q.form
               /\ c.handler.op = "add" /\ r \in c.sends
      BY <2>2, <2>3, <3>1, <3>3
    <3>4. CASE /\ \E s \in rows : s.id = r.id /\ s.form = r.form
               /\ c.handler.op = "add" /\ q \in c.sends
      BY <2>2, <2>3, <3>1, <3>4
    <3>5. CASE q.id = c.id /\ r.id = c.id
      BY <3>5
    <3> QED BY <1>2, <3>2, <3>3, <3>4, <3>5, StoredRow
  <2>4. ASSUME NEW q \in rows', NEW r \in rows', q.id = r.id PROVE q = r
    BY <2>4 DEF RowsSane, Unique
  <2> QED BY <2>3, <2>4 DEF FormStoredOnce
<1>3. ASSUME ~NothingIsLost'
      PROVE  FormStoredOnce'
  BY <1>3 DEF FormStoredOnce, NothingIsLost
<1>4. rows' = rows \/ \E c \in calls : Store(c)
  BY DEF Step, ServeLoad, ShowLoad, LoadFails, Turn, Clicks, Refuse, Succeed, Fail, LoseAnswer,
         SecondFails, Caught
<1> QED BY <1>1, <1>2, <1>3, <1>4

\* No two calls have met on a row, no old list was sent, no answer was lost.
Apart   == "same row" \notin strays
Trusted == {"same row", "old list", "answer lost"} \cap strays = {}

LEMMA TrustedBefore ==
  ASSUME Step
  PROVE  /\ Apart' => Apart
         /\ Trusted' => Trusted /\ Apart /\ \A c \in calls : ~LoseAnswer(c)
<1>1. Apart' => Apart
  BY DEF Apart, Step, ServeLoad, ShowLoad, LoadFails, Turn, Clicks, Store, Refuse, Succeed, Fail, LoseAnswer,
         SecondFails, Caught
<1>2. Trusted' => Trusted
  BY DEF Trusted, Step, ServeLoad, ShowLoad, LoadFails, Turn, Clicks, Store, Refuse, Succeed, Fail, LoseAnswer,
         SecondFails, Caught
<1>3. Trusted' => \A c \in calls : ~LoseAnswer(c)
  BY DEF Trusted, LoseAnswer, Caught
<1>4. Trusted => Apart
  BY DEF Trusted, Apart
<1> QED BY <1>1, <1>2, <1>3, <1>4

\* Nothing is asked of a row before its call succeeds, and of none that is not made.
NewUnasked   == Apart => \A c \in calls : c.handler.op = "add" => asked[c.id] = "nothing"
AskedIsMade  == \A i \in Ids : asked[i] # "nothing" => i <= made
AskedIsThere == Trusted => \A i \in Ids : asked[i] # "nothing" =>
                  Kept(i, asked[i]) \/ \E c \in calls : c.state = "stored" /\ c.id = i

LEMMA AskedParts == AskedIsKept <=> NewUnasked /\ AskedIsMade /\ AskedIsThere
BY DEF AskedIsKept, NewUnasked, AskedIsMade, AskedIsThere, Apart, Trusted

LEMMA NextAskedIsMade ==
  ASSUME TypeOK, NewRowsSane, AskedIsMade, Step
  PROVE  AskedIsMade'
<1>1. made \in Nat /\ made' \in Nat /\ made <= made'
  <2>1. made' = made \/ \E h \in screen.handlers : \E c : Clicks(h, c)
    BY DEF Step, ServeLoad, ShowLoad, LoadFails, Turn, Store, Refuse, Succeed, Fail,
           LoseAnswer, SecondFails, Caught
  <2>2. made' = made \/ made' = made + 1
    BY <2>1 DEF Clicks
  <2>3. made \in Nat
    BY DEF TypeOK
  <2> QED BY <2>2, <2>3
<1>2. \A i \in Ids : i \in Nat
  BY DEF Ids
<1>3. CASE asked' = asked
  BY <1>1, <1>2, <1>3 DEF AskedIsMade
<1>4. ASSUME NEW c \in calls, Succeed(c)
      PROVE  AskedIsMade'
  <2>1. asked' = [asked EXCEPT ![c.id] = Wanted(c)] /\ c.id <= made /\ made' = made
    BY <1>4 DEF Succeed, NewRowsSane
  <2>2. \A i \in Ids : i # c.id => asked'[i] = asked[i]
    BY <2>1 DEF TypeOK
  <2> QED BY <2>1, <2>2 DEF AskedIsMade
<1>5. asked' = asked \/ \E c \in calls : Succeed(c)
  BY DEF Step, ServeLoad, ShowLoad, LoadFails, Turn, Clicks, Store, Refuse, Fail, LoseAnswer,
         SecondFails, Caught
<1> QED BY <1>3, <1>4, <1>5

LEMMA NextNewUnasked ==
  ASSUME TypeOK, OneCallPerRow, NewUnasked, AskedIsMade, Step
  PROVE  NewUnasked'
<1> SUFFICES ASSUME Apart', NEW d \in calls', d.handler.op = "add"
             PROVE  asked'[d.id] = "nothing"
  BY DEF NewUnasked
<1>1. Apart
  BY TrustedBefore
<1>2. \A c \in calls : c.handler.op = "add" => asked[c.id] = "nothing"
  BY <1>1 DEF NewUnasked
<1>3. CASE asked' = asked /\ \E c \in calls : d.handler = c.handler /\ d.id = c.id
  BY <1>2, <1>3
<1>4. ASSUME NEW h \in screen.handlers, NEW c, Clicks(h, c)
      PROVE  asked'[d.id] = "nothing"
  <2>1. /\ asked' = asked /\ calls' = calls \cup {c} /\ c.handler = h
        /\ h.op = "add" => made' = made + 1 /\ c.id = made'
    BY <1>4 DEF Clicks
  <2>2. CASE d = c
    <3>1. c.id = made + 1 /\ c.id \in Ids
      <4>1. c \in CallSet
        BY <1>4 DEF Clicks
      <4> QED BY <2>1, <2>2, <4>1 DEF CallSet
    <3>2. ~(c.id <= made)
      <4>1. made \in Nat
        BY DEF TypeOK
      <4> QED BY <3>1, <4>1
    <3> QED BY <2>1, <2>2, <3>1, <3>2 DEF AskedIsMade
  <2> QED BY <1>2, <2>1, <2>2
<1>5. ASSUME NEW c \in calls, Store(c) \/ Refuse(c)
      PROVE  asked'[d.id] = "nothing"
  <2>1. asked' = asked
    BY <1>5 DEF Store, Refuse
  <2>2. PICK st \in {"stored", "refused"} : Moves(c, st)
    BY <1>5 DEF Store, Refuse, Moves
  <2>3. \A b \in calls' : \E e \in calls : b.handler = e.handler /\ b.id = e.id
    BY <2>2, MovedCalls DEF SameCall
  <2> QED BY <1>3, <2>1, <2>3
<1>6. ASSUME NEW c \in calls, Succeed(c)
      PROVE  asked'[d.id] = "nothing"
  <2>1. asked' = [asked EXCEPT ![c.id] = Wanted(c)] /\ calls' = calls \ {c}
    BY <1>6 DEF Succeed
  <2>2. d \in calls /\ d.id \in Ids /\ d.id # c.id
    BY <1>1, <2>1 DEF OneCallPerRow, Apart, TypeOK, CallSet
  <2> QED BY <1>2, <2>1, <2>2 DEF TypeOK
<1>7. ASSUME NEW g \in gets, ServeLoad(g) \/ ShowLoad(g) \/ LoadFails(g)
      PROVE  asked'[d.id] = "nothing"
  BY <1>3, <1>7 DEF ServeLoad, ShowLoad, LoadFails
<1>8. ASSUME NEW v \in 1..MaxRows, Turn(v)
      PROVE  asked'[d.id] = "nothing"
  BY <1>3, <1>8 DEF Turn
<1>9. ASSUME NEW c \in calls, NEW why, Caught(c, why)
      PROVE  asked'[d.id] = "nothing"
  BY <1>3, <1>9 DEF Caught
<1> QED BY <1>4, <1>5, <1>6, <1>7, <1>8, <1>9 DEF Step, Fail, LoseAnswer, SecondFails

LEMMA NextAskedIsThere ==
  ASSUME TypeOK, RowsSane, SendsSane, WholeSane, StoredIsKept, NewUnasked, AskedIsThere, Step
  PROVE  AskedIsThere'
<1> SUFFICES ASSUME Trusted', NEW i \in Ids, asked'[i] # "nothing"
             PROVE  Kept(i, asked[i])' \/ \E c \in calls' : c.state = "stored" /\ c.id = i
  BY DEF AskedIsThere
<1>1. Trusted /\ Apart /\ \A c \in calls : ~LoseAnswer(c)
  BY TrustedBefore
<1>2. asked[i] # "nothing" => Kept(i, asked[i]) \/ \E c \in calls : c.state = "stored" /\ c.id = i
  BY <1>1 DEF AskedIsThere
\* What is there stays, and the stored calls wait on.
<1>3. ASSUME rows' = rows, asked' = asked, \A c \in calls : c.state = "stored" => c \in calls'
      PROVE  Kept(i, asked[i])' \/ \E c \in calls' : c.state = "stored" /\ c.id = i
  BY <1>2, <1>3 DEF Kept
<1>4. ASSUME NEW h \in screen.handlers, NEW c, Clicks(h, c)
      PROVE  rows' = rows /\ asked' = asked /\ \A d \in calls : d.state = "stored" => d \in calls'
  BY <1>4 DEF Clicks
<1>5. ASSUME NEW g \in gets, ServeLoad(g) \/ ShowLoad(g) \/ LoadFails(g)
      PROVE  rows' = rows /\ asked' = asked /\ \A d \in calls : d.state = "stored" => d \in calls'
  BY <1>5 DEF ServeLoad, ShowLoad, LoadFails
<1>6. ASSUME NEW v \in 1..MaxRows, Turn(v)
      PROVE  rows' = rows /\ asked' = asked /\ \A d \in calls : d.state = "stored" => d \in calls'
  BY <1>6 DEF Turn
<1>7. ASSUME NEW c \in calls, Refuse(c) \/ Fail(c)
      PROVE  rows' = rows /\ asked' = asked /\ \A d \in calls : d.state = "stored" => d \in calls'
  BY <1>7 DEF Refuse, Fail, Caught
<1>8. ASSUME NEW c \in calls, Store(c)
      PROVE  Kept(i, asked[i])' \/ \E d \in calls' : d.state = "stored" /\ d.id = i
  <2>1. asked' = asked /\ c.state = "sent"
    BY <1>8 DEF Store
  <2>2. /\ \A d \in calls : d # c => d \in calls'
        /\ \E d \in calls' : d.state = "stored" /\ d.id = c.id
    BY <1>8, MovedCalls DEF Store, Moves, SameCall
  <2>3. CASE i = c.id
    BY <2>2, <2>3
  <2>4. CASE i # c.id
    <3>1. \A r : r.id # c.id => (r \in rows' <=> r \in rows)
      BY <1>1, <1>8, StoreElsewhere DEF Trusted
    <3>2. Kept(i, asked[i]) => Kept(i, asked[i])'
      BY <2>1, <2>4, <3>1 DEF Kept, IdsOf
    <3> QED BY <1>2, <2>1, <2>2, <3>2
  <2> QED BY <2>3, <2>4
<1>9. ASSUME NEW c \in calls, Succeed(c)
      PROVE  Kept(i, asked[i])' \/ \E d \in calls' : d.state = "stored" /\ d.id = i
  <2>1. /\ asked' = [asked EXCEPT ![c.id] = Wanted(c)] /\ calls' = calls \ {c} /\ rows' = rows
        /\ c.state = "stored" /\ c.id \in Ids
    BY <1>9 DEF Succeed, TypeOK, CallSet
  <2>2. CASE i = c.id
    <3>1. asked'[i] = Wanted(c)
      BY <2>1, <2>2 DEF TypeOK
    <3>2. {"same row", "old list"} \cap strays = {}
      BY <1>1 DEF Trusted
    <3>3. Kept(c.id, Wanted(c))
      BY <2>1, <3>2 DEF StoredIsKept
    <3> QED BY <2>1, <2>2, <3>1, <3>3 DEF Kept
  <2>3. CASE i # c.id
    <3>1. asked'[i] = asked[i]
      BY <2>1, <2>3 DEF TypeOK
    <3> QED BY <1>2, <2>1, <2>3, <3>1 DEF Kept
  <2> QED BY <2>2, <2>3
\* Only a form has a second request: of its row nothing was asked yet.
<1>10. ASSUME NEW c \in calls, SecondFails(c)
       PROVE  Kept(i, asked[i])' \/ \E d \in calls' : d.state = "stored" /\ d.id = i
  <2>1. asked' = asked /\ rows' = rows /\ calls' = calls \ {c} /\ c.handler.second
    BY <1>10 DEF SecondFails, Caught
  <2>2. c.handler.op = "add"
    BY <2>1 DEF TypeOK, CallSet, ProperScreen, ProperHandler
  <2>3. i # c.id
    BY <1>1, <2>1, <2>2 DEF NewUnasked
  <2> QED BY <1>2, <2>1, <2>3 DEF Kept
<1> QED BY <1>1, <1>3, <1>4, <1>5, <1>6, <1>7, <1>8, <1>9, <1>10 DEF Step

-----------------------------------------------------------------------------
(* The theorems.                                                               *)

LEMMA InductiveInvariant == Spec => []IInv
<1>1. Init => IInv
  BY InitIInv
<1>2. IInv /\ [Next]_vars => IInv'
  <2> SUFFICES ASSUME IInv, [Next]_vars
               PROVE  IInv'
    OBVIOUS
  <2>1. CASE Next
    <3>1. Step
      BY <2>1, NextStep DEF IInv
    <3>2. TypeOK' /\ RowsSane' /\ NewRowsSane' /\ SendsSane'
      BY <3>1, NextTypeOK, NextRowsSane, NextNewRowsSane, NextSendsSane DEF IInv
    <3>3. LoadsSane' /\ LateAnswersDropped' /\ BehindSane' /\ OneCallPerRow'
      BY <3>1, NextLoadsSane, NextBehindSane, NextOneCallPerRow DEF IInv
    <3>4. WholeSane' /\ StoredIsKept' /\ RestoreSane' /\ UpToDate'
      BY <3>1, NextWholeSane, NextStoredIsKept, NextRestoreSane, NextUpToDate DEF IInv
    <3>5. FormsSane' /\ FormStoredOnce'
      <4>1. GuardHolds' /\ FormsSent' /\ FormsNamed' /\ FormsCleared'
        BY <3>1, NextGuardHolds, NextFormsSent, NextFormsNamed, NextFormsCleared DEF IInv, FormsSane
      <4>2. FormStoredOnce'
        BY <3>1, <3>2, NextFormStoredOnce DEF IInv
      <4> QED BY <4>1, <4>2 DEF FormsSane
    <3>6. AskedIsKept'
      <4>1. NewUnasked' /\ AskedIsMade' /\ AskedIsThere'
        BY <3>1, AskedParts, NextNewUnasked, NextAskedIsMade, NextAskedIsThere DEF IInv
      <4> QED BY <4>1, AskedParts DEF AskedIsKept, NewUnasked, AskedIsMade, AskedIsThere, Apart, Trusted
    <3> QED BY <3>2, <3>3, <3>4, <3>5, <3>6 DEF IInv
  <2>2. CASE UNCHANGED vars
    <3>1. TypeOK'
      BY <2>2 DEF vars, IInv, TypeOK, ProperScreen, LoadSet, CallSet, Adders
    <3>2. RowsSane' /\ NewRowsSane' /\ SendsSane' /\ LoadsSane' /\ BehindSane' /\ OneCallPerRow' /\ WholeSane'
      BY <2>2 DEF vars, IInv, RowsSane, NewRowsSane, Known, Pending, SendsSane, LoadsSane, BehindSane,
                  OneCallPerRow, WholeSane
    <3>3. StoredIsKept' /\ RestoreSane'
      BY <2>2 DEF vars, IInv, StoredIsKept, Kept, RestoreSane
    <3>4. UpToDate'
      <4>1. InView(view, rows)' = InView(view, rows)
        BY <2>2, ViewStays DEF vars
      <4>2. \A i : Unsettled(i)' <=> Unsettled(i)
        BY <2>2 DEF vars, Unsettled
      <4>3. Agrees' <=> Agrees
        BY <2>2, <4>1, <4>2 DEF vars, Agrees
      <4>4. (WillLoad' <=> WillLoad) /\ (OnItsWay' <=> OnItsWay)
        BY <2>2 DEF vars, WillLoad, OnItsWay
      <4> QED BY <2>2, <4>3, <4>4 DEF vars, IInv, UpToDate
    <3>5. FormsSane' /\ FormStoredOnce'
      <4>1. GuardHolds' /\ FormsSent'
        BY <2>2 DEF vars, IInv, FormsSane, GuardHolds, FormsSent
      <4>2. /\ FormsNamed /\ FormsCleared /\ Adders' = Adders
            /\ UNCHANGED <<rows, calls, forms, strays>>
        BY <2>2 DEF vars, IInv, FormsSane, Adders
      <4>3. FormsNamed'
        BY <4>2 DEF FormsNamed
      <4>4. FormsCleared'
        BY <4>2 DEF FormsCleared
      <4>5. FormStoredOnce'
        BY <2>2 DEF vars, IInv, FormStoredOnce
      <4> QED BY <4>1, <4>3, <4>4, <4>5 DEF FormsSane
    <3>6. AskedIsKept' /\ LateAnswersDropped'
      BY <2>2 DEF vars, IInv, AskedIsKept, Kept, LateAnswersDropped
    <3> QED BY <3>1, <3>2, <3>3, <3>4, <3>5, <3>6 DEF IInv
  <2> QED BY <2>1, <2>2
<1> QED BY <1>1, <1>2, PTL DEF Spec

\* Every screen keeps its rows, its loads and its calls of their types.
THEOREM TypeCorrect == Spec => []TypeOK
<1>1. IInv => TypeOK
  BY DEF IInv
<1> QED BY <1>1, InductiveInvariant, PTL

\* On every screen: with nothing in flight and nothing in the way, the list on
\* the screen is the API's, whatever order the calls and the loads came in; and
\* a screen that drops its earlier loads shows none of them.
THEOREM ScreensAreTrue == Spec => []QuietScreenIsTrue
<1>1. ASSUME IInv
      PROVE  QuietScreenIsTrue
  <2>1. ASSUME Quiet, strays \subseteq {"old list"}
        PROVE  shown = InView(view, rows)
    <3>1. Agrees /\ \A i : ~Unsettled(i)
      BY <1>1, <2>1 DEF IInv, UpToDate, WillLoad, OnItsWay, Quiet, Unsettled
    <3>2. \A q \in InView(view, rows) : q \in rows
      BY <1>1, ViewPart DEF IInv, TypeOK
    <3>3. ASSUME NEW r \in shown PROVE r \in InView(view, rows)
      <4>1. PICK q \in InView(view, rows) : q.id = r.id /\ q.form = r.form /\ q.mark = r.mark
        BY <3>1 DEF Agrees
      <4>2. q \in RowSet /\ r \in RowSet
        BY <1>1, <3>2 DEF IInv, TypeOK
      <4> QED BY <4>1, <4>2, SameRow
    <3>4. ASSUME NEW q \in InView(view, rows) PROVE q \in shown
      <4>1. PICK r \in shown : r.id = q.id
        BY <3>1 DEF Agrees
      <4>2. r \in InView(view, rows)
        BY <3>3
      <4>3. r = q
        BY <1>1, <3>2, <4>1, <4>2 DEF IInv, RowsSane, Unique
      <4> QED BY <4>3
    <3> QED BY <3>3, <3>4
  <2> QED BY <1>1, <2>1 DEF IInv, QuietScreenIsTrue, ShowsItsView
<1> QED BY <1>1, InductiveInvariant, PTL

\* On every screen: a guarded form is stored as one row, and what a click that
\* succeeded asked of a row stays until the next click on it.
THEOREM ClicksCount == Spec => []EveryClickCountsOnce
<1>1. ASSUME IInv
      PROVE  EveryClickCountsOnce
  <2>1. ASSUME NEW i \in Ids, asked[i] # "nothing", \A c \in calls : i \notin IdsOf(c.sends), Trusted
        PROVE  Kept(i, asked[i])
    <3>1. Kept(i, asked[i]) \/ \E c \in calls : c.state = "stored" /\ c.id = i
      BY <1>1, <2>1, AskedParts DEF IInv, AskedIsThere
    <3>2. \A c \in calls : c.id # i
      BY <1>1, <2>1 DEF IInv, SendsSane
    <3> QED BY <3>1, <3>2
  <2>2. ClickKept
    BY <2>1 DEF ClickKept, Kept, Trusted
  <2> QED BY <1>1, <2>2 DEF IInv, EveryClickCountsOnce
<1> QED BY <1>1, InductiveInvariant, PTL

-----------------------------------------------------------------------------
(* The controls of the screens. First the tables, by their entries: the        *)
(* provers see through a record of names only one field at a time.             *)

LEMMA StatusNames ==
  /\ SetStatus["open"] = "reopen" /\ SetStatus["in_progress"] = "begin"
  /\ SetStatus["done"] = "finish" /\ SetStatus["cancelled"] = "call off"
BY DEF SetStatus

LEMMA StatusOpsNamed == StatusOps = {"reopen", "begin", "finish", "call off"}
<1>1. \A x : x \in StatusOps <=> x \in {"reopen", "begin", "finish", "call off"}
  BY StatusNames DEF StatusOps, TaskStatus
<1> QED BY <1>1

LEMMA MarkNames ==
  /\ DOMAIN MarkAs = {"sent", "paid", "overdue", "cancelled"}
  /\ MarkAs["sent"] = "send" /\ MarkAs["paid"] = "mark paid"
  /\ MarkAs["overdue"] = "mark overdue" /\ MarkAs["cancelled"] = "cancel invoice"
BY DEF MarkAs

LEMMA MarkOpsNamed ==
  {MarkAs[s] : s \in DOMAIN MarkAs} = {"send", "mark paid", "mark overdue", "cancel invoice"}
<1>1. \A x : x \in {MarkAs[s] : s \in DOMAIN MarkAs}
               <=> x \in {"send", "mark paid", "mark overdue", "cancel invoice"}
  BY MarkNames
<1> QED BY <1>1

LEMMA MarkedNamed ==
  /\ Marked("send") = {"sent"} /\ Marked("mark paid") = {"paid"}
  /\ Marked("mark overdue") = {"overdue"} /\ Marked("cancel invoice") = {"cancelled"}
  /\ \A op : op \notin {"send", "mark paid", "mark overdue", "cancel invoice"} => Marked(op) = {}
<1>1. \A op : \A x : x \in Marked(op) <=> x \in {"sent", "paid", "overdue", "cancelled"} /\ MarkAs[x] = op
  BY MarkNames DEF Marked
<1>2. \A x : x \in Marked("send") <=> x = "sent"
  BY <1>1, MarkNames
<1>3. \A x : x \in Marked("mark paid") <=> x = "paid"
  BY <1>1, MarkNames
<1>4. \A x : x \in Marked("mark overdue") <=> x = "overdue"
  BY <1>1, MarkNames
<1>5. \A x : x \in Marked("cancel invoice") <=> x = "cancelled"
  BY <1>1, MarkNames
<1>6. ASSUME NEW op, op \notin {"send", "mark paid", "mark overdue", "cancel invoice"}
      PROVE  \A x : x \notin Marked(op)
  BY <1>1, <1>6, MarkNames
<1> QED BY <1>2, <1>3, <1>4, <1>5, <1>6

LEMMA BuyNames ==
  DOMAIN Buy = {"pro", "lifetime"} /\ Buy["pro"] = "buy pro" /\ Buy["lifetime"] = "buy lifetime"
BY DEF Buy

LEMMA RoleNames ==
  /\ DOMAIN MakeRole = {"owner", "admin"}
  /\ MakeRole["owner"] = "make owner" /\ MakeRole["admin"] = "make admin"
BY DEF MakeRole

LEMMA Transitions ==
  /\ STATUS_TRANSITIONS["draft"] = {"sent"} /\ STATUS_TRANSITIONS["sent"] = {"paid", "overdue", "cancelled"}
  /\ STATUS_TRANSITIONS["overdue"] = {"paid", "cancelled"}
  /\ STATUS_TRANSITIONS["paid"] = {} /\ STATUS_TRANSITIONS["cancelled"] = {}
  /\ allowedTransitions = STATUS_TRANSITIONS
BY DEF STATUS_TRANSITIONS, allowedTransitions

-----------------------------------------------------------------------------
(* What an up-to-date screen offers is accepted, or refused as named: one       *)
(* lemma for each kind of row.                                                 *)

LEMMA FileKept ==
  ASSUME NEW f \in File, NEW v \in Viewers \ {"preview"}, NEW op \in FileOffers(v, f)
  PROVE  FileAccepts(v, op, f) <=> op \notin FileRefusals(f)
BY DEF File, FileOffers, FileAccepts, FileRefusals, FileCardActions, PortalFile, EditFileForm, When,
       DocumentRouteOpen, StaffRoutes, CreationRoutes, SendingRoutes, EditingRoutes, LinkRoutes,
       ReadingRoutes, FileStaffRoutes, FileReadRoutes, GuestRoutes, PreviewRefuses, HasProjectAccess,
       Viewers, Sessions, Staff, Clients

\* A document on the dashboard, by the part of its card that offers it.
LEMMA DocumentKeptStaff ==
  ASSUME NEW d \in Document, DocumentSane(d), NEW v \in Staff,
         NEW op \in DashboardDocument(v, d)
  PROVE  DocumentAccepts(v, op, d) <=> op \notin DocumentRefusals(v, d)
<1> USE DEF Document, DocumentSane, DocumentAccepts, DocumentRefusals, Unanswered, When,
       DocumentRouteOpen, StaffRoutes, CreationRoutes, SendingRoutes, EditingRoutes, LinkRoutes,
       ReadingRoutes, FileStaffRoutes, FileReadRoutes, GuestRoutes, PreviewRefuses, HasProjectAccess,
       Viewers, Sessions, Staff, Clients, Statuses, RespondBlocked, RespondAccepts, SignAccepts, LinkAccepts,
       Assigned, TimePasses, AssignOps, CertificateAccepts, Signatory, LinkOpens, SigningSends, SigningInfoNames
<1>1. CASE op \in CardActions(v, d)
  <2>1. op \in {"send", "sign", "certificate", "place sign", "place select"}
    BY <1>1 DEF CardActions, PlacerForm
  <2>2. CASE op = "send"
    BY <1>1, <2>2 DEF CardActions, PlacerForm
  <2>3. CASE op = "sign"
    BY <1>1, <2>3 DEF CardActions, PlacerForm
  <2>4. CASE op = "certificate"
    BY <1>1, <2>4 DEF CardActions, PlacerForm
  <2>5. CASE op = "place sign"
    BY <1>1, <2>5 DEF CardActions, PlacerForm
  <2>6. CASE op = "place select"
    BY <1>1, <2>6 DEF CardActions, PlacerForm
  <2> QED BY <2>1, <2>2, <2>3, <2>4, <2>5, <2>6
<1>2. CASE op \in CardVersionActions(d)
  BY <1>2 DEF CardVersionActions, VoidForm
<1>3. CASE op \in EarlierVersionActions(d)
  BY <1>3 DEF EarlierVersionActions
<1>4. CASE op \in LinkActions(d)
  BY <1>4 DEF LinkActions
<1>5. CASE op \in FileCardActions(d.archived) \ EditFileForm
  BY <1>5 DEF FileCardActions, EditFileForm
<1> QED BY <1>1, <1>2, <1>3, <1>4, <1>5 DEF DashboardDocument

LEMMA DocumentKept ==
  ASSUME NEW d \in Document, DocumentSane(d), NEW v \in Viewers \ {"preview"},
         NEW op \in DocumentOffers(v, d)
  PROVE  DocumentAccepts(v, op, d) <=> op \notin DocumentRefusals(v, d)
<1>1. CASE v \in Staff
  BY <1>1, DocumentKeptStaff DEF DocumentOffers, Staff, Clients
<1> USE DEF Document, DocumentSane, DocumentOffers, DocumentAccepts, DocumentRefusals, Unanswered, When,
       DocumentRouteOpen, StaffRoutes, CreationRoutes, SendingRoutes, EditingRoutes, LinkRoutes,
       ReadingRoutes, FileStaffRoutes, FileReadRoutes, GuestRoutes, PreviewRefuses, HasProjectAccess,
       Viewers, Sessions, Staff, Clients, Statuses, RespondBlocked, RespondAccepts, SignAccepts, LinkAccepts,
       Assigned, TimePasses, AssignOps, CertificateAccepts, Signatory, LinkOpens, SigningSends, SigningInfoNames
<1>2. CASE v \in Clients
  <2>1. op \in PortalDocument(v, d) /\ PreviewAs[v] = v
    BY <1>2 DEF PreviewAs
  <2>2. op \in {"accept", "decline", "choose", "sign", "certificate", "open file"}
    BY <1>2, <2>1 DEF PortalDocument, PortalApprovalActions, PortalChoiceActions, DocumentViewerActions
  <2>3. CASE op \in {"accept", "decline"}
    <3>1. d.wants = "approval"
      BY <2>1, <2>3 DEF PortalDocument, PortalApprovalActions, PortalChoiceActions, DocumentViewerActions
    <3> QED BY <1>2, <2>3, <3>1
  <2>4. CASE op = "choose"
    BY <1>2, <2>4
  <2>5. CASE op = "sign"
    <3>1. d.status \notin {"draft", "voided", "expired"} /\ d.signer # v /\ d.fields = "sign"
      BY <1>2, <2>1, <2>5 DEF PortalDocument, PortalApprovalActions, PortalChoiceActions,
                              DocumentViewerActions, ReadOnly
    <3> QED BY <1>2, <2>5, <3>1
  <2>6. CASE op = "certificate"
    BY <1>2, <2>1, <2>6 DEF PortalDocument, PortalApprovalActions, PortalChoiceActions, DocumentViewerActions
  <2>7. CASE op = "open file"
    BY <1>2, <2>7
  <2> QED BY <2>2, <2>3, <2>4, <2>5, <2>6, <2>7
<1>3. CASE v = "guest"
  BY <1>3 DEF SignPage
<1>4. CASE v = "stranger"
  BY <1>4
<1> QED BY <1>1, <1>2, <1>3, <1>4

LEMMA ProjectKept ==
  ASSUME NEW p \in Project, NEW v \in Viewers \ {"preview"}, NEW op \in ProjectOffers(v, p)
  PROVE  ProjectAccepts(v, op, p)
BY DEF Project, ProjectOffers, ProjectAccepts, ProjectRouteOpen, ProjectPanel, PanelOps, StatusPipeline,
       DetailsPanel, LabelForm, ClientAssignment, DuplicateForm, MoreActions, OwnerActions, ProjectTabs,
       TabOps, AddTaskForm, AddFileMenu, AddLinkForm, AddNoteForm, ManualEntryForm, AddInvoiceMenu,
       ComposeForm, PortalTabs, PortalComposeForm, PortalRequestForm, PortalUploadForm, When,
       PreviewRefuses, Viewers, Sessions, Staff, Clients

LEMMA TaskKept ==
  ASSUME NEW t \in Task, ~(t.decision /\ t.requester = "client"),
         NEW v \in Viewers \ {"preview"}, NEW op \in TaskOffers(v, t)
  PROVE  TaskAccepts(v, op, t) <=> op \notin TaskRefusals(t)
<1> USE DEF Task, TaskStatus, TaskAccepts, TaskRefusals, When, PreviewRefuses, Viewers, Sessions, Staff, Clients,
            TaskStaffRoutes, HasProjectAccess
<1>2. CASE v \in Staff
  <2>1. op \in {"delete task", "edit task", "close voting", "assign", "set due date", "label task", "comment"} \cup StatusOps
    BY <1>2 DEF TaskOffers, TaskRowActions, AgencyDetail, DetailHeader, DetailText, DetailDecision, DetailStatus,
       DetailAssignee, DetailDueDate, DetailLabels
  <2>2. op = "close voting" => t.decision /\ ~t.closed
    BY StatusOpsNamed, <1>2 DEF TaskOffers, TaskRowActions, AgencyDetail, DetailHeader, DetailText, DetailDecision, DetailStatus,
       DetailAssignee, DetailDueDate, DetailLabels
  <2>3. CASE op = "comment"
    BY <1>2, <2>3, StatusOpsNamed
  <2>4. CASE op = "close voting"
    BY <1>2, <2>2, <2>4, StatusOpsNamed
  <2>5. CASE op \notin {"comment", "close voting"}
    <3>1. op \in TaskStaffRoutes /\ op \notin {"vote", "cancel request"}
      BY <2>1, <2>5, StatusOpsNamed
    <3> QED BY <1>2, <2>5, <3>1
  <2> QED BY <2>3, <2>4, <2>5
<1>3. CASE v \in Clients
  BY StatusOpsNamed, <1>3 DEF TaskOffers, PortalTaskRows, ClientDetail, ClientCancel, ClientVote, IsOwnRequest
<1>4. CASE v \in {"stranger", "guest"}
  BY <1>4 DEF TaskOffers
<1> QED BY <1>2, <1>3, <1>4

LEMMA UpdateKept ==
  ASSUME NEW u \in Update, NEW v \in Viewers \ {"preview"}, NEW op \in UpdateOffers(v, u)
  PROVE  UpdateAccepts(v, op, u)
BY DEF Update, UpdateOffers, UpdateAccepts, UpdateOps, UpdateCard, PortalUpdateCard, HasProjectAccess, When, PreviewRefuses,
       Viewers, Sessions, Staff, Clients

LEMMA CommentKept ==
  ASSUME NEW c \in Comment, NEW v \in Viewers \ {"preview"}, NEW op \in CommentOffers(v, c)
  PROVE  CommentAccepts(v, op, c)
BY DEF Comment, CommentOffers, CommentAccepts, When, PreviewRefuses, Viewers, Sessions, Staff, Clients

LEMMA NoteKept ==
  ASSUME NEW n \in Note, NEW v \in Viewers \ {"preview"}, NEW op \in NoteOffers(v, n)
  PROVE  NoteAccepts(v, op, n)
BY DEF NoteOffers, NoteAccepts, When

LEMMA EntryKept ==
  ASSUME NEW e \in Entry, ~(e.running /\ e.invoiced), NEW v \in Viewers \ {"preview"}, NEW op \in EntryOffers(v, e)
  PROVE  EntryAccepts(v, op, e) <=> op \notin EntryRefusals(v, e)
BY DEF Entry, EntryOffers, EntryAccepts, EntryRefusals, TimerBar, StopForm, Journal, EntryRow, GenerateFromTime, OwnEntry, When, Staff

LEMMA CaptureKept ==
  ASSUME NEW c \in Capture, NEW v \in Viewers \ {"preview"}, NEW op \in PendingCaptures(v, c)
  PROVE  CaptureAccepts(v, op, c)
BY DEF PendingCaptures, CaptureAccepts, LogTimeForm, When

LEMMA InvoiceKept ==
  ASSUME NEW i \in Invoice, NEW v \in Viewers \ {"preview"}, NEW op \in InvoiceOffers(v, i)
  PROVE  InvoiceAccepts(v, op, i) <=> op \notin InvoiceRefusals(i)
<1> USE DEF Invoice, InvoiceOffers, InvoiceRefusals, When, Viewers, Sessions, Staff, Clients, PreviewRefuses, InvoiceReadRoutes
<1>1. CASE v \in Staff
  <2>1. CASE op \in ProjectInvoice(i)
    BY <1>1, <2>1, MarkOpsNamed, MarkedNamed, Transitions DEF ProjectInvoice, EditForm, InvoiceAccepts, InvoiceUpdateAccepts, InvoiceStaffRoutes
  <2>2. CASE op = "pdf"
    BY <1>1, <2>2, MarkOpsNamed, MarkedNamed, Transitions DEF InvoiceAccepts, InvoiceUpdateAccepts, InvoiceStaffRoutes
  <2>3. CASE op \in {MarkAs[s] : s \in STATUS_TRANSITIONS[i.status]}
    <3>1. PICK s \in STATUS_TRANSITIONS[i.status] : op = MarkAs[s]
      BY <2>3
    <3>2. s \in DOMAIN MarkAs /\ s \in allowedTransitions[i.status]
      BY <3>1, Transitions, MarkNames
    <3>3. Marked(op) = {s} /\ op \in {"send", "mark paid", "mark overdue", "cancel invoice"}
      BY <3>1, <3>2, MarkNames, MarkedNamed
    <3> QED BY <1>1, <3>2, <3>3, MarkOpsNamed DEF InvoiceAccepts, InvoiceUpdateAccepts, InvoiceStaffRoutes
  <2> QED BY <1>1, <2>1, <2>2, <2>3 DEF BillingInvoice
<1>2. CASE v \in Clients
  BY <1>2, MarkOpsNamed DEF PortalInvoice, InvoiceStaffRoutes, InvoiceAccepts, CheckoutAccepts, HasProjectAccess
<1>3. CASE v \in {"stranger", "guest"}
  BY <1>3
<1> QED BY <1>1, <1>2, <1>3

LEMMA UnbilledKept ==
  ASSUME NEW u \in Unbilled, NEW v \in Viewers \ {"preview"}, NEW op \in BillingPage(v, u)
  PROVE  UnbilledAccepts(v, op, u) <=> op \notin UnbilledRefusals(u)
BY DEF Unbilled, BillingPage, BillingClients, GenerateButton, EntriesListed, RecordForm, UnbilledAccepts, UnbilledRefusals, When, Staff

LEMMA SubscriptionKept ==
  ASSUME NEW s \in Subscription, NEW v \in Viewers \ {"preview"}, NEW op \in SubscriptionOffers(v, s)
  PROVE  SubscriptionAccepts(v, op, s)
BY BuyNames DEF Subscription, SubscriptionOffers, SubscriptionAccepts, PlanCard, When, Staff

LEMMA StripeKept ==
  ASSUME NEW s \in Stripe, NEW v \in Viewers \ {"preview"}, NEW op \in StripeOffers(v, s)
  PROVE  StripeAccepts(v, op, s) <=> op \notin StripeRefusals(v)
BY DEF Stripe, StripeOffers, StripeAccepts, StripeRefusals, PaymentsSection, StatusShown, When, Staff

LEMMA MemberKept ==
  ASSUME NEW m \in Member, NEW v \in Viewers \ {"preview"}, NEW op \in MemberOffers(v, m)
  PROVE  MemberAccepts(v, op, m)
BY RoleNames DEF Member, MemberOffers, MemberAccepts, TeamRow, ClientRow, When, Staff

LEMMA InvitationKept ==
  ASSUME NEW i \in Invitation, NEW v \in Viewers \ {"preview"}, NEW op \in InvitePage(v, i)
  PROVE  InvitationAccepts(v, op, i)
BY DEF Invitation, InvitePage, InvitationAccepts, EffectiveStatus, When, Staff

LEMMA WorkspaceKept ==
  ASSUME NEW w \in Workspace, NEW v \in Viewers \ {"preview"}, NEW op \in WorkspaceOffers(v, w)
  PROVE  WorkspaceAccepts(v, op, w) <=> op \notin WorkspaceRefusals(v, w)
BY DEF Workspace, WorkspaceOffers, WorkspaceAccepts, WorkspaceRefusals, AtProjectLimit, GeneralForm, BrandingForm, LabelsForm, CustomDomainForm,
   TeamInviteForm, ClientInviteForm, CreateProjectForm, SettingsRoutes, When, Staff

LEMMA AccountKept ==
  ASSUME NEW a \in Account, NEW v \in Viewers \ {"preview"}, NEW op \in AccountOffers(v, a)
  PROVE  AccountAccepts(v, op, a) <=> op \notin AccountRefusals
BY DEF Account, AccountOffers, AccountAccepts, AccountRefusals, ProfileForms, AuthRoutes, AccountRoutes, PreviewAs, When, Staff, Viewers, Sessions, Clients

LEMMA SetupKept ==
  ASSUME NEW s \in Setup, NEW v \in Viewers \ {"preview"}, NEW op \in SetupOffers(v, s)
  PROVE  SetupAccepts(v, op, s)
BY DEF SetupOffers, SetupAccepts, StepOrgProfile, StepEmailConfig, StepFirstProject, StepInviteClient, StepComplete, When, Staff

-----------------------------------------------------------------------------
(* What a screen offers of the row as it was, s, is refused of the row as it    *)
(* is, or still offered, or a rule of the screens only.                        *)

\* What an accepted request tells of the document.
LEMMA DocumentAccepted ==
  ASSUME NEW v \in Viewers, NEW op, NEW d, DocumentAccepts(v, op, d)
  PROVE  /\ DocumentRouteOpen(v, op)
         /\ op = "send" => d.status = "draft" /\ (d.wants = "signature" => d.fields # "none")
         /\ op = "void" => d.status \in {"draft", "pending"}
         /\ op \in {"place sign", "place select"} => d.status = "draft"
         /\ op = "version" => d.status \notin {"voided", "expired"}
         /\ op = "restore" => d.versions /\ d.status \notin {"voided", "expired"}
         /\ op \in {"link", "revoke"} => LinkAccepts(op, d)
         /\ op = "certificate" => CertificateAccepts(v, d)
         /\ op = "sign" => SignAccepts(v, d)
         /\ op \in {"accept", "decline", "choose"} => RespondAccepts(v, d)
         /\ op \in {"send", "void", "place sign", "place select", "version", "restore", "link", "revoke",
                    "certificate", "sign", "accept", "decline", "choose", "open file", "delete", "delete file"}
BY DEF DocumentAccepts, LinkRoutes, AnsweringRoutes, TimePasses, AssignOps, Viewers, Sessions, Staff, Clients

LEMMA DocumentStale ==
  ASSUME NEW s \in Document, NEW d \in Document, DocumentSane(d), DocumentFollows(s, d), NEW v \in Viewers,
         NEW op \in DocumentOffers(v, s), DocumentAccepts(v, op, d)
  PROVE  op \in DocumentOffers(v, d) \cup DocumentScreenRules(v, d)
<1>5. /\ DocumentRouteOpen(v, op)
      /\ op \in {"send", "void", "place sign", "place select", "version", "restore", "link", "revoke",
                "certificate", "sign", "accept", "decline", "choose", "open file", "delete", "delete file"}
  BY DocumentAccepted
<1>6. /\ op = "send" => d.status = "draft"
      /\ op = "void" => d.status \in {"draft", "pending"}
      /\ op \in {"place sign", "place select"} => d.status = "draft"
      /\ op = "version" => d.status \notin {"voided", "expired"}
      /\ op = "restore" => d.versions /\ d.status \notin {"voided", "expired"}
  BY DocumentAccepted
<1>7. /\ op \in {"link", "revoke"} => LinkAccepts(op, d)
      /\ op = "certificate" => CertificateAccepts(v, d)
      /\ op = "sign" => SignAccepts(v, d)
      /\ op \in {"accept", "decline", "choose"} => RespondAccepts(v, d)
  BY DocumentAccepted
<1> USE DEF Document, DocumentOffers, DocumentScreenRules, Unanswered, When, Viewers, Sessions, Staff, Clients, Statuses
<1>a. CASE d.archived /\ v # "guest"
  <2>1. op \in DocumentOps
    BY <1>a, <1>5 DEF DocumentOps, StaffRoutes, FileStaffRoutes, CreationRoutes, SendingRoutes, EditingRoutes, LinkRoutes, ReadingRoutes, FileReadRoutes, AnsweringRoutes
  <2> QED BY <1>a, <2>1
<1>1. CASE v \in Staff /\ ~d.archived
  <2> USE DEF DocumentSane, DocumentFollows
  <2>1. op \in {"send", "sign", "certificate", "place sign", "place select", "version", "void", "delete",
                "restore", "revoke", "link", "delete file"}
    <3>1. op \in DashboardDocument(v, s)
      BY <1>1
    <3>2. /\ CardActions(v, s) \subseteq {"send", "sign", "certificate", "place sign", "place select"}
          /\ CardVersionActions(s) \subseteq {"version", "void", "delete"}
          /\ EarlierVersionActions(s) \subseteq {"restore"} /\ LinkActions(s) \subseteq {"revoke", "link"}
          /\ FileCardActions(s.archived) \ EditFileForm \subseteq {"delete file"}
      BY DEF CardActions, PlacerForm, CardVersionActions, VoidForm, EarlierVersionActions, LinkActions,
             FileCardActions, EditFileForm
    <3> QED BY ONLY <3>1, <3>2 DEF DashboardDocument
  <2>2. CASE op \in {"delete", "delete file"}
    BY <1>1, <2>2 DEF DashboardDocument, CardVersionActions, FileCardActions, EditFileForm
  <2>3. CASE op \in {"send", "version", "void", "certificate", "restore"}
    <3>1. CASE op \in {"send", "certificate"}
      BY <1>1, <1>6, <1>7, <3>1 DEF CertificateAccepts, DashboardDocument, CardActions
    <3>2. CASE op \in {"version", "void"}
      BY <1>1, <1>6, <3>2 DEF DashboardDocument, CardVersionActions, VoidForm
    <3>3. CASE op = "restore"
      BY <1>1, <1>6, <3>3 DEF DashboardDocument, EarlierVersionActions
    <3> QED BY <2>3, <3>1, <3>2, <3>3
  <2>4. CASE op \in {"place sign", "place select"}
    <3>1. op \in CardActions(v, s)
      BY <1>1, <2>4 DEF DashboardDocument, CardVersionActions, VoidForm, EarlierVersionActions, LinkActions,
                        FileCardActions, EditFileForm
    <3>2. s.wants = "signature" /\ d.status = "draft"
      BY <3>1, <2>4, <1>6 DEF CardActions, PlacerForm
    <3> QED BY <1>1, <2>4, <3>2 DEF DashboardDocument, CardActions, PlacerForm
  <2>5. CASE op = "sign"
    <3>1. s.fields = "sign" /\ s.status # "draft"
      BY <1>1, <2>5 DEF DashboardDocument, CardActions, PlacerForm, CardVersionActions, VoidForm,
                EarlierVersionActions, LinkActions, FileCardActions, EditFileForm, SigningSends
    <3>2. d.wants = "signature" /\ d.status \notin {"draft", "signed"}
      BY <2>5, <1>7 DEF SignAccepts
    <3> QED BY <1>1, <2>5, <3>1, <3>2 DEF DashboardDocument, CardActions, SigningSends, SigningInfoNames
  <2>6. CASE op \in {"revoke", "link"}
    <3>1. s.wants = "signature" /\ s.status # "draft"
      BY <1>1, <2>6 DEF DashboardDocument, CardActions, PlacerForm, CardVersionActions, VoidForm,
                EarlierVersionActions, LinkActions, FileCardActions, EditFileForm
    <3> QED BY <1>1, <2>6, <3>1, <1>7 DEF LinkAccepts, DashboardDocument, LinkActions
  <2> QED BY <2>1, <2>2, <2>3, <2>4, <2>5, <2>6
<1>2. CASE v \in Clients \cup {"preview"} /\ ~d.archived
  <2> USE DEF DocumentSane, DocumentFollows
  <2>1. op \in {"accept", "decline", "sign", "choose", "certificate", "open file"}
    BY <1>2 DEF PortalDocument, PortalApprovalActions, PortalChoiceActions, DocumentViewerActions
  <2>2. CASE op \in {"certificate", "open file"}
    BY <1>2, <2>2, <1>7 DEF PortalDocument, CertificateAccepts
  <2>3. CASE op = "sign"
    <3>0. v # "preview"
      BY <2>3, <1>5 DEF DocumentRouteOpen, PreviewRefuses, ReadingRoutes, FileReadRoutes
    <3>1. s.fields = "sign" /\ s.status # "draft"
      BY <1>2, <2>3 DEF PortalDocument, PortalApprovalActions, PortalChoiceActions, DocumentViewerActions,
                        SigningSends
    <3>2. d.wants = "signature" /\ d.status \notin {"draft", "voided", "expired", "signed"} /\ d.fields = "sign"
      BY <2>3, <3>1, <1>7 DEF SignAccepts
    <3>3. d.signer = "nobody" /\ PreviewAs[v] = v /\ d.answers[v] = "none"
      BY <1>2, <3>0, <3>2 DEF PreviewAs
    <3>4. SigningSends(v, d) /\ ~ReadOnly(d)
      BY <1>2, <3>0, <3>2, <3>3 DEF SigningSends, SigningInfoNames, ReadOnly
    <3>5. CASE d.choices
      BY <1>2, <2>3, <3>2, <3>3, <3>4, <3>5 DEF PortalDocument, PortalChoiceActions
    <3>6. CASE ~d.choices
      BY <1>2, <2>3, <3>2, <3>3, <3>4, <3>6 DEF PortalDocument, PortalApprovalActions
    <3> QED BY <3>5, <3>6
  <2>4. CASE op \in {"accept", "decline", "choose"}
    <3>1. v \in Clients /\ d.wants = "approval" /\ d.status = "pending"
      BY <2>4, <1>7 DEF RespondAccepts, RespondBlocked
    <3>2. PreviewAs[v] = v
      BY <3>1 DEF PreviewAs
    <3>3. CASE ~Unanswered(v, d)
      BY <2>4, <3>1, <3>3
    <3>4. CASE Unanswered(v, d) /\ op \in {"accept", "decline"}
      <4>1. op \in DocumentViewerActions(v, d)
        BY <3>1, <3>2, <3>4 DEF DocumentViewerActions
      <4> QED BY <1>2, <3>1, <4>1 DEF PortalDocument
    <3>5. CASE Unanswered(v, d) /\ op = "choose"
      <4>1. d.choices
        BY <1>2, <3>5 DEF PortalDocument, PortalApprovalActions, PortalChoiceActions, DocumentViewerActions
      <4> QED BY <1>2, <3>1, <3>2, <3>5, <4>1 DEF PortalDocument, PortalChoiceActions, ReadOnly
    <3> QED BY <2>4, <3>3, <3>4, <3>5
  <2> QED BY <2>1, <2>2, <2>3, <2>4
<1>3. CASE v = "guest"
  <2> USE DEF DocumentSane, DocumentFollows
  <2>1. op = "sign" /\ s.fields = "sign" /\ s.status # "draft"
    BY <1>3 DEF SignPage, LinkOpens, SigningSends
  <2>2. d.wants = "signature" /\ d.status \notin {"draft", "signed"} /\ LinkOpens(d)
    BY <1>3, <2>1, <1>7 DEF SignAccepts
  <2>3. SigningSends("client", d)
    BY <2>1, <2>2 DEF SigningSends, SigningInfoNames
  <2> QED BY <1>3, <2>1, <2>2, <2>3 DEF SignPage
<1>4. CASE v = "stranger"
  BY <1>4
<1> QED BY <1>a, <1>1, <1>2, <1>3, <1>4

LEMMA FileStale ==
  ASSUME NEW s \in File, NEW f \in File, NEW v \in Viewers, NEW op \in FileOffers(v, s), FileAccepts(v, op, f)
  PROVE  op \in FileOffers(v, f) \cup FileScreenRules(f)
BY DEF File, FileOffers, FileAccepts, FileScreenRules, FileOps, FileCardActions, PortalFile, EditFileForm, When,
       DocumentRouteOpen, FileStaffRoutes, FileReadRoutes, PreviewRefuses, HasProjectAccess,
       Viewers, Sessions, Staff, Clients

LEMMA ProjectStale ==
  ASSUME NEW s \in Project, NEW p \in Project, NEW v \in Viewers, NEW op \in ProjectOffers(v, s), ProjectAccepts(v, op, p)
  PROVE  op \in ProjectOffers(v, p) \cup ProjectScreenRules(p)
BY DEF Project, ProjectOffers, ProjectAccepts, ProjectScreenRules, ProjectRouteOpen, ProjectPanel, PanelOps, StatusPipeline,
       DetailsPanel, LabelForm, ClientAssignment, DuplicateForm, MoreActions, OwnerActions, ProjectTabs,
       TabOps, AddTaskForm, AddFileMenu, AddLinkForm, AddNoteForm, ManualEntryForm, AddInvoiceMenu,
       ComposeForm, PortalTabs, PortalComposeForm, PortalRequestForm, PortalUploadForm, When,
       PreviewRefuses, Viewers, Sessions, Staff, Clients

LEMMA TaskStale ==
  ASSUME NEW s \in Task, NEW t \in Task, 
         NEW v \in Viewers, NEW op \in TaskOffers(v, s), TaskAccepts(v, op, t)
  PROVE  op \in TaskOffers(v, t) \cup TaskScreenRules(v, t)
<1> USE DEF Task, TaskStatus, When, Viewers, Sessions, Staff, Clients
<1>1. CASE v \in Staff
  <2>1. op \in {"delete task", "edit task", "close voting", "assign", "set due date", "label task", "comment"} \cup StatusOps
    BY <1>1 DEF TaskOffers, TaskRowActions, AgencyDetail, DetailHeader, DetailText, DetailDecision, DetailStatus,
       DetailAssignee, DetailDueDate, DetailLabels
  <2>2. op = "close voting" => t.decision /\ ~t.closed
    BY <1>1 DEF TaskAccepts
  <2> QED BY <1>1, <2>1, <2>2 DEF TaskScreenRules, TaskOffers, TaskRowActions, AgencyDetail, DetailHeader, DetailText, DetailDecision, DetailStatus,
       DetailAssignee, DetailDueDate, DetailLabels
<1>2. CASE v \in Clients
  <2>1. op \in {"cancel request", "vote", "comment"}
    BY <1>2 DEF TaskOffers, PortalTaskRows, ClientDetail, ClientCancel, ClientVote
  <2> QED BY <1>2, <2>1 DEF TaskAccepts, TaskScreenRules, TaskOffers, PortalTaskRows, ClientDetail, ClientCancel, ClientVote, IsOwnRequest
<1>3. CASE v \in {"stranger", "guest", "preview"}
  BY <1>3 DEF TaskOffers, TaskAccepts, PreviewRefuses
<1> QED BY <1>1, <1>2, <1>3

LEMMA UpdateStale ==
  ASSUME NEW s \in Update, NEW u \in Update, NEW v \in Viewers, NEW op \in UpdateOffers(v, s), UpdateAccepts(v, op, u)
  PROVE  op \in UpdateOffers(v, u) \cup PostScreenRules(u)
BY DEF Update, UpdateOffers, UpdateAccepts, UpdateOps, UpdateCard, PortalUpdateCard, PostScreenRules, HasProjectAccess, When, PreviewRefuses,
       Viewers, Sessions, Staff, Clients

LEMMA CommentStale ==
  ASSUME NEW s \in Comment, NEW c \in Comment, NEW v \in Viewers, NEW op \in CommentOffers(v, s), CommentAccepts(v, op, c)
  PROVE  op \in CommentOffers(v, c) \cup PostScreenRules(c)
BY DEF Comment, CommentOffers, CommentAccepts, PostScreenRules, When, PreviewRefuses, Viewers, Sessions, Staff, Clients

LEMMA NoteStale ==
  ASSUME NEW s \in Note, NEW n \in Note, NEW v \in Viewers, NEW op \in NoteOffers(v, s), NoteAccepts(v, op, n)
  PROVE  op \in NoteOffers(v, n) \cup PostScreenRules(n)
BY DEF NoteOffers, NoteAccepts, PostScreenRules, When

LEMMA EntryStale ==
  ASSUME NEW s \in Entry, NEW e \in Entry, NEW v \in Viewers, NEW op \in EntryOffers(v, s), EntryAccepts(v, op, e), ~(e.running /\ e.invoiced)
  PROVE  op \in EntryOffers(v, e) \cup EntryScreenRules(e)
BY DEF Entry, EntryOffers, EntryAccepts, EntryScreenRules, EntryOps, TimerBar, StopForm, Journal, EntryRow, GenerateFromTime, OwnEntry, When, Staff

LEMMA CaptureStale ==
  ASSUME NEW s \in Capture, NEW c \in Capture, NEW v \in Viewers, NEW op \in PendingCaptures(v, s), CaptureAccepts(v, op, c)
  PROVE  op \in PendingCaptures(v, c) \cup CaptureScreenRules(c)
BY DEF PendingCaptures, CaptureAccepts, CaptureScreenRules, LogTimeForm, When

LEMMA InvoiceStale ==
  ASSUME NEW s \in Invoice, NEW i \in Invoice,
         InvoiceFollows(s, i),
         NEW v \in Viewers, NEW op \in InvoiceOffers(v, s), InvoiceAccepts(v, op, i)
  PROVE  op \in InvoiceOffers(v, i) \cup InvoiceScreenRules(v, i)
<1> USE DEF Invoice, InvoiceFollows, InvoiceOffers, When, Viewers, Sessions, Staff, Clients
<1>1. CASE v \in Staff
  <2>1. op \in {"pdf", "edit invoice", "delete invoice"} \cup {MarkAs[t] : t \in DOMAIN MarkAs}
    <3>1. CASE op \in ProjectInvoice(s)
      BY <3>1, MarkOpsNamed DEF ProjectInvoice, EditForm
    <3>2. CASE op \in BillingInvoice(s)
      <4>1. CASE op = "pdf"
        BY <4>1
      <4>2. CASE op # "pdf"
        <5>1. PICK t \in STATUS_TRANSITIONS[s.status] : op = MarkAs[t]
          BY <3>2, <4>2 DEF BillingInvoice
        <5>2. t \in DOMAIN MarkAs
          BY <5>1, MarkNames, Transitions
        <5> QED BY <5>1, <5>2
      <4> QED BY <4>1, <4>2
    <3> QED BY <1>1, <3>1, <3>2
  <2>2. CASE op = "pdf"
    BY <1>1, <2>2 DEF BillingInvoice
  <2>3. CASE op = "edit invoice"
    <3>1. s.project
      BY <1>1, <2>3, MarkNames, Transitions DEF ProjectInvoice, EditForm, BillingInvoice
    <3> QED BY <1>1, <2>3, <3>1 DEF InvoiceScreenRules, ProjectInvoice, EditForm
  <2>4. CASE op = "delete invoice"
    <3>1. s.project
      BY <1>1, <2>4, MarkNames, Transitions DEF ProjectInvoice, EditForm, BillingInvoice
    <3>2. ~i.charged
      BY <1>1, <2>4 DEF InvoiceAccepts
    <3> QED BY <1>1, <2>4, <3>1, <3>2 DEF InvoiceScreenRules, ProjectInvoice
  <2>5. CASE op \in {MarkAs[t] : t \in DOMAIN MarkAs}
    <3>1. PICK t \in DOMAIN MarkAs : op = MarkAs[t]
      BY <2>5
    <3>2. Marked(op) = {t}
      BY <3>1, MarkNames, MarkedNamed
    <3>3. InvoiceUpdateAccepts(op, i) /\ op # "edit invoice"
      BY <1>1, <3>1, MarkNames DEF InvoiceAccepts
    <3>4. t \in STATUS_TRANSITIONS[i.status] \/ t = i.status
      BY <3>2, <3>3, Transitions DEF InvoiceUpdateAccepts
    <3>5. CASE t \in STATUS_TRANSITIONS[i.status]
      BY <1>1, <3>1, <3>5 DEF BillingInvoice
    <3>6. CASE t = i.status
      BY <3>1, <3>6, MarkNames DEF InvoiceScreenRules
    <3> QED BY <3>4, <3>5, <3>6
  <2> QED BY <2>1, <2>2, <2>3, <2>4, <2>5
<1>2. CASE v \in Clients \cup {"preview"}
  BY <1>2 DEF PortalInvoice, InvoiceAccepts, CheckoutAccepts, InvoiceScreenRules, InvoiceReadRoutes, PreviewRefuses
<1>3. CASE v \in {"stranger", "guest"}
  BY <1>3
<1> QED BY <1>1, <1>2, <1>3

LEMMA UnbilledStale ==
  ASSUME NEW s \in Unbilled, NEW u \in Unbilled, NEW v \in Viewers, NEW op \in BillingPage(v, s), UnbilledAccepts(v, op, u)
  PROVE  op \in BillingPage(v, u) \cup UnbilledScreenRules(u)
BY DEF Unbilled, BillingPage, BillingClients, GenerateButton, EntriesListed, RecordForm, UnbilledAccepts, UnbilledScreenRules, When, Staff

LEMMA SubscriptionStale ==
  ASSUME NEW s \in Subscription, NEW r \in Subscription, NEW v \in Viewers, NEW op \in SubscriptionOffers(v, s), SubscriptionAccepts(v, op, r)
  PROVE  op \in SubscriptionOffers(v, r) \cup SubscriptionScreenRules(r)
<1>1. /\ v \in Staff /\ op \in {"buy pro", "buy lifetime", "manage"}
      /\ op = "buy lifetime" => r.seats
  BY BuyNames DEF SubscriptionOffers, SubscriptionAccepts, PlanCard, When, Staff
<1>2. CASE op = "manage"
  BY <1>2 DEF SubscriptionScreenRules
<1>3. ASSUME NEW p \in {"pro", "lifetime"}, op = Buy[p], p = "lifetime" => r.seats
      PROVE  op \in SubscriptionOffers(v, r) \cup SubscriptionScreenRules(r)
  <2>1. CASE r.plan = p
    BY <1>3, <2>1, BuyNames DEF SubscriptionScreenRules
  <2>2. CASE r.plan # p
    <3>1. p \in (DOMAIN Buy \ {r.plan}) \ When(~r.seats, {"lifetime"})
      BY <1>3, <2>2, BuyNames DEF When
    <3>2. op \in PlanCard(r)
      BY <1>3, <3>1 DEF PlanCard
    <3> QED BY <1>1, <3>2 DEF SubscriptionOffers, When
  <2> QED BY <2>1, <2>2
<1>4. CASE op = "buy pro"
  BY <1>3, <1>4, BuyNames
<1>5. CASE op = "buy lifetime"
  BY <1>1, <1>3, <1>5, BuyNames
<1> QED BY <1>1, <1>2, <1>4, <1>5

LEMMA StripeStale ==
  ASSUME NEW s \in Stripe, NEW r \in Stripe, NEW v \in Viewers, NEW op \in StripeOffers(v, s), StripeAccepts(v, op, r)
  PROVE  op \in StripeOffers(v, r) \cup StripeScreenRules(r)
BY DEF Stripe, StripeOffers, StripeAccepts, StripeScreenRules, PaymentsSection, StatusShown, When, Staff

LEMMA MemberStale ==
  ASSUME NEW s \in Member, NEW m \in Member, NEW v \in Viewers, NEW op \in MemberOffers(v, s), MemberAccepts(v, op, m), MemberFollows(s, m)
  PROVE  op \in MemberOffers(v, m) \cup MemberScreenRules(v, m)
BY RoleNames DEF MemberFollows, Member, MemberOffers, MemberAccepts, MemberScreenRules, TeamRow, ClientRow, When, Staff

LEMMA InvitationStale ==
  ASSUME NEW s \in Invitation, NEW i \in Invitation, NEW v \in Viewers, NEW op \in InvitePage(v, s), InvitationAccepts(v, op, i)
  PROVE  op \in InvitePage(v, i) \cup InvitationScreenRules(i)
BY DEF Invitation, InvitePage, InvitationAccepts, InvitationScreenRules, EffectiveStatus, When, Staff

LEMMA WorkspaceStale ==
  ASSUME NEW s \in Workspace, NEW w \in Workspace, NEW v \in Viewers, NEW op \in WorkspaceOffers(v, s), WorkspaceAccepts(v, op, w)
  PROVE  op \in WorkspaceOffers(v, w) \cup WorkspaceScreenRules(w)
BY DEF Workspace, WorkspaceOffers, WorkspaceAccepts, WorkspaceScreenRules, AtProjectLimit, GeneralForm, BrandingForm, LabelsForm, CustomDomainForm,
   TeamInviteForm, ClientInviteForm, CreateProjectForm, SettingsRoutes, When, Staff

LEMMA AccountStale ==
  ASSUME NEW s \in Account, NEW a \in Account, NEW v \in Viewers, NEW op \in AccountOffers(v, s), AccountAccepts(v, op, a)
  PROVE  op \in AccountOffers(v, a)
BY DEF Account, AccountOffers, AccountAccepts, ProfileForms, AuthRoutes, AccountRoutes, PreviewAs, When, Staff, Viewers, Sessions, Clients

LEMMA SetupStale ==
  ASSUME NEW s \in Setup, NEW r \in Setup, r.preset = s.preset, NEW v \in Viewers, NEW op \in SetupOffers(v, s), SetupAccepts(v, op, r)
  PROVE  op \in SetupOffers(v, r) \cup SetupScreenRules(r)
BY DEF Setup, SetupOffers, SetupAccepts, SetupScreenRules, StepOrgProfile, StepEmailConfig, StepFirstProject, StepInviteClient, StepComplete, When, Staff

-----------------------------------------------------------------------------
(* What an accepted request makes of a row is again one of its kind, as sane,  *)
(* and keeps what screens opened earlier rely on.                              *)

LEMMA AnsweredStep ==
  ASSUME NEW d \in Document, DocumentSane(d), d.wants = "approval", d.status = "pending",
         NEW v \in Clients, NEW answer \in {"accepted", "chosen", "declined"}
  PROVE  /\ Answered(d, v, answer) \in Document /\ DocumentSane(Answered(d, v, answer))
         /\ \A s \in Document : DocumentFollows(s, d) => DocumentFollows(s, Answered(d, v, answer))
<1>1. PICK st \in {"declined", "accepted", "pending"} :
        Answered(d, v, answer) = [d EXCEPT !.answers = [d.answers EXCEPT ![v] = answer], !.status = st]
  BY DEF Answered
<1>2. [d.answers EXCEPT ![v] = answer] \in [Clients -> {"none", "accepted", "chosen", "declined"}]
  BY DEF Document
<1>3. Answered(d, v, answer) \in Document
  <2>1. st \in Statuses
    BY DEF Statuses
  <2>2. PICK answers \in [Clients -> {"none", "accepted", "chosen", "declined"}] :
          answers = [d.answers EXCEPT ![v] = answer]
    BY <1>2
  <2>3. PICK a \in Document : a = [d EXCEPT !.answers = answers]
    BY DEF Document
  <2>4. [a EXCEPT !.status = st] \in Document
    BY <2>1 DEF Document
  <2>5. Answered(d, v, answer) = [a EXCEPT !.status = st]
    BY <1>1, <2>2, <2>3
  <2> QED
    BY <2>4, <2>5
<1>4. DocumentSane(Answered(d, v, answer))
  BY <1>1, <1>2 DEF Document, DocumentSane, Statuses
<1>5. ASSUME NEW s \in Document, DocumentFollows(s, d)
      PROVE  DocumentFollows(s, Answered(d, v, answer))
  BY <1>1, <1>5 DEF Document, DocumentFollows, Statuses
<1> QED BY <1>3, <1>4, <1>5

LEMMA DocumentStep ==
  ASSUME NEW d \in Document, DocumentSane(d), NEW v \in Actors, NEW op, DocumentAccepts(v, op, d),
         op \in {"place sign", "place select"} => d.wants = "signature"
  PROVE  \/ DocumentAfter(v, op, d) = Gone
         \/ /\ DocumentAfter(v, op, d) \in Document /\ DocumentSane(DocumentAfter(v, op, d))
            /\ \A s \in Document : DocumentFollows(s, d) => DocumentFollows(s, DocumentAfter(v, op, d))
<1>b. PICK e : e = DocumentAfter(v, op, d)
  OBVIOUS
<1> SUFFICES \/ e = Gone
             \/ /\ e \in Document /\ DocumentSane(e)
                /\ \A s \in Document : DocumentFollows(s, d) => DocumentFollows(s, e)
  BY <1>b
<1>a. \/ v \in Viewers /\ DocumentAccepts(v, op, d)
      \/ v \notin Viewers /\ TimePasses(op, d)
      \/ v \notin Viewers /\ op \in AssignOps
  BY DEF DocumentAccepts, Viewers, Sessions, Staff, Clients
<1>c. v \in Viewers => op \in {"send", "void", "place sign", "place select", "version", "restore", "link",
        "revoke", "certificate", "sign", "accept", "decline", "choose", "open file", "delete", "delete file"}
  BY <1>a, DocumentAccepted DEF TimePasses
<1>d. v \notin Viewers => op \in {"deadline", "lapse", "expire"} \cup AssignOps
  BY <1>a DEF TimePasses
<1>e. AssignOps = {"assign client", "assign other", "assign owner"}
  BY DEF AssignOps
<1>0. ASSUME NEW st \in Statuses \ {"draft", "signed"}, e = [d EXCEPT !.status = st],
             d.signer = "nobody"
      PROVE  e \in Document /\ DocumentSane(e) /\ \A s \in Document : DocumentFollows(s, d) => DocumentFollows(s, e)
  <2>1. e \in Document
    BY <1>0 DEF Document, Statuses
  <2>2. /\ e.status = st /\ e.wants = d.wants /\ e.choices = d.choices /\ e.fields = d.fields
        /\ e.signer = d.signer /\ e.answers = d.answers
    BY <1>0 DEF Document
  <2>3. DocumentSane(e)
    BY <1>0, <2>2 DEF DocumentSane, Unanswered
  <2>4. \A s \in Document : DocumentFollows(s, d) => DocumentFollows(s, e)
    BY <1>0, <2>2 DEF DocumentFollows
  <2> QED BY <2>1, <2>3, <2>4
<1>1. CASE op = "send"
  <2>1. d.status = "draft" /\ e = [d EXCEPT !.status = "pending"]
    BY <1>1, <1>a, <1>d, <1>e, DocumentAccepted, <1>b DEF DocumentAfter
  <2>2. d.signer = "nobody"
    BY <2>1 DEF DocumentSane, Document
  <2> QED BY <2>1, <2>2, <1>0 DEF Statuses
<1>2. CASE op = "void"
  <2>1. d.status \in {"draft", "pending"} /\ e = [d EXCEPT !.status = "voided"]
    BY <1>2, <1>a, <1>d, <1>e, DocumentAccepted, <1>b DEF DocumentAfter
  <2>2. d.signer = "nobody"
    BY <2>1 DEF DocumentSane, Document
  <2> QED BY <2>1, <2>2, <1>0 DEF Statuses
<1>3. CASE op = "expire"
  <2>1. v \notin Viewers
    BY <1>3, <1>c
  <2>2. d.status = "pending"
    BY <1>3, <2>1, <1>a, <1>e DEF TimePasses
  <2>3. e = [d EXCEPT !.status = "expired"]
    BY <1>3, <1>b, <1>e DEF DocumentAfter
  <2>4. d.signer = "nobody"
    BY <2>2 DEF DocumentSane, Document
  <2> QED BY <2>2, <2>3, <2>4, <1>0 DEF Statuses
<1>4. CASE op \in {"place sign", "place select"}
  <2>1. PICK type \in {"sign", "select"}, who \in Clients \cup Staff \cup {"anyone"} :
          e = [d EXCEPT !.fields = type, !.assigned = who]
    <3>1. d.assigned \in Clients \cup Staff \cup {"anyone"}
      BY DEF Document
    <3>2. PICK type \in {"sign", "select"} : e = Placed(d, type)
      BY <1>4, <1>b, <1>e DEF DocumentAfter
    <3> QED BY <3>1, <3>2 DEF Placed
  <2>2. d.status = "draft" /\ d.wants = "signature"
    BY <1>4, <1>a, <1>d, <1>e, DocumentAccepted
  <2> QED BY <2>1, <2>2 DEF Document, DocumentSane, DocumentFollows, Unanswered
<1>5. CASE op \in {"version", "restore"}
  <2>1. e = NewVersion(d)
    BY <1>5, <1>b, <1>e DEF DocumentAfter
  <2>2. CASE d.status = "draft"
    BY <2>1, <2>2 DEF NewVersion, Document, DocumentSane, DocumentFollows, Unanswered
  <2>3. CASE d.status # "draft"
    <3>1. e = [d EXCEPT !.versions = TRUE, !.status = "pending", !.signer = "nobody",
                        !.answers = [c \in Clients |-> "none"]]
      BY <2>1, <2>3 DEF NewVersion
    <3>2. e \in Document
      BY <3>1 DEF Document, Statuses
    <3>3. /\ e.status = "pending" /\ e.wants = d.wants /\ e.choices = d.choices /\ e.fields = d.fields
          /\ e.signer = "nobody" /\ e.answers = [c \in Clients |-> "none"]
      BY <3>1 DEF Document
    <3>4. DocumentSane(e)
      BY <3>3 DEF DocumentSane, Unanswered
    <3>5. \A s \in Document : DocumentFollows(s, d) => DocumentFollows(s, e)
      BY <2>3, <3>3 DEF DocumentFollows
    <3> QED BY <3>2, <3>4, <3>5
  <2> QED BY <2>2, <2>3
<1>6. CASE op \in {"link", "revoke"}
  <2>1. PICK link \in {"active", "lapsed", "revoked"} : e = [d EXCEPT !.link = link]
    BY <1>6, <1>b, <1>e DEF DocumentAfter, Linked
  <2> QED BY <2>1 DEF Document, DocumentSane, DocumentFollows, Unanswered
<1>7. CASE op = "sign"
  <2>1. v \in Viewers /\ SignAccepts(v, d)
    BY <1>7, <1>a, <1>d, <1>e, DocumentAccepted
  <2>2. e = [d EXCEPT !.signer = Signatory(v), !.status = "signed"]
    BY <1>7, <1>b DEF DocumentAfter
  <2>3. Signatory(v) \in Clients \cup Staff /\ d.wants = "signature" /\ d.fields # "none" /\ d.status # "draft"
    BY <2>1 DEF SignAccepts, Signatory, Clients
  <2>4. PICK a \in Document : a = [d EXCEPT !.signer = Signatory(v)]
    BY <2>3 DEF Document
  <2>5. e = [a EXCEPT !.status = "signed"]
    BY <2>2, <2>4
  <2>6. e \in Document
    BY <2>5 DEF Document, Statuses
  <2>7. /\ e.status = "signed" /\ e.wants = d.wants /\ e.choices = d.choices /\ e.fields = d.fields
        /\ e.answers = d.answers
    BY <2>4, <2>5 DEF Document
  <2>8. DocumentSane(e)
    BY <2>3, <2>7 DEF DocumentSane, Unanswered
  <2>9. \A s \in Document : DocumentFollows(s, d) => DocumentFollows(s, e)
    BY <2>3, <2>7 DEF DocumentFollows
  <2> QED BY <2>6, <2>8, <2>9
<1>8. CASE op \in {"accept", "decline", "choose"}
  <2>1. v \in Clients /\ d.wants = "approval" /\ d.status = "pending"
    BY <1>8, <1>a, <1>d, <1>e, DocumentAccepted DEF RespondAccepts, RespondBlocked, Document, Statuses
  <2>2. PICK answer \in {"accepted", "chosen", "declined"} : e = Answered(d, v, answer)
    BY <1>8, <1>b, <1>e DEF DocumentAfter
  <2> QED BY <2>1, <2>2, AnsweredStep
<1>9. CASE op \in {"delete", "delete file"}
  BY <1>9, <1>b, <1>e DEF DocumentAfter
<1>10. CASE op \in {"certificate", "open file"}
  BY <1>10, <1>b, <1>e DEF DocumentAfter
<1>11. CASE op \in {"deadline", "lapse"}
  <2>1. d.link \in {"none", "active", "lapsed", "revoked"} /\ d.late \in BOOLEAN
    BY DEF Document
  <2>2. PICK late \in BOOLEAN, link \in {"none", "active", "lapsed", "revoked"} :
          e = [d EXCEPT !.late = late, !.link = link]
    <3>1. CASE op = "deadline"
      BY <2>1, <3>1, <1>b, <1>e DEF DocumentAfter, Overdue
    <3>2. CASE op = "lapse"
      <4>1. e = [d EXCEPT !.link = "lapsed"]
        BY <3>2, <1>b, <1>e DEF DocumentAfter
      <4>2. e = [d EXCEPT !.late = d.late, !.link = "lapsed"]
        BY <4>1 DEF Document
      <4> QED BY <2>1, <4>2
    <3> QED BY <1>11, <3>1, <3>2
  <2>3. PICK a \in Document : a = [d EXCEPT !.late = late]
    BY DEF Document
  <2>4. e = [a EXCEPT !.link = link]
    BY <2>2, <2>3
  <2>5. e \in Document
    BY <2>4 DEF Document
  <2>6. /\ e.status = d.status /\ e.wants = d.wants /\ e.choices = d.choices /\ e.fields = d.fields
        /\ e.signer = d.signer /\ e.answers = d.answers
    BY <2>3, <2>4 DEF Document
  <2>7. DocumentSane(e)
    BY <2>6 DEF DocumentSane, Unanswered
  <2>8. \A s \in Document : DocumentFollows(s, d) => DocumentFollows(s, e)
    BY <2>6 DEF DocumentFollows
  <2> QED BY <2>5, <2>7, <2>8
<1>12. CASE op \in AssignOps
  <2>1. PICK who \in Clients \cup Staff : e = [d EXCEPT !.assigned = who]
    BY <1>12, <1>b, <1>e DEF DocumentAfter, Assignee, Clients, Staff
  <2> QED BY <2>1 DEF Document, DocumentSane, DocumentFollows, Unanswered
<1> QED
  <2>1. op \in {"send", "void", "expire", "place sign", "place select", "version", "restore", "link", "revoke",
                "certificate", "sign", "accept", "decline", "choose", "open file", "delete", "delete file",
                "deadline", "lapse"} \cup AssignOps
    BY <1>c, <1>d
  <2> QED BY <2>1, <1>11, <1>12, <1>1, <1>2, <1>3, <1>4, <1>5, <1>6, <1>7, <1>8, <1>9, <1>10

LEMMA FileStep ==
  ASSUME NEW f \in File, NEW op
  PROVE  FileAfter(op, f) \in File \cup {Gone}
BY DEF FileAfter

LEMMA ProjectStep ==
  ASSUME NEW p \in Project, NEW op
  PROVE  ProjectAfter(op, p) \in Project \cup {Gone}
BY DEF Project, ProjectAfter

LEMMA TaskStep ==
  ASSUME NEW t \in Task, NEW op, ~(t.decision /\ t.requester = "client")
  PROVE  \/ TaskAfter(op, t) = Gone
         \/ /\ TaskAfter(op, t) \in Task
            /\ ~(TaskAfter(op, t).decision /\ TaskAfter(op, t).requester = "client")
<1> USE DEF Task, TaskStatus
<1>1. CASE op \in StatusOps
  <2>1. \E s \in TaskStatus : op = SetStatus[s]
    BY <1>1 DEF StatusOps
  <2>2. PICK s \in TaskStatus : TaskAfter(op, t) = [t EXCEPT !.status = s]
    BY <1>1, <2>1, StatusOpsNamed DEF TaskAfter
  <2> QED BY <2>2
<1>2. CASE op \notin StatusOps
  BY <1>2 DEF TaskAfter
<1> QED BY <1>1, <1>2

LEMMA UpdateStep ==
  ASSUME NEW u \in Update, NEW op
  PROVE  UpdateAfter(op, u) \in Update \cup {Gone}
BY DEF UpdateAfter

LEMMA EntryStep ==
  ASSUME NEW e \in Entry, NEW v, NEW op, EntryAccepts(v, op, e), ~(e.running /\ e.invoiced)
  PROVE  \/ EntryAfter(v, op, e) = Gone
         \/ /\ EntryAfter(v, op, e) \in Entry
            /\ ~(EntryAfter(v, op, e).running /\ EntryAfter(v, op, e).invoiced)
BY DEF Entry, EntryAccepts, EntryAfter

LEMMA InvoiceStep ==
  ASSUME NEW i \in Invoice, NEW v, NEW op, InvoiceAccepts(v, op, i)
  PROVE  \/ InvoiceAfter(op, i) = Gone
         \/ /\ InvoiceAfter(op, i) \in Invoice
            /\ \A s \in Invoice : InvoiceFollows(s, i) => InvoiceFollows(s, InvoiceAfter(op, i))
<1> USE DEF Invoice, InvoiceFollows
<1>1. CASE op \in {"pay", "charge", "deauthorize", "delete invoice"}
  <2>1. CASE op = "pay"
    BY <2>1, MarkedNamed DEF InvoiceAfter
  <2>2. CASE op = "charge"
    BY <2>2, MarkedNamed DEF InvoiceAfter
  <2>3. CASE op = "deauthorize"
    BY <2>3, MarkedNamed DEF InvoiceAfter
  <2>4. CASE op = "delete invoice"
    BY <2>4, MarkedNamed DEF InvoiceAfter
  <2> QED BY <1>1, <2>1, <2>2, <2>3, <2>4
<1>2. CASE op \notin {"pay", "charge", "deauthorize", "delete invoice"} /\ Marked(op) # {}
  <2>1. PICK t \in {"sent", "paid", "overdue", "cancelled"} : InvoiceAfter(op, i) = [i EXCEPT !.status = t]
    <3>1. (CHOOSE s \in Marked(op) : TRUE) \in Marked(op)
      BY <1>2
    <3>2. Marked(op) \subseteq {"sent", "paid", "overdue", "cancelled"}
      BY MarkNames DEF Marked
    <3> QED BY <1>2, <3>1, <3>2 DEF InvoiceAfter
  <2> QED BY <2>1
<1>3. CASE op \notin {"pay", "charge", "deauthorize", "delete invoice"} /\ Marked(op) = {}
  BY <1>3 DEF InvoiceAfter
<1> QED BY <1>1, <1>2, <1>3

LEMMA UnbilledStep ==
  ASSUME NEW u \in Unbilled, NEW op
  PROVE  UnbilledAfter(op, u) \in Unbilled
BY DEF Unbilled, UnbilledAfter

LEMMA SubscriptionStep ==
  ASSUME NEW s \in Subscription, NEW v, NEW op, SubscriptionAccepts(v, op, s)
  PROVE  SubscriptionAfter(op, s) \in Subscription
BY DEF Subscription, SubscriptionAccepts, SubscriptionAfter, Staff

LEMMA StripeStep ==
  ASSUME NEW s \in Stripe, NEW op
  PROVE  StripeAfter(op, s) \in Stripe
BY DEF Stripe, StripeAfter

LEMMA MemberStep ==
  ASSUME NEW s \in Member, NEW m \in Member, MemberFollows(s, m), NEW v, NEW op,
         op \in MemberOffers(v, s) \cup MemberOffers(v, m), MemberAccepts(v, op, m)
  PROVE  \/ MemberAfter(op, m) = Gone
         \/ MemberAfter(op, m) \in Member /\ MemberFollows(s, MemberAfter(op, m))
<1>1. op \in {"make owner", "make admin"} => m.role # "member" /\ s.role # "member" /\ m.self # "owner"
  <2>1. op \in {"make owner", "make admin"} => m.role # "member" /\ s.role # "member"
    BY RoleNames DEF MemberOffers, ClientRow, TeamRow, When, MemberFollows, Staff, Member
  <2>2. op \in {"make owner", "make admin"} => v = "owner" /\ m.self # v
    BY RoleNames DEF MemberAccepts
  <2> QED BY <2>1, <2>2
<1>2. CASE op \notin {"make owner", "make admin"}
  BY <1>2 DEF MemberAfter
<1>3. CASE op = "make owner"
  BY <1>1, <1>3 DEF MemberAfter, Member, MemberFollows, Staff
<1>4. CASE op = "make admin"
  BY <1>1, <1>4 DEF MemberAfter, Member, MemberFollows, Staff
<1> QED BY <1>2, <1>3, <1>4

LEMMA InvitationStep ==
  ASSUME NEW i \in Invitation, NEW op
  PROVE  InvitationAfter(op, i) \in Invitation
BY DEF Invitation, InvitationAfter

LEMMA WorkspaceStep ==
  ASSUME NEW w \in Workspace, NEW op
  PROVE  WorkspaceAfter(op, w) \in Workspace
BY DEF Workspace, WorkspaceAfter

LEMMA AccountStep ==
  ASSUME NEW a \in Account, NEW op
  PROVE  AccountAfter(op, a) \in Account \cup {Gone}
BY DEF AccountAfter

LEMMA SetupStep ==
  ASSUME NEW s \in Setup, NEW op
  PROVE  SetupAfter(op, s) \in Setup /\ SetupAfter(op, s).preset = s.preset
BY DEF Setup, SetupAfter
-----------------------------------------------------------------------------
(* Every kind of row at once.                                                  *)

LEMMA RowKinds ==
  ASSUME NEW r \in AnyRow
  PROVE  /\ (r.kind = "document" /\ r \in Document) \/ (r.kind = "file" /\ r \in File)
            \/ (r.kind = "project" /\ r \in Project) \/ (r.kind = "task" /\ r \in Task)
            \/ (r.kind = "update" /\ r \in Update) \/ (r.kind = "comment" /\ r \in Comment)
            \/ (r.kind = "note" /\ r \in Note) \/ (r.kind = "entry" /\ r \in Entry)
            \/ (r.kind = "capture" /\ r \in Capture) \/ (r.kind = "invoice" /\ r \in Invoice)
            \/ (r.kind = "unbilled" /\ r \in Unbilled) \/ (r.kind = "subscription" /\ r \in Subscription)
            \/ (r.kind = "stripe_account" /\ r \in Stripe) \/ (r.kind = "member" /\ r \in Member)
            \/ (r.kind = "invitation" /\ r \in Invitation) \/ (r.kind = "workspace" /\ r \in Workspace)
            \/ (r.kind = "account" /\ r \in Account) \/ (r.kind = "setup" /\ r \in Setup)
            \/ (r.kind = "gone" /\ r = Gone)
<1>1. /\ r \in Document => r.kind = "document"
      /\ r \in File => r.kind = "file"
  BY DEF Document, File
<1>2. /\ r \in Project => r.kind = "project"
      /\ r \in Task => r.kind = "task"
      /\ r \in Update => r.kind = "update"
      /\ r \in Comment => r.kind = "comment"
      /\ r \in Note => r.kind = "note"
      /\ r \in Entry => r.kind = "entry"
      /\ r \in Capture => r.kind = "capture"
  BY DEF Project, Task, Update, Comment, Note, Entry, Capture
<1>3. /\ r \in Invoice => r.kind = "invoice"
      /\ r \in Unbilled => r.kind = "unbilled"
      /\ r \in Subscription => r.kind = "subscription"
      /\ r \in Stripe => r.kind = "stripe_account"
  BY DEF Invoice, Unbilled, Subscription, Stripe
<1>4. /\ r \in Member => r.kind = "member"
      /\ r \in Invitation => r.kind = "invitation"
      /\ r \in Workspace => r.kind = "workspace"
      /\ r \in Account => r.kind = "account"
      /\ r \in Setup => r.kind = "setup"
  BY DEF Member, Invitation, Workspace, Account, Setup
<1>5. r = Gone => r.kind = "gone"
  BY DEF Gone
<1> QED BY <1>1, <1>2, <1>3, <1>4, <1>5 DEF AnyRow

\* The module of the row's kind answers for it.
LEMMA FileRow ==
  ASSUME NEW r, r.kind \in FileKinds, NEW v, NEW op
  PROVE  /\ Offers(v, r) = StorageOffers(v, r) /\ Accepts(v, op, r) = StorageAccepts(v, op, r)
         /\ After(v, op, r) = StorageAfter(v, op, r)
         /\ Refusals(v, r) = StorageRefusals(v, r) /\ ScreenRules(v, r) = StorageScreenRules(v, r)
BY DEF Offers, Accepts, After, Refusals, ScreenRules, FileKinds, WorkKinds, MoneyKinds, PeopleKinds, NoRowKinds

LEMMA WorkRow ==
  ASSUME NEW r, r.kind \in WorkKinds, NEW v, NEW op
  PROVE  /\ Offers(v, r) = WorkOffers(v, r) /\ Accepts(v, op, r) = WorkAccepts(v, op, r)
         /\ After(v, op, r) = WorkAfter(v, op, r)
         /\ Refusals(v, r) = WorkRefusals(v, r) /\ ScreenRules(v, r) = WorkScreenRules(v, r)
BY DEF Offers, Accepts, After, Refusals, ScreenRules, FileKinds, WorkKinds, MoneyKinds, PeopleKinds, NoRowKinds

LEMMA MoneyRow ==
  ASSUME NEW r, r.kind \in MoneyKinds, NEW v, NEW op
  PROVE  /\ Offers(v, r) = MoneyOffers(v, r) /\ Accepts(v, op, r) = MoneyAccepts(v, op, r)
         /\ After(v, op, r) = MoneyAfter(op, r)
         /\ Refusals(v, r) = MoneyRefusals(v, r) /\ ScreenRules(v, r) = MoneyScreenRules(v, r)
BY DEF Offers, Accepts, After, Refusals, ScreenRules, FileKinds, WorkKinds, MoneyKinds, PeopleKinds, NoRowKinds

LEMMA PeopleRow ==
  ASSUME NEW r, r.kind \in PeopleKinds, NEW v, NEW op
  PROVE  /\ Offers(v, r) = PeopleOffers(v, r) /\ Accepts(v, op, r) = PeopleAccepts(v, op, r)
         /\ After(v, op, r) = PeopleAfter(op, r)
         /\ Refusals(v, r) = PeopleRefusals(v, r) /\ ScreenRules(v, r) = PeopleScreenRules(v, r)
BY DEF Offers, Accepts, After, Refusals, ScreenRules, FileKinds, WorkKinds, MoneyKinds, PeopleKinds, NoRowKinds

\* A deleted row is on no screen, and nothing is accepted of it.
LEMMA GoneRow ==
  ASSUME NEW r, r.kind = "gone", NEW v, NEW op
  PROVE  Offers(v, r) = {} /\ ~Accepts(v, op, r)
BY DEF Offers, Accepts, FileKinds, WorkKinds, MoneyKinds, PeopleKinds, NoRowKinds

\* OffersAreKept, of any row.
LEMMA RowKept ==
  ASSUME NEW r \in AnyRow, RowSane(r), NEW v \in Viewers \ {"preview"}, NEW op \in Offers(v, r)
  PROVE  Accepts(v, op, r) <=> op \notin Refusals(v, r)
<1>1. CASE r.kind = "document" /\ r \in Document
  BY <1>1, FileRow, DocumentKept DEF RowSane, FileKinds, StorageOffers, StorageAccepts, StorageRefusals
<1>2. CASE r.kind = "file" /\ r \in File
  BY <1>2, FileRow, FileKept DEF FileKinds, StorageOffers, StorageAccepts, StorageRefusals
<1>3. CASE r.kind = "project" /\ r \in Project
  BY <1>3, WorkRow, ProjectKept DEF WorkKinds, WorkOffers, WorkAccepts, WorkRefusals
<1>4. CASE r.kind = "task" /\ r \in Task
  BY <1>4, WorkRow, TaskKept DEF RowSane, WorkKinds, WorkOffers, WorkAccepts, WorkRefusals
<1>5. CASE r.kind = "update" /\ r \in Update
  BY <1>5, WorkRow, UpdateKept DEF WorkKinds, WorkOffers, WorkAccepts, WorkRefusals
<1>6. CASE r.kind = "comment" /\ r \in Comment
  BY <1>6, WorkRow, CommentKept DEF WorkKinds, WorkOffers, WorkAccepts, WorkRefusals
<1>7. CASE r.kind = "note" /\ r \in Note
  BY <1>7, WorkRow, NoteKept DEF WorkKinds, WorkOffers, WorkAccepts, WorkRefusals
<1>8. CASE r.kind = "entry" /\ r \in Entry
  BY <1>8, WorkRow, EntryKept DEF RowSane, WorkKinds, WorkOffers, WorkAccepts, WorkRefusals
<1>9. CASE r.kind = "capture" /\ r \in Capture
  BY <1>9, WorkRow, CaptureKept DEF WorkKinds, WorkOffers, WorkAccepts, WorkRefusals
<1>10. CASE r.kind = "invoice" /\ r \in Invoice
  BY <1>10, MoneyRow, InvoiceKept DEF MoneyKinds, MoneyOffers, MoneyAccepts, MoneyRefusals
<1>11. CASE r.kind = "unbilled" /\ r \in Unbilled
  BY <1>11, MoneyRow, UnbilledKept DEF MoneyKinds, MoneyOffers, MoneyAccepts, MoneyRefusals
<1>12. CASE r.kind = "subscription" /\ r \in Subscription
  BY <1>12, MoneyRow, SubscriptionKept DEF MoneyKinds, MoneyOffers, MoneyAccepts, MoneyRefusals
<1>13. CASE r.kind = "stripe_account" /\ r \in Stripe
  BY <1>13, MoneyRow, StripeKept DEF MoneyKinds, MoneyOffers, MoneyAccepts, MoneyRefusals
<1>14. CASE r.kind = "member" /\ r \in Member
  BY <1>14, PeopleRow, MemberKept DEF PeopleKinds, PeopleOffers, PeopleAccepts, PeopleRefusals
<1>15. CASE r.kind = "invitation" /\ r \in Invitation
  BY <1>15, PeopleRow, InvitationKept DEF PeopleKinds, PeopleOffers, PeopleAccepts, PeopleRefusals
<1>16. CASE r.kind = "workspace" /\ r \in Workspace
  BY <1>16, PeopleRow, WorkspaceKept DEF PeopleKinds, PeopleOffers, PeopleAccepts, PeopleRefusals
<1>17. CASE r.kind = "account" /\ r \in Account
  BY <1>17, PeopleRow, AccountKept DEF PeopleKinds, PeopleOffers, PeopleAccepts, PeopleRefusals
<1>18. CASE r.kind = "setup" /\ r \in Setup
  BY <1>18, PeopleRow, SetupKept DEF PeopleKinds, PeopleOffers, PeopleAccepts, PeopleRefusals
<1>19. CASE r.kind = "gone"
  BY <1>19, GoneRow
<1> QED BY RowKinds, <1>1, <1>2, <1>3, <1>4, <1>5, <1>6, <1>7, <1>8, <1>9, <1>10,
           <1>11, <1>12, <1>13, <1>14, <1>15, <1>16, <1>17, <1>18, <1>19

\* StaleOffersAreKnown, of any row r that a screen shows as s.
LEMMA RowStale ==
  ASSUME NEW s \in AnyRow, NEW r \in AnyRow, RowSane(r), Follows(s, r), NEW v \in Viewers,
         NEW op \in Offers(v, s), Accepts(v, op, r)
  PROVE  op \in Offers(v, r) \cup ScreenRules(v, r)
<1>0. s.kind = r.kind
  BY DEF Follows
<1>1. CASE r.kind = "document" /\ r \in Document
  <2>1. s \in Document
    BY <1>0, <1>1, RowKinds
  <2>2. DocumentFollows(s, r) /\ DocumentSane(r)
    BY <1>1 DEF Follows, RowSane
  <2>3. /\ op \in DocumentOffers(v, s) /\ DocumentAccepts(v, op, r)
        /\ Offers(v, r) = DocumentOffers(v, r) /\ ScreenRules(v, r) = DocumentScreenRules(v, r)
    BY <1>0, <1>1, FileRow DEF FileKinds, StorageOffers, StorageAccepts, StorageScreenRules
  <2> QED BY <1>1, <2>1, <2>2, <2>3, DocumentStale
<1>2. CASE r.kind = "file" /\ r \in File
  <2>1. s \in File
    BY <1>0, <1>2, RowKinds
  <2> QED BY <1>0, <1>2, <2>1, FileRow, FileStale
          DEF FileKinds, StorageOffers, StorageAccepts, StorageScreenRules
<1>3. CASE r.kind = "project" /\ r \in Project
  <2>1. s \in Project
    BY <1>0, <1>3, RowKinds
  <2> QED BY <1>0, <1>3, <2>1, WorkRow, ProjectStale
          DEF WorkKinds, WorkOffers, WorkAccepts, WorkScreenRules
<1>4. CASE r.kind = "task" /\ r \in Task
  <2>1. s \in Task
    BY <1>0, <1>4, RowKinds
  <2> QED BY <1>0, <1>4, <2>1, WorkRow, TaskStale
          DEF WorkKinds, WorkOffers, WorkAccepts, WorkScreenRules
<1>5. CASE r.kind = "update" /\ r \in Update
  <2>1. s \in Update
    BY <1>0, <1>5, RowKinds
  <2> QED BY <1>0, <1>5, <2>1, WorkRow, UpdateStale
          DEF WorkKinds, WorkOffers, WorkAccepts, WorkScreenRules
<1>6. CASE r.kind = "comment" /\ r \in Comment
  <2>1. s \in Comment
    BY <1>0, <1>6, RowKinds
  <2> QED BY <1>0, <1>6, <2>1, WorkRow, CommentStale
          DEF WorkKinds, WorkOffers, WorkAccepts, WorkScreenRules
<1>7. CASE r.kind = "note" /\ r \in Note
  <2>1. s \in Note
    BY <1>0, <1>7, RowKinds
  <2> QED BY <1>0, <1>7, <2>1, WorkRow, NoteStale
          DEF WorkKinds, WorkOffers, WorkAccepts, WorkScreenRules
<1>8. CASE r.kind = "entry" /\ r \in Entry
  <2>1. s \in Entry
    BY <1>0, <1>8, RowKinds
  <2> QED BY <1>0, <1>8, <2>1, WorkRow, EntryStale
          DEF RowSane, WorkKinds, WorkOffers, WorkAccepts, WorkScreenRules
<1>9. CASE r.kind = "capture" /\ r \in Capture
  <2>1. s \in Capture
    BY <1>0, <1>9, RowKinds
  <2> QED BY <1>0, <1>9, <2>1, WorkRow, CaptureStale
          DEF WorkKinds, WorkOffers, WorkAccepts, WorkScreenRules
<1>10. CASE r.kind = "invoice" /\ r \in Invoice
  <2>1. s \in Invoice
    BY <1>0, <1>10, RowKinds
  <2>2. InvoiceFollows(s, r)
    BY <1>10 DEF Follows
  <2>3. /\ op \in InvoiceOffers(v, s) /\ InvoiceAccepts(v, op, r)
        /\ Offers(v, r) = InvoiceOffers(v, r) /\ ScreenRules(v, r) = InvoiceScreenRules(v, r)
    BY <1>0, <1>10, MoneyRow DEF MoneyKinds, MoneyOffers, MoneyAccepts, MoneyScreenRules
  <2> QED BY <1>10, <2>1, <2>2, <2>3, InvoiceStale
<1>11. CASE r.kind = "unbilled" /\ r \in Unbilled
  <2>1. s \in Unbilled
    BY <1>0, <1>11, RowKinds
  <2> QED BY <1>0, <1>11, <2>1, MoneyRow, UnbilledStale
          DEF MoneyKinds, MoneyOffers, MoneyAccepts, MoneyScreenRules
<1>12. CASE r.kind = "subscription" /\ r \in Subscription
  <2>1. s \in Subscription
    BY <1>0, <1>12, RowKinds
  <2> QED BY <1>0, <1>12, <2>1, MoneyRow, SubscriptionStale
          DEF MoneyKinds, MoneyOffers, MoneyAccepts, MoneyScreenRules
<1>13. CASE r.kind = "stripe_account" /\ r \in Stripe
  <2>1. s \in Stripe
    BY <1>0, <1>13, RowKinds
  <2> QED BY <1>0, <1>13, <2>1, MoneyRow, StripeStale
          DEF MoneyKinds, MoneyOffers, MoneyAccepts, MoneyScreenRules
<1>14. CASE r.kind = "member" /\ r \in Member
  <2>1. s \in Member
    BY <1>0, <1>14, RowKinds
  <2>2. MemberFollows(s, r)
    BY <1>14 DEF Follows
  <2>3. /\ op \in MemberOffers(v, s) /\ MemberAccepts(v, op, r)
        /\ Offers(v, r) = MemberOffers(v, r) /\ ScreenRules(v, r) = MemberScreenRules(v, r)
    BY <1>0, <1>14, PeopleRow DEF PeopleKinds, PeopleOffers, PeopleAccepts, PeopleScreenRules
  <2> QED BY <1>14, <2>1, <2>2, <2>3, MemberStale
<1>15. CASE r.kind = "invitation" /\ r \in Invitation
  <2>1. s \in Invitation
    BY <1>0, <1>15, RowKinds
  <2> QED BY <1>0, <1>15, <2>1, PeopleRow, InvitationStale
          DEF PeopleKinds, PeopleOffers, PeopleAccepts, PeopleScreenRules
<1>16. CASE r.kind = "workspace" /\ r \in Workspace
  <2>1. s \in Workspace
    BY <1>0, <1>16, RowKinds
  <2> QED BY <1>0, <1>16, <2>1, PeopleRow, WorkspaceStale
          DEF PeopleKinds, PeopleOffers, PeopleAccepts, PeopleScreenRules
<1>17. CASE r.kind = "account" /\ r \in Account
  <2>1. s \in Account
    BY <1>0, <1>17, RowKinds
  <2> QED BY <1>0, <1>17, <2>1, PeopleRow, AccountStale
          DEF PeopleKinds, PeopleOffers, PeopleAccepts, PeopleScreenRules
<1>18. CASE r.kind = "setup" /\ r \in Setup
  <2>1. s \in Setup
    BY <1>0, <1>18, RowKinds
  <2>2. r.preset = s.preset
    BY <1>18 DEF Follows
  <2>3. /\ op \in SetupOffers(v, s) /\ SetupAccepts(v, op, r)
        /\ Offers(v, r) = SetupOffers(v, r) /\ ScreenRules(v, r) = SetupScreenRules(r)
    BY <1>0, <1>18, PeopleRow DEF PeopleKinds, PeopleOffers, PeopleAccepts, PeopleScreenRules
  <2> QED BY <1>18, <2>1, <2>2, <2>3, SetupStale
<1>19. CASE r.kind = "gone"
  BY <1>19, GoneRow
<1> QED BY RowKinds, <1>1, <1>2, <1>3, <1>4, <1>5, <1>6, <1>7, <1>8, <1>9, <1>10,
           <1>11, <1>12, <1>13, <1>14, <1>15, <1>16, <1>17, <1>18, <1>19

\* Fields are placed only on what asks for a signature.
LEMMA OnlyForSignatures ==
  ASSUME NEW d \in Document, NEW v, NEW op \in DocumentOffers(v, d), op \in {"place sign", "place select"}
  PROVE  d.wants = "signature"
<1>1. op \in DashboardDocument(v, d)
  BY DEF DocumentOffers, PortalDocument, PortalApprovalActions, PortalChoiceActions, DocumentViewerActions,
         SignPage, When
<1> QED BY <1>1 DEF DashboardDocument, CardActions, PlacerForm, CardVersionActions, VoidForm,
                    EarlierVersionActions, LinkActions, FileCardActions, EditFileForm, When

\* What becomes of a row r that a screen shows as s, by any request.
LEMMA RowStep ==
  ASSUME NEW s \in AnyRow, NEW r \in AnyRow, RowSane(r), Follows(s, r),
         NEW v \in Actors, NEW op, Accepts(v, op, r),
         IF v \in Machines THEN op \in MachineOps ELSE op \in Offers(v, s) \cup Offers(v, r)
  PROVE  \/ After(v, op, r) = Gone
         \/ After(v, op, r) \in AnyRow /\ RowSane(After(v, op, r)) /\ Follows(s, After(v, op, r))
<1>0. s.kind = r.kind
  BY DEF Follows
<1> DEFINE Stays(e) == e = Gone \/ (e \in AnyRow /\ RowSane(e) /\ Follows(s, e))
<1>a. ASSUME NEW e, e = Gone \/ (e \in File \cup Project \cup Update \cup Unbilled \cup Subscription
                                  \cup Stripe \cup Invitation \cup Workspace \cup Account /\ e.kind = r.kind)
      PROVE  Stays(e)
  <2>1. CASE e = Gone
    BY <2>1
  <2>2. CASE e # Gone
    <3>1. e \in AnyRow
      BY <1>a, <2>2 DEF AnyRow
    <3>2. e.kind \notin {"document", "task", "entry", "invoice", "member", "setup"}
      BY <1>a, <2>2 DEF File, Project, Update, Unbilled, Subscription, Stripe, Invitation, Workspace, Account
    <3> QED BY <1>0, <1>a, <2>2, <3>1, <3>2 DEF RowSane, Follows
  <2> QED BY <2>1, <2>2
<1>1. CASE r.kind = "document" /\ r \in Document
  <2>1. s \in Document /\ DocumentFollows(s, r) /\ DocumentSane(r)
    BY <1>0, <1>1, RowKinds DEF Follows, RowSane
  <2>2. /\ After(v, op, r) = DocumentAfter(v, op, r) /\ DocumentAccepts(v, op, r)
        /\ Offers(v, r) = DocumentOffers(v, r) /\ Offers(v, s) = DocumentOffers(v, s)
    BY <1>0, <1>1, FileRow DEF FileKinds, StorageAfter, StorageAccepts, StorageOffers
  <2>3. op \in {"place sign", "place select"} => r.wants = "signature"
    BY <1>1, <2>1, <2>2, OnlyForSignatures DEF MachineOps, AssignOps, StripeOps, AgentOps, DocumentFollows
  <2>4. \/ After(v, op, r) = Gone
        \/ /\ After(v, op, r) \in Document /\ DocumentSane(After(v, op, r))
           /\ DocumentFollows(s, After(v, op, r))
    BY <1>1, <2>1, <2>2, <2>3, DocumentStep
  <2>5. After(v, op, r) \in Document => After(v, op, r).kind = "document" /\ After(v, op, r) \in AnyRow
    BY DEF Document, AnyRow
  <2> QED BY <1>0, <1>1, <2>4, <2>5 DEF RowSane, Follows
<1>2. CASE r.kind = "file" /\ r \in File
  <2>1. After(v, op, r) = FileAfter(op, r) /\ FileAccepts(v, op, r)
    BY <1>2, FileRow DEF FileKinds, StorageAfter, StorageAccepts
  <2>2. After(v, op, r) = Gone \/ (After(v, op, r) \in File /\ After(v, op, r).kind = r.kind)
    BY <1>2, <2>1, FileStep DEF File
  <2> QED BY <1>a, <2>2
<1>3. CASE r.kind = "project" /\ r \in Project
  <2>1. After(v, op, r) = ProjectAfter(op, r) /\ ProjectAccepts(v, op, r)
    BY <1>3, WorkRow DEF WorkKinds, WorkAfter, WorkAccepts
  <2>2. After(v, op, r) = Gone \/ (After(v, op, r) \in Project /\ After(v, op, r).kind = r.kind)
    BY <1>3, <2>1, ProjectStep DEF Project
  <2> QED BY <1>a, <2>2
<1>4. CASE r.kind = "task" /\ r \in Task
  <2>1. After(v, op, r) = TaskAfter(op, r) /\ ~(r.decision /\ r.requester = "client")
    BY <1>4, WorkRow DEF WorkKinds, WorkAfter, RowSane
  <2>2. After(v, op, r) \in Task => After(v, op, r).kind = "task" /\ After(v, op, r) \in AnyRow
    BY DEF Task, AnyRow
  <2> QED BY <1>0, <1>4, <2>1, <2>2, TaskStep DEF RowSane, Follows
<1>5. CASE r.kind = "update" /\ r \in Update
  <2>1. After(v, op, r) = UpdateAfter(op, r) /\ UpdateAccepts(v, op, r)
    BY <1>5, WorkRow DEF WorkKinds, WorkAfter, WorkAccepts
  <2>2. After(v, op, r) = Gone \/ (After(v, op, r) \in Update /\ After(v, op, r).kind = r.kind)
    BY <1>5, <2>1, UpdateStep DEF Update
  <2> QED BY <1>a, <2>2
<1>6. CASE r.kind = "comment" /\ r \in Comment
  BY <1>6, WorkRow DEF WorkKinds, WorkAfter
<1>7. CASE r.kind = "note" /\ r \in Note
  BY <1>7, WorkRow DEF WorkKinds, WorkAfter
<1>8. CASE r.kind = "entry" /\ r \in Entry
  <2>1. After(v, op, r) = EntryAfter(v, op, r) /\ EntryAccepts(v, op, r) /\ ~(r.running /\ r.invoiced)
    BY <1>8, WorkRow DEF WorkKinds, WorkAfter, WorkAccepts, RowSane
  <2>2. After(v, op, r) \in Entry => After(v, op, r).kind = "entry" /\ After(v, op, r) \in AnyRow
    BY DEF Entry, AnyRow
  <2> QED BY <1>0, <1>8, <2>1, <2>2, EntryStep DEF RowSane, Follows
<1>9. CASE r.kind = "capture" /\ r \in Capture
  BY <1>9, WorkRow DEF WorkKinds, WorkAfter
<1>10. CASE r.kind = "invoice" /\ r \in Invoice
  <2>1. s \in Invoice /\ InvoiceFollows(s, r)
    BY <1>0, <1>10, RowKinds DEF Follows
  <2>2. After(v, op, r) = InvoiceAfter(op, r) /\ InvoiceAccepts(v, op, r)
    BY <1>10, MoneyRow DEF MoneyKinds, MoneyAfter, MoneyAccepts
  <2>3. After(v, op, r) \in Invoice => After(v, op, r).kind = "invoice" /\ After(v, op, r) \in AnyRow
    BY DEF Invoice, AnyRow
  <2> QED BY <1>0, <1>10, <2>1, <2>2, <2>3, InvoiceStep DEF RowSane, Follows
<1>11. CASE r.kind = "unbilled" /\ r \in Unbilled
  <2>1. After(v, op, r) = UnbilledAfter(op, r) /\ UnbilledAccepts(v, op, r)
    BY <1>11, MoneyRow DEF MoneyKinds, MoneyAfter, MoneyAccepts
  <2>2. After(v, op, r) = Gone \/ (After(v, op, r) \in Unbilled /\ After(v, op, r).kind = r.kind)
    BY <1>11, <2>1, UnbilledStep DEF Unbilled
  <2> QED BY <1>a, <2>2
<1>12. CASE r.kind = "subscription" /\ r \in Subscription
  <2>1. After(v, op, r) = SubscriptionAfter(op, r) /\ SubscriptionAccepts(v, op, r)
    BY <1>12, MoneyRow DEF MoneyKinds, MoneyAfter, MoneyAccepts
  <2>2. After(v, op, r) = Gone \/ (After(v, op, r) \in Subscription /\ After(v, op, r).kind = r.kind)
    BY <1>12, <2>1, SubscriptionStep DEF Subscription
  <2> QED BY <1>a, <2>2
<1>13. CASE r.kind = "stripe_account" /\ r \in Stripe
  <2>1. After(v, op, r) = StripeAfter(op, r) /\ StripeAccepts(v, op, r)
    BY <1>13, MoneyRow DEF MoneyKinds, MoneyAfter, MoneyAccepts
  <2>2. After(v, op, r) = Gone \/ (After(v, op, r) \in Stripe /\ After(v, op, r).kind = r.kind)
    BY <1>13, <2>1, StripeStep DEF Stripe
  <2> QED BY <1>a, <2>2
<1>14. CASE r.kind = "member" /\ r \in Member
  <2>1. s \in Member /\ MemberFollows(s, r)
    BY <1>0, <1>14, RowKinds DEF Follows
  <2>2. /\ After(v, op, r) = MemberAfter(op, r) /\ MemberAccepts(v, op, r)
        /\ Offers(v, r) = MemberOffers(v, r) /\ Offers(v, s) = MemberOffers(v, s)
    BY <1>0, <1>14, PeopleRow DEF PeopleKinds, PeopleAfter, PeopleAccepts, PeopleOffers
  <2>3. op \in MemberOffers(v, s) \cup MemberOffers(v, r)
    BY <2>2 DEF MemberAccepts, Staff, Machines
  <2>4. After(v, op, r) = Gone \/ (After(v, op, r) \in Member /\ MemberFollows(s, After(v, op, r)))
    BY <1>14, <2>1, <2>2, <2>3, MemberStep
  <2>5. After(v, op, r) \in Member => After(v, op, r).kind = "member" /\ After(v, op, r) \in AnyRow
    BY DEF Member, AnyRow
  <2> QED BY <1>0, <1>14, <2>4, <2>5 DEF RowSane, Follows
<1>15. CASE r.kind = "invitation" /\ r \in Invitation
  <2>1. After(v, op, r) = InvitationAfter(op, r) /\ InvitationAccepts(v, op, r)
    BY <1>15, PeopleRow DEF PeopleKinds, PeopleAfter, PeopleAccepts
  <2>2. After(v, op, r) = Gone \/ (After(v, op, r) \in Invitation /\ After(v, op, r).kind = r.kind)
    BY <1>15, <2>1, InvitationStep DEF Invitation
  <2> QED BY <1>a, <2>2
<1>16. CASE r.kind = "workspace" /\ r \in Workspace
  <2>1. After(v, op, r) = WorkspaceAfter(op, r) /\ WorkspaceAccepts(v, op, r)
    BY <1>16, PeopleRow DEF PeopleKinds, PeopleAfter, PeopleAccepts
  <2>2. After(v, op, r) = Gone \/ (After(v, op, r) \in Workspace /\ After(v, op, r).kind = r.kind)
    BY <1>16, <2>1, WorkspaceStep DEF Workspace
  <2> QED BY <1>a, <2>2
<1>17. CASE r.kind = "account" /\ r \in Account
  <2>1. After(v, op, r) = AccountAfter(op, r) /\ AccountAccepts(v, op, r)
    BY <1>17, PeopleRow DEF PeopleKinds, PeopleAfter, PeopleAccepts
  <2>2. After(v, op, r) = Gone \/ (After(v, op, r) \in Account /\ After(v, op, r).kind = r.kind)
    BY <1>17, <2>1, AccountStep DEF Account
  <2> QED BY <1>a, <2>2
<1>18. CASE r.kind = "setup" /\ r \in Setup
  <2>1. r.preset = s.preset
    BY <1>0, <1>18 DEF Follows
  <2>2. After(v, op, r) = SetupAfter(op, r)
    BY <1>18, PeopleRow DEF PeopleKinds, PeopleAfter
  <2>3. After(v, op, r) \in Setup => After(v, op, r).kind = "setup" /\ After(v, op, r) \in AnyRow
    BY DEF Setup, AnyRow
  <2> QED BY <1>0, <1>18, <2>1, <2>2, <2>3, SetupStep DEF RowSane, Follows
<1>19. CASE r.kind = "gone"
  BY <1>19, GoneRow
<1> QED BY RowKinds, <1>1, <1>2, <1>3, <1>4, <1>5, <1>6, <1>7, <1>8, <1>9, <1>10,
           <1>11, <1>12, <1>13, <1>14, <1>15, <1>16, <1>17, <1>18, <1>19

-----------------------------------------------------------------------------
(* The theorems.                                                               *)

\* A new row is sane, and shown as it is.
LEMMA ControlsBegin == ControlsInit => ControlsInv
<1> SUFFICES ASSUME ControlsInit PROVE ControlsInv
  OBVIOUS
<1>1. row \in AnyRow /\ RowSane(row)
  <2>1. CASE row \in NewDocuments
    <3>1. PICK f \in UploadForms : row = Created(f)
      BY <2>1 DEF NewDocuments
    <3>2. row \in Document /\ DocumentSane(row)
      BY <3>1 DEF Created, UploadForms, Document, DocumentSane, Statuses, Unanswered
    <3> QED BY <3>2 DEF AnyRow, RowSane, Document
  <2>2. CASE row \in NewFiles
    BY <2>2 DEF NewFiles, File, AnyRow, RowSane
  <2>3. CASE row \in NewTasks
    BY <2>3 DEF NewTasks, Task, AnyRow, RowSane
  <2>4. CASE row \in NewEntries
    BY <2>4 DEF NewEntries, Entry, AnyRow, RowSane
  <2>5. CASE row \in Project \cup Update \cup Comment \cup Note \cup Capture
    BY <2>5 DEF Project, Update, Comment, Note, Capture, AnyRow, RowSane
  <2>6. CASE row \in NewMoney
    <3>1. row \in Invoice \cup Unbilled \cup Subscription \cup Stripe
      BY <2>6 DEF NewMoney, NewInvoices, CreateForm, UploadForm, OfTime, FreshInvoices, NewUnbilled, NewSubscriptions, NewStripe
    <3> QED BY <3>1 DEF Invoice, Unbilled, Subscription, Stripe, AnyRow, RowSane
  <2>7. CASE row \in NewPeople
    <3>1. row \in Member \cup Invitation \cup Workspace \cup Account \cup Setup
      BY <2>7 DEF NewPeople, NewMembers, NewInvitations, NewWorkspaces, NewSetups
    <3> QED BY <3>1 DEF Member, Invitation, Workspace, Account, Setup, AnyRow, RowSane
  <2> QED BY <2>1, <2>2, <2>3, <2>4, <2>5, <2>6, <2>7 DEF ControlsInit, NewWork
<1>2. Follows(row, row)
  BY DEF Follows, DocumentFollows, InvoiceFollows, MemberFollows
<1> QED BY <1>1, <1>2 DEF ControlsInv, ControlsTypeOK, ControlsInit

\* The archive changes nothing that the invariant looks at.
LEMMA ArchiveStep ==
  ASSUME NEW r \in AnyRow, r # Gone, RowSane(r), NEW s \in AnyRow, Follows(s, r), r.kind # "project",
         "archived" \in DOMAIN r, NEW b \in BOOLEAN
  PROVE  LET e == [r EXCEPT !.archived = b] IN e \in AnyRow /\ RowSane(e) /\ Follows(s, e)
<1> DEFINE e == [r EXCEPT !.archived = b]
<1> SUFFICES e \in AnyRow /\ RowSane(e) /\ Follows(s, e)
  OBVIOUS
<1>1. CASE r \in Document
  <2>1. e \in Document /\ e.kind = "document" /\ r.kind = "document"
    BY <1>1 DEF Document
  <2>2. DocumentSane(e)
    BY <1>1, <2>1 DEF RowSane, DocumentSane, Document, Unanswered
  <2>3. DocumentFollows(s, e)
    BY <1>1, <2>1 DEF Follows, DocumentFollows, Document
  <2> QED BY <2>1, <2>2, <2>3 DEF AnyRow, RowSane, Follows
<1>2. CASE r \in Invoice
  <2>1. e \in Invoice /\ e.kind = "invoice" /\ r.kind = "invoice"
    BY <1>2 DEF Invoice
  <2>2. InvoiceFollows(s, e)
    BY <1>2, <2>1 DEF Follows, InvoiceFollows, Invoice
  <2> QED BY <2>1, <2>2 DEF AnyRow, RowSane, Follows
<1>3. CASE r \in Task
  <2>1. e \in Task /\ e.kind = "task" /\ r.kind = "task"
    BY <1>3 DEF Task
  <2>2. ~(e.decision /\ e.requester = "client")
    BY <1>3, <2>1 DEF RowSane, Task
  <2> QED BY <2>1, <2>2 DEF AnyRow, RowSane, Follows
<1>4. CASE r \in Entry
  <2>1. e \in Entry /\ e.kind = "entry" /\ r.kind = "entry"
    BY <1>4 DEF Entry
  <2>2. ~(e.running /\ e.invoiced)
    BY <1>4, <2>1 DEF RowSane, Entry
  <2> QED BY <2>1, <2>2 DEF AnyRow, RowSane, Follows
<1>5. CASE r \in File \cup Update \cup Comment \cup Note \cup Capture
  <2>1. e \in File \cup Update \cup Comment \cup Note \cup Capture /\ e.kind = r.kind
    BY <1>5 DEF File, Update, Comment, Note, Capture
  <2>2. e.kind \in {"file", "update", "comment", "note", "capture"}
    BY <2>1 DEF File, Update, Comment, Note, Capture
  <2> QED BY <2>1, <2>2 DEF AnyRow, RowSane, Follows
<1>6. CASE r \in Unbilled \cup Subscription \cup Stripe
  BY <1>6 DEF Unbilled, Subscription, Stripe
<1>7. CASE r \in Member \cup Invitation \cup Workspace \cup Account \cup Setup
  BY <1>7 DEF Member, Invitation, Workspace, Account, Setup
<1>8. CASE r \in Project
  BY <1>8 DEF Project
<1> QED BY <1>1, <1>2, <1>3, <1>4, <1>5, <1>6, <1>7, <1>8 DEF AnyRow

\* Every step keeps it: a request, of a screen however old or of a machine, the
\* archive, and a refresh.
LEMMA ControlsKept == ControlsInv /\ [ControlsNext]_controls => ControlsInv'
<1> SUFFICES ASSUME ControlsInv, [ControlsNext]_controls PROVE ControlsInv'
  OBVIOUS
<1>1. CASE Operate
  <2>1. PICK v \in Actors : \E op \in Asked(v) : Accepts(v, op, row) /\ row' = After(v, op, row)
    BY <1>1 DEF Operate
  <2>2. PICK op \in Asked(v) : Accepts(v, op, row) /\ row' = After(v, op, row)
    BY <2>1
  <2>3. row # Gone
    BY <2>2, GoneRow DEF Gone
  <2>4. row' = Gone \/ (row' \in AnyRow /\ RowSane(row') /\ Follows(seen, row'))
    BY <2>2, <2>3, RowStep DEF ControlsInv, ControlsTypeOK, Asked
  <2>5. CASE row' = Gone
    <3>1. row' \in AnyRow /\ RowSane(row')
      BY <2>5 DEF AnyRow, RowSane, Gone
    <3> QED BY <1>1, <2>5, <3>1 DEF Operate, ControlsInv, ControlsTypeOK
  <2>6. CASE row' \in AnyRow /\ RowSane(row') /\ Follows(seen, row')
    BY <1>1, <2>6 DEF Operate, ControlsInv, ControlsTypeOK
  <2> QED BY <2>4, <2>5, <2>6
<1>2. CASE Archive
  <2>1. row # Gone
    BY <1>2 DEF Archive, Gone
  <2>2. (~row.archived) \in BOOLEAN
    OBVIOUS
  <2>3. row' \in AnyRow /\ RowSane(row') /\ Follows(seen, row')
    BY <1>2, <2>1, <2>2, ArchiveStep DEF Archive, ControlsInv, ControlsTypeOK
  <2> QED BY <1>2, <2>3 DEF Archive, ControlsInv, ControlsTypeOK
<1>3. CASE Refresh
  <2>1. Follows(row, row)
    BY DEF Follows, DocumentFollows, InvoiceFollows, MemberFollows
  <2> QED BY <1>3, <2>1 DEF Refresh, ControlsInv, ControlsTypeOK
<1>4. CASE UNCHANGED controls
  BY <1>4 DEF controls, ControlsInv, ControlsTypeOK
<1> QED BY <1>1, <1>2, <1>3, <1>4 DEF ControlsNext

\* The row, and the row as the screens show it, are always rows of the API, sane
\* ones, and of the row a screen shows stays what its buttons rely on, however
\* many changes the screen has missed.
THEOREM ControlsFollow == ControlsSpec => []ControlsInv
BY ControlsBegin, ControlsKept, PTL DEF ControlsSpec

\* No up-to-date screen of the dashboard, the portal or a link offers what
\* the API refuses, but for the refusals that are named: of any row, however it
\* came to be as it is.
THEOREM OffersKept == ControlsSpec => []OffersAreKept
<1>1. ControlsInv => OffersAreKept
  BY RowKept DEF ControlsInv, ControlsTypeOK, OffersAreKept
<1> QED BY <1>1, ControlsFollow, PTL

\* What an outdated screen offers is refused, or the screen would offer it up to
\* date as well, or it is one of the rules that only the screens keep: for any
\* number of missed changes.
THEOREM StaleOffersKnown == ControlsSpec => []StaleOffersAreKnown
<1>1. ControlsInv => StaleOffersAreKnown
  <2> SUFFICES ASSUME ControlsInv, NEW v \in Viewers, NEW op \in Offers(v, seen), Accepts(v, op, row)
               PROVE  op \in Offers(v, row) \cup ScreenRules(v, row)
    BY DEF StaleOffersAreKnown
  <2>1. row # Gone
    BY GoneRow DEF Gone
  <2> QED BY <2>1, RowStale DEF ControlsInv, ControlsTypeOK
<1> QED BY <1>1, ControlsFollow, PTL
=============================================================================
