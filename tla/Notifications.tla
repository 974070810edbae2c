----------------------------- MODULE Notifications -----------------------------
(***************************************************************************)
(* Who is told of what (apps/api/src/notifications, comments and           *)
(* documents/document-reminder.task.ts).  A handler starts a notification  *)
(* and does not wait for it: a job of its own then reads the people        *)
(* concerned, as they are by then, and writes their notifications and      *)
(* sends their mail; what fails is logged and not repeated.                *)
(*                                                                         *)
(* One project with one task and one document that is sent.  A call of     *)
(* createInAppAndPush() is a set of people and the area its link leads to; *)
(* push follows the in-app rows and is in PushKeys.  Wording is left out.  *)
(***************************************************************************)
EXTENDS Integers, Sequences, FiniteSets

CONSTANTS
  User,
  Jobs,        \* notifications under way together
  Copies,      \* copies of the API that run, each with its hourly tasks
  MaxChanges,  \* bound: changes of roles, assignments and answers
  MaxDoubled,  \* bound: people with two Member rows
  None

ASSUME NotificationsAssumption ==
  /\ IsFiniteSet(User) /\ IsFiniteSet(Jobs) /\ IsFiniteSet(Copies) /\ None \notin User
  /\ MaxChanges \in Nat /\ MaxDoubled \in Nat

VARIABLES
  role,        \* Member.role: "agency" is owner or admin, "client" member, "gone" no row;
               \* of two rows of one person, the one findFirst() finds
  second,      \* and the role of the other row: nothing keeps a person to one
  roster,      \* ProjectClient
  requester,   \* Task.requestedById
  assignee,    \* Task.assigneeId
  doc,         \* the status of the document; "lapsed": pending past its expiry
  answered,    \* the users of its DocumentResponse rows
  due,         \* has the interval passed since Document.lastReminderAt?
  cron,        \* the hourly reminder task of each copy, and the answers it has read
  sent,        \* history: reminders each started in this interval, 2 for more
  beside,      \* history: the copies that were at it together in this interval
  died,        \* history: did a task end after a reminder, before it stored the time?
  changes,     \* how many changes there were
  job, my      \* where each job is, and what it knows

people == <<role, second, roster, requester, assignee>>
tasks == <<cron, sent, beside, died>>
document == <<doc, answered, due, tasks>>
vars == <<people, document, changes, job, my>>

Part == {"agency", "client", "gone"}
Area == {"dashboard", "portal"}
Call == [to : SUBSET User, twice : SUBSET User, area : Area]   \* some are listed twice
ClientKind == {"project_update", "task_created", "decision_closed", "invoice_sent", "document_uploaded"}
AdminKind == {"invoice_paid", "stripe_disconnected", "document_responded", "client_request_created"}
CommentKind == {"comment_update", "comment_task"}
OneKind == {"task_status_changed", "task_assigned", "signing_turn", "document_reminder"}
Kind == ClientKind \cup AdminKind \cup CommentKind \cup OneKind
Mailed == ClientKind \cup {"invoice_paid", "document_responded", "document_reminder", "signing_turn"}

\* What a job is given and what it has found: who caused it and whether the session
\* said they were a client, the users of its task (or the signer), the answers the
\* reminder task had read and those there were when it started, the calls to make, how often
\* each user was told, and for the properties: who had two rows as staff when people were
\* looked up, and whether the author's part changed meanwhile or was twofold at the start.
Memory == [kind : Kind \cup {None}, by : User \cup {None}, client : BOOLEAN,
           requester : User \cup {None}, assignee : User \cup {None},
           saw : SUBSET User, before : SUBSET User,
           calls : Seq(Call), told : [User -> Nat], mail : SUBSET User,
           twice : SUBSET User, changed : BOOLEAN]
Blank == [kind |-> None, by |-> None, client |-> FALSE, requester |-> None, assignee |-> None,
          saw |-> {}, before |-> {}, calls |-> <<>>, told |-> [u \in User |-> 0], mail |-> {},
          twice |-> {}, changed |-> FALSE]

\* getOrgAdmins(): one entry for each row
Admins == {u \in User : "agency" \in {role[u], second[u]}}
Twice == {u \in User : role[u] = "agency" /\ second[u] = "agency"}
Clients == roster                                \* getProjectClients()

Resting == [at |-> "idle", saw |-> {}]

Init ==
  /\ role \in [User -> Part \ {"gone"}] /\ roster \in SUBSET User
  /\ second \in {s \in [User -> Part] : Cardinality({u \in User : s[u] # "gone"}) <= MaxDoubled}
  /\ requester \in User \cup {None} /\ assignee \in Admins \cup {None}
  /\ doc = "pending" /\ answered = {} /\ due = FALSE
  /\ cron = [c \in Copies |-> Resting] /\ sent = [c \in Copies |-> 0]
  /\ beside = {} /\ died = FALSE
  /\ changes = 0
  /\ job = [j \in Jobs |-> "idle"] /\ my = [j \in Jobs |-> Blank]

----------------------------------------------------------------------------
(* The calls of each kind of notification *)

To(us, area) == [to |-> us, twice |-> {}, area |-> area]
One(u, area) == To({u} \ {None}, area)
ToAdmins == [to |-> Admins, twice |-> Twice, area |-> "dashboard"]

ProjectUpdate == <<To(Clients, "portal")>>
TaskCreated == <<To(Clients, "portal")>>
DecisionClosed == <<To(Clients, "portal")>>
InvoiceSent == <<To(Clients, "portal")>>
DocumentUploaded == <<To(Clients, "portal")>>
InvoicePaid == <<ToAdmins>>
StripeDisconnected == <<ToAdmins>>
DocumentResponded == <<ToAdmins>>
ClientRequestCreated == <<ToAdmins>>
TaskAssigned(m) == <<One(m.assignee, "dashboard")>>
SigningTurn(m) == <<One(m.requester, "portal")>>

\* The link is the portal's for those who are no members, clients or not.
Place(u) == IF u # None /\ role[u] = "gone" THEN "portal" ELSE "dashboard"
StatusChangedTwice(m) ==              \* mutant: requester and assignee may be one person
  <<One(m.requester, Place(m.requester)), One(m.assignee, Place(m.assignee))>>
StatusChanged(m) ==
  IF m.requester = m.assignee THEN <<One(m.requester, Place(m.requester))>>
                              ELSE StatusChangedTwice(m)

DocumentReminderOld(m) == <<To(Clients \ m.saw, "portal")>>   \* mutant: the answers the task read
DocumentReminder(m) == <<To(Clients \ answered, "portal")>>

ClientTaskCommentAll(m) ==            \* mutant: the author is one of the targets
  <<To(Admins \cup ({m.assignee} \ {None}), "dashboard")>>
ClientTaskComment(m) ==
  <<To((Admins \cup ({m.assignee} \ {None})) \ {m.by}, "dashboard")>>

AgencyTaskComment(m) ==
  LET asked == {m.requester} \ {None, m.by}
      client == {u \in asked : role[u] # "agency"}     \* by the row that is found
      dashboard == ({m.assignee} \ {None, m.by}) \cup (asked \ client)
      portal == IF m.requester = None THEN Clients \ {m.by} ELSE client
  IN <<To(dashboard, "dashboard"), To(portal \ dashboard, "portal")>>

UpdateComment(m) == IF m.client THEN <<ToAdmins>>
                                ELSE <<To(Clients \ {m.by}, "portal")>>

Plan(m) ==
  CASE m.kind = "project_update" -> ProjectUpdate
    [] m.kind = "task_created" -> TaskCreated
    [] m.kind = "decision_closed" -> DecisionClosed
    [] m.kind = "invoice_sent" -> InvoiceSent
    [] m.kind = "document_uploaded" -> DocumentUploaded
    [] m.kind = "invoice_paid" -> InvoicePaid
    [] m.kind = "stripe_disconnected" -> StripeDisconnected
    [] m.kind = "document_responded" -> DocumentResponded
    [] m.kind = "client_request_created" -> ClientRequestCreated
    [] m.kind = "task_assigned" -> TaskAssigned(m)
    [] m.kind = "signing_turn" -> SigningTurn(m)
    [] m.kind = "task_status_changed" -> StatusChanged(m)
    [] m.kind = "document_reminder" -> DocumentReminder(m)
    [] m.kind = "comment_task" -> IF m.client THEN ClientTaskComment(m) ELSE AgencyTaskComment(m)
    [] m.kind = "comment_update" -> UpdateComment(m)

----------------------------------------------------------------------------
(* Handlers start jobs *)

Start(j, m) == /\ job[j] = "idle" /\ job' = [job EXCEPT ![j] = "lookup"]
               /\ my' = [my EXCEPT ![j] = m]
Of(kind) == [Blank EXCEPT !.kind = kind]
OfTask(kind) == [Of(kind) EXCEPT !.requester = requester, !.assignee = assignee]

Notify(j, kind) ==
  /\ Start(j, Of(kind))
  /\ kind = "document_uploaded" => doc = "pending"
  /\ UNCHANGED <<people, document, changes>>

\* TasksService.update() and cancelClientTask()
ChangeStatus(j) ==
  /\ Start(j, OfTask("task_status_changed"))
  /\ UNCHANGED <<people, document, changes>>

Assign(j, u) ==
  /\ u \in Admins /\ u # assignee
  /\ assignee' = u
  /\ Start(j, [Of("task_assigned") EXCEPT !.assignee = u])
  /\ UNCHANGED <<role, second, roster, requester, document, changes>>

\* CommentsService.create(): assertProjectAccess() lets in staff and clients of the project.
Comment(j, u, kind) ==
  /\ role[u] = "agency" \/ (role[u] = "client" /\ u \in roster)
  /\ Start(j, [IF kind = "comment_task" THEN OfTask(kind) ELSE Of(kind)
                 EXCEPT !.by = u, !.client = (role[u] = "client"),
                        !.changed = (second[u] = "agency")])
  /\ UNCHANGED <<people, document, changes>>

\* notifyNextSignerIfNeeded(): whoever the next field is assigned to.
Turn(j, u) ==
  /\ doc = "pending"
  /\ Start(j, [Of("signing_turn") EXCEPT !.requester = u])
  /\ UNCHANGED <<people, document, changes>>

----------------------------------------------------------------------------
(* DocumentReminderTask.sendReminders(), in every copy of the API *)

AtWork == {c \in Copies : cron[c].at # "idle"}

CronList(c) ==
  /\ cron[c].at = "idle" /\ doc = "pending" /\ due
  /\ cron' = [cron EXCEPT ![c] = [at |-> "listed", saw |-> answered]]
  /\ beside' = IF AtWork = {} THEN beside ELSE beside \cup AtWork \cup {c}
  /\ UNCHANGED <<people, doc, answered, due, sent, died, changes, job, my>>

CronNotify(c, j) ==
  /\ cron[c].at = "listed" /\ cron' = [cron EXCEPT ![c] = [at |-> "notified", saw |-> {}]]
  /\ Start(j, [Of("document_reminder") EXCEPT !.saw = cron[c].saw, !.before = answered])
  /\ sent' = [sent EXCEPT ![c] = IF @ < 2 THEN @ + 1 ELSE @]
  /\ UNCHANGED <<people, doc, answered, due, beside, died, changes>>

CronEnds(c) == cron' = [cron EXCEPT ![c] = Resting]

CronWriteNothing(c) ==                \* mutant: the time of the reminder is not stored
  /\ cron[c].at = "notified" /\ CronEnds(c)
  /\ UNCHANGED <<people, doc, answered, due, sent, beside, died, changes, job, my>>

\* The update fails, and the task with it, when the document is gone.
CronWrite(c) ==
  /\ cron[c].at = "notified" /\ CronEnds(c)
  /\ due' = (due /\ doc = "gone")
  /\ UNCHANGED <<people, doc, answered, sent, beside, died, changes, job, my>>

CronDies(c) ==
  /\ cron[c].at # "idle" /\ CronEnds(c)
  /\ died' = (died \/ (cron[c].at = "notified" /\ sent[c] > 0))
  /\ UNCHANGED <<people, doc, answered, due, sent, beside, changes, job, my>>

\* The interval has passed.
Elapse ==
  /\ ~due /\ due' = TRUE /\ sent' = [c \in Copies |-> 0] /\ died' = FALSE
  /\ beside' = IF Cardinality(AtWork) < 2 THEN {} ELSE AtWork
  /\ UNCHANGED <<people, doc, answered, cron, changes, job, my>>

----------------------------------------------------------------------------
(* The job *)

Lookup(j) ==
  /\ job[j] = "lookup" /\ job' = [job EXCEPT ![j] = "call"]
  /\ my' = [my EXCEPT ![j].calls =
              IF my[j].kind \in {"document_uploaded", "document_responded", "document_reminder", "signing_turn"}
                 /\ doc = "gone"
              THEN <<>> ELSE Plan(my[j]),
                       ![j].requester = None, ![j].assignee = None, ![j].saw = {},
                       ![j].twice = Twice]
  /\ UNCHANGED <<people, document, changes>>

\* createInAppAndPush(): one createMany() with a row for every entry of the list, which may
\* fail; for nobody it does nothing.
\* Mail follows, unless it cannot be sent.
Tell(j) ==
  /\ job[j] = "call" /\ my[j].calls # <<>>
  /\ LET to == Head(my[j].calls).to
         twice == Head(my[j].calls).twice IN
       \E ok \in BOOLEAN, mail \in {{}, to} :
         /\ my[j].kind \notin Mailed => mail = {}
         /\ my' = [my EXCEPT ![j].calls = Tail(@), ![j].mail = @ \cup mail,
              ![j].told = [u \in User |-> IF ~ok \/ u \notin to THEN @[u]
                                         ELSE @[u] + (IF u \in twice THEN 2 ELSE 1)]]
  /\ UNCHANGED <<people, document, changes, job>>

Finish(j) ==
  /\ job[j] = "call" /\ my[j].calls = <<>>
  /\ job' = [job EXCEPT ![j] = "idle"] /\ my' = [my EXCEPT ![j] = Blank]
  /\ UNCHANGED <<people, document, changes>>

----------------------------------------------------------------------------
(* What others change meanwhile (Membership and DocumentSigning have these *)
(* in full).                                                               *)

Change == changes < MaxChanges /\ changes' = changes + 1
Changed(u) == my' = [j \in Jobs |-> IF my[j].by # u THEN my[j]
                                    ELSE [my[j] EXCEPT !.changed = TRUE]]

\* One row of u becomes r or goes; which of two rows is found first may change with it.
ChangeRole(u, r) ==
  /\ Change /\ role[u] # "gone"
  /\ \E kept \in IF second[u] = "gone" THEN {"gone"} ELSE {role[u], second[u]} :
       \E first \in {r, kept}, other \in {r, kept} :
         /\ {first, other} = {r, kept} /\ (first = "gone" => other = "gone")
         /\ <<first, other>> # <<role[u], second[u]>>
         /\ role' = [role EXCEPT ![u] = first] /\ second' = [second EXCEPT ![u] = other]
  /\ roster' = IF r = "gone" THEN roster \ {u} ELSE roster
  /\ Changed(u)
  /\ UNCHANGED <<requester, assignee, document, job>>

AssignClient(u) ==
  /\ Change /\ role[u] # "gone"
  /\ roster' = (roster \ {u}) \cup ({u} \ roster)
  /\ Changed(u)
  /\ UNCHANGED <<role, second, requester, assignee, document, job>>

Answer(u) ==
  /\ Change /\ doc = "pending" /\ u \in roster
  /\ answered' = answered \cup {u} /\ doc' \in {"pending", "settled"}
  /\ UNCHANGED <<people, due, tasks, job, my>>

\* A new version voids the answers; what jobs knew of them no longer counts.
NewVersion ==
  /\ Change /\ doc \in {"pending", "lapsed", "settled"}
  /\ answered' = {} /\ doc' = IF doc = "lapsed" THEN doc ELSE "pending"
  /\ my' = [j \in Jobs |-> [my[j] EXCEPT !.before = {}]]
  /\ UNCHANGED <<people, due, tasks, job>>

Close ==
  /\ Change /\ doc # "gone"
  /\ \/ doc' = "gone" /\ answered' = {}
     \/ doc = "pending" /\ doc' \in {"lapsed", "settled"} /\ UNCHANGED answered
  /\ UNCHANGED <<people, due, tasks, job, my>>

Work(j) ==
  \/ \E kind \in ClientKind \cup AdminKind : Notify(j, kind)
  \/ ChangeStatus(j)
  \/ \E u \in User : Assign(j, u) \/ Turn(j, u) \/ \E kind \in CommentKind : Comment(j, u, kind)
  \/ (\E c \in Copies : CronNotify(c, j)) \/ Lookup(j) \/ Tell(j) \/ Finish(j)

Others ==
  \/ \E u \in User : AssignClient(u) \/ Answer(u)
                     \/ \E r \in Part : ChangeRole(u, r)
  \/ NewVersion \/ Close

Task(c) == CronList(c) \/ CronWrite(c) \/ CronDies(c)

Next == (\E c \in Copies : Task(c)) \/ Elapse \/ Others \/ \E j \in Jobs : Work(j)

Spec == Init /\ [][Next]_vars

----------------------------------------------------------------------------
(* Properties *)

\* Types; assignees are users; an idle job remembers nothing.
TypeOK ==
  /\ role \in [User -> Part] /\ second \in [User -> Part] /\ roster \in SUBSET User
  /\ \A u \in roster : role[u] # "gone"
  /\ \A u \in User : role[u] = "gone" => second[u] = "gone"
  /\ requester \in User \cup {None} /\ assignee \in User \cup {None}
  /\ doc \in {"pending", "lapsed", "settled", "gone"} /\ answered \in SUBSET User
  /\ due \in BOOLEAN
  /\ cron \in [Copies -> [at : {"idle", "listed", "notified"}, saw : SUBSET User]]
  /\ sent \in [Copies -> 0..2] /\ beside \in SUBSET Copies /\ died \in BOOLEAN /\ changes \in 0..MaxChanges
  /\ job \in [Jobs -> {"idle", "lookup", "call"}] /\ my \in [Jobs -> Memory]
  /\ \A j \in Jobs : job[j] = "idle" => my[j] = Blank

\* Nobody is told twice of one event, whatever parts a person has in it (requester and
\* assignee, staff and client of the project) and however those parts change; but for
\* staff with two Member rows, who are told twice of what all staff are told
\* (getOrgAdmins() lists rows), and only of that.
ToldByRow == AdminKind \cup {"comment_update"}
OncePerEvent ==
  \A j \in Jobs, u \in User :
    my[j].told[u] <= IF my[j].kind \in ToldByRow /\ u \in my[j].twice THEN 2 ELSE 1

\* The author of a comment is not told of it, unless their own part changed since or they
\* have a second row, as staff, that the session did not name.
AuthorNotTold ==
  \A j \in Jobs : my[j].by # None =>
    my[j].told[my[j].by] = 0 \/ (my[j].kind = "comment_update" /\ my[j].changed)

\* Who had answered before the reminder was started is not reminded: no notification and
\* no mail, although the reminder task read the answers earlier.
AnsweredNotReminded ==
  \A j \in Jobs : my[j].kind = "document_reminder" =>
    \A u \in my[j].before : my[j].told[u] = 0 /\ u \notin my[j].mail

\* No copy reminds twice in an interval, and two copies only if both were at it together,
\* unless a task ended between the reminder and the storing of its time. (Nothing keeps
\* copies from listing the same document: the task claims none.)
RemindersSpaced ==
  died \/ \A c, d \in Copies :
            /\ sent[c] <= 1
            /\ c # d /\ sent[c] > 0 /\ sent[d] > 0 => {c, d} \subseteq beside

\* Strengthening for the proofs. What a job at place p with memory m is still to call:
\* nobody twice or again, not the author, and not who had answered; and what makes it so
\* until it looks people up.
Sane(p, m) ==
  /\ p # "idle" => m.kind \in Kind
  /\ m.by # None => m.kind \in CommentKind
  /\ \A i, k \in DOMAIN m.calls : i # k => m.calls[i].to \cap m.calls[k].to = {}
  /\ \A i \in DOMAIN m.calls : m.calls[i].twice \subseteq m.twice
                              /\ (m.calls[i].twice # {} => m.kind \in ToldByRow)
  /\ \A i \in DOMAIN m.calls : \A u \in m.calls[i].to :
       /\ m.told[u] = 0
       /\ u = m.by => m.kind = "comment_update" /\ m.changed
       /\ m.kind = "document_reminder" => u \notin m.before
  /\ p = "lookup" =>
       /\ m.told = Blank.told /\ m.mail = {} /\ m.calls = <<>>
       /\ m.by # None /\ m.client /\ ~m.changed => m.by \notin Admins
       /\ m.kind = "document_reminder" => m.before \subseteq answered \/ doc = "gone"
CallsSane == \A j \in Jobs : Sane(job[j], my[j])

\* How often the document was reminded of, by where the tasks are: a copy that has reminded
\* has stored the time or is about to, and whoever is at it then was so beside it.
RemindersCounted ==
  died \/ \A c \in Copies :
            /\ cron[c].at = "listed" => sent[c] = 0
            /\ due /\ doc # "gone" /\ sent[c] > 0 => cron[c].at = "notified"
            /\ \A d \in Copies \ {c} : cron[d].at # "idle" /\ (sent[c] > 0 \/ cron[c].at # "idle")
                                         => {c, d} \subseteq beside

IInv == /\ TypeOK /\ CallsSane /\ RemindersCounted
        /\ OncePerEvent /\ AuthorNotTold /\ AnsweredNotReminded /\ RemindersSpaced
=============================================================================
