------------------------ MODULE Notifications_proofs ------------------------
(***************************************************************************)
(* Proofs about Notifications, for any number of users, of jobs under way  *)
(* together and of changes meanwhile.                                      *)
(***************************************************************************)
EXTENDS Notifications, FiniteSetTheorems, TLAPS

USE NotificationsAssumption

----------------------------------------------------------------------------
(* The calls of a notification *)

\* A notification is one call, with some of its people listed twice, or two to different
\* people; a comment is not sent to its author, but of an update whose author has changed
\* sides, and a reminder not to those who have answered by then.
CallOf(S, W, a) == [to |-> S, twice |-> W, area |-> a]
PlanForm(m, S, W, T, a, b) ==
  /\ S \cap T = {}
  /\ Plan(m) = <<CallOf(S, W, a)>> \/ Plan(m) = <<CallOf(S, W, a), CallOf(T, {}, b)>>
  /\ W \subseteq Twice /\ (W # {} => m.kind \in ToldByRow)
  /\ m.by # None /\ m.kind \in CommentKind /\ m.by \in S \cup T =>
       m.kind = "comment_update" /\ m.client /\ m.by \in Admins
  /\ m.kind = "document_reminder" => (S \cup T) \cap answered = {}

LEMMA Plans ==
  ASSUME TypeOK, NEW m \in Memory, m.kind \in Kind
  PROVE  \E S, W, T \in SUBSET User, a, b \in Area : PlanForm(m, S, W, T, a, b)
<1>0. /\ Clients \in SUBSET User /\ Admins \in SUBSET User /\ {} \in SUBSET User
      /\ Twice \in SUBSET User
      /\ "portal" \in Area /\ "dashboard" \in Area
      /\ m.requester \in User \cup {None} /\ m.assignee \in User \cup {None}
  BY DEF TypeOK, Clients, Admins, Twice, Area, Memory
<1>t. /\ \A S, a : To(S, a) = CallOf(S, {}, a)
      /\ ToAdmins = CallOf(Admins, Twice, "dashboard")
  BY DEF To, ToAdmins, CallOf
<1> HIDE DEF Admins, Twice
<1>1. CASE m.kind \in ClientKind
  <2>1. Plan(m) = <<To(Clients, "portal")>>
    BY <1>1 DEF ClientKind, Plan, ProjectUpdate, TaskCreated, DecisionClosed, InvoiceSent,
                DocumentUploaded
  <2>2. PlanForm(m, Clients, {}, {}, "portal", "portal")
    BY <1>t, <1>1, <2>1 DEF PlanForm, ToldByRow, ClientKind, CommentKind
  <2> QED BY <1>0, <2>2
<1>2. CASE m.kind \in AdminKind
  <2>1. Plan(m) = <<ToAdmins>>
    BY <1>2 DEF AdminKind, Plan, InvoicePaid, StripeDisconnected, DocumentResponded,
                ClientRequestCreated
  <2>2. PlanForm(m, Admins, Twice, {}, "dashboard", "portal")
    BY <1>t, <1>2, <2>1 DEF PlanForm, ToldByRow, AdminKind, CommentKind
  <2> QED BY <1>0, <2>2
<1>3. CASE m.kind = "task_assigned"
  <2> DEFINE S == {m.assignee} \ {None}
  <2>1. Plan(m) = <<To(S, "dashboard")>> /\ S \in SUBSET User
    BY <1>0, <1>3 DEF Plan, TaskAssigned, One
  <2>2. PlanForm(m, S, {}, {}, "dashboard", "portal")
    BY <1>t, <1>3, <2>1 DEF PlanForm, ToldByRow, CommentKind
  <2> HIDE DEF S
  <2> QED BY <1>0, <2>1, <2>2
<1>4. CASE m.kind = "signing_turn"
  <2> DEFINE S == {m.requester} \ {None}
  <2>1. Plan(m) = <<To(S, "portal")>> /\ S \in SUBSET User
    BY <1>0, <1>4 DEF Plan, SigningTurn, One
  <2>2. PlanForm(m, S, {}, {}, "portal", "portal")
    BY <1>t, <1>4, <2>1 DEF PlanForm, ToldByRow, CommentKind
  <2> HIDE DEF S
  <2> QED BY <1>0, <2>1, <2>2
<1>5. CASE m.kind = "task_status_changed"
  <2> DEFINE S == {m.requester} \ {None}
             T == {m.assignee} \ {None}
  <2>1. S \in SUBSET User /\ T \in SUBSET User
    BY <1>0
  <2>2. Place(m.requester) \in Area /\ Place(m.assignee) \in Area
    BY DEF Place, Area
  <2>3. CASE m.requester = m.assignee
    <3>1. Plan(m) = <<To(S, Place(m.requester))>>
      BY <1>5, <2>3 DEF Plan, StatusChanged, One
    <3>2. PlanForm(m, S, {}, {}, Place(m.requester), "portal")
      BY <1>t, <1>5, <3>1 DEF PlanForm, ToldByRow, CommentKind
    <3> HIDE DEF S
    <3> QED BY <1>0, <2>1, <2>2, <3>2
  <2>4. CASE m.requester # m.assignee
    <3>1. Plan(m) = <<To(S, Place(m.requester)), To(T, Place(m.assignee))>>
      BY <1>5, <2>4 DEF Plan, StatusChanged, StatusChangedTwice, One
    <3>2. S \cap T = {}
      BY <2>4
    <3>3. PlanForm(m, S, {}, T, Place(m.requester), Place(m.assignee))
      BY <1>t, <1>5, <3>1, <3>2 DEF PlanForm, ToldByRow, CommentKind
    <3> HIDE DEF S, T
    <3> QED BY <2>1, <2>2, <3>3
  <2> QED BY <2>3, <2>4
<1>6. CASE m.kind = "document_reminder"
  <2>1. Plan(m) = <<To(Clients \ answered, "portal")>>
    BY <1>6 DEF Plan, DocumentReminder
  <2>2. PlanForm(m, Clients \ answered, {}, {}, "portal", "portal")
    BY <1>t, <1>6, <2>1 DEF PlanForm, ToldByRow, CommentKind
  <2>3. Clients \ answered \in SUBSET User
    BY <1>0
  <2> QED BY <1>0, <2>2, <2>3
<1>7. CASE m.kind = "comment_update"
  <2>1. CASE m.client
    <3>1. Plan(m) = <<ToAdmins>>
      BY <1>7, <2>1 DEF Plan, UpdateComment
    <3>2. PlanForm(m, Admins, Twice, {}, "dashboard", "portal")
      BY <1>t, <1>7, <2>1, <3>1 DEF PlanForm, ToldByRow
    <3> QED BY <1>0, <3>2
  <2>2. CASE ~m.client
    <3>1. Plan(m) = <<To(Clients \ {m.by}, "portal")>>
      BY <1>7, <2>2 DEF Plan, UpdateComment
    <3>2. PlanForm(m, Clients \ {m.by}, {}, {}, "portal", "portal")
      BY <1>t, <1>7, <3>1 DEF PlanForm, ToldByRow
    <3>3. Clients \ {m.by} \in SUBSET User
      BY <1>0
    <3> QED BY <1>0, <3>2, <3>3
  <2> QED BY <2>1, <2>2
<1>8. CASE m.kind = "comment_task"
  <2>1. CASE m.client
    <3> DEFINE S == (Admins \cup ({m.assignee} \ {None})) \ {m.by}
    <3>1. Plan(m) = <<To(S, "dashboard")>>
      BY <1>8, <2>1 DEF Plan, ClientTaskComment
    <3>2. S \in SUBSET User /\ m.by \notin S
      BY <1>0
    <3> HIDE DEF S
    <3>3. PlanForm(m, S, {}, {}, "dashboard", "portal")
      BY <1>t, <1>8, <3>1, <3>2 DEF PlanForm, ToldByRow
    <3> QED BY <1>0, <3>2, <3>3
  <2>2. CASE ~m.client
    <3> DEFINE asked == {m.requester} \ {None, m.by}
               client == {u \in asked : role[u] # "agency"}
               S == ({m.assignee} \ {None, m.by}) \cup (asked \ client)
               portal == IF m.requester = None THEN Clients \ {m.by} ELSE client
               T == portal \ S
    <3>1. Plan(m) = <<To(S, "dashboard"), To(T, "portal")>>
      BY <1>8, <2>2 DEF Plan, AgencyTaskComment
    <3>2. S \in SUBSET User /\ T \in SUBSET User
      BY <1>0
    <3>3. m.by \notin S \cup T /\ S \cap T = {}
      OBVIOUS
    <3> HIDE DEF S, T
    <3>4. PlanForm(m, S, {}, T, "dashboard", "portal")
      BY <1>t, <1>8, <3>1, <3>3 DEF PlanForm, ToldByRow
    <3> QED BY <1>0, <3>2, <3>4
  <2> QED BY <2>1, <2>2
<1> QED
  BY <1>1, <1>2, <1>3, <1>4, <1>5, <1>6, <1>7, <1>8 DEF Kind, OneKind, CommentKind

----------------------------------------------------------------------------
(* Types *)

\* What handlers give a job is a memory.
LEMMA MemoryTyped ==
  ASSUME TypeOK
  PROVE  /\ Blank \in Memory
         /\ \A k \in Kind : Of(k) \in Memory /\ OfTask(k) \in Memory
         /\ \A u \in User : /\ [Of("task_assigned") EXCEPT !.assignee = u] \in Memory
                            /\ [Of("signing_turn") EXCEPT !.requester = u] \in Memory
         /\ \A k \in CommentKind, u \in User, b \in BOOLEAN, d \in BOOLEAN :
              /\ [OfTask(k) EXCEPT !.by = u, !.client = b, !.changed = d] \in Memory
              /\ [Of(k) EXCEPT !.by = u, !.client = b, !.changed = d] \in Memory
         /\ \A c \in Copies :
              [Of("document_reminder") EXCEPT !.saw = cron[c].saw, !.before = answered] \in Memory
<1>1. Blank \in Memory
  BY DEF Blank, Memory
<1>2. \A k \in Kind : Of(k) \in Memory
  BY <1>1 DEF Of, Memory
<1> HIDE DEF Blank, Of
<1>3. \A m \in Memory, u \in User \cup {None} :
        [m EXCEPT !.requester = u] \in Memory /\ [m EXCEPT !.assignee = u] \in Memory
  BY DEF Memory
<1>4. \A m \in Memory, u \in User \cup {None}, v \in User \cup {None} :
        [m EXCEPT !.requester = u, !.assignee = v] \in Memory
  BY DEF Memory
<1>5. \A m \in Memory, u \in User, b \in BOOLEAN, d \in BOOLEAN :
        [m EXCEPT !.by = u, !.client = b, !.changed = d] \in Memory
  BY DEF Memory
<1>6. \A m \in Memory, S \in SUBSET User, T \in SUBSET User :
        [m EXCEPT !.saw = S, !.before = T] \in Memory
  BY DEF Memory
<1>7. {"task_assigned", "signing_turn", "document_reminder"} \cup CommentKind \subseteq Kind
  BY DEF Kind, OneKind
<1>8. /\ requester \in User \cup {None} /\ assignee \in User \cup {None}
      /\ \A c \in Copies : cron[c].saw \in SUBSET User
      /\ answered \in SUBSET User
  BY DEF TypeOK
<1> HIDE DEF Memory, CommentKind, TypeOK
<1>9. \A k \in Kind : OfTask(k) \in Memory
  BY <1>2, <1>4, <1>8 DEF OfTask
<1> QED BY <1>1, <1>2, <1>3, <1>5, <1>6, <1>7, <1>8, <1>9

LEMMA InitIInv == Init => IInv
<1> SUFFICES ASSUME Init PROVE IInv
  OBVIOUS
<1>1. TypeOK
  <2>1. Blank \in Memory
    BY DEF Blank, Memory
  <2>2. my \in [Jobs -> Memory] /\ job \in [Jobs -> {"idle", "lookup", "call"}]
        /\ \A j \in Jobs : my[j] = Blank
    BY <2>1 DEF Init
  <2>3. /\ role \in [User -> Part] /\ \A u \in User : role[u] # "gone"
        /\ second \in [User -> Part] /\ assignee \in User \cup {None}
    BY DEF Init, Admins, Part
  <2>4. cron \in [Copies -> [at : {"idle", "listed", "notified"}, saw : SUBSET User]]
    BY DEF Init, Resting
  <2>5. due \in BOOLEAN /\ died \in BOOLEAN
    BY DEF Init
  <2>6. sent \in [Copies -> 0..2] /\ beside \in SUBSET Copies /\ changes \in 0..MaxChanges
    BY DEF Init
  <2> QED BY <2>2, <2>3, <2>4, <2>5, <2>6 DEF Init, TypeOK
<1>2. CallsSane /\ RemindersCounted
  BY DEF Init, CallsSane, Sane, RemindersCounted, Resting, Blank
<1>3. OncePerEvent /\ AuthorNotTold /\ AnsweredNotReminded /\ RemindersSpaced
  BY DEF Init, OncePerEvent, AuthorNotTold, AnsweredNotReminded, RemindersSpaced, Blank
<1> QED BY <1>1, <1>2, <1>3 DEF IInv

\* A handler that starts a job leaves every place and memory typed.
JobsTyped == /\ job \in [Jobs -> {"idle", "lookup", "call"}] /\ my \in [Jobs -> Memory]
             /\ \A j \in Jobs : job[j] = "idle" => my[j] = Blank

LEMMA StartTyped ==
  ASSUME TypeOK, NEW j \in Jobs, NEW m \in Memory, Start(j, m)
  PROVE  JobsTyped'
BY DEF TypeOK, Start, JobsTyped

\* So do the steps of a job.
LEMMA CallsTyped ==
  ASSUME TypeOK, NEW m \in Memory, m.kind \in Kind
  PROVE  Plan(m) \in Seq(Call)
<1>1. PICK S \in SUBSET User, W \in SUBSET User, T \in SUBSET User, a \in Area, b \in Area :
             PlanForm(m, S, W, T, a, b)
  BY Plans
<1>2. CallOf(S, W, a) \in Call /\ CallOf(T, {}, b) \in Call
  BY DEF CallOf, Call
<1>3. <<CallOf(S, W, a)>> \in Seq(Call) /\ <<CallOf(S, W, a), CallOf(T, {}, b)>> \in Seq(Call)
  BY <1>2
<1> QED BY <1>1, <1>3 DEF PlanForm

LEMMA LookupTyped ==
  ASSUME TypeOK, CallsSane, NEW j \in Jobs, Lookup(j)
  PROVE  JobsTyped'
<1> DEFINE unknown == my[j].kind \in {"document_uploaded", "document_responded",
                                     "document_reminder", "signing_turn"} /\ doc = "gone"
           calls == IF unknown THEN <<>> ELSE Plan(my[j])
           m == [my[j] EXCEPT !.calls = calls, !.requester = None, !.assignee = None, !.saw = {},
                             !.twice = Twice]
<1>1. my[j] \in Memory /\ my[j].kind \in Kind
  BY DEF TypeOK, CallsSane, Sane, Lookup
<1>2. calls \in Seq(Call) /\ Twice \in SUBSET User
  BY <1>1, CallsTyped DEF Twice
<1>3. my' = [my EXCEPT ![j] = m] /\ job' = [job EXCEPT ![j] = "call"]
  BY DEF Lookup, TypeOK
<1> HIDE DEF calls
<1>4. m \in Memory
  BY <1>1, <1>2 DEF Memory
<1> HIDE DEF m
<1> QED BY <1>3, <1>4 DEF TypeOK, JobsTyped

LEMMA TellTyped ==
  ASSUME TypeOK, NEW j \in Jobs, Tell(j)
  PROVE  JobsTyped'
<1> DEFINE to == Head(my[j].calls).to
           twice == Head(my[j].calls).twice
<1>1. PICK ok \in BOOLEAN, mail \in {{}, to} :
        my' = [my EXCEPT ![j].calls = Tail(@), ![j].mail = @ \cup mail,
                 ![j].told = [u \in User |-> IF ~ok \/ u \notin to THEN @[u]
                                            ELSE @[u] + (IF u \in twice THEN 2 ELSE 1)]]
  BY DEF Tell
<1> DEFINE told == [u \in User |-> IF ~ok \/ u \notin to THEN my[j].told[u]
                                     ELSE my[j].told[u] + (IF u \in twice THEN 2 ELSE 1)]
           m == [my[j] EXCEPT !.calls = Tail(my[j].calls), !.mail = my[j].mail \cup mail,
                   !.told = told]
<1>2. my[j] \in Memory /\ my[j].calls \in Seq(Call) /\ my[j].calls # <<>>
  BY DEF TypeOK, Memory, Tell
<1>3. to \in SUBSET User /\ Tail(my[j].calls) \in Seq(Call)
  <2>1. Head(my[j].calls) \in Call /\ Tail(my[j].calls) \in Seq(Call)
    BY <1>2
  <2> QED BY <2>1 DEF Call
<1>4. told \in [User -> Nat]
  BY <1>2 DEF Memory
<1>5. my' = [my EXCEPT ![j] = m]
  BY <1>1 DEF TypeOK
<1> HIDE DEF to, twice, told
<1>6. m \in Memory
  BY <1>2, <1>3, <1>4 DEF Memory
<1> HIDE DEF m
<1> QED BY <1>5, <1>6 DEF TypeOK, JobsTyped, Tell

LEMMA NextTypeOK == ASSUME TypeOK, CallsSane, [Next]_vars PROVE TypeOK'
<1> USE DEF people, document, tasks
<1>0. JobsTyped
  BY DEF TypeOK, JobsTyped
<1>a. CommentKind \subseteq Kind /\ ClientKind \cup AdminKind \subseteq Kind
      /\ {"task_status_changed", "task_assigned", "signing_turn", "document_reminder"} \subseteq Kind
  BY DEF Kind, OneKind
<1>1. ASSUME NEW j \in Jobs, NEW k \in ClientKind \cup AdminKind, Notify(j, k) PROVE TypeOK'
  <2>1. JobsTyped'
    BY <1>1, <1>a, MemoryTyped, StartTyped DEF Notify
  <2> QED BY <1>1, <2>1 DEF Notify, TypeOK, JobsTyped
<1>2. ASSUME NEW j \in Jobs, ChangeStatus(j) PROVE TypeOK'
  <2>1. JobsTyped'
    BY <1>2, <1>a, MemoryTyped, StartTyped DEF ChangeStatus
  <2> QED BY <1>2, <2>1 DEF ChangeStatus, TypeOK, JobsTyped
<1>3. ASSUME NEW j \in Jobs, NEW u \in User, Assign(j, u) PROVE TypeOK'
  <2>1. JobsTyped'
    BY <1>3, MemoryTyped, StartTyped DEF Assign
  <2> QED BY <1>3, <2>1 DEF Assign, TypeOK, JobsTyped
<1>4. ASSUME NEW j \in Jobs, NEW u \in User, Turn(j, u) PROVE TypeOK'
  <2>1. JobsTyped'
    BY <1>4, MemoryTyped, StartTyped DEF Turn
  <2> QED BY <1>4, <2>1 DEF Turn, TypeOK, JobsTyped
<1>5. ASSUME NEW j \in Jobs, NEW u \in User, NEW k \in CommentKind, Comment(j, u, k) PROVE TypeOK'
  <2>1. JobsTyped'
    <3>1. CASE k = "comment_task"
      BY <1>5, <3>1, MemoryTyped, StartTyped DEF Comment
    <3>2. CASE k # "comment_task"
      BY <1>5, <3>2, MemoryTyped, StartTyped DEF Comment
    <3> QED BY <3>1, <3>2
  <2> QED BY <1>5, <2>1 DEF Comment, TypeOK, JobsTyped
<1>6. ASSUME NEW c \in Copies, NEW j \in Jobs, CronNotify(c, j) PROVE TypeOK'
  <2>1. JobsTyped'
    BY <1>6, MemoryTyped, StartTyped DEF CronNotify
  <2>2. cron' \in [Copies -> [at : {"idle", "listed", "notified"}, saw : SUBSET User]]
    BY <1>6 DEF CronNotify, TypeOK
  <2>3. sent' \in [Copies -> 0..2]
    BY <1>6 DEF CronNotify, TypeOK
  <2> QED BY <1>6, <2>1, <2>2, <2>3 DEF CronNotify, TypeOK, JobsTyped
<1>7. ASSUME NEW j \in Jobs, Lookup(j) PROVE TypeOK'
  <2>1. JobsTyped'
    BY <1>7, LookupTyped
  <2> QED BY <1>7, <2>1 DEF Lookup, TypeOK, JobsTyped
<1>8. ASSUME NEW j \in Jobs, Tell(j) PROVE TypeOK'
  <2>1. JobsTyped'
    BY <1>8, TellTyped
  <2> QED BY <1>8, <2>1 DEF Tell, TypeOK, JobsTyped
<1>9. ASSUME NEW j \in Jobs, Finish(j) PROVE TypeOK'
  <2>1. JobsTyped'
    BY <1>9, MemoryTyped DEF Finish, TypeOK, JobsTyped
  <2> QED BY <1>9, <2>1 DEF Finish, TypeOK, JobsTyped
<1>10. ASSUME (\E c \in Copies : Task(c)) \/ Elapse PROVE TypeOK'
  <2>1. cron' \in [Copies -> [at : {"idle", "listed", "notified"}, saw : SUBSET User]]
    BY <1>10 DEF Task, CronList, CronWrite, CronDies, CronEnds, Resting, Elapse, TypeOK
  <2>2. due' \in BOOLEAN /\ died' \in BOOLEAN
    BY <1>10 DEF Task, CronList, CronWrite, CronDies, Elapse, TypeOK
  <2>3. sent' \in [Copies -> 0..2]
    BY <1>10 DEF Task, CronList, CronWrite, CronDies, Elapse, TypeOK
  <2>4. beside' \in SUBSET Copies
    BY <1>10 DEF Task, CronList, CronWrite, CronDies, Elapse, AtWork, TypeOK
  <2>5. UNCHANGED <<people, doc, answered, changes, job, my>>
    BY <1>10 DEF Task, CronList, CronWrite, CronDies, Elapse
  <2> QED BY <2>1, <2>2, <2>3, <2>4, <2>5 DEF TypeOK
<1>11. ASSUME Change PROVE changes' \in 0..MaxChanges
  BY <1>11 DEF Change, TypeOK
<1>12. ASSUME NEW u \in User, Changed(u), UNCHANGED job PROVE JobsTyped'
  <2>1. \A m \in Memory : [m EXCEPT !.changed = TRUE] \in Memory
    BY DEF Memory
  <2>2. \A j \in Jobs : my[j] \in Memory /\ my'[j] = IF my[j].by # u THEN my[j]
                                                     ELSE [my[j] EXCEPT !.changed = TRUE]
    BY <1>12 DEF Changed, TypeOK
  <2>3. \A j \in Jobs : my'[j] \in Memory
    BY <2>1, <2>2
  <2>4. Blank.by = None
    BY DEF Blank
  <2>5. \A j \in Jobs : job[j] = "idle" => my'[j] = Blank
    BY <2>2, <2>4 DEF TypeOK
  <2>6. my' \in [Jobs -> Memory]
    BY <1>12, <2>3 DEF Changed
  <2> QED BY <1>12, <2>5, <2>6 DEF TypeOK, JobsTyped
<1>13. ASSUME NEW u \in User, NEW r \in Part, ChangeRole(u, r) PROVE TypeOK'
  <2>1. JobsTyped' /\ changes' \in 0..MaxChanges
    BY <1>11, <1>12, <1>13 DEF ChangeRole
  <2> DEFINE kept == IF second[u] = "gone" THEN {"gone"} ELSE {role[u], second[u]}
  <2>2. PICK k \in kept : \E first \in {r, k}, other \in {r, k} :
          /\ {first, other} = {r, k} /\ (first = "gone" => other = "gone")
          /\ role' = [role EXCEPT ![u] = first] /\ second' = [second EXCEPT ![u] = other]
    BY <1>13 DEF ChangeRole
  <2>3. PICK first \in {r, k}, other \in {r, k} :
          /\ {first, other} = {r, k} /\ (first = "gone" => other = "gone")
          /\ role' = [role EXCEPT ![u] = first] /\ second' = [second EXCEPT ![u] = other]
    BY <2>2
  <2>4. first \in Part /\ other \in Part
    BY DEF TypeOK, Part
  <2>5. role' \in [User -> Part] /\ second' \in [User -> Part] /\ roster' \in SUBSET User
    BY <1>13, <2>3, <2>4 DEF ChangeRole, TypeOK
  <2>6. \A v \in User : role'[v] = "gone" => second'[v] = "gone"
    BY <2>3 DEF TypeOK
  <2>7. \A v \in roster' : role'[v] # "gone"
    <3>1. first = "gone" => r = "gone"
      BY <2>3
    <3> QED BY <1>13, <2>3, <3>1 DEF ChangeRole, TypeOK
  <2> QED BY <1>13, <2>1, <2>5, <2>6, <2>7 DEF ChangeRole, TypeOK, JobsTyped
<1>14. ASSUME NEW u \in User, AssignClient(u) PROVE TypeOK'
  <2>1. JobsTyped' /\ changes' \in 0..MaxChanges
    BY <1>11, <1>12, <1>14 DEF AssignClient
  <2>2. roster' \in SUBSET User /\ \A v \in roster' : role[v] # "gone"
    BY <1>14 DEF AssignClient, TypeOK
  <2> QED BY <1>14, <2>1, <2>2 DEF AssignClient, TypeOK, JobsTyped
<1>15. ASSUME NEW u \in User, Answer(u) PROVE TypeOK'
  <2>1. changes' \in 0..MaxChanges
    BY <1>11, <1>15 DEF Answer
  <2> QED BY <1>15, <2>1 DEF Answer, TypeOK
<1>16. ASSUME NewVersion PROVE TypeOK'
  <2>1. changes' \in 0..MaxChanges
    BY <1>11, <1>16 DEF NewVersion
  <2>2. \A m \in Memory : [m EXCEPT !.before = {}] \in Memory
    BY DEF Memory
  <2>3. [Blank EXCEPT !.before = {}] = Blank
    <3>1. \A m \in Memory : m.before = {} => [m EXCEPT !.before = {}] = m
      BY DEF Memory
    <3>2. Blank \in Memory /\ Blank.before = {}
      BY MemoryTyped DEF Blank
    <3> QED BY <3>1, <3>2
  <2>4. my' = [j \in Jobs |-> [my[j] EXCEPT !.before = {}]]
    BY <1>16 DEF NewVersion
  <2>5. my' \in [Jobs -> Memory] /\ \A j \in Jobs : job[j] = "idle" => my'[j] = Blank
    BY <2>2, <2>3, <2>4 DEF TypeOK
  <2> QED BY <1>16, <2>1, <2>5 DEF NewVersion, TypeOK
<1>17. ASSUME Close PROVE TypeOK'
  <2>1. changes' \in 0..MaxChanges
    BY <1>11, <1>17 DEF Close
  <2> QED BY <1>17, <2>1 DEF Close, TypeOK
<1>18. CASE UNCHANGED vars
  BY <1>18 DEF vars, TypeOK
<1> QED
  BY <1>1, <1>2, <1>3, <1>4, <1>5, <1>6, <1>7, <1>8, <1>9, <1>10, <1>13, <1>14, <1>15,
     <1>16, <1>17, <1>18 DEF Next, Others, Work

----------------------------------------------------------------------------
(* Who is told *)

\* What holds of every job, taken together.
Most(m, u) == IF m.kind \in ToldByRow /\ u \in m.twice THEN 2 ELSE 1
JobInv(p, m) ==
  /\ Sane(p, m)
  /\ \A u \in User : m.told[u] <= Most(m, u)
  /\ m.by # None => m.told[m.by] = 0 \/ (m.kind = "comment_update" /\ m.changed)
  /\ m.kind = "document_reminder" => \A u \in m.before : m.told[u] = 0 /\ u \notin m.mail
JobsInv == \A j \in Jobs : JobInv(job[j], my[j])

LEMMA JobsInvIff ==
  /\ JobsInv <=> CallsSane /\ OncePerEvent /\ AuthorNotTold /\ AnsweredNotReminded
  /\ JobsInv' => (CallsSane /\ OncePerEvent /\ AuthorNotTold /\ AnsweredNotReminded)'
BY DEF JobsInv, JobInv, Most, CallsSane, OncePerEvent, AuthorNotTold, AnsweredNotReminded

\* A job is started with nobody told and nobody to call, and knows who is a client and
\* who has answered.
Fresh(m) ==
  /\ m.kind \in Kind /\ m.calls = <<>> /\ m.told = Blank.told /\ m.mail = {}
  /\ m.by # None => m.kind \in CommentKind /\ m.by \in User
  /\ m.by # None /\ m.client /\ ~m.changed => m.by \notin Admins
  /\ m.kind = "document_reminder" => m.before \in SUBSET answered

LEMMA StartSane ==
  ASSUME TypeOK, JobsInv, NEW j \in Jobs, NEW m, Fresh(m), Start(j, m),
         UNCHANGED <<role, second, answered, doc>>
  PROVE  JobsInv'
<1>1. \A u \in User : m.told[u] = 0
  BY DEF Fresh, Blank
<1>2. m.before \subseteq User \/ m.kind # "document_reminder"
  BY DEF Fresh, TypeOK
<1>0. Admins' = Admins
  BY DEF Admins
<1>3. JobInv("lookup", m)'
  BY <1>0, <1>1, <1>2 DEF Fresh, JobInv, Sane, Most
<1>4. job'[j] = "lookup" /\ my'[j] = m
  BY DEF Start, TypeOK
<1>5. \A k \in Jobs \ {j} : job'[k] = job[k] /\ my'[k] = my[k]
  BY DEF Start, TypeOK
<1>6. \A k \in Jobs \ {j} : JobInv(job[k], my[k])'
  BY <1>0, <1>5 DEF JobsInv, JobInv, Sane
<1> QED BY <1>3, <1>4, <1>6 DEF JobsInv

LEMMA LookupSane ==
  ASSUME TypeOK, JobsInv, NEW j \in Jobs, Lookup(j)
  PROVE  JobsInv'
<1> DEFINE unknown == my[j].kind \in {"document_uploaded", "document_responded",
                                     "document_reminder", "signing_turn"} /\ doc = "gone"
           calls == IF unknown THEN <<>> ELSE Plan(my[j])
           m == [my[j] EXCEPT !.calls = calls, !.requester = None, !.assignee = None, !.saw = {},
                             !.twice = Twice]
<1>1. my[j] \in Memory /\ my[j].kind \in Kind /\ JobInv("lookup", my[j])
  BY DEF TypeOK, JobsInv, JobInv, Sane, Lookup
<1>2. my' = [my EXCEPT ![j] = m] /\ job' = [job EXCEPT ![j] = "call"]
      /\ UNCHANGED <<Admins, answered, doc>>
  BY DEF Lookup, TypeOK, people, document, Admins
<1>3. PICK S \in SUBSET User, W \in SUBSET User, T \in SUBSET User, a \in Area, b \in Area :
             PlanForm(my[j], S, W, T, a, b)
  BY <1>1, Plans
<1>4. \A i \in DOMAIN calls : /\ ~unknown
                              /\ calls[i].to \in {S, T} /\ calls[i].twice \in {W, {}}
                              /\ \A k \in DOMAIN calls : i # k => calls[i].to \cap calls[k].to = {}
  BY <1>3 DEF PlanForm, CallOf
<1>5. /\ m.calls = calls
      /\ m.kind = my[j].kind /\ m.by = my[j].by /\ m.told = my[j].told /\ m.mail = my[j].mail
      /\ m.before = my[j].before /\ m.changed = my[j].changed /\ m.twice = Twice
  BY <1>1 DEF Memory
<1>6. \A u \in User : my[j].told[u] = 0
  BY <1>1 DEF JobInv, Sane, Blank
<1>7. ASSUME NEW i \in DOMAIN calls, NEW u \in calls[i].to
      PROVE  /\ m.told[u] = 0
             /\ u = m.by => m.kind = "comment_update" /\ m.changed
             /\ m.kind = "document_reminder" => u \notin m.before
  <2>1. u \in S \cup T /\ ~unknown /\ u \in User
    BY <1>4, <1>7
  <2>2. m.told[u] = 0
    BY <1>5, <1>6, <2>1
  <2>3. ASSUME u = m.by PROVE m.kind = "comment_update" /\ m.changed
    <3>1. my[j].by # None /\ my[j].by = u
      BY <1>5, <2>1, <2>3
    <3>2. my[j].kind \in CommentKind
      BY <1>1, <3>1 DEF JobInv, Sane
    <3>3. my[j].kind = "comment_update" /\ my[j].client /\ my[j].by \in Admins
      BY <1>3, <2>1, <3>1, <3>2 DEF PlanForm
    <3>4. my[j].changed
      BY <1>1, <3>1, <3>3 DEF JobInv, Sane
    <3> QED BY <1>5, <3>3, <3>4
  <2>4. ASSUME m.kind = "document_reminder" PROVE u \notin m.before
    <3>1. my[j].before \subseteq answered
      BY <1>1, <1>5, <2>1, <2>4 DEF JobInv, Sane
    <3>2. u \notin answered
      BY <1>3, <1>5, <2>1, <2>4 DEF PlanForm
    <3> QED BY <1>5, <3>1, <3>2
  <2> QED BY <2>2, <2>3, <2>4
<1>a. \A i \in DOMAIN calls : calls[i].twice \subseteq m.twice
                              /\ (calls[i].twice # {} => m.kind \in ToldByRow)
  BY <1>3, <1>4, <1>5 DEF PlanForm
<1>b. \A u \in User : m.told[u] <= Most(m, u)
  BY <1>5, <1>6 DEF Most
<1> HIDE DEF calls, m, unknown
<1>8. JobInv("call", m)
  BY <1>1, <1>4, <1>5, <1>7, <1>a, <1>b DEF JobInv, Sane
<1>9. PICK n : n = m
  OBVIOUS
<1>10. JobInv("call", n)'
  BY <1>2, <1>8, <1>9 DEF JobInv, Sane
<1>11. job'[j] = "call" /\ my'[j] = n
  BY <1>2, <1>9 DEF TypeOK
<1>12. \A k \in Jobs \ {j} : job'[k] = job[k] /\ my'[k] = my[k]
  BY <1>2 DEF TypeOK
<1>13. \A k \in Jobs \ {j} : JobInv(job[k], my[k])'
  BY <1>2, <1>12 DEF JobsInv, JobInv, Sane
<1> QED BY <1>10, <1>11, <1>13 DEF JobsInv

LEMMA TellSane ==
  ASSUME TypeOK, JobsInv, NEW j \in Jobs, Tell(j)
  PROVE  JobsInv'
<1> DEFINE to == Head(my[j].calls).to
           twice == Head(my[j].calls).twice
<1>1. PICK ok \in BOOLEAN, mail \in {{}, to} :
        my' = [my EXCEPT ![j].calls = Tail(@), ![j].mail = @ \cup mail,
                 ![j].told = [u \in User |-> IF ~ok \/ u \notin to THEN @[u]
                                            ELSE @[u] + (IF u \in twice THEN 2 ELSE 1)]]
  BY DEF Tell
<1>2. PICK n : n = my'[j]
  OBVIOUS
<1>3. /\ my[j] \in Memory /\ my[j].calls \in Seq(Call) /\ my[j].calls # <<>>
      /\ JobInv("call", my[j])
  BY DEF TypeOK, Memory, Tell, JobsInv
<1>4. /\ n.calls = Tail(my[j].calls) /\ n.mail = my[j].mail \cup mail
      /\ n.told = [u \in User |-> IF ~ok \/ u \notin to THEN my[j].told[u]
                                 ELSE my[j].told[u] + (IF u \in twice THEN 2 ELSE 1)]
      /\ n.twice = my[j].twice /\ n.kind = my[j].kind /\ n.by = my[j].by
      /\ n.before = my[j].before /\ n.changed = my[j].changed
  BY <1>1, <1>2, <1>3 DEF TypeOK, Memory
<1>5. 1 \in DOMAIN my[j].calls /\ to = my[j].calls[1].to /\ twice = my[j].calls[1].twice
  BY <1>3
<1>6. \A i \in DOMAIN n.calls : /\ i + 1 \in DOMAIN my[j].calls /\ i + 1 # 1
                                /\ n.calls[i] = my[j].calls[i + 1]
  BY <1>3, <1>4
<1>7. \A u \in User : my[j].told[u] \in Nat /\ my[j].told[u] <= Most(my[j], u)
  BY <1>3 DEF Memory, JobInv
<1>8. \A u \in to : /\ my[j].told[u] = 0
                    /\ u = my[j].by => my[j].kind = "comment_update" /\ my[j].changed
                    /\ my[j].kind = "document_reminder" => u \notin my[j].before
  BY <1>3, <1>5 DEF JobInv, Sane
<1>9. mail \subseteq to
  OBVIOUS
<1>a. twice \subseteq my[j].twice /\ (twice # {} => my[j].kind \in ToldByRow)
  BY <1>3, <1>5 DEF JobInv, Sane
<1> HIDE DEF to, twice
<1>10. \A i, k \in DOMAIN n.calls : i # k => n.calls[i].to \cap n.calls[k].to = {}
  <2> SUFFICES ASSUME NEW i \in DOMAIN n.calls, NEW k \in DOMAIN n.calls, i # k
               PROVE  n.calls[i].to \cap n.calls[k].to = {}
    OBVIOUS
  <2>1. i \in Int /\ k \in Int /\ i + 1 # k + 1
    BY <1>3, <1>4
  <2> QED BY <1>3, <1>6, <2>1 DEF JobInv, Sane
<1>11. \A i \in DOMAIN n.calls : n.calls[i].to \cap to = {} /\ n.calls[i].to \subseteq User
  <2> SUFFICES ASSUME NEW i \in DOMAIN n.calls
               PROVE  n.calls[i].to \cap to = {} /\ n.calls[i].to \subseteq User
    OBVIOUS
  <2>1. my[j].calls[i + 1].to \cap my[j].calls[1].to = {}
    BY <1>3, <1>5, <1>6 DEF JobInv, Sane
  <2>2. my[j].calls[i + 1] \in Call
    BY <1>3, <1>6
  <2> QED BY <1>5, <1>6, <2>1, <2>2 DEF Call
<1>12. \A i \in DOMAIN n.calls : \A u \in n.calls[i].to :
         /\ n.told[u] = 0
         /\ u = n.by => n.kind = "comment_update" /\ n.changed
         /\ n.kind = "document_reminder" => u \notin n.before
  <2> SUFFICES ASSUME NEW i \in DOMAIN n.calls, NEW u \in n.calls[i].to
               PROVE  /\ n.told[u] = 0
                      /\ u = n.by => n.kind = "comment_update" /\ n.changed
                      /\ n.kind = "document_reminder" => u \notin n.before
    OBVIOUS
  <2>1. u \in User /\ u \notin to
    BY <1>11
  <2>2. n.told[u] = my[j].told[u]
    BY <1>4, <2>1
  <2> QED BY <1>3, <1>4, <1>6, <2>2 DEF JobInv, Sane
<1>b. \A i \in DOMAIN n.calls : n.calls[i].twice \subseteq n.twice
                               /\ (n.calls[i].twice # {} => n.kind \in ToldByRow)
  BY <1>3, <1>4, <1>6 DEF JobInv, Sane
<1>13. \A u \in User : n.told[u] <= Most(n, u)
  BY <1>4, <1>7, <1>8, <1>a DEF Most
<1>14. n.by # None => n.told[n.by] = 0 \/ (n.kind = "comment_update" /\ n.changed)
  <2> SUFFICES ASSUME n.by # None, ~(n.kind = "comment_update" /\ n.changed)
               PROVE  n.told[n.by] = 0
    OBVIOUS
  <2>1. n.by \in User /\ n.by \notin to /\ my[j].told[n.by] = 0
    BY <1>3, <1>4, <1>8 DEF Memory, JobInv
  <2> QED BY <1>4, <2>1
<1>15. n.kind = "document_reminder" => \A u \in n.before : n.told[u] = 0 /\ u \notin n.mail
  <2> SUFFICES ASSUME n.kind = "document_reminder", NEW u \in n.before
               PROVE  n.told[u] = 0 /\ u \notin n.mail
    OBVIOUS
  <2>1. u \in User /\ u \notin to /\ my[j].told[u] = 0 /\ u \notin my[j].mail
    BY <1>3, <1>4, <1>8 DEF Memory, JobInv
  <2> QED BY <1>4, <1>9, <2>1
<1>16. UNCHANGED <<Admins, answered, doc, job>> /\ job[j] = "call"
  BY DEF Tell, people, document, Admins
<1>17. n.kind \in Kind /\ (n.by # None => n.kind \in CommentKind)
  BY <1>3, <1>4 DEF JobInv, Sane
<1>18. JobInv("call", n)'
  BY <1>10, <1>12, <1>13, <1>14, <1>15, <1>17, <1>b DEF JobInv, Sane
<1>19. \A k \in Jobs \ {j} : my'[k] = my[k]
  BY <1>1 DEF TypeOK
<1>20. \A k \in Jobs \ {j} : JobInv(job[k], my[k])'
  BY <1>16, <1>19 DEF JobsInv, JobInv, Sane
<1> QED BY <1>2, <1>16, <1>18, <1>20 DEF JobsInv

LEMMA FinishSane ==
  ASSUME TypeOK, JobsInv, NEW j \in Jobs, Finish(j)
  PROVE  JobsInv'
<1>1. JobInv("idle", Blank)'
  BY DEF JobInv, Sane, Blank, Most
<1>2. job'[j] = "idle" /\ my'[j] = Blank /\ UNCHANGED <<Admins, answered, doc>>
      /\ \A k \in Jobs \ {j} : job'[k] = job[k] /\ my'[k] = my[k]
  BY DEF Finish, TypeOK, people, document, Admins
<1>3. \A k \in Jobs \ {j} : JobInv(job[k], my[k])'
  BY <1>2 DEF JobsInv, JobInv, Sane
<1> QED BY <1>1, <1>2, <1>3 DEF JobsInv

\* Whoever changes role or assignment has changed in the jobs they caused.
LEMMA ChangedSane ==
  ASSUME TypeOK, JobsInv, NEW u \in User, Changed(u), UNCHANGED <<answered, doc, job>>,
         \A v \in User \ {u} : role'[v] = role[v] /\ second'[v] = second[v]
  PROVE  JobsInv'
<1> SUFFICES ASSUME NEW j \in Jobs PROVE JobInv(job[j], my[j])'
  BY DEF JobsInv
<1>1. my[j] \in Memory /\ JobInv(job[j], my[j]) /\ job'[j] = job[j]
  BY DEF TypeOK, JobsInv
<1>2. PICK n : n = my'[j]
  OBVIOUS
<1>3. CASE my[j].by # u
  <2>1. n = my[j] /\ (n.by # None => (n.by \in Admins' <=> n.by \in Admins))
    BY <1>1, <1>2, <1>3 DEF Changed, Memory, Admins
  <2> QED BY <1>1, <1>2, <2>1 DEF JobInv, Sane, Most
<1>4. CASE my[j].by = u
  <2>1. /\ n.calls = my[j].calls /\ n.mail = my[j].mail /\ n.told = my[j].told
        /\ n.kind = my[j].kind /\ n.by = my[j].by /\ n.before = my[j].before /\ n.changed
        /\ n.twice = my[j].twice
    BY <1>1, <1>2, <1>4 DEF Changed, Memory
  <2> QED BY <1>1, <1>2, <2>1 DEF JobInv, Sane, Most
<1> QED BY <1>3, <1>4

LEMMA NextJobsInv == ASSUME TypeOK, JobsInv, [Next]_vars PROVE JobsInv'
<1> USE DEF people, document, tasks
<1>a. CommentKind \subseteq Kind /\ ClientKind \cup AdminKind \subseteq Kind
      /\ {"task_status_changed", "task_assigned", "signing_turn", "document_reminder"} \subseteq Kind
      /\ "document_reminder" \notin ClientKind \cup AdminKind \cup CommentKind
  BY DEF Kind, OneKind, ClientKind, AdminKind, CommentKind
<1>b. \A k \in Kind : /\ Of(k).kind = k /\ Of(k).by = None /\ Of(k).calls = <<>>
                      /\ Of(k).told = Blank.told /\ Of(k).mail = {} /\ Of(k).before = {}
                      /\ ~Of(k).changed /\ ~Of(k).client
  BY DEF Of, Blank
<1>c. \A k \in Kind : Of(k) \in Memory /\ OfTask(k) \in Memory
  BY MemoryTyped
<1>d. \A k \in Kind : /\ OfTask(k).kind = k /\ OfTask(k).by = None /\ OfTask(k).calls = <<>>
                      /\ OfTask(k).told = Blank.told /\ OfTask(k).mail = {}
                      /\ OfTask(k).before = {} /\ ~OfTask(k).client
  <2> SUFFICES ASSUME NEW k \in Kind
               PROVE  /\ OfTask(k).kind = k /\ OfTask(k).by = None /\ OfTask(k).calls = <<>>
                      /\ OfTask(k).told = Blank.told /\ OfTask(k).mail = {}
                      /\ OfTask(k).before = {} /\ ~OfTask(k).client
    OBVIOUS
  <2>1. PICK m : m = Of(k)
    OBVIOUS
  <2>2. OfTask(k) = [m EXCEPT !.requester = requester, !.assignee = assignee] /\ m \in Memory
    BY <1>c, <2>1 DEF OfTask
  <2>3. /\ m.kind = k /\ m.by = None /\ m.calls = <<>> /\ m.told = Blank.told /\ m.mail = {}
        /\ m.before = {} /\ ~m.client
    BY <1>b, <2>1
  <2> QED BY <2>2, <2>3 DEF Memory
<1>1. ASSUME NEW j \in Jobs, NEW k \in ClientKind \cup AdminKind, Notify(j, k) PROVE JobsInv'
  <2>1. Fresh(Of(k))
    BY <1>a, <1>b DEF Fresh
  <2> QED BY <1>1, <2>1, StartSane DEF Notify
<1>2. ASSUME NEW j \in Jobs, ChangeStatus(j) PROVE JobsInv'
  <2>1. Fresh(OfTask("task_status_changed"))
    BY <1>a, <1>d DEF Fresh
  <2> QED BY <1>2, <2>1, StartSane DEF ChangeStatus
<1>3. ASSUME NEW j \in Jobs, NEW u \in User, Assign(j, u) PROVE JobsInv'
  <2>1. Fresh([Of("task_assigned") EXCEPT !.assignee = u])
    BY <1>a, <1>b, <1>c DEF Fresh, Memory
  <2> QED BY <1>3, <2>1, StartSane DEF Assign
<1>4. ASSUME NEW j \in Jobs, NEW u \in User, Turn(j, u) PROVE JobsInv'
  <2>1. Fresh([Of("signing_turn") EXCEPT !.requester = u])
    BY <1>a, <1>b, <1>c DEF Fresh, Memory
  <2> QED BY <1>4, <2>1, StartSane DEF Turn
<1>5. ASSUME NEW j \in Jobs, NEW u \in User, NEW k \in CommentKind, Comment(j, u, k)
      PROVE  JobsInv'
  <2>1. Fresh([OfTask(k) EXCEPT !.by = u, !.client = (role[u] = "client"),
                                   !.changed = (second[u] = "agency")])
    BY <1>a, <1>c, <1>d DEF Fresh, Memory, Admins
  <2>2. Fresh([Of(k) EXCEPT !.by = u, !.client = (role[u] = "client"),
                               !.changed = (second[u] = "agency")])
    BY <1>a, <1>b, <1>c DEF Fresh, Memory, Admins
  <2>3. CASE k = "comment_task"
    BY <1>5, <2>1, <2>3, StartSane DEF Comment
  <2>4. CASE k # "comment_task"
    BY <1>5, <2>2, <2>4, StartSane DEF Comment
  <2> QED BY <2>3, <2>4
<1>6. ASSUME NEW c \in Copies, NEW j \in Jobs, CronNotify(c, j) PROVE JobsInv'
  <2>1. Fresh([Of("document_reminder") EXCEPT !.saw = cron[c].saw, !.before = answered])
    BY <1>a, <1>b, <1>c DEF Fresh, Memory
  <2> QED BY <1>6, <2>1, StartSane DEF CronNotify
<1>7. ASSUME NEW j \in Jobs, Lookup(j) \/ Tell(j) \/ Finish(j) PROVE JobsInv'
  BY <1>7, LookupSane, TellSane, FinishSane
<1>8. ASSUME (\E c \in Copies : Task(c)) \/ Elapse \/ UNCHANGED vars PROVE JobsInv'
  <2>1. UNCHANGED <<Admins, answered, doc, job, my>>
    BY <1>8 DEF Task, CronList, CronWrite, CronDies, Elapse, vars, Admins
  <2> QED BY <2>1 DEF JobsInv, JobInv, Sane
<1>9. ASSUME NEW u \in User, NEW r \in Part, ChangeRole(u, r)
      PROVE  JobsInv'
  <2>1. \A v \in User \ {u} : role'[v] = role[v] /\ second'[v] = second[v]
    BY <1>9 DEF ChangeRole, TypeOK
  <2> QED BY <1>9, <2>1, ChangedSane DEF ChangeRole
<1>10. ASSUME NEW u \in User, AssignClient(u) PROVE JobsInv'
  BY <1>10, ChangedSane DEF AssignClient
<1>11. ASSUME NEW u \in User, Answer(u) PROVE JobsInv'
  <2>1. answered \subseteq answered' /\ doc # "gone" /\ UNCHANGED <<Admins, job, my>>
    BY <1>11 DEF Answer, Admins
  <2> QED BY <2>1 DEF JobsInv, JobInv, Sane
<1>12. ASSUME NewVersion PROVE JobsInv'
  <2>1. my' = [j \in Jobs |-> [my[j] EXCEPT !.before = {}]] /\ UNCHANGED <<Admins, job>>
    BY <1>12 DEF NewVersion, Admins
  <2> SUFFICES ASSUME NEW j \in Jobs PROVE JobInv(job[j], my[j])'
    BY DEF JobsInv
  <2>2. my[j] \in Memory /\ JobInv(job[j], my[j])
    BY DEF TypeOK, JobsInv
  <2>3. PICK n : n = my'[j]
    OBVIOUS
  <2>4. /\ n.calls = my[j].calls /\ n.mail = my[j].mail /\ n.told = my[j].told /\ n.before = {}
        /\ n.kind = my[j].kind /\ n.by = my[j].by /\ n.changed = my[j].changed
        /\ n.client = my[j].client /\ n.twice = my[j].twice
    BY <2>1, <2>2, <2>3 DEF Memory
  <2>5. /\ job[j] # "idle" => n.kind \in Kind
        /\ n.by # None => n.kind \in CommentKind
        /\ \A i, k \in DOMAIN n.calls : i # k => n.calls[i].to \cap n.calls[k].to = {}
        /\ \A i \in DOMAIN n.calls : n.calls[i].twice \subseteq n.twice
                                    /\ (n.calls[i].twice # {} => n.kind \in ToldByRow)
        /\ \A u \in User : n.told[u] <= Most(n, u)
    BY <2>2, <2>4 DEF JobInv, Sane, Most
  <2>6. \A i \in DOMAIN n.calls : \A u \in n.calls[i].to :
          n.told[u] = 0 /\ (u = n.by => n.kind = "comment_update" /\ n.changed)
    BY <2>2, <2>4 DEF JobInv, Sane
  <2>7. job[j] = "lookup" =>
          /\ n.told = Blank.told /\ n.mail = {} /\ n.calls = <<>>
          /\ n.by # None /\ n.client /\ ~n.changed => n.by \notin Admins
    BY <2>2, <2>4 DEF JobInv, Sane
  <2>8. n.by # None => n.told[n.by] = 0 \/ (n.kind = "comment_update" /\ n.changed)
    BY <2>2, <2>4 DEF JobInv
  <2>9. JobInv(job[j], n)'
    BY <2>1, <2>4, <2>5, <2>6, <2>7, <2>8 DEF JobInv, Sane
  <2> QED BY <2>1, <2>3, <2>9
<1>13. ASSUME Close PROVE JobsInv'
  <2>1. UNCHANGED <<Admins, job, my>> /\ (doc' = "gone" \/ (doc # "gone" /\ answered' = answered))
    BY <1>13 DEF Close, Admins
  <2> QED BY <2>1 DEF JobsInv, JobInv, Sane
<1> QED
  BY <1>1, <1>2, <1>3, <1>4, <1>5, <1>6, <1>7, <1>8, <1>9, <1>10, <1>11, <1>12, <1>13
     DEF Next, Others, Work

----------------------------------------------------------------------------
(* Reminders *)

LEMMA NextReminders ==
  ASSUME TypeOK, RemindersCounted, RemindersSpaced, [Next]_vars
  PROVE  RemindersCounted' /\ RemindersSpaced'
<1> USE DEF people, document, tasks
<1>0. /\ sent \in [Copies -> 0..2]
      /\ cron \in [Copies -> [at : {"idle", "listed", "notified"}, saw : SUBSET User]]
  BY DEF TypeOK
<1>1. ASSUME UNCHANGED <<due, cron, sent, beside, died>>, doc' = "gone" \/ doc # "gone"
      PROVE  RemindersCounted' /\ RemindersSpaced'
  BY <1>1 DEF RemindersCounted, RemindersSpaced
<1>2. ASSUME NEW j \in Jobs, Work(j), ~\E c \in Copies : CronNotify(c, j)
      PROVE  RemindersCounted' /\ RemindersSpaced'
  <2>1. UNCHANGED <<doc, due, cron, sent, beside, died>>
    BY <1>2 DEF Work, Notify, ChangeStatus, Assign, Turn, Comment, Lookup, Tell, Finish
  <2>2. RemindersCounted' /\ RemindersSpaced'
    BY <2>1 DEF RemindersCounted, RemindersSpaced
  <2> QED BY <2>2
<1>3. ASSUME NEW j \in Jobs, NEW c \in Copies, CronNotify(c, j)
      PROVE  RemindersCounted' /\ RemindersSpaced'
  <2>1. /\ cron[c].at = "listed" /\ UNCHANGED <<doc, due, died, beside>>
        /\ \A d \in Copies : cron'[d].at = IF d = c THEN "notified" ELSE cron[d].at
        /\ \A d \in Copies : sent'[d] = IF d # c THEN sent[d] ELSE IF sent[c] < 2 THEN sent[c] + 1
                                                                             ELSE sent[c]
    BY <1>0, <1>3 DEF CronNotify
  <2>2. ~died => sent[c] = 0 /\ sent'[c] = 1
    BY <2>1 DEF RemindersCounted
  <2>3. RemindersCounted'
    BY <1>0, <2>1, <2>2 DEF RemindersCounted
  <2>4. ASSUME ~died, NEW d \in Copies, d # c, sent[d] > 0 PROVE {c, d} \subseteq beside
    BY <2>1, <2>4 DEF RemindersCounted
  <2>5. RemindersSpaced'
    BY <1>0, <2>1, <2>2, <2>4 DEF RemindersSpaced
  <2> QED BY <2>3, <2>5
<1>4. ASSUME NEW c \in Copies, CronList(c) PROVE RemindersCounted' /\ RemindersSpaced'
  <2>1. /\ cron[c].at = "idle" /\ due /\ doc # "gone" /\ UNCHANGED <<doc, due, sent, died>>
        /\ \A d \in Copies : cron'[d].at = IF d = c THEN "listed" ELSE cron[d].at
        /\ beside \subseteq beside'
        /\ \A d \in Copies : cron[d].at # "idle" => {c, d} \subseteq beside'
    BY <1>0, <1>4 DEF CronList, AtWork
  <2>2. ~died => sent[c] = 0
    BY <1>0, <2>1 DEF RemindersCounted
  <2>3. ASSUME ~died, NEW d \in Copies, NEW e \in Copies \ {d},
               cron'[e].at # "idle", sent[d] > 0 \/ cron'[d].at # "idle"
        PROVE  {d, e} \subseteq beside'
    <3>1. CASE c = d
      BY <2>1, <2>3, <3>1
    <3>2. CASE c = e
      BY <2>1, <2>3, <3>2 DEF RemindersCounted
    <3>3. CASE c # d /\ c # e
      BY <2>1, <2>3, <3>3 DEF RemindersCounted
    <3> QED BY <3>1, <3>2, <3>3
  <2>4. RemindersCounted'
    BY <1>0, <2>1, <2>2, <2>3 DEF RemindersCounted
  <2>5. RemindersSpaced'
    BY <2>1 DEF RemindersSpaced
  <2> QED BY <2>4, <2>5
<1>5. ASSUME NEW c \in Copies, CronWrite(c) PROVE RemindersCounted' /\ RemindersSpaced'
  <2>1. /\ UNCHANGED <<doc, sent, beside, died>> /\ (due' => doc = "gone")
        /\ \A d \in Copies : cron'[d].at = IF d = c THEN "idle" ELSE cron[d].at
    BY <1>0, <1>5 DEF CronWrite, CronEnds, Resting
  <2>2. ASSUME ~died, NEW d \in Copies, NEW e \in Copies \ {d},
               cron'[e].at # "idle", sent[d] > 0 \/ cron'[d].at # "idle"
        PROVE  {d, e} \subseteq beside
    BY <2>1, <2>2 DEF RemindersCounted
  <2>3. ASSUME ~died, NEW d \in Copies, cron'[d].at = "listed" PROVE sent[d] = 0
    BY <2>1, <2>3 DEF RemindersCounted
  <2>4. RemindersCounted'
    BY <2>1, <2>2, <2>3 DEF RemindersCounted
  <2>5. RemindersSpaced'
    BY <2>1 DEF RemindersSpaced
  <2> QED BY <2>4, <2>5
<1>6. ASSUME NEW c \in Copies, CronDies(c) PROVE RemindersCounted' /\ RemindersSpaced'
  <2>1. /\ UNCHANGED <<doc, due, sent, beside>>
        /\ died' = (died \/ (cron[c].at = "notified" /\ sent[c] > 0))
        /\ \A d \in Copies : cron'[d].at = IF d = c THEN "idle" ELSE cron[d].at
    BY <1>0, <1>6 DEF CronDies, CronEnds, Resting
  <2> SUFFICES ASSUME ~died' PROVE RemindersCounted' /\ RemindersSpaced'
    BY DEF RemindersCounted, RemindersSpaced
  <2>2. ~died /\ (cron[c].at = "notified" => ~(sent[c] > 0))
    BY <2>1
  <2>3. ASSUME NEW d \in Copies, NEW e \in Copies \ {d},
               cron'[e].at # "idle", sent[d] > 0 \/ cron'[d].at # "idle"
        PROVE  {d, e} \subseteq beside
    BY <2>1, <2>2, <2>3 DEF RemindersCounted
  <2>4. ASSUME NEW d \in Copies
        PROVE  /\ cron'[d].at = "listed" => sent[d] = 0
               /\ due /\ doc # "gone" /\ sent[d] > 0 => cron'[d].at = "notified"
    BY <2>1, <2>2 DEF RemindersCounted
  <2>5. RemindersCounted'
    BY <2>1, <2>3, <2>4 DEF RemindersCounted
  <2>6. RemindersSpaced'
    BY <2>1, <2>2 DEF RemindersSpaced
  <2> QED BY <2>5, <2>6
<1>7. CASE Elapse
  <2>1. \A c \in Copies : sent'[c] = 0
    BY <1>7 DEF Elapse
  <2>2. UNCHANGED cron /\ beside' = IF Cardinality(AtWork) < 2 THEN {} ELSE AtWork
    BY <1>7 DEF Elapse
  <2>3. ASSUME NEW d \in Copies, NEW e \in Copies \ {d}, cron[d].at # "idle", cron[e].at # "idle"
        PROVE  {d, e} \subseteq beside'
    <3>1. {d, e} \subseteq AtWork /\ IsFiniteSet(AtWork)
      BY <2>3, FS_Subset DEF AtWork
    <3>2. Cardinality({d, e}) = 2
      <4>1. Cardinality({d} \cup {e}) = Cardinality({d}) + 1
        BY FS_Singleton, FS_AddElement
      <4>2. {d} \cup {e} = {d, e} /\ Cardinality({d}) = 1
        BY FS_Singleton
      <4> QED BY <4>1, <4>2
    <3>3. Cardinality(AtWork) >= 2
      BY <3>1, <3>2, FS_Subset, FS_CardinalityType
    <3>4. Cardinality(AtWork) \in Nat
      BY <3>1, FS_CardinalityType
    <3> QED BY <2>2, <3>1, <3>3, <3>4
  <2>4. RemindersCounted'
    BY <2>1, <2>2, <2>3 DEF RemindersCounted
  <2>5. RemindersSpaced'
    BY <2>1 DEF RemindersSpaced
  <2> QED BY <2>4, <2>5
<1>8. CASE Others
  <2>1. UNCHANGED <<due, cron, sent, beside, died>> /\ (doc' = "gone" \/ doc # "gone")
    BY <1>8 DEF Others, AssignClient, Answer, ChangeRole, NewVersion, Close
  <2> QED BY <1>1, <2>1
<1>9. CASE UNCHANGED vars
  BY <1>9 DEF vars, RemindersCounted, RemindersSpaced
<1> QED BY <1>2, <1>3, <1>4, <1>5, <1>6, <1>7, <1>8, <1>9 DEF Next, Task

----------------------------------------------------------------------------
(* The theorems *)

LEMMA Invariance == Spec => []IInv
<1>1. IInv /\ [Next]_vars => IInv'
  BY JobsInvIff, NextTypeOK, NextJobsInv, NextReminders DEF IInv
<1> QED BY <1>1, InitIInv, PTL DEF Spec

\* Every reachable state is well typed: assignees are users, clients of the project have
\* not left the organization, an idle job remembers nothing.
THEOREM TypeCorrect == Spec => []TypeOK
<1>1. IInv => TypeOK
  BY DEF IInv
<1> QED BY <1>1, Invariance, PTL

\* However people change roles and assignments while a notification is under way, it
\* tells nobody twice, but staff with two Member rows of what all staff are told
\* (NotificationsService, createInAppAndPush(), getOrgAdmins()).
THEOREM NobodyToldTwice == Spec => []OncePerEvent
<1>1. IInv => OncePerEvent
  BY DEF IInv
<1> QED BY <1>1, Invariance, PTL

\* Nobody is told of their own comment, but on an update by one who changed sides
\* meanwhile or has a second row, as staff (notifyComment()).
THEOREM AuthorsNotTold == Spec => []AuthorNotTold
<1>1. IInv => AuthorNotTold
  BY DEF IInv
<1> QED BY <1>1, Invariance, PTL

\* Who had answered when a reminder was started gets neither notification nor mail,
\* although the reminder task read the answers earlier (document-reminder.task.ts).
THEOREM AnsweredAreSpared == Spec => []AnsweredNotReminded
<1>1. IInv => AnsweredNotReminded
  BY DEF IInv
<1> QED BY <1>1, Invariance, PTL

\* A second reminder in an interval needs a task that ended between the first and the
\* storing of its time, or another copy of the API that was at it beside the first.
THEOREM RemindersAreSpaced == Spec => []RemindersSpaced
<1>1. IInv => RemindersSpaced
  BY DEF IInv
<1> QED BY <1>1, Invariance, PTL
=============================================================================
