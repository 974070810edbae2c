---------------------------- MODULE TaskDecisions ----------------------------
(***************************************************************************)
(* Tasks and decisions of one project (apps/api/src/tasks, the task writers*)
(* of apps/api/src/agent and the capture of completed tasks in apps/api/   *)
(* src/time-entries): requests of clients, votes, the close of a vote,     *)
(* status changes and what is captured for billing.                        *)
(*                                                                         *)
(* A handler reads in one step and writes in a later one, by id.  Titles,  *)
(* due dates, assignees and the display order of tasks are left out.       *)
(***************************************************************************)
EXTENDS Integers, FiniteSets

CONSTANTS
  Clients,    \* users of the client portal
  Task,       \* identifiers of tasks
  Option,     \* the options of every decision
  Workers,    \* API requests in flight together
  MaxOpen,    \* bound on open captures of a task
  None

ASSUME TaskAssumption ==
  /\ IsFiniteSet(Clients) /\ IsFiniteSet(Workers)
  /\ None \notin Clients \cup Task \cup Option \cup {"checkbox", "decision"}
  /\ MaxOpen \in Nat

VARIABLES
  fresh,      \* tasks not created yet
  kind,       \* Task.type, or None: no such row
  status,     \* Task.status
  closed,     \* is Task.closedAt set?
  requester,  \* Task.requestedById
  roster,     \* ProjectClient: the clients of the project
  vote,       \* DecisionVote: the option a client voted for
  open,       \* unresolved PendingTimeCapture rows of a task
  result,     \* history: the votes when the decision was first closed
  late,       \* history: clients whose vote was in flight at that moment
  pc, my      \* where each request is, and what it has read

taskVars == <<fresh, kind, status, closed, requester>>
voteVars == <<vote, result, late>>
vars == <<taskVars, voteVars, roster, open, pc, my>>

Statuses == {"open", "in_progress", "done", "cancelled"}
Pc == {"idle", "request", "vote", "voting", "close", "update", "cancel", "capture",
       "captured", "view"}
Memory == [client : Clients \cup {None}, task : Task \cup {None},
           status : Statuses \cup {None}, closed : BOOLEAN, voters : SUBSET Clients]
Blank == [client |-> None, task |-> None, status |-> None, closed |-> FALSE, voters |-> {}]
Unvoted == [c \in Clients |-> None]

Goto(w, from, to) == pc[w] = from /\ pc' = [pc EXCEPT ![w] = to]
Remember(w, what) == my' = [my EXCEPT ![w] = what]
Forget(w) == Remember(w, Blank)

Exists(t) == kind[t] # None
Voters(t) == {c \in Clients : vote[t][c] # None}
Voting(w, t) == pc[w] \in {"vote", "voting"} /\ my[w].task = t
Capturing(t) == {w \in Workers : pc[w] = "captured" /\ my[w].task = t}

Init ==
  /\ fresh = Task /\ kind = [t \in Task |-> None]
  /\ status = [t \in Task |-> "open"] /\ closed = [t \in Task |-> FALSE]
  /\ requester = [t \in Task |-> None]
  /\ roster \in SUBSET Clients
  /\ vote = [t \in Task |-> Unvoted] /\ result = vote
  /\ late = [t \in Task |-> {}]
  /\ open = [t \in Task |-> 0]
  /\ pc = [w \in Workers |-> "idle"] /\ my = [w \in Workers |-> Blank]

----------------------------------------------------------------------------
(* Tasks come from the team or an agent, or from a client of the project.  *)

Insert(t, k, c) ==
  /\ t \in fresh /\ fresh' = fresh \ {t}
  /\ kind' = [kind EXCEPT ![t] = k]
  /\ requester' = [requester EXCEPT ![t] = c]
  /\ UNCHANGED <<status, closed>>

Create(t, k) ==
  /\ Insert(t, k, None)
  /\ UNCHANGED <<voteVars, roster, open, pc, my>>

CreateForClientRead(w, c) ==
  /\ Goto(w, "idle", "request")
  /\ c \in roster
  /\ Remember(w, [Blank EXCEPT !.client = c])
  /\ UNCHANGED <<taskVars, voteVars, roster, open>>

CreateForClientWrite(w) ==
  /\ Goto(w, "request", "idle")
  /\ \E t \in fresh : Insert(t, "checkbox", my[w].client)
  /\ Forget(w)
  /\ UNCHANGED <<voteVars, roster, open>>

(* The row takes its votes along; its captures lose their task.            *)

Remove(t) ==
  /\ Exists(t)
  /\ kind' = [kind EXCEPT ![t] = None]
  /\ vote' = [vote EXCEPT ![t] = Unvoted]
  /\ result' = [result EXCEPT ![t] = Unvoted]
  /\ open' = [open EXCEPT ![t] = 0]
  /\ UNCHANGED <<fresh, status, closed, requester, late, roster, pc, my>>

\* projects.update() replaces the clients of the project.
AssignClients(clients) ==
  /\ roster' = clients
  /\ UNCHANGED <<taskVars, voteVars, open, pc, my>>

----------------------------------------------------------------------------
(* vote(): the decision is open, then the client is on the project, then   *)
(* the vote is stored.                                                     *)

VoteReadAny(w, c, t) ==                       \* mutant: closed decisions too
  /\ Goto(w, "idle", "vote")
  /\ kind[t] = "decision"
  /\ Remember(w, [Blank EXCEPT !.client = c, !.task = t])
  /\ UNCHANGED <<taskVars, voteVars, roster, open>>

VoteRead(w, c, t) ==
  /\ Goto(w, "idle", "vote")
  /\ kind[t] = "decision" /\ ~closed[t]
  /\ Remember(w, [Blank EXCEPT !.client = c, !.task = t])
  /\ UNCHANGED <<taskVars, voteVars, roster, open>>

VoteCheck(w) ==
  /\ Goto(w, "vote", "voting")
  /\ my[w].client \in roster
  /\ UNCHANGED <<taskVars, voteVars, roster, open, my>>

VoteWrite(w, o) ==
  /\ Goto(w, "voting", "idle")
  /\ Exists(my[w].task)
  /\ vote' = [vote EXCEPT ![my[w].task][my[w].client] = o]
  /\ Forget(w)
  /\ UNCHANGED <<taskVars, result, late, roster, open>>

(* closeVoting(): then completes the task, like a change of its status.    *)

CloseRead(w, t) ==
  /\ Goto(w, "idle", "close")
  /\ kind[t] = "decision" /\ ~closed[t] /\ status[t] # "cancelled"
  /\ Remember(w, [Blank EXCEPT !.task = t])
  /\ UNCHANGED <<taskVars, voteVars, roster, open>>

\* Another request may have closed it since; history keeps the first close.
Record(t) ==
  IF closed[t] THEN UNCHANGED <<result, late>>
  ELSE /\ result' = [result EXCEPT ![t] = vote[t]]
       /\ late' = [late EXCEPT ![t] = {my[w].client : w \in {v \in Workers : Voting(v, t)}}]

CloseWrite(w) ==
  /\ Goto(w, "close", "capture")
  /\ Exists(my[w].task)
  /\ closed' = [closed EXCEPT ![my[w].task] = TRUE]
  /\ status' = [status EXCEPT ![my[w].task] = "done"]
  /\ Record(my[w].task)
  /\ UNCHANGED <<fresh, kind, requester, vote, roster, open, my>>

(* update(), of the team and of agents: any status, whatever it is now.    *)

UpdateRead(w, t) ==
  /\ Goto(w, "idle", "update")
  /\ Exists(t)
  /\ Remember(w, [Blank EXCEPT !.task = t, !.status = status[t]])
  /\ UNCHANGED <<taskVars, voteVars, roster, open>>

Completes(w, s) == s = "done" /\ my[w].status # "done"

UpdateWrite(w, s) ==
  /\ pc[w] = "update" /\ Exists(my[w].task)
  /\ status' = [status EXCEPT ![my[w].task] = s]
  /\ IF Completes(w, s) THEN Goto(w, "update", "capture") /\ UNCHANGED my
                        ELSE Goto(w, "update", "idle") /\ Forget(w)
  /\ UNCHANGED <<fresh, kind, closed, requester, voteVars, roster, open>>

(* cancelClientTask(): the client's own open request.                      *)

CancelRead(w, c, t) ==
  /\ Goto(w, "idle", "cancel")
  /\ kind[t] = "checkbox" /\ requester[t] = c /\ status[t] = "open"
  /\ Remember(w, [Blank EXCEPT !.task = t, !.client = c])
  /\ UNCHANGED <<taskVars, voteVars, roster, open>>

CancelWrite(w) ==
  /\ Goto(w, "cancel", "idle")
  /\ Exists(my[w].task)
  /\ status' = [status EXCEPT ![my[w].task] = "cancelled"]
  /\ Forget(w)
  /\ UNCHANGED <<fresh, kind, closed, requester, voteVars, roster, open>>

\* The client is not on the project (any more), or the row is gone.
Refused(w) ==
  /\ \/ pc[w] = "vote" /\ my[w].client \notin roster
     \/ pc[w] \in {"voting", "close", "update", "cancel"} /\ ~Exists(my[w].task)
  /\ pc' = [pc EXCEPT ![w] = "idle"]
  /\ Forget(w)
  /\ UNCHANGED <<taskVars, voteVars, roster, open>>

----------------------------------------------------------------------------
(* captureTaskCompletion(): one unresolved capture for a task, looked for  *)
(* first and created later; a failed insert is logged and forgotten.       *)

CaptureReadAlways(w) ==                       \* mutant: does not look
  /\ Goto(w, "capture", "captured")
  /\ UNCHANGED <<taskVars, voteVars, roster, open, my>>

CaptureRead(w) ==
  /\ pc[w] = "capture"
  /\ IF open[my[w].task] = 0 THEN Goto(w, "capture", "captured") /\ UNCHANGED my
                             ELSE Goto(w, "capture", "idle") /\ Forget(w)
  /\ UNCHANGED <<taskVars, voteVars, roster, open>>

CaptureWriteOrphan(w) ==              \* mutant: no foreign key to the task
  /\ Goto(w, "captured", "idle")
  /\ open[my[w].task] < MaxOpen
  /\ open' = [open EXCEPT ![my[w].task] = @ + 1]
  /\ Forget(w)
  /\ UNCHANGED <<taskVars, voteVars, roster>>

CaptureWrite(w) ==
  /\ Goto(w, "captured", "idle")
  /\ open[my[w].task] < MaxOpen
  /\ open' = IF Exists(my[w].task)
             THEN [open EXCEPT ![my[w].task] = @ + 1] ELSE open
  /\ Forget(w)
  /\ UNCHANGED <<taskVars, voteVars, roster>>

\* A capture is resolved or dismissed.
Resolve(t) ==
  /\ open[t] > 0 /\ open' = [open EXCEPT ![t] = @ - 1]
  /\ UNCHANGED <<taskVars, voteVars, roster, pc, my>>

----------------------------------------------------------------------------
(* findByProjectForClient(): reads the tasks with their votes, counts the  *)
(* clients later, and hides the counts of an open decision until as many   *)
(* have voted as the project has clients.                                  *)

ResultsShown(isClosed, voters, clients) ==
  isClosed \/ Cardinality(voters) >= Cardinality(clients)

ViewRead(w, c, t) ==
  /\ Goto(w, "idle", "view")
  /\ c \in roster /\ kind[t] = "decision"
  /\ Remember(w, [Blank EXCEPT !.client = c, !.task = t, !.closed = closed[t],
                               !.voters = Voters(t)])
  /\ UNCHANGED <<taskVars, voteVars, roster, open>>

ViewResults(w) ==
  /\ Goto(w, "view", "idle")
  /\ ResultsShown(my[w].closed, my[w].voters, roster)
  /\ Forget(w)
  /\ UNCHANGED <<taskVars, voteVars, roster, open>>

ViewHidden(w) ==
  /\ Goto(w, "view", "idle")
  /\ ~ResultsShown(my[w].closed, my[w].voters, roster)
  /\ Forget(w)
  /\ UNCHANGED <<taskVars, voteVars, roster, open>>

----------------------------------------------------------------------------

Ask(w) ==
  \/ \E c \in Clients : CreateForClientRead(w, c)
  \/ \E c \in Clients, t \in Task : VoteRead(w, c, t) \/ CancelRead(w, c, t) \/ ViewRead(w, c, t)
  \/ \E t \in Task : CloseRead(w, t) \/ UpdateRead(w, t)

Answer(w) ==
  \/ CreateForClientWrite(w) \/ VoteCheck(w) \/ \E o \in Option : VoteWrite(w, o)
  \/ CloseWrite(w) \/ CancelWrite(w) \/ \E s \in Statuses : UpdateWrite(w, s)
  \/ Refused(w) \/ CaptureRead(w) \/ CaptureWrite(w) \/ ViewResults(w) \/ ViewHidden(w)

Next ==
  \/ \E w \in Workers : Ask(w) \/ Answer(w)
  \/ \E t \in Task, k \in {"checkbox", "decision"} : Create(t, k)
  \/ \E t \in Task : Remove(t) \/ Resolve(t)
  \/ \E clients \in SUBSET Clients : AssignClients(clients)

Spec == Init /\ [][Next]_vars

----------------------------------------------------------------------------
(* Properties *)

\* Types; what does not exist has neither votes nor captures, and only a
\* decision is voted on or closed.
TypeOK ==
  /\ fresh \in SUBSET Task
  /\ kind \in [Task -> {"checkbox", "decision", None}]
  /\ status \in [Task -> Statuses]
  /\ closed \in [Task -> BOOLEAN]
  /\ requester \in [Task -> Clients \cup {None}]
  /\ roster \in SUBSET Clients
  /\ vote \in [Task -> [Clients -> Option \cup {None}]]
  /\ result \in [Task -> [Clients -> Option \cup {None}]]
  /\ late \in [Task -> SUBSET Clients]
  /\ open \in [Task -> Nat]
  /\ pc \in [Workers -> Pc] /\ my \in [Workers -> Memory]
  /\ \A t \in Task : kind[t] = None => open[t] = 0
  /\ \A t \in Task : kind[t] # "decision" => vote[t] = Unvoted
  /\ \A t \in Task : closed[t] => kind[t] \in {"decision", None}
  /\ \A t \in fresh : kind[t] = None /\ ~closed[t]

\* After a decision is closed only votes that were in flight at that moment can
\* still change its result: what is announced at closing is final but for them.
TallyFinal ==
  \A t \in Task : closed[t] =>
    \A c \in Clients : vote[t][c] # result[t][c] => c \in late[t]

\* However often a task is completed, by closing its vote, by the team or by an
\* agent, its unresolved captures do not pile up: only requests that looked together,
\* before any of them wrote, add one each, so there are at most as many as requests
\* the API handles at a time.
CapturesBounded ==
  \A t \in Task : open[t] + Cardinality(Capturing(t)) <= Cardinality(Workers)

\* Strengthening for the proofs: requests remember tasks that exist in the model,
\* and a vote in flight on a closed decision was in flight when it was closed.
MemorySane ==
  \A w \in Workers :
    /\ pc[w] \in {"vote", "voting", "close", "update", "cancel", "capture", "captured"} =>
         my[w].task \in Task \ fresh
    /\ pc[w] \in {"request", "vote", "voting"} => my[w].client \in Clients
    /\ pc[w] \in {"vote", "voting", "close"} => kind[my[w].task] \in {"decision", None}
VotesInFlight ==
  \A w \in Workers, t \in Task : Voting(w, t) /\ closed[t] => my[w].client \in late[t]
IInv == TypeOK /\ MemorySane /\ VotesInFlight /\ TallyFinal /\ CapturesBounded

----------------------------------------------------------------------------
(* Promises the code does not keep; the README tells how they break. *)

\* "Vote counts hidden until all clients have voted" (CHANGELOG.md:303): a client of
\* the project who has still to vote is not shown how others voted on an open
\* decision.  The code compares two numbers, which those who left make equal.
CountsHidden ==
  [][\A w \in Workers : ViewResults(w) =>
       \/ my[w].closed \/ my[w].voters = {}
       \/ my[w].client \notin roster \/ my[w].client \in my[w].voters]_vars

\* "Only the requesting user can cancel their own open tasks"
\* (apps/api/src/tasks/tasks.service.ts:410).
ClientCancelsOpen ==
  [][\A w \in Workers : CancelWrite(w) => status[my[w].task] = "open"]_vars
=============================================================================
