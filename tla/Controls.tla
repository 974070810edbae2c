------------------------------- MODULE Controls -------------------------------
(* What the modules of the screens' controls share. Such a module takes one    *)
(* kind of row (a document, a task, an invoice ...) and says four things of    *)
(* it: which operations apps/web offers a viewer who is shown the row, which   *)
(* of them apps/api accepts when the row is really so, what an accepted one    *)
(* makes of the row, and where the two are known to disagree. Layout, wording  *)
(* and what only opens or closes a panel is left out; an operation is the      *)
(* request that a control sends in the end.                                    *)
EXTENDS Integers, FiniteSets

\* The roles of a session. "member" is a client; "other" is a second client of
\* the same project, "stranger" one of no project; "guest" holds a link and has
\* no session; "preview" is staff looking at the portal as the client.
Staff     == {"owner", "admin"}
Clients   == {"client", "other"}
Sessions  == Staff \cup Clients \cup {"stranger", "preview"}
Viewers   == Sessions \cup {"guest"}

\* The scheduled tasks, the webhooks and the callers of the API that have no
\* screen for what they ask.
Machines  == {"cron", "stripe", "agent"}
Actors    == Viewers \cup Machines

\* What a deleted row leaves.
Gone == [kind |-> "gone"]

\* The operations a condition shows or allows.
When(condition, ops) == IF condition THEN ops ELSE {}

\* auth/preview-mode.middleware.ts: staff may take the place of a client of
\* their organization; the session keeps their role and borrows the user.
PreviewAs == [v \in Viewers |-> IF v = "preview" THEN "client" ELSE v]

\* auth/preview-mode.guard.ts: a previewing session may only read.
PreviewRefuses(v) == v = "preview"

\* common/helpers/assert-project-access.ts: staff, and the project's clients.
HasProjectAccess(v) == v \in Staff \cup Clients \cup {"preview"}
=============================================================================
