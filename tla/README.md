# Verification of the portal

TLA+ models of the client portal: of the parts of the API (`apps/api/src`) that
keep state several requests, scheduled tasks and outside services change at
once, and of the web application (`apps/web/src`) that shows this state and asks
for its changes. TLC runs check them on small instances; proofs, checked by
TLAPS, show that the main properties hold for every number of users, requests,
fields and entries.

Paths below are relative to `apps/api/src` unless they begin with `apps/`,
`packages/` or `docs/`.

## 1. The system

A NestJS API over one PostgreSQL database (Prisma), an object store, Stripe and
a mail service, used by a Next.js web application, by agents with API keys and
by Stripe's webhooks. An organization's staff (owners, admins) work with clients
on projects in the *dashboard*; clients see their projects in the *portal*.
Several copies of the API may run, and every request interleaves with every
other at each `await`. Unless a handler opens a transaction or tests a row in
the statement that writes it, what it read may be stale when it writes. The web
application keeps no cache: a screen loads a list, shows it, and its controls
send requests; a screen may be older than the row it shows.

| Component | State | Operations that change it | What is hard |
|---|---|---|---|
| Document signing (`documents`) | document row, signature fields, responses, versions, signed PDF | create, send, void, place fields, respond, sign, upload or restore a version, hourly expiry, delete | signers share one PDF; the row lock spans downloads and uploads; status is recomputed outside it; blobs are deleted by calls nobody awaits |
| Reminders (`documents/document-reminder.task.ts`) | time of the last reminder | hourly task | runs in every copy of the API and claims nothing; reads answers long before it mails; may die between mail and write |
| Invoices (`invoices`) | invoice, line items, number | create, upload, record, edit, delete, hourly overdue task | check, then write by id; numbering |
| Online payments (`payments`) | Stripe settings, checkout session and payment on the invoice | connect, save or remove keys, disconnect, checkout, webhooks | Stripe's events come late, twice, in any order, or to an endpoint that was replaced; sessions outlive edits and accounts |
| Time tracking (`time-entries`) | entries, journal, captures | start, stop, edit, delete, generate an invoice, resolve a capture; deletion of projects and accounts | two tabs; entries read before the transaction that bills them; cascades over billed entries |
| Tasks and decisions (`tasks`) | tasks, options, votes | create, vote, close, cancel, reorder | votes race the close; completions captured twice |
| Subscription billing (`billing`, `common/guards/plan.guard.ts`) | plan and status of an organization | checkout, portal, webhooks, limits | seat cap, order of events, check-then-create |
| Members, invitations, projects (`clients`, `onboarding`, `account`, `projects`) | members, invitations, assignments | invite, accept, assign, remove, change role, delete account | no unique key of members; the last owner; access that changes during a request |
| Files (`files`, `updates`, `branding`) | file rows and stored objects | upload, attach, version, delete | row and object come and go in separate steps |
| Updates, notes, comments | posts | create, edit, delete | notifications |
| Notifications (`notifications`, `mail`) | in-app rows, push subscriptions, push keys | fan-out | fire and forget; recipients read later |
| Sessions and preview (`auth`) | sessions, first organization | sign up, hooks, preview | preview acts as another user |
| Setup, settings, branding | organization, settings | first run, upserts | run once |
| Agent API (`agent`) | rows with an external id, audit events | idempotent create, update | retries in flight |
| Embeds, calendar, labels, search, activity | caches, labels, reads | single-row writes | network |
| Web application (`apps/web/src`) | what each open screen shows | loads, clicks, pages, filters | answers out of order, stale screens, two sets of conditions |

How they interact: `projects` decides which clients a document's approval
counts; a completed task or closed decision (`tasks`, `agent`) creates a capture
in `time-entries`; `time-entries` and `invoices` both create invoices over
entries, deleting or re-lining an invoice frees the entries through a foreign
key, and deleting a project or an account deletes entries, billed or not; `payments` writes invoices behind the back of `invoices`; nearly
everything notifies, without waiting for it; and every control of the web
application has conditions of its own beside those of the route it asks.

What makes each component correct is listed with its hazards in
`PROJECT.json`; the properties of the modelled ones are in section 3.

## 2. Modules

| Module | Models |
|---|---|
| `SigningLedger` | what signing promises, in four actions: fields are placed, an entitled signer marks a field in its turn, a new edition erases the marks |
| `DocumentSigning` | one document, its requests, the expiry task and the object store; refines `SigningLedger` |
| `InvoicePayments` | one invoice, its edits, its checkout sessions at Stripe, the accounts, keys and endpoints the agency connects, replaces and removes, the webhooks and the overdue task |
| `TimeLedger` | what the books on time promise: an entry is written once, for one person with one clock; a bill takes what is free, is withdrawn whole, or rewritten by hand; what it took is neither taken back nor restarted, but by who was writing to it before, or with the whole person or folder |
| `TimeBilling` | time entries, captures, the invoices that charge them, and the deletions of projects and accounts that take entries along; refines `TimeLedger` |
| `InvoiceRequests` | the requests in flight, for `InvoicePayments` and `TimeBilling` |
| `TaskDecisions` | tasks and decisions: requests of clients, votes, the close, status changes, cancellation, the counts shown to a client, captures |
| `PlanBilling` | the plan of each organization, checkouts, the cap on lifetime seats, Stripe's customers, subscriptions and events |
| `Membership` | members and roles of one organization, invitations, removal, account deletion, and who is assigned to its projects |
| `FileStorage` | rows and the objects they name: uploads, attachments, versions, signed PDFs, logos, deletion of files, projects and accounts, the storage quota |
| `Notifications` | who is told of what: one fan-out job per event over people who change roles meanwhile and may have two Member rows, and the reminder task in each copy of the API |
| `PushKeys` | the key pair of browser push, the browsers subscribed with it |
| `WebScreens` | one open screen of the web application: loads, clicks, answers in any order, faults |
| `Controls` | viewers, preview mode, project access: what the next five share |
| `DocumentControls`, `WorkControls`, `MoneyControls`, `PeopleControls` | for each kind of row, what the screens offer a viewer, what the routes accept, what an accepted operation makes of the row |
| `ScreenControls` | a row, and the screens that show it as it was: composes the four |
| `MC...` | symmetry and values TLC uses; `MCWebScreens` explores `WebScreens` and `ScreenControls` |
| `..._proofs` | the theorems and their proofs: `Invoices_proofs` for `InvoicePayments` and `TimeBilling`, `WebScreens_proofs` for `WebScreens` and `ScreenControls` |

How state and actions correspond to the code:

* A request is a *worker*. `pc[w]` says which `await` it has reached; `my[w]`
  (in `DocumentSigning` also `who`, `page`, `verdict`) holds what it read and
  will use. A handler `send()` is `SendRead` then `SendWrite`, and anything may
  happen between. A statement that tests what it writes (`updateMany` with a
  condition) is one step.
* A variable is a column or a set of rows: `status`, `expiry`, `version`,
  `signedFile` of `Document`; `billed[e]` follows `TimeEntry.invoiceLineItemId`
  to its invoice; `roster` is `ProjectClient`; `row` of `Membership` is `Member`.
* `SELECT ... FOR UPDATE` is `lock`. A step that updates the locked row, or
  inserts a row that references it, has the guard `Unlocked`.
* The object store is `blob` in `DocumentSigning` (the PDF under
  `<id>-signed.pdf`, as the version it was made from and the signatures drawn on
  it) and `stored` in `FileStorage` (the keys that hold an object).
* `FileStorage` writes and deletes rows and objects in the order the code does;
  `Fail(w)` ends a request at any of these points, with nothing undone.
* A notification is a *job*, started by a handler with what the handler passes,
  going on later with what the database says then: `Lookup`, `Tell`, `Finish`.
* Times are abstract: a date is not set, to come, or gone by.
* Identifiers are used once. In the bounded runs of `Membership` and
  `FileStorage` a deleted row's name is used again once no row, object or request
  knows it; a fresh name would behave the same.
* Stripe is external: `Pay`, `Expire`, `Cancel` change it; an event stays
  deliverable for ever, before and after its answer. In `InvoicePayments` it goes
  to the endpoints the session's account has when it happens, and to the platform;
  none is delivered to an endpoint that was deleted, an endpoint's are verified
  with the secret in force, and the platform's must come from the account in
  force. `Settings` are the mode, the account and the secret: `Connect` replaces
  them in one step, `SaveKeys...` and `Clear...` in the order of the code, whose
  cleanup at Stripe may fail anywhere.
* In `FileStorage` a file has a size in bytes; `UnderLimit` compares the rows'
  sum, rounded to megabytes, with the limit, before the size of the next is known.
* In `TimeBilling` an invoice charges what its lines say (`charged`), which
  `ReplaceLineItems` sets to anything the caller sends, while `billed` is the
  foreign key, which it clears.
* In `WebScreens` a screen is a record of the few things in which screens differ
  (how the list is cut into views, whether an earlier load is dropped, what is
  hidden while loading), and a handler a record of what it asks and what it does
  with the answer; each of the screens of `apps/web/src` that loads from the API
  is one such record. A handler goes on with the view of the render it began in.
* In the `...Controls` modules an operation is the request a control sends in
  the end. `...Offers(v, r)` follows the conditions of the JSX, `...Accepts` the
  guards, pipes and early returns of the route, `...After` what the service
  writes. `Refusals` names what is offered and always refused, `ScreenRules` what
  is accepted though no up-to-date screen offers it.
* A mutated form of an action, named for what it gets wrong and marked
  `mutant`, stands before the action it deforms: the property it breaks is
  known to depend on that line of code.

## 3. Runs

| Run | Instance | Shows |
|---|---|---|
| `DocumentSigning` | 2 requests, crashes, transactions that time out; either a document to sign by a client and an admin, 2 ordered fields, 3 versions, or one to approve by one or two clients, changing assignment, 2 responses, its file replaced once | `NoSignatureLost`: the signed PDF shows every signature, unless a late upload came over it; `SigningOrderKept`, `DraftIsBlank`, `SignedOnlyWhileOpen`; `AcceptedByAll`: a document is accepted by all its clients, but for a recomputation that counted wrong or was overtaken; the refinement `LedgerSpec` |
| `DocumentSigningLive` | 2 requests, a document that is both approved and signed, 2 versions, fairness | `ExpiryEnforced`, `CompletionSettles` |
| `InvoicePayments` | 2 requests, 2 sessions, totals 0 and 1, 2 accounts, crashes, Stripe faults | `OneSessionToPay`: of two sessions that are paid or can be, one was made by a checkout that could not know of the other, or the invoice lost it; `PaidAmountIsCharge`, `ExpiryClearsOwnSession` |
| `InvoicePaymentsLive` | 1 request, 1 session, 2 accounts, 2 endpoints, fairness | `ChargeRecorded`: a charge that Stripe reports to a webhook makes the invoice paid, unless it is deleted, or the account, key or endpoint was given up before the delivery |
| `TimeBilling` | 2 users, 2 projects, 2 requests; 3 entries and a capture without invoices, or 2 entries and 2 invoices | `OneTimer`, `CaptureOnce`; `DoubleChargeIsExplained`: time is charged twice only through lines written by hand, or where a `generateInvoice()` was overtaken; `LockedIsCharged`; and the refinement `TimeLedgerSpec` |
| `TaskDecisions` | 3 clients, 2 requests, a task, 2 options, up to 3 open captures | `TypeOK`; `TallyFinal`: the votes counted at the close stay, but for votes in flight at that moment; `CapturesBounded` |
| `PlanBilling` | 2 organizations, 2 customers, 2 sessions, 2 requests, 1 seat | `SeatsCapped`: more lifetime plans than seats only where one was sold while another was being sold, or a past-due organization came back to its seat; `CancelledIsTakenBack`: a cancelled subscription leaves no paid plan once its events are delivered, unless its completion came after its cancellation or a concurrent checkout replaced the customer |
| `Membership` | 2 people, 3 member rows (2 while there is a project), an invitation, a project, 2 requests | `TypeOK`; `MembershipsBounded`: a person has at most as many memberships as acceptances were in flight together; `LastOwnerLeaves`: an organization loses its last owner only by a removal, demotion or deletion between whose read and write others changed who the owners are; `JoinSeesNothing`: who joins sees no project of an earlier membership, unless a request that was overtaken left the assignment behind |
| `FileStorage` | 3 keys, of 1, 4 and 4 bytes, 2 rows of signed PDFs, 2 requests, a megabyte of 4 bytes, a limit of 1 megabyte, failures everywhere, which leave one object behind before the run stops following them | `TypeOK`; `FilesHaveObjects` and `NothingLeaks`: a row without its object, or an object without a row, always has a named cause; `StorageOvershoot`: the quota is passed by less than one largest file for each request in flight |
| `Notifications` | 3 users, of whom one may have two Member rows, 1 job, 2 changes; or 2 users and 2 copies of the reminder task, 1 change | `OncePerEvent`: nobody is told twice of one event, whatever parts a person has in it, but for staff with two rows of what all staff are told; `AuthorNotTold`; `AnsweredNotReminded`: who had answered before a reminder was started is not reminded; `RemindersSpaced`: one reminder an interval, unless a task died between the mail and the storing of its time, or copies were at it together |
| `WebScreens` | 4 rows, 2 clicks, 2 changes of view, 2 faults; every screen. Beside it every kind of row, changed at most twice since a screen loaded it | `QuietScreenIsTrue`: a screen with nothing in flight shows the API's rows, unless a named stray came in the way; `EveryClickCountsOnce`; `OffersAreKept`: the API accepts what an up-to-date screen offers, but for `Refusals`; `StaleOffersAreKnown`: what a stale screen still offers is refused, but for `ScreenRules` |
| `PushKeys` | 1 browser, 2 key pairs, 2 requests | a violation of `SubscribersAreReached`: the comment at `notifications/push.service.ts:72` says *serializable*, the transaction has the default isolation; two first requests both find no keys, and the browser subscribed with the pair that is overwritten is never reached |

History variables say what a property excuses: `stray`, `overlap` and `misled`
(`DocumentSigning`), `blind` and `loose` (`InvoicePayments`), `relined`,
`overtaken` and `undercut` (`TimeBilling`), `late` (`TaskDecisions`), `raced` and
`replayed` (`PlanBilling`), `stray` and the `owners` a request read
(`Membership`), `waste`, `half` and `free` (`FileStorage`), `died`, `beside` and
the `twice` of a job (`Notifications`), `strays` (`WebScreens`). Each collects
one kind of race or fault, or of hand-made exception, at the step where it
happens; the property then says that nothing else breaks the promise. In
`DocumentSigning`, `stray` is set when the upload of a timed-out signing transaction arrives after a later signer has
stored a PDF, `overlap` collects the clients two of whose answers found no earlier
one together, and `misled` the requests whose recomputation counted what the count
is not meant for, or read what changed before it wrote.

### Promises the code does not keep

These are stated at the end of their modules, and no run lists them. Each is
violated when it is added to the configuration of its module (as INVARIANT, or
as PROPERTY where it is a `[][...]_vars`).

| Property | How it breaks |
|---|---|
| `DocumentSigning!NoSignatureLost` without `~stray` | a signing transaction times out during its upload; another signer signs and commits; the late upload replaces the PDF (`documents/documents.service.ts:510`, `:681`, `:722`) |
| `SignedPdfStored`; `FileStorage!SignedPdfStays` | a new version detaches the signed PDF; a signature on the new version stores the next one under the same key; the pending deletion removes it (`:1063`) |
| `SignedMeansComplete` | the last signer's status computation reads a complete document; a new version empties it; the computation writes `signed` (`:384`) |
| `AlwaysAcceptedByAll` | a client's two simultaneous approvals count for two clients (`:340`, `:417`); or a new version takes the responses away between the count and the write |
| `InvoicePayments!PaymentRecordKept` | a deletion that found no Stripe payment deletes the invoice after the payment was recorded (`invoices/invoices.service.ts:488`) |
| `InvoicePayments!KeysAreHooked` | saving a new key deletes the endpoint of the old one first; Stripe refuses the new one, and the old stays in force with no endpoint to report its charges (`payments/payments.service.ts:186`) |
| `TimeBilling!NoDoubleCharge` | an invoice is edited: its entries are freed, and the lines the form was opened with are written back (`invoices/invoices.service.ts:441`, `invoices-section.tsx:312`); the next `generateInvoice()` charges the entries again, with no race. Or two `generateInvoice()` calls read the same entries (`time-entries/time-entries.service.ts:844`). Both against `docs/superpowers/specs/2026-05-01-time-tracking-design.md:186` |
| `TimeBilling!BilledIsReadOnly` | the project or the user of a billed entry is deleted, and the entry with it (`projects/projects.service.ts:448`, `schema.prisma:931`, `:935`); or an entry is billed between the check of an edit and its write (`time-entries.service.ts:484`). Both against `:90` of the same design note |
| `TaskDecisions!CountsHidden` | the counts of an open decision are shown when as many have voted as the project has clients; when one who voted is replaced, a client who has not voted is shown them (`tasks/tasks.service.ts:229`, against `CHANGELOG.md:303`) |
| `TaskDecisions!ClientCancelsOpen` | a client's cancellation checks the status, then writes by id: work begun or done since is cancelled (`tasks/tasks.service.ts:421`) |
| `Membership!LastOwnerStays`, `OnlySoleOwnersDelete` | two owners demote, remove or delete each other or themselves; each counted the other (`clients/clients.service.ts:450`, `account/account.service.ts:70`) |
| `FileStorage!LimitHolds` | the plan's limit is compared with what is stored, without the file that comes: one upload passes it (`common/guards/plan.guard.ts:77`) |
| `FileStorage!OnlyLegacyFallsBack` | an attachment can be deleted in the *Files* tab: its update stays and falls back to the deleted object (`updates/updates.service.ts:151`) |
| `DocumentControls!DraftsStayHidden`, `AttentionCanBeGiven`, `WorkControls!TimerCanStart`, `ScreenControls!ArchivedIsReadOnly` | divergences 7, 19 (with 3, 23 and 24), 8 and 6 below |

Those of `DocumentSigning` fail in its configuration. The properties of the
`...Controls` modules that are operators over a row `d` are checked as
`ScreenControls`'s are, for `d = row`.

### Where screens and routes disagree

`OffersAreKept` and `StaleOffersAreKnown` hold but for `Refusals` and
`ScreenRules`; these, and what else was met while modelling the web application:

1. Uploading a document for signature with *Save & Notify* creates it, then
   always fails to send it, as no field is placed yet; a second submit creates a
   second document (`files-section.tsx:399-443`).
2. A document with choices and without approval offers *Submit Selection*; the
   answer is always refused (`documents.service.ts:326`).
3. A signature field of type select cannot be signed in the web viewer.
4. The portal's document viewer offers *Accept* and *Decline* on voided, expired
   and settled documents; it swallows the refusal and shows "Accepted"
   (`(portal)/portal/projects/[id]/page.tsx:438`).
5. *Sign* is offered to staff on voided and expired documents, and *Review &
   Sign* to a client when another has signed every field.
6. An archived project's "Editing disabled" is kept by the screens; routes test
   `archivedAt` only for updates of the project, a client's upload and the
   lists of projects, and the task dialog, comments, previews and restoring a
   version ignore it on screen too.
7. A draft document's file is in the client's *Files* tab
   (`documents.service.ts:243`); deleting a document's file there deletes the
   document.
8. The time tab takes a colleague's running timer for one's own (Stop is
   refused, Start is not offered) and offers Edit and Delete on colleagues'
   entries.
9. `updates.service.ts`, `findTimeline()`: entries beyond the first `limit` of
   either source are on no page.
10. The last day of a time report is left out (`to` is compared with midnight;
    `generateInvoice()` includes the day), and its `billable` filter is ignored.
11. The reason of a decline, on a document with choices, is shown as "Selected".
12. A cancelled decision still offers *Close voting*, which is refused, and
    voting goes on.
13. Editing an uploaded draft invoice always fails (its line items are empty).
14. *Pay* is offered on an invoice whose total is zero, and refused.
15. *Generate* is offered when some of the entries have no rate, and refused.
16. Routes edit an invoice of any status, delete one marked paid by hand, and
    record time of an archived billing client: only the screens refuse.
17. The forms of settings, payments and the custom domain are offered to admins;
    their routes are the owner's.
18. Requests without a route: `/auth/update-user`, `/auth/change-password`,
    `/billing/usage`.
19. The portal's banner counts pending documents nothing can be done about.
20. That admins do not remove admins or invite owners is kept by the screens.
21. With billing on and no plan row the form of the custom domain is offered and
    refused; with billing off and a free plan row it is hidden though accepted.
22. The limits of members and clients are enforced nowhere (no route asks
    `PlanGuard` for them, and the screens ask `/billing/usage`); that of projects
    is met only as a refusal.
23. Past a document's deadline, the portal and the signing page offer *Accept*,
    *Decline* and *Sign* until the hourly task has written `expired`, up to an hour
    later; both routes refuse at once (`documents.service.ts:314`, `:536`).
24. A field assigned to one signer (no control does that, the route does) is
    offered to the others and refused (`documents.service.ts:573`).
25. A signing link past its thirty days is revoked only from a screen opened
    before.

### Bounds

Two requests are enough for every race named: each is between one handler's read
and its write, and one other handler (a third writer, a scheduled task, a webhook
or a detached deletion, has a place of its own beside the workers). Two ordered
fields give a first and a second signer; three versions let a replaced document
be signed and replaced again, so that two deletions are pending. Approvals need no
fields, and two responses are one of each client or two of one: the constraint
`InBounds` cuts either kind of document to what matters for it. The liveness run
has no timeouts, for time; it was also run with them (1.2 million states). Two sessions
give an old and a new one; a zero total is the boundary `createCheckoutSession()`
tests. Two accounts are the one a session was opened on and another; the safety
run switches them in one step and leaves keys, endpoints and due dates to the
liveness run, whose one session shows what becomes of its event. Three entries
let each user have a timer and one be started, in two projects of which one may
be deleted; two entries and two invoices let one invoice charge both, each one,
or both invoices the same; captures do not touch each other: one, claimed by two
requests, shows what two would. An entry that came of a capture is billed like any
other, so `InBounds` explores captures and invoices apart. Tasks do not touch each other either:
`TaskDecisions` has one; its third client lets one vote, one leave and one look
on. One seat and two organizations are a cap and one too many. Three member rows
are the founder's, a joiner's and a duplicate. Three keys are a file, the file
that replaces it, and one more in flight; one small file leaves the quota open,
a large one after it passes it, and two at once by more. An object left behind only
waits for a deletion already under way, and those that one step leaves are seen
together in its state, so `InBounds` goes on with one. `Notifications` has one job
because jobs share nothing they write; its changes fall before, between or after
the job's steps. One person with two rows is enough, for lists are made person by
person; two copies of the reminder task are one and another, and only documents
and people connect them with what else is told. Four rows give a screen
two pages and room for what two clicks add; each named stray needs one fault or
one turn, and two show that a second does not undo the first. Deadlock is not
checked because all identifiers may be used up, or the row closed for good.
Symmetry is used only in runs of safety properties.

### Fairness

* `WF(Continue(w))`: a request that was begun goes on. Node resumes an await
  when it settles; no handler waits for another request except for the row lock,
  which a transaction gives up at its commit or after 30 s. Nobody is assumed to
  begin a request. Runs with fairness exclude crashes.
* `WF(ExpireFind)`, `WF(ExpireWrite)`: the task is started every hour by the
  scheduler, and finishes.
* `WF` of the delivery of an event, to each endpoint it was sent to, that was not
  answered with success, and of the write of a delivery that has read: Stripe
  redelivers. Requests of the agency are not assumed to go on.

`CompletionSettles` excludes crashes because the code cannot keep it with them:
a request that dies between its commit and the recomputation leaves a fully
signed document pending. No liveness is claimed of notifications, screens or
detached deletions: the code tries each once, and a failure is only logged.

## 4. Proofs

For every number of clients, fields, sessions, entries, tasks, organizations,
seats, members, projects, files, users and concurrent requests, of rows, clicks,
changes of view and faults on a screen, and of changes a screen has missed:

| Theorem | States |
|---|---|
| `DocumentSigning_proofs!TypeCorrect`, `DraftsAreBlank`, `OrderIsKept` | `TypeOK`, `DraftIsBlank`, `SigningOrderKept` are invariants |
| `SignaturesOnlyWhileOpen` | no step signs a document that is not open |
| `SignaturesSurvive` | `NoSignatureLost` is an invariant, timeouts or not |
| `AcceptedByEveryone` | no step accepts a document but as `AcceptedByAll` says |
| `ImplementsLedger` | `DocumentSigning` implements `SigningLedger` |
| `Invoices_proofs!PaymentsTypeCorrect`, `PaidIsCharged`, `ChargedOnce` | `PaymentsTypeOK`, `PaidAmountIsCharge`, `OneSessionToPay` are invariants of `InvoicePayments` |
| `OpenSessionIsKept` | no step forgets an open session |
| `Invoices_proofs!TypeCorrect`, `OneTimerPerUser`, `CaptureResolvedOnce` | `TypeOK`, `OneTimer`, `CaptureOnce` are invariants of `TimeBilling` |
| `TimeChargedOnce`, `LockedTimeIsCharged` | `DoubleChargeIsExplained`, `LockedIsCharged` are invariants |
| `ImplementsTimeLedger` | `TimeBilling` implements `TimeLedger` |
| `TaskDecisions_proofs!TypeCorrect`, `TallyIsFinal`, `CapturesAreBounded` | `TypeOK`, `TallyFinal`, `CapturesBounded` are invariants |
| `PlanBilling_proofs!TypeCorrect`, `SeatsAreCapped`, `CancelledPlansEnd` | `TypeOK`, `SeatsCapped`, `CancelledIsTakenBack` are invariants |
| `Membership_proofs!TypeCorrect`, `MembershipsAreBounded` | `TypeOK`, `MembershipsBounded` are invariants |
| `LastOwnerIsOvertaken`, `NewcomersSeeNothing` | every step keeps to `LastOwnerLeaves` and `JoinSeesNothing` |
| `FileStorage_proofs!TypeCorrect`, `FilesKeepTheirObjects`, `NothingIsLeaked`, `StorageIsBounded` | `TypeOK`, `FilesHaveObjects`, `NothingLeaks`, `StorageOvershoot` are invariants |
| `Notifications_proofs!TypeCorrect`, `NobodyToldTwice`, `AuthorsNotTold`, `AnsweredAreSpared`, `RemindersAreSpaced` | `TypeOK`, `OncePerEvent`, `AuthorNotTold`, `AnsweredNotReminded`, `RemindersSpaced` are invariants |
| `WebScreens_proofs!TypeCorrect`, `ScreensAreTrue`, `ClicksCount` | `TypeOK`, `QuietScreenIsTrue`, `EveryClickCountsOnce` are invariants of `WebScreens` |
| `ControlsFollow`, `OffersKept`, `StaleOffersKnown` | `ControlsInv`, `OffersAreKept`, `StaleOffersAreKnown` are invariants of `ScreenControls` |

The assumptions are the named ASSUMEs of the modules (types of the constants,
`None` is not an identifier, there are finitely many clients), which TLC evaluates
in every run.

*Signing.* None of the properties is inductive: that `SignCommit` keeps the
signing order depends on a check the request made earlier. `IInv` adds what an
open signing transaction still knows (`SignerKnowsDocument`): the document is
open, the field is the signer's and in turn *if it is still in force*. The lock
protects the status, the responses and the assignment of the field, but not the
fields themselves: deleting field rows does not wait for it, so the invariant
speaks only of a field still there, and uses that field rows are never reused.
`DraftIsBlank` is needed because `uploadVersion()` keeps the responses of a
draft; `RequestsSane` because a verdict computed long ago is written later.
`PdfInv` adds that the page a signer holds stamps the current version and shows
all recorded signatures, unless it was taken from a PDF that a late upload had
come over; a fresh page, after a new version, ends the excuse. `AnswersInv` is the
argument that counting rows counts clients: a client without `overlap` has one
answer, or else one request about to create it, so the answers map one to one into
the assigned clients, and when there are enough of them the map is onto
(`OneRowEach`, from the library's facts on finite sets). Between the reading of the
responses, the counting of the clients and the write, three awaits, the invariant
holds what was counted as long as nothing overtook it.
The refinement maps the two steps of a signature to one `Mark` at the commit,
field writes to `Place`, new versions to `NewEdition`, all else to stuttering.

*Payments.* `PaymentsIInv` adds that a delivery that will write has seen a
completed session, and that a checkout that will link a session has created it.
`OneSessionToPay` rests on `SessionsKnown`: a session to pay that is not loose is
the one the invoice points to, or is about to be pointed to by the request that
made it; a checkout that is not `blind` has seen it, so that it creates another
only when there is none. A checkout becomes blind when it reads while a session
is made and not linked, when one is made beside it, and when Stripe does not show
the session it knows, or shows it paid while the invoice does not say so; a
session becomes loose when its link fails or is replaced, or its request dies.

*Time.* `IInv` adds that a capture an entry came from is resolved
(`CapturesResolved`), and that an entry charged by an invoice stays linked to it
while nobody rewrites the invoice, until it is overtaken or gone for good
(`ChargedIsLocked`): an invoice that takes
only entries it finds free then cannot charge it again. `MemorySane` is needed
for entries picked long before they are charged: a deleted one may be among them,
a future one may not. The refinement maps the tables to the books: what an
invoice charges are its items, projects and users are folders and persons, the
entries of `undercut` requests are `raced`. It
rests on `ChecksHold` (what an update or a deletion has found free is free, unless
it was undercut), which with `ChargedIsLocked` makes the entry free in the ledger,
and on `OneTimer` and the index where a clock starts.

*Decisions.* `TallyFinal` alone is not inductive: a vote checked before the close
is stored after it. `VotesInFlight` adds that a client about to vote on a closed
decision is in `late`, so that only the votes of `late` clients can differ from
the result. `CapturesBounded` counts: every open capture, and every request that
has found none and is about to create one, was let through while none was open.

*Plans.* A seat is taken when a checkout completes, long after it was counted.
`SellingSane` says that, as long as none was sold while another was being sold,
at most one seat is on sale, and the seats taken and the one on sale fit the cap.
Stripe's events find the organization by its customer: `CancelledIsTakenBack` is
inductive with `SessionsSane`, by which a session belongs to a customer that was
made, so that a customer recorded later is another one (and the subscription's
events no longer find the organization: the third excuse of the property).

*Members.* The number of memberships of a person is counted together with the
acceptances that have found none and will create one: `AcceptFind` is let through
only while the person has none, so all of them were in flight together.
`AssignedAreMembers` says that who is assigned to a project is a member or in
`stray`; every step that assigns reads memberships first, so a removal that
overtakes it puts the person in `stray`. `OwnersChecked` says what a request
checked of the owners it read: who removes one or changes a role was one of them,
and who deletes an account was not the only one, or the organization goes with it.
So the last goes only if they have changed since. `RequestsSane` ties the row a request
has read to the person it read it for: rows are not given to another person
while a request knows them.

*Files.* `Charged` strengthens `NothingLeaks` to an inductive account: an object
that no row names is the debt of exactly one kind of request, the one that would
leave it behind (`LeftBehind`) if it died now; every step passes the debt on,
pays it, or writes it to `waste`. It needs that an object in the making is known
to its maker alone (`NewIsOwn`), that what is about to be deleted is no file any
more (`DeletedAreGone`), and that versions and signatures hold the document's
lock (`LockHeld`): without the last, a version could be created for a document
that has gone. `FilesHaveObjects` needs in addition that a file belongs to one
update (`AttachedOnce`) and that the removal of an update has read it
(`RemovalSane`). `StorageOvershoot` is a sum: a guarded upload adds at most one
largest file to it, while what is stored rounds to less than the limit.

*Notifications.* A job's `told` is compared with where it is: whom it has still
to call is disjoint from whom it has called, and neither holds the author or who
had answered; `twice` is as it was when the job was looked up, and those in it are
called twice in one call or not at all. For `RemindersSpaced` the reminders sent
are counted by the place of each copy of the task: none before its mail of this
interval, one between the mail and the storing of its time, unless it died there;
and copies that both sent one are in `beside`, since a copy that begins alone finds
the time of the last reminder stored.

*Screens.* That a quiet screen is true says nothing while anything is in flight.
`IInv` of `WebScreens` says when what is to come makes it true (`UpToDate`): a
call has stored its change and will load the list when it is answered, or the
newest load is on its way and brings the API's rows, or the list agrees with the
API but for the marks of rows with a call that only one of the two knows of.
`BehindSane` says that an answer from before a change the screen shows already is
known to be one, `WholeSane` who can have sent an old list, and `RestoreSane` what
a screen goes back to when a click is refused. For `EveryClickCountsOnce`,
`FormsSane` says that a row stored from a form as it is now is there only while
the call that stored it waits for its answer, and `AskedIsKept` that what was
asked for stays until a call changes it.
The proof goes by kinds of handler, not by screens: a screen enters only by the
conditions its record must meet.

*Controls.* `OffersAreKept` and `StaleOffersAreKnown` speak of states of a row
that a sequence of requests reaches. `ControlsInv` says which these are: the
columns rule each other out (`RowSane`: a document that asks for no signature has
no fields to sign, a timer that runs is not billed, ...), and while a screen shows
an old row, `Follows` says what stays of it however often it changes: a document
or an invoice once sent is never a draft again. With these, each offer is compared with the route it
asks by cases, for any number of changes missed.

Only model-checked: the liveness properties (`ExpiryEnforced`,
`CompletionSettles`, `ChargeRecorded`), since fairness is out
of the prover's reach, and the counterexample of `PushKeys`. All other properties
the runs check are stated by a theorem.

## 5. Not modelled

* Of documents: the rendering of PDFs and certificates, the audit trail, the
  cleanup of tokens that have expired anyway. `acknowledged` counts as
  `accepted`, as it does for the status computation.
* Of invoices: numbers, exports, PDFs. Of payments: the signature of the OAuth
  state, the list of payment methods. A payment with a delayed method is settled
  when it is completed.
* Of time: rates (an entry without one is not picked), reports, `billable`.
* Of subscriptions: prices and periods. Of tasks: their order, filters, labels.
* Of files: links, billing clients' files, signature images;
  the three drivers are one store whose calls may fail.
* Of notifications: wording, and the removal of dead push subscriptions.
* Of the web application: layout, text, what only opens or closes a panel, the
  PDF viewer, embeds and reports. Nobody else changes the list of a
  `WebScreens` screen: what others change is in `ScreenControls`.
* The agent API's idempotent creation and audit, embeds and link unfurling, the
  audit log, encryption, CSRF, checks of DNS and SMTP, WorkOS sign-in, e-mail
  templates, the merge of updates and activity into a timeline.
* Inputs are validated before a handler: a malformed request has no step.
* Storage and Stripe calls that fail end a request as a crash does.

## 6. Plan

1. (done) Signing, payments, time billing: models, runs, proofs.
2. (done) Decisions with proofs; plans, members, files, notifications, push keys;
   the screens of the web application and their controls.
3. (done) Proofs of plans, members, files, notifications, screens and controls;
   `OneSessionToPay` and its proof; the time ledger, refined by `TimeBilling`.
4. (done) Two answers of one client to one document, the count of clients as an
   await of its own, and timed-out signing transactions: `AcceptedByAll` and the
   unconditional `NoSignatureLost`, with proofs.

Possible extensions: invoice numbers, compared as text (past `INV-9999` the
largest stays the largest and creation stops working); the agent API's idempotent
creation; expiry of access tokens; the timeline and the reports as reads over two
sources.
