---------------------------- MODULE TimeBilling ----------------------------
(***************************************************************************)
(* Time entries and the invoices that charge them (apps/api/src/           *)
(* time-entries and the writers of apps/api/src/invoices that reach time): *)
(* timers, manual entries, captures of completed tasks, invoices generated *)
(* from time, recorded by an agent, or with lines rewritten by hand; and   *)
(* the deletions of a project and of an account, which cascade.            *)
(*                                                                         *)
(* A handler reads in one step and writes in a later one; a Prisma         *)
(* transaction that tests again what it changes is one step.  Identifiers  *)
(* are used once.  An invoice stands for its line items, which come and go *)
(* together; hours, rates and the journal of an entry are left out.        *)
(***************************************************************************)
EXTENDS Integers, FiniteSets, InvoiceRequests

CONSTANTS
  Users,      \* owners and admins, who track time
  Project,    \* projects of the organization
  Entry,      \* identifiers of time entries
  ProjectOf,  \* the project an entry is for: TimeEntry.projectId
  TaskProject, \* the project of the task the captures are of
  Invoice,    \* identifiers of invoices
  Capture     \* identifiers of pending captures (of one task)

ASSUME BillingAssumption ==
  /\ None \notin Users \cup Project \cup Entry \cup Invoice \cup Capture
  /\ Users \cap Project = {}
  /\ ProjectOf \in [Entry -> Project] /\ TaskProject \in Project
  /\ IsFiniteSet(Entry)

VARIABLES
  gone,     \* the projects and the users that were deleted
  fresh,    \* entries not created yet
  owner,    \* TimeEntry.userId; None: no such row
  running,  \* is endedAt not set?
  billed,   \* the invoice TimeEntry.invoiceLineItemId leads to
  origin,   \* the capture an entry was created from
  unused,   \* invoices not created yet
  charged,  \* the entries the line items of an invoice charge
  live,     \* invoices that exist
  relined,  \* history: the invoices whose line items update() replaced
  overtaken,\* history: entries that generateInvoice() charged although they
            \* were billed or deleted since it read them
  undercut, \* history: the update() and delete() requests whose entry was billed
            \* since they found it free
  capture   \* PendingTimeCapture rows: "none", "open", "resolved" or "deleted"

entryVars == <<gone, fresh, owner, running, billed, origin>>
chargeVars == <<unused, charged, live, relined, overtaken>>
invoiceVars == <<chargeVars, undercut>>
vars == <<entryVars, invoiceVars, capture, pc, my>>

Pc == {"idle", "start", "stop", "update", "delete", "generate", "capture", "resolve"}
Memory == [user : Users \cup {None}, project : Project \cup {None}, entry : Entry \cup {None},
           ran : BOOLEAN, picks : SUBSET Entry, capture : Capture \cup {None}]
Blank == [user |-> None, project |-> None, entry |-> None, ran |-> FALSE, picks |-> {},
          capture |-> None]

Forget(w) == my' = [my EXCEPT ![w] = Blank]
Remember(w, what) == my' = [my EXCEPT ![w] = what]

Exists(e) == e # None /\ owner[e] # None
Timers(u) == {e \in Entry : owner[e] = u /\ running[e]}
Billable == {e \in Entry : owner[e] # None /\ billed[e] = None}

\* The partial unique index: user u may have e running beside the others.
OneTimerUnindexed(u, e, others) == TRUE      \* mutant: the index is missing
OneTimerIndex(u, e, others) == others \subseteq {e}

----------------------------------------------------------------------------

Init ==
  /\ gone = {} /\ fresh = Entry
  /\ owner = [e \in Entry |-> None]
  /\ running = [e \in Entry |-> FALSE]
  /\ billed = [e \in Entry |-> None]
  /\ origin = [e \in Entry |-> None]
  /\ unused = Invoice /\ charged = [i \in Invoice |-> {}] /\ live = {}
  /\ relined = {} /\ overtaken = {} /\ undercut = {}
  /\ capture = [c \in Capture |-> "none"]
  /\ pc = [w \in Workers |-> "idle"]
  /\ my = [w \in Workers |-> Blank]

\* A new row may refer to user u and to the project of e.
Accepts(e, u) == u \notin gone /\ ProjectOf[e] \notin gone

\* A new row for user u.
Insert(e, u, runs, from) ==
  /\ Accepts(e, u)
  /\ e \in fresh /\ fresh' = fresh \ {e}
  /\ owner' = [owner EXCEPT ![e] = u]
  /\ origin' = [origin EXCEPT ![e] = from]
  /\ running' = [running EXCEPT ![e] = runs]

----------------------------------------------------------------------------
(* start(): in one transaction ends the running entry it found, whatever   *)
(* that entry has become since, and creates a new one.  The index refuses  *)
(* a second timer: the transaction is rolled back.                         *)

StartRead(w, u, p) ==
  /\ Goto(w, "idle", "start")
  /\ gone \cap {u, p} = {}
  /\ \E e \in (IF Timers(u) = {} THEN {None} ELSE Timers(u)) :
       Remember(w, [Blank EXCEPT !.user = u, !.project = p, !.entry = e])
  /\ UNCHANGED <<entryVars, invoiceVars, capture>>

StartSucceeds(w, e) ==
  /\ ProjectOf[e] = my[w].project /\ Accepts(e, my[w].user)
  /\ my[w].entry # None => Exists(my[w].entry)
  /\ OneTimerIndex(my[w].user, e, Timers(my[w].user) \ {my[w].entry})

StartWrite(w) ==
  /\ Goto(w, "start", "idle")
  /\ \E e \in fresh :
       /\ StartSucceeds(w, e)
       /\ fresh' = fresh \ {e}
       /\ owner' = [owner EXCEPT ![e] = my[w].user]
       /\ running' = [d \in Entry |-> d = e \/ (running[d] /\ d # my[w].entry)]
  /\ Forget(w)
  /\ UNCHANGED <<gone, billed, origin, invoiceVars, capture>>

(* stop(): ends the running entry it found. *)

StopRead(w, u) ==
  /\ Goto(w, "idle", "stop")
  /\ \E e \in Timers(u) : Remember(w, [Blank EXCEPT !.user = u, !.entry = e])
  /\ UNCHANGED <<entryVars, invoiceVars, capture>>

StopWrite(w) ==
  /\ Goto(w, "stop", "idle")
  /\ Exists(my[w].entry)
  /\ running' = [running EXCEPT ![my[w].entry] = FALSE]
  /\ Forget(w)
  /\ UNCHANGED <<gone, fresh, owner, billed, origin, invoiceVars, capture>>

(* update() and delete() refuse an invoiced entry, then write.  update()   *)
(* writes the end the caller gives, or the one it read.                    *)

OwnEntryReadAny(w, e, what) ==        \* mutant: an invoiced entry is not refused
  /\ Goto(w, "idle", what)
  /\ owner[e] # None
  /\ Remember(w, [Blank EXCEPT !.entry = e, !.ran = running[e]])
  /\ UNCHANGED <<entryVars, invoiceVars, capture>>

OwnEntryRead(w, e, what) ==
  /\ Goto(w, "idle", what)
  /\ e \in Billable
  /\ Remember(w, [Blank EXCEPT !.entry = e, !.ran = running[e]])
  /\ UNCHANGED <<entryVars, invoiceVars, capture>>
UpdateRead(w, e) == OwnEntryRead(w, e, "update")
DeleteRead(w, e) == OwnEntryRead(w, e, "delete")

UpdateSucceeds(w, runs) ==
  /\ Exists(my[w].entry)
  /\ runs => OneTimerIndex(owner[my[w].entry], my[w].entry, Timers(owner[my[w].entry]))

UpdateWrite(w) ==
  /\ Goto(w, "update", "idle")
  /\ \E runs \in {FALSE, my[w].ran} :
       /\ UpdateSucceeds(w, runs)
       /\ running' = [running EXCEPT ![my[w].entry] = runs]
  /\ Forget(w) /\ undercut' = undercut \ {w}
  /\ UNCHANGED <<gone, fresh, owner, billed, origin, chargeVars, capture>>

\* The rows go, and their links.
Strike(entries) ==
  /\ owner' = [e \in Entry |-> IF e \in entries THEN None ELSE owner[e]]
  /\ running' = [e \in Entry |-> running[e] /\ e \notin entries]
  /\ billed' = [e \in Entry |-> IF e \in entries THEN None ELSE billed[e]]
  /\ UNCHANGED <<fresh, origin>>

DeleteWrite(w) ==
  /\ Goto(w, "delete", "idle")
  /\ Exists(my[w].entry)
  /\ Strike({my[w].entry})
  /\ Forget(w) /\ undercut' = undercut \ {w}
  /\ UNCHANGED <<gone, chargeVars, capture>>

\* projects.remove(): the entries of the project go with it, invoiced or not, and the
\* captures of its tasks.
RemoveProject(p) ==
  /\ p \notin gone /\ gone' = gone \cup {p}
  /\ Strike({e \in Entry : ProjectOf[e] = p})
  /\ capture' = [c \in Capture |-> IF p = TaskProject THEN "deleted" ELSE capture[c]]
  /\ UNCHANGED <<invoiceVars, pc, my>>

\* deleteAccount(): so do those of a user.  The organization goes on while another
\* owner is there.
DeleteAccount(u) ==
  /\ u \notin gone /\ gone' = gone \cup {u}
  /\ Users \ gone' # {}
  /\ Strike({e \in Entry : owner[e] = u})
  /\ UNCHANGED <<invoiceVars, capture, pc, my>>

\* create(): an entry that has ended.
CreateManual(u) ==
  /\ \E e \in fresh : Insert(e, u, FALSE, None)
  /\ UNCHANGED <<gone, billed, invoiceVars, capture, pc, my>>

\* The write of a request throws: what it writes, its user or its project is gone, or
\* the index refuses it.
WriteFails(w) ==
  /\ \/ pc[w] = "start" /\ \A e \in fresh : ~StartSucceeds(w, e)
     \/ pc[w] = "update" /\ ~UpdateSucceeds(w, my[w].ran)
     \/ pc[w] \in {"stop", "delete"} /\ ~Exists(my[w].entry)
  /\ pc' = [pc EXCEPT ![w] = "idle"]
  /\ Forget(w) /\ undercut' = undercut \ {w}
  /\ UNCHANGED <<entryVars, chargeVars, capture>>

----------------------------------------------------------------------------
(* generateInvoice(): picks entries that have ended and are not billed,    *)
(* then, in one transaction, creates an invoice that charges them and      *)
(* links every one of them to it, whatever it is linked to by then.        *)

GenerateRead(w) ==
  /\ Goto(w, "idle", "generate")
  /\ \E picks \in (SUBSET {e \in Billable : ~running[e]}) \ {{}} :
       Remember(w, [Blank EXCEPT !.picks = picks])
  /\ UNCHANGED <<entryVars, invoiceVars, capture>>

\* An update() or a delete() has found its entry free and not written it yet.
Checked(w) == pc[w] \in {"update", "delete"}

NewInvoice(i, entries) ==
  /\ i \in unused /\ unused' = unused \ {i}
  /\ live' = live \cup {i}
  /\ charged' = [charged EXCEPT ![i] = entries]
  /\ billed' = [e \in Entry |-> IF e \in entries /\ owner[e] # None THEN i ELSE billed[e]]
  /\ undercut' = undercut \cup {w \in Workers : Checked(w) /\ my[w].entry \in entries}

\* Merged line items skip an entry deleted meanwhile, single ones throw.
GenerateWrite(w, merged) ==
  /\ Goto(w, "generate", "idle")
  /\ merged \/ \A e \in my[w].picks : owner[e] # None
  /\ \E i \in unused : NewInvoice(i, my[w].picks)
  /\ overtaken' = overtaken \cup (my[w].picks \ Billable)
  /\ Forget(w)
  /\ UNCHANGED <<gone, fresh, owner, running, origin, relined, capture>>

\* An entry is gone, or another invoice took the number: nothing is written.
GenerateFails(w) ==
  /\ Goto(w, "generate", "idle")
  /\ Forget(w)
  /\ UNCHANGED <<entryVars, invoiceVars, capture>>

\* mutant: what is billed already is not refused
RecordExternalInvoiceAnyway(entries) ==
  /\ entries # {} /\ \A e \in entries : owner[e] # None
  /\ \E i \in unused : NewInvoice(i, entries)
  /\ UNCHANGED <<gone, fresh, owner, running, origin, relined, overtaken, capture, pc, my>>

\* recordExternalInvoice(): a serializable transaction that takes all the
\* entries it was given or none.
RecordExternalInvoice(entries) ==
  /\ entries # {} /\ entries \subseteq Billable
  /\ \E i \in unused : NewInvoice(i, entries)
  /\ UNCHANGED <<gone, fresh, owner, running, origin, relined, overtaken, capture, pc, my>>

Release(i) == [e \in Entry |-> IF billed[e] = i THEN None ELSE billed[e]]

\* mutant: the entries stay linked to the invoice
ReplaceLineItemsOnly(i, lines) ==
  /\ i \in live /\ lines \cap fresh = {}
  /\ charged' = [charged EXCEPT ![i] = lines] /\ relined' = relined \cup {i}
  /\ UNCHANGED <<entryVars, unused, live, overtaken, undercut, capture, pc, my>>

\* invoices.update() with line items: the old ones are deleted, which frees the
\* entries linked to them, and the caller's are written.  They charge what the caller
\* says: the edit form sends back the lines it was opened with.
ReplaceLineItems(i, lines) ==
  /\ i \in live /\ lines \cap fresh = {}
  /\ charged' = [charged EXCEPT ![i] = lines] /\ relined' = relined \cup {i}
  /\ billed' = Release(i)
  /\ UNCHANGED <<gone, fresh, owner, running, origin, unused, live, overtaken, undercut, capture,
                 pc, my>>

RemoveInvoice(i) ==
  /\ i \in live /\ live' = live \ {i}
  /\ charged' = [charged EXCEPT ![i] = {}]
  /\ billed' = Release(i)
  /\ UNCHANGED <<gone, fresh, owner, running, origin, unused, relined, overtaken, undercut, capture,
                 pc, my>>

----------------------------------------------------------------------------
(* captureTaskCompletion(): unless a capture of the task is open, creates  *)
(* one.  resolvePendingCapture() looks for an open capture, then claims it *)
(* in a transaction that creates its entry.                                *)

CaptureRead(w) ==
  /\ Goto(w, "idle", "capture")
  /\ TaskProject \notin gone
  /\ \A c \in Capture : capture[c] # "open"
  /\ UNCHANGED <<entryVars, invoiceVars, capture, my>>

CaptureWrite(w) ==
  /\ Goto(w, "capture", "idle")
  /\ \E c \in Capture :
       capture[c] = "none" /\ capture' = [capture EXCEPT ![c] = "open"]
  /\ UNCHANGED <<entryVars, invoiceVars, my>>

\* The project is gone: the failure is logged.
CaptureFails(w) ==
  /\ Goto(w, "capture", "idle")
  /\ TaskProject \in gone
  /\ UNCHANGED <<entryVars, invoiceVars, capture, my>>

ResolveRead(w, u, c) ==
  /\ Goto(w, "idle", "resolve")
  /\ u \notin gone /\ capture[c] = "open"
  /\ Remember(w, [Blank EXCEPT !.user = u, !.capture = c])
  /\ UNCHANGED <<entryVars, invoiceVars, capture>>

ResolveWriteAgain(w) ==               \* mutant: the claim is not tested
  /\ Goto(w, "resolve", "idle")
  /\ capture' = [capture EXCEPT ![my[w].capture] = "resolved"]
  /\ \E e \in fresh :
       ProjectOf[e] = TaskProject /\ Insert(e, my[w].user, FALSE, my[w].capture)
  /\ Forget(w)
  /\ UNCHANGED <<gone, billed, invoiceVars>>

ResolveWrite(w) ==
  /\ Goto(w, "resolve", "idle")
  /\ capture[my[w].capture] = "open"
  /\ capture' = [capture EXCEPT ![my[w].capture] = "resolved"]
  /\ \E e \in fresh :
       ProjectOf[e] = TaskProject /\ Insert(e, my[w].user, FALSE, my[w].capture)
  /\ Forget(w)
  /\ UNCHANGED <<gone, billed, invoiceVars>>

ResolveFails(w) ==
  /\ Goto(w, "resolve", "idle")
  /\ capture[my[w].capture] # "open" \/ my[w].user \in gone
  /\ Forget(w)
  /\ UNCHANGED <<entryVars, invoiceVars, capture>>

----------------------------------------------------------------------------

Track(w) ==
  \/ \E u \in Users : StopRead(w, u) \/ \E p \in Project : StartRead(w, u, p)
  \/ \E e \in Entry : UpdateRead(w, e) \/ DeleteRead(w, e)
  \/ StartWrite(w) \/ StopWrite(w) \/ UpdateWrite(w) \/ DeleteWrite(w) \/ WriteFails(w)

Bill(w) ==
  \/ GenerateRead(w) \/ GenerateFails(w)
  \/ \E merged \in BOOLEAN : GenerateWrite(w, merged)

Complete(w) ==
  \/ CaptureRead(w) \/ CaptureWrite(w) \/ CaptureFails(w)
  \/ \E u \in Users, c \in Capture : ResolveRead(w, u, c)
  \/ ResolveWrite(w) \/ ResolveFails(w)

Next ==
  \/ \E w \in Workers : Track(w) \/ Bill(w) \/ Complete(w)
  \/ \E u \in Users : CreateManual(u) \/ DeleteAccount(u)
  \/ \E p \in Project : RemoveProject(p)
  \/ \E entries \in SUBSET Entry : RecordExternalInvoice(entries)
  \/ \E i \in Invoice : RemoveInvoice(i) \/ \E lines \in SUBSET Entry : ReplaceLineItems(i, lines)

Spec == Init /\ [][Next]_vars

----------------------------------------------------------------------------
(* Properties *)

\* Types; a deleted entry neither runs nor is billed, an entry is of a user and a
\* project that exist, and what is billed is billed by an invoice that exists.
TypeOK ==
  /\ gone \in SUBSET (Users \cup Project) /\ fresh \in SUBSET Entry
  /\ owner \in [Entry -> Users \cup {None}]
  /\ running \in [Entry -> BOOLEAN]
  /\ billed \in [Entry -> live \cup {None}]
  /\ origin \in [Entry -> Capture \cup {None}]
  /\ unused \in SUBSET Invoice /\ live \in SUBSET (Invoice \ unused)
  /\ relined \in SUBSET (Invoice \ unused)
  /\ overtaken \in SUBSET Entry /\ undercut \in SUBSET Workers
  /\ charged \in [Invoice -> SUBSET Entry]
  /\ capture \in [Capture -> {"none", "open", "resolved", "deleted"}]
  /\ pc \in [Workers -> Pc] /\ my \in [Workers -> Memory]
  /\ \A e \in Entry : owner[e] = None => ~running[e] /\ billed[e] = None
  /\ \A e \in Entry : owner[e] # None => Accepts(e, owner[e])
  /\ \A e \in fresh : owner[e] = None /\ origin[e] = None

\* A user has at most one running timer, though two tabs start, stop and edit
\* timers at once and an edit may write back the end it read.
OneTimer == \A u \in Users : \A e, d \in Timers(u) : e = d

\* Time is charged twice only through lines written by hand, or by the race that
\* generateInvoice() leaves open: two invoices with the lines they were created with
\* never charge the same entry, unless a generateInvoice() that had read it as free
\* was overtaken by another bill or by its deletion.
DoubleChargeIsExplained ==
  \A i, j \in Invoice \ relined : i # j => charged[i] \cap charged[j] \subseteq overtaken

\* Time locked as invoiced is charged by the invoice that locks it, in the lines it was
\* created with: through replaced line items, deleted invoices, projects and accounts,
\* and invoices that race for an entry.
LockedIsCharged ==
  \A e \in Entry : billed[e] # None => billed[e] \notin relined /\ e \in charged[billed[e]]

\* However many requests resolve a capture, one entry comes of it.
CaptureOnce ==
  \A d, e \in Entry : origin[d] # None /\ origin[d] = origin[e] => d = e

\* The handlers keep the books on time: each step is one entry of the ledger, or
\* none.  A bill takes what is free, and what it takes is neither deleted nor
\* restarted, but by an update() or a delete() that was in flight when the invoice
\* was made, for entries two invoices or an invoice and a deletion raced for, and with
\* all the entries of a project or of a user when that is deleted.
Ledger == INSTANCE TimeLedger WITH
  Persons <- Users, Folders <- Project, FolderOf <- ProjectOf, Items <- Entry, Bills <- Invoice,
  closed <- gone, blank <- fresh, author <- owner,
  clock <- {e \in Entry : running[e]}, unissued <- unused, items <- charged,
  rewritten <- relined, disputed <- overtaken, raced <- {my[w].entry : w \in undercut}
TimeLedgerSpec == Ledger!LedgerSpec

\* The inductive invariant behind them.  A request that creates a row knows for
\* whom, and the entries it picked were created; a resolved capture is what an
\* entry came from; an entry that an invoice charges in the lines it was
\* created with stays linked to it until it is overtaken or deleted for good; and what an update() or a delete() has found
\* free is free, unless it was undercut.
MemorySane ==
  \A w \in Workers :
    /\ pc[w] \in {"start", "resolve"} => my[w].user \in Users
    /\ pc[w] = "start" => my[w].project \in Project
    /\ pc[w] = "resolve" => my[w].capture \in Capture
    /\ pc[w] = "start" /\ Exists(my[w].entry) => owner[my[w].entry] = my[w].user
    /\ pc[w] = "generate" => my[w].picks # {}
    /\ my[w].entry \notin fresh /\ my[w].picks \cap fresh = {}
CapturesResolved ==
  /\ \A e \in Entry : origin[e] # None => capture[origin[e]] \in {"resolved", "deleted"}
  /\ \A c \in Capture : TaskProject \in gone => capture[c] = "deleted"
ChargedIsLocked ==
  \A i \in Invoice \ relined : \A e \in charged[i] \ overtaken :
    billed[e] = i \/ (owner[e] = None /\ e \notin fresh)
ChargeInv == ChargedIsLocked /\ LockedIsCharged /\ DoubleChargeIsExplained
ChecksHold ==
  \A w \in Workers :
    /\ w \in undercut => Checked(w)
    /\ Checked(w) => my[w].entry \in Entry /\ (w \notin undercut => billed[my[w].entry] = None)
IInv == /\ TypeOK /\ MemorySane /\ OneTimer /\ CapturesResolved /\ CaptureOnce
        /\ ChargeInv /\ ChecksHold

----------------------------------------------------------------------------
(* Promises the code does not keep; the README tells how each one breaks. *)

\* No time is charged twice: eligible are entries that no line item charges
\* (docs/superpowers/specs/2026-05-01-time-tracking-design.md:186).
NoDoubleCharge ==
  \A i, j \in Invoice : i # j => charged[i] \cap charged[j] = {}

\* An invoiced entry is read-only: its times do not change and it is not deleted
\* (docs/superpowers/specs/2026-05-01-time-tracking-design.md:90).
BilledIsReadOnly ==
  [][\A e \in Entry : billed[e] # None =>
       owner'[e] = owner[e] /\ (running'[e] => running[e])]_vars
=============================================================================
