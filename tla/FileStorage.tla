------------------------------ MODULE FileStorage ------------------------------
(***************************************************************************)
(* Rows of the database and the objects they name in the store             *)
(* (apps/api/src/files, updates, branding, and what documents, invoices    *)
(* and the deletion of projects and accounts do to files).  Rows and       *)
(* objects change in separate steps and nothing undoes a step when the     *)
(* next one fails.                                                         *)
(*                                                                         *)
(* One project, with one document.  A File row is named by the object it   *)
(* was made for, but the rows of signed PDFs, whose object always has the  *)
(* same key, and its size goes with its name.  Links, labels and billing   *)
(* clients (files without a project) are left out, and so are images of    *)
(* signatures and plans without a limit.                                   *)
(***************************************************************************)
EXTENDS Integers, FiniteSets

CONSTANTS
  Key,        \* storage keys with a random part
  Sig,        \* File rows of signed PDFs
  SignedPdf,  \* the key of every signed PDF of the document
  Workers,    \* API requests in flight together
  Size,       \* File.sizeBytes of each row
  MaxSize,    \* the largest file the API takes
  HalfMb,     \* bytes of half a megabyte
  Limit,      \* SubscriptionPlan.maxStorageMb
  None

ASSUME StorageAssumption ==
  /\ IsFiniteSet(Key) /\ IsFiniteSet(Sig) /\ IsFiniteSet(Workers) /\ Limit \in Nat \ {0}
  /\ MaxSize \in Nat /\ HalfMb \in Nat \ {0} /\ Size \in [Key \cup Sig -> 0..MaxSize]
  /\ Key \cap Sig = {} /\ SignedPdf \notin Key /\ None \notin Key \cup Sig \cup {SignedPdf}

VARIABLES
  stored,     \* objects in the store
  file,       \* File rows
  free,       \* history: File rows no limit was tested for
  update,     \* ProjectUpdate rows with an attachment, by its key, and its link
  invoice,    \* Invoice rows made for a file, by its key, and their link
  doc,        \* the Document row and its DocumentVersion rows
  logo,       \* Branding.logoKey
  place,      \* what is left of the organization: its project, itself or nothing
  waste,      \* history: stored objects left by a request that was overtaken or failed
  half,       \* history: attachments deleted before their rows
  pc, my      \* where each request is, and what it knows

rowVars == <<file, free, update, invoice, doc, logo, place>>
history == <<waste, half>>
vars == <<stored, rowVars, history, pc, my>>

Rows == Key \cup Sig
Object(r) == IF r \in Sig THEN SignedPdf ELSE r
Objects(rs) == {Object(r) : r \in rs}
Link == {"none", "linked", "cut"}   \* cut: the row is there, its file is gone
Uses == {"file", "mine", "invoice", "document", "update"}
Document == [file : Key, versions : SUBSET Key, signed : Sig \cup {None}]
NoDocument == [file |-> None, versions |-> {}, signed |-> None]
Pc == {"idle", "put", "row", "attach", "removeRow", "sweep", "updObject", "updRow", "updFile",
       "logoDelete", "logoPut", "logoRow", "logoClear", "docRows", "versionRow", "signRow", "purge"}
Memory == [use : Uses \cup {None}, key : Rows \cup {None}, rows : SUBSET Rows,
           keys : SUBSET (Key \cup {SignedPdf})]
Blank == [use |-> None, key |-> None, rows |-> {}, keys |-> {}]

Goto(w, from, to) == pc[w] = from /\ pc' = [pc EXCEPT ![w] = to]
Remember(w, what) == my' = [my EXCEPT ![w] = what]
Done(w, from) == Goto(w, from, "idle") /\ Remember(w, Blank)

DocRows(d) == {r \in {d.file, d.signed} \cup d.versions : r # None}
\* sign(), uploadVersion() and restoreVersion() lock the document.
Locked == \E w \in Workers : pc[w] \in {"versionRow", "signRow"}

\* Nothing names the object: a random key that is new.
Held(w) == {my[w].key} \cup my[w].keys
Unused(k) == /\ k \notin stored \cup file \cup {logo} \cup DocRows(doc) \cup waste \cup half
             /\ update[k] = "none" /\ invoice[k] = "none"
             /\ \A w \in Workers : k \notin Held(w) \cup my[w].rows

\* A document made after another has an id, and a key for its signed PDF, of its own.
SignedPdfIsNew == /\ SignedPdf \notin stored \cup waste /\ file \cap Sig = {}
                  /\ \A w \in Workers : SignedPdf \notin Held(w)

Init ==
  /\ stored = {} /\ file = {} /\ free = {}
  /\ update = [k \in Key |-> "none"] /\ invoice = update
  /\ doc = NoDocument /\ logo = None /\ place = "project"
  /\ waste = {} /\ half = {}
  /\ pc = [w \in Workers |-> "idle"] /\ my = [w \in Workers |-> Blank]

----------------------------------------------------------------------------
(* What deleting File rows does to the rows that refer to them: updates,   *)
(* invoices and signed documents lose the link, the document of a file     *)
(* goes with it, and a version keeps its file.                             *)

Cut(links, rs) == [k \in Key |-> IF k \in rs /\ links[k] = "linked" THEN "cut" ELSE links[k]]

DropFilesOnly(rs) ==                  \* mutant: no relation from the invoice to its file
  /\ file' = file \ rs /\ free' = free \ rs
  /\ UNCHANGED invoice

DropFiles(rs) ==
  /\ file' = file \ rs /\ free' = free \ rs
  /\ invoice' = Cut(invoice, rs)

\* An object is deleted, or the store fails and the handler goes on.
DeleteObjects(ks) ==
  \/ stored' = stored \ ks /\ waste' = waste \ ks
  \/ stored' = stored /\ waste' = waste \cup (ks \cap stored)

----------------------------------------------------------------------------
(* FilesService.upload(), alone or for an invoice, a document or an update.*)
(* PlanGuard compares the sizes of the rows, in whole megabytes, with the  *)
(* limit first, but not for the uploads of clients and updates.  It does   *)
(* not know the size of the file that comes.                               *)

Guarded(use) == use \in {"file", "invoice", "document"}
Bytes(rs) == Cardinality({b \in rs \X (1..MaxSize) : b[2] <= Size[b[1]]})
\* Math.round()
storageMb == (Bytes(file) + HalfMb) \div (2 * HalfMb)
UnderLimitOrAt == storageMb <= Limit              \* mutant: off by one
UnderLimit == storageMb < Limit

UploadCheck(w, use) ==
  /\ Goto(w, "idle", "put")
  /\ place = "project"
  /\ Guarded(use) => UnderLimit
  /\ Remember(w, [Blank EXCEPT !.use = use])
  /\ UNCHANGED <<stored, rowVars, history>>

Put(w, k, from, to) ==
  /\ Goto(w, from, to) /\ Unused(k)
  /\ stored' = stored \cup {k}
  /\ Remember(w, [my[w] EXCEPT !.key = k])
  /\ UNCHANGED <<rowVars, history>>

UploadPut(w, k) == Put(w, k, "put", "row")

UploadRow(w) ==
  /\ pc[w] = "row" /\ place = "project"
  /\ file' = file \cup {my[w].key}
  /\ free' = IF Guarded(my[w].use) THEN free ELSE free \cup {my[w].key}
  /\ IF my[w].use \in {"file", "mine"} THEN Done(w, "row")
                                       ELSE Goto(w, "row", "attach") /\ UNCHANGED my
  /\ UNCHANGED <<stored, update, invoice, doc, logo, place, history>>

\* InvoicesService.createUploaded(), DocumentsService.create(), UpdatesService.create()
Attach(w) ==
  /\ Done(w, "attach")
  /\ my[w].key \in file
  /\ \/ /\ my[w].use = "invoice" /\ invoice' = [invoice EXCEPT ![my[w].key] = "linked"]
        /\ UNCHANGED <<update, doc>>
     \/ /\ my[w].use = "update" /\ update' = [update EXCEPT ![my[w].key] = "linked"]
        /\ UNCHANGED <<invoice, doc>>
     \/ /\ my[w].use = "document" /\ doc = NoDocument /\ SignedPdfIsNew
        /\ doc' = [NoDocument EXCEPT !.file = my[w].key]
        /\ UNCHANGED <<invoice, update>>
  /\ UNCHANGED <<stored, file, free, logo, place, history>>

----------------------------------------------------------------------------
(* FilesService.remove(): rows first, then the object.                     *)

RemoveRead(w, r) ==
  /\ Goto(w, "idle", "removeRow")
  /\ r \in file /\ (r \in Key => invoice[r] # "linked")
  /\ Remember(w, [Blank EXCEPT !.key = r, !.keys = {Object(r)}])
  /\ UNCHANGED <<stored, rowVars, history>>

RemoveRow(w) ==
  /\ Goto(w, "removeRow", "sweep")
  /\ LET r == my[w].key IN
       /\ r \in file /\ r \notin doc.versions
       /\ r \in DocRows(doc) => ~Locked
       /\ DropFiles({r})
       /\ update' = Cut(update, {r})
       /\ doc' = IF doc.file = r THEN NoDocument
                 ELSE [doc EXCEPT !.signed = IF @ = r THEN None ELSE @]
  /\ UNCHANGED <<stored, my, logo, place, history>>

\* The object of a removed row, the blobs of a document or of an account: failures
\* are logged or ignored.
Sweep(w) ==
  /\ Done(w, "sweep")
  /\ DeleteObjects(my[w].keys)
  /\ UNCHANGED <<rowVars, half>>

----------------------------------------------------------------------------
(* UpdatesService.remove(): the object first, then the rows.               *)

UpdateRead(w, k) ==
  /\ Goto(w, "idle", "updObject")
  /\ update[k] # "none"
  /\ Remember(w, [Blank EXCEPT !.key = k, !.rows = IF update[k] = "linked" THEN {k} ELSE {}])
  /\ UNCHANGED <<stored, rowVars, history>>

UpdateObject(w) ==
  /\ Goto(w, "updObject", "updRow")
  /\ stored' = stored \ {my[w].key}
  /\ half' = half \cup (my[w].rows \cap file) /\ waste' = waste \ {my[w].key}
  /\ UNCHANGED <<my, rowVars>>

UpdateRow(w) ==
  /\ pc[w] = "updRow" /\ update[my[w].key] # "none"
  /\ update' = [update EXCEPT ![my[w].key] = "none"]
  /\ IF my[w].rows = {} THEN Done(w, "updRow") ELSE Goto(w, "updRow", "updFile") /\ UNCHANGED my
  /\ UNCHANGED <<stored, file, free, invoice, doc, logo, place, history>>

UpdateFileKept(w) ==                  \* mutant: the File row stays in the Files tab
  /\ Done(w, "updFile")
  /\ half' = half \ my[w].rows
  /\ UNCHANGED <<stored, rowVars, waste>>

UpdateFile(w) ==
  /\ Done(w, "updFile")
  /\ my[w].rows \cap DocRows(doc) # {} => ~Locked
  /\ IF my[w].rows \cap doc.versions = {}
     THEN /\ DropFiles(my[w].rows) /\ half' = half \ my[w].rows
          /\ doc' = IF doc.file \in my[w].rows THEN NoDocument ELSE doc
     ELSE UNCHANGED <<file, free, invoice, half, doc>>
  /\ UNCHANGED <<stored, update, logo, place, waste>>

----------------------------------------------------------------------------
(* BrandingController: uploadLogo() and deleteLogo() delete the old logo   *)
(* first.  What two of them leave behind is nobody's.                      *)

LogoRead(w, to) ==
  /\ Goto(w, "idle", "logoDelete") /\ place # "nothing"
  /\ Remember(w, [Blank EXCEPT !.keys = {logo} \ {None}, !.use = IF to = None THEN None ELSE "file"])
  /\ UNCHANGED <<stored, rowVars, history>>

LogoDelete(w) ==
  /\ Goto(w, "logoDelete", IF my[w].use = None THEN "logoClear" ELSE "logoPut")
  /\ DeleteObjects(my[w].keys) /\ Remember(w, Blank)
  /\ UNCHANGED <<rowVars, half>>

LogoPut(w, k) == Put(w, k, "logoPut", "logoRow")

LogoWrite(w) ==
  /\ Goto(w, pc[w], "idle") /\ pc[w] \in {"logoRow", "logoClear"} /\ Remember(w, Blank)
  /\ place # "nothing"
  /\ logo' = my[w].key
  /\ waste' = waste \cup (({logo} \ {None}) \cap stored)
  /\ UNCHANGED <<stored, file, free, update, invoice, doc, place, half>>

----------------------------------------------------------------------------
(* DocumentsService: versions, signed PDFs and the removal of the document *)

VersionPut(w, k) ==
  /\ doc # NoDocument /\ ~Locked
  /\ Put(w, k, "idle", "versionRow")

\* The signed PDF is void: its row goes, and its object after the transaction.
Unsign(w) ==
  /\ file' = IF my[w].key \in Key THEN (file \ {doc.signed}) \cup {my[w].key}
                                  ELSE file \ {doc.signed}
  /\ IF doc.signed = None THEN Done(w, pc[w])
     ELSE Goto(w, pc[w], "sweep") /\ Remember(w, [Blank EXCEPT !.keys = {SignedPdf}])

VersionRow(w) ==
  /\ pc[w] = "versionRow"
  /\ Unsign(w)
  /\ free' = (free \ {doc.signed}) \cup {my[w].key}
  /\ doc' = [file |-> my[w].key, versions |-> doc.versions \cup {doc.file}, signed |-> None]
  /\ UNCHANGED <<stored, update, invoice, logo, place, history>>

Restore(w, k) ==
  /\ pc[w] = "idle" /\ ~Locked /\ k \in doc.versions
  /\ Unsign(w)
  /\ free' = free \ {doc.signed}
  /\ doc' = [file |-> k, versions |-> doc.versions \cup {doc.file}, signed |-> None]
  /\ UNCHANGED <<stored, update, invoice, logo, place, history>>

SignPut(w) ==
  /\ Goto(w, "idle", "signRow")
  /\ doc # NoDocument /\ ~Locked
  /\ Object(IF doc.signed = None THEN doc.file ELSE doc.signed) \in stored
  /\ stored' = stored \cup {SignedPdf}
  /\ UNCHANGED <<my, rowVars, history>>

SignRow(w, s) ==
  /\ Done(w, "signRow")
  /\ s \notin file /\ \A v \in Workers : s \notin my[v].rows \cup {my[v].key}
  /\ file' = (file \ {doc.signed}) \cup {s} /\ free' = (free \ {doc.signed}) \cup {s}
  /\ doc' = [doc EXCEPT !.signed = s]
  /\ UNCHANGED <<stored, update, invoice, logo, place, history>>

DocReadFile(w) ==                     \* mutant: versions and signed PDF are forgotten
  /\ Goto(w, "idle", "docRows")
  /\ doc # NoDocument
  /\ Remember(w, [Blank EXCEPT !.key = doc.file, !.rows = DocRows(doc), !.keys = {doc.file}])
  /\ UNCHANGED <<stored, rowVars, history>>

DocRead(w) ==
  /\ Goto(w, "idle", "docRows")
  /\ doc # NoDocument
  /\ Remember(w, [Blank EXCEPT !.key = doc.file, !.rows = DocRows(doc),
                               !.keys = Objects(DocRows(doc))])
  /\ UNCHANGED <<stored, rowVars, history>>

DocRemove(w) ==
  /\ Goto(w, "docRows", "sweep")
  /\ ~Locked /\ my[w].key \in DocRows(doc)
  /\ doc' = NoDocument
  /\ DropFiles(my[w].rows) /\ update' = Cut(update, my[w].rows)
  /\ UNCHANGED <<stored, my, logo, place, history>>

----------------------------------------------------------------------------
(* ProjectsService.remove() leaves every object; deleteAccount() purges    *)
(* those it has listed before its transaction.                             *)

ProjectGone ==
  /\ file' = {} /\ free' = {} /\ doc' = NoDocument
  /\ update' = [k \in Key |-> "none"]

RemoveProject ==
  /\ place = "project" /\ ~Locked /\ ProjectGone
  /\ place' = "organization"
  /\ invoice' = Cut(invoice, file)
  /\ waste' = waste \cup (Objects(file) \cap stored)
  /\ UNCHANGED <<stored, logo, half, pc, my>>

PurgeRead(w) ==
  /\ Goto(w, "idle", "purge") /\ place # "nothing"
  /\ Remember(w, [Blank EXCEPT !.keys = Objects(file)])
  /\ UNCHANGED <<stored, rowVars, history>>

PurgeRows(w) ==
  /\ Goto(w, "purge", "sweep")
  /\ ~Locked /\ ProjectGone
  /\ place' = "nothing"
  /\ invoice' = [k \in Key |-> "none"] /\ logo' = None
  /\ waste' = waste \cup (((Objects(file) \cup {logo}) \cap stored) \ my[w].keys)
  /\ UNCHANGED <<stored, my, half>>

----------------------------------------------------------------------------

\* What a request at p has stored, or still has to delete, when it stops there.
LeftBehind(p, m) == CASE p \in {"row", "versionRow", "logoRow"} -> {m.key}
                      [] p = "sweep" -> m.keys
                      [] p = "signRow" -> {SignedPdf}
                      [] OTHER -> {}

\* The request dies, or a row it needs is gone.
Fail(w) ==
  /\ pc[w] # "idle"
  /\ waste' = waste \cup (LeftBehind(pc[w], my[w]) \cap stored)
  /\ pc' = [pc EXCEPT ![w] = "idle"] /\ Remember(w, Blank)
  /\ UNCHANGED <<stored, rowVars, half>>

Serve(w) ==
  \/ \E use \in Uses : UploadCheck(w, use)
  \/ \E k \in Key : \/ UploadPut(w, k) \/ LogoPut(w, k) \/ VersionPut(w, k)
                    \/ Restore(w, k) \/ UpdateRead(w, k)
  \/ UploadRow(w) \/ Attach(w)
  \/ \E r \in Rows : RemoveRead(w, r)
  \/ RemoveRow(w) \/ Sweep(w)
  \/ UpdateObject(w) \/ UpdateRow(w) \/ UpdateFile(w)
  \/ \E to \in {None, "new"} : LogoRead(w, to)
  \/ LogoDelete(w) \/ LogoWrite(w)
  \/ VersionRow(w) \/ SignPut(w) \/ \E s \in Sig : SignRow(w, s)
  \/ DocRead(w) \/ DocRemove(w) \/ PurgeRead(w) \/ PurgeRows(w) \/ Fail(w)

Next == RemoveProject \/ \E w \in Workers : Serve(w)

Spec == Init /\ [][Next]_vars

----------------------------------------------------------------------------
(* Properties *)

\* Types, and referential integrity: what points to a File row points to one that exists.
TypeOK ==
  /\ stored \in SUBSET (Key \cup {SignedPdf}) /\ file \in SUBSET Rows /\ free \in SUBSET file
  /\ update \in [Key -> Link] /\ invoice \in [Key -> Link]
  /\ doc \in Document \cup {NoDocument} /\ logo \in Key \cup {None}
  /\ place \in {"project", "organization", "nothing"}
  /\ waste \in SUBSET stored /\ half \in SUBSET Key
  /\ pc \in [Workers -> Pc] /\ my \in [Workers -> Memory]
  /\ DocRows(doc) \subseteq file
  /\ \A k \in Key : "linked" \in {update[k], invoice[k]} => k \in file

\* The object of every file can be downloaded, but for attachments whose update is
\* being removed or could not be removed to the end.
FilesHaveObjects == \A k \in file \cap Key : k \in stored \/ k \in half

\* Every object that no row names is one a request is still at work on, or one that
\* was left behind when a request failed or was overtaken.
InFlight == (UNION {Held(w) : w \in {v \in Workers : pc[v] # "idle"}})
             \cup {o \in {SignedPdf} : \E w \in Workers : pc[w] = "signRow"}
NothingLeaks == stored \subseteq Objects(file) \cup {logo} \cup waste \cup InFlight

\* The guard does not count the file that comes: a single upload exceeds the limit of
\* the plan by up to its size.  However uploads overlap, the files stored under the
\* limit never exceed it by more than one such file for each request that the API
\* serves together -- less the half megabyte below it that the guard rounds up.
Uploading == {w \in Workers : pc[w] \in {"put", "row"} /\ Guarded(my[w].use)}
StorageOvershoot ==
  Bytes(file \ free) + MaxSize * Cardinality(Uploading) + HalfMb
    < 2 * HalfMb * Limit + MaxSize * Cardinality(Workers)

----------------------------------------------------------------------------
(* Promises the code does not keep; the README tells how each one breaks. *)

\* A plan's limit holds: "You've reached the storage (MB) limit"
\* (apps/api/src/common/guards/plan.guard.ts:79).
LimitHolds == Bytes(file \ free) <= 2 * HalfMb * Limit

\* The signed PDF of a document is stored: only "orphaned storage blobs" are deleted
\* (apps/api/src/documents/documents.service.ts:1063).
SignedPdfStays == doc.signed # None => SignedPdf \in stored

\* Only attachments from before there were File rows have none: the fallback is
\* "for legacy data" (apps/api/src/updates/updates.service.ts:151).
OnlyLegacyFallsBack == \A k \in Key : update[k] # "cut"

\* Strengthening for the proofs: what a request at p remembers, ...
Sane(p, m) ==
  /\ p \in {"idle", "logoPut", "logoClear", "signRow"} => m = Blank
  /\ p = "put" => m.key = None
  /\ p \in {"put", "row", "attach", "versionRow", "logoRow"} => m.keys = {} /\ m.rows = {}
  /\ p \in {"row", "attach", "versionRow", "logoRow", "docRows"} => m.key \in Key
  /\ p = "removeRow" => m.key \in Rows /\ m.keys = {Object(m.key)}
  /\ p = "docRows" => m.keys = Objects(m.rows)
  /\ p \in {"updObject", "updRow", "updFile"} => m.key \in Key /\ m.rows \subseteq {m.key} /\ m.keys = {}
  /\ p = "logoDelete" => m.key = None /\ m.rows = {}
MemorySane == \A w \in Workers : Sane(pc[w], my[w])

\* ... that a new object is the maker's alone until its row is there, ...
Making == {w \in Workers : pc[w] \in {"row", "versionRow", "logoRow"}}
NewIsOwn ==
  \A w \in Making : LET k == my[w].key IN
    /\ k \in stored /\ k \notin file /\ k # logo
    /\ update[k] = "none" /\ invoice[k] = "none"
    /\ \A v \in Workers \ {w} : k \notin Held(v) \cup my[v].rows

\* ... that a file is attached once, and not while its update is being removed, ...
Removing == {"updObject", "updRow", "updFile"}
AttachedOnce ==
  \A w \in Workers : pc[w] = "attach" =>
    /\ update[my[w].key] = "none"
    /\ \A v \in Workers \ {w} : pc[v] \in Removing \cup {"attach"} => my[v].key # my[w].key

\* ... what is left of an update whose file or object is gone, ...
CutIsGone == \A k \in Key : update[k] = "cut" => k \notin file
RemovalSane ==
  \A w \in Workers :
    /\ pc[w] = "updObject" /\ my[w].key \in file => my[w].rows = {my[w].key}
    /\ pc[w] \in {"updRow", "updFile"} => my[w].key \notin stored
    /\ pc[w] = "updFile" => update[my[w].key] = "none"

\* ... that what will be deleted is no file any more, ...
DeletedAreGone ==
  /\ logo \notin file
  /\ \A w \in Workers : /\ pc[w] \in {"sweep", "logoDelete"} => my[w].keys \cap Key \cap file = {}
                        /\ pc[w] = "logoDelete" => my[w].keys \subseteq Key

\* ... that who changes the document has it alone, ...
LockHeld ==
  \A w \in Workers : pc[w] \in {"versionRow", "signRow"} =>
    /\ doc # NoDocument
    /\ \A v \in Workers : pc[v] \in {"versionRow", "signRow"} => v = w

\* ... and that a request would leave behind every object without a row.
Charged == stored \subseteq Objects(file) \cup {logo} \cup waste
                            \cup UNION {LeftBehind(pc[w], my[w]) : w \in Workers}

IInv == /\ TypeOK /\ MemorySane /\ NewIsOwn /\ AttachedOnce /\ CutIsGone /\ RemovalSane
        /\ DeletedAreGone /\ LockHeld /\ FilesHaveObjects /\ Charged /\ StorageOvershoot
=============================================================================
