-------------------------- MODULE DocumentSigning --------------------------
(***************************************************************************)
(* The life of one document that clients answer or sign                    *)
(* (apps/api/src/documents): the API handlers that send, void, answer and  *)
(* sign it, the ones that replace its file, the hourly expiry task, and    *)
(* the object store that keeps the signed PDF under one fixed key.         *)
(*                                                                         *)
(* A handler is a worker that walks through its awaits: every read and     *)
(* every write of the database is a step of its own, so that other         *)
(* handlers run in between.  sign() holds the row lock it takes with       *)
(* SELECT ... FOR UPDATE from its checks to its commit; every writer of    *)
(* the document row, and every insert that references it, waits for it.    *)
(* uploadVersion() and restoreVersion() hold the same lock but write only  *)
(* what others cannot see before they commit: each is one atomic step.     *)
(***************************************************************************)
EXTENDS Integers, FiniteSets

CONSTANTS
  Clients,     \* users who may be assigned to the document's project
  Staff,       \* owners and admins, who sign without an assignment
  Rosters,     \* the sets of clients a project update may assign
  Field,       \* identifiers of signature-field rows, used once each
  Order,       \* Order[f]: signerOrder of f, 0 for any order
  AssignedTo,  \* AssignedTo[f]: the user f is assigned to, or None
  Kinds,       \* the option records a document may be created with
  Workers,     \* API requests that can be in flight together
  MaxVersion,  \* bound: versions of the file
  MaxRows,     \* bound: approval responses ever created
  Crashes,     \* may a request die between two awaits?
  TxTimeouts,  \* may a signing transaction outlive its 30 s timeout?
  None

Users == Clients \cup Staff
Signature == Users \X Field
Status == {"draft", "pending", "accepted", "declined", "signed", "voided",
           "expired"}
Kind == [signature : BOOLEAN, approval : BOOLEAN, ordered : BOOLEAN]

ASSUME ConstantsAssumption ==
  /\ Rosters \subseteq SUBSET Clients
  /\ Rosters # {}
  /\ IsFiniteSet(Clients)
  /\ Order \in [Field -> Nat]
  /\ AssignedTo \in [Field -> Users \cup {None}]
  /\ Kinds \subseteq Kind
  /\ MaxVersion \in Nat \ {0}
  /\ MaxRows \in Nat
  /\ Crashes \in BOOLEAN
  /\ TxTimeouts \in BOOLEAN
  /\ None \notin Users \cup Field \cup Status \cup Workers

VARIABLES
  status,     \* Document.status
  kind,       \* requiresSignature, requiresApproval, signingOrderEnabled
  fields,     \* the SignatureField rows of the document
  usedFields, \* identifiers ever given to a field row
  expiry,     \* Document.expiresAt: not set, to come, or gone by
  version,    \* Document.currentVersion
  assigned,   \* ProjectClient rows of the project
  signed,     \* responses with action "signed": <<user, field>>
  answers,    \* approval responses, the ones without a field
  lastRow,    \* the number of approval responses created so far
  signedFile, \* is Document.signedFileId set?
  blob,       \* the object under "<id>-signed.pdf"; base 0: no object
  deleting,   \* versions whose signed PDF a detached call still deletes
  lock,       \* the worker whose transaction locks the document row
  pc,         \* where each request is
  who,        \* the user a request acts for
  target,     \* the field a request signs
  row,        \* the response row respond() found, 0 for none
  page,       \* the PDF a signing request holds in memory
  tally,      \* the number of responses updateDocumentStatus() found
  verdict,    \* the status updateDocumentStatus() is about to write
  cronPc,     \* where the expiry task is
  stray,      \* history: has a late upload come over a later signer's PDF?
  overlap,    \* history: clients two of whose answers were given at once
  misled      \* history: requests whose recomputation counted wrong or was overtaken

docVars == <<status, kind, fields, usedFields, expiry, version>>
respVars == <<assigned, signed, answers, lastRow, overlap>>
pdfVars == <<signedFile, blob, deleting, stray>>
workVars == <<lock, pc, who, target, row, page, tally, verdict, misled>>
vars == <<docVars, respVars, pdfVars, workVars, cronPc>>

Pdf == [base : 0..MaxVersion, ink : SUBSET Signature]
NoPdf == [base |-> 0, ink |-> {}]
Answer == [row : 1..MaxRows, user : Users, action : {"accepted", "declined"}]

SignPc == {"signUpload", "signCommit"}
Pc == {"idle", "sendWrite", "voidWrite", "fieldsWrite", "respondCheck",
       "respondFind", "respondWrite", "recomputeRead", "recomputeCount",
       "recomputeWrite", "lateUpload"}
      \cup SignPc

SignBlockedLate == {"voided", "expired", "signed"}  \* mutant: a draft may be signed
SignBlocked == {"draft", "voided", "expired", "signed"}
RespondBlocked == SignBlocked \cup {"accepted", "declined"}

----------------------------------------------------------------------------
(* Helpers *)

\* A request of worker w takes a step; a finished one forgets its locals.
Goto(w, from, to) == pc[w] = from /\ pc' = [pc EXCEPT ![w] = to]
Forget(w) == /\ who' = [who EXCEPT ![w] = None]
             /\ target' = [target EXCEPT ![w] = None]
             /\ row' = [row EXCEPT ![w] = 0]
             /\ page' = [page EXCEPT ![w] = NoPdf]
             /\ tally' = [tally EXCEPT ![w] = 0]
             /\ verdict' = [verdict EXCEPT ![w] = None]
             /\ misled' = misled \ {w}
memory == <<who, target, row, page, tally, verdict>>
locals == <<memory, misled>>
UnlockedAlways == TRUE          \* mutant: nobody waits for the row lock
Unlocked == lock = None

SignedFields(marks) == {m[2] : m \in marks}

\* The fields that must be signed before f when the signing order is on.
Prior(f, sheet) == {g \in sheet : Order[g] > 0 /\ Order[g] < Order[f]}
InTurnUnchecked(f) == f \in fields                   \* mutant: no turns
InTurn(f) == kind.ordered => Prior(f, fields) \subseteq SignedFields(signed)

\* What updateDocumentStatus() decides from what it reads; None: no write.
AnyDeclined == \E a \in answers : a.action = "declined"
FieldBased == kind.signature /\ fields # {}
AllFieldsSigned == FieldBased /\ fields \subseteq SignedFields(signed)
Responded == answers # {} \/ signed # {}
VerdictOfAnswers ==    \* mutant: signatures alone never settle a document
  IF AnyDeclined THEN "declined" ELSE None
Verdict ==
  IF AnyDeclined THEN "declined"
  ELSE IF Responded /\ AllFieldsSigned THEN "signed" ELSE None

\* Otherwise, without fields to sign, responses are counted against clients.
Counting == Responded /\ ~AnyDeclined /\ ~FieldBased

\* What counting takes for one answer of each client: none of a client taken off
\* the project, none given twice, and no signature.
AnswersCount == \A a \in answers : a.user \in assigned \ overlap
Miscounted == signed # {} \/ ~AnswersCount
Overtaken == {w \in Workers : pc[w] \in {"recomputeCount", "recomputeWrite"}}

----------------------------------------------------------------------------
(* The document is created as a draft, with no fields and no answers. *)

Init ==
  /\ status = "draft"
  /\ kind \in Kinds
  /\ fields = {} /\ usedFields = {}
  /\ expiry = "none"
  /\ version = 1
  /\ assigned \in Rosters
  /\ signed = {} /\ answers = {} /\ lastRow = 0
  /\ signedFile = FALSE /\ blob = NoPdf /\ deleting = {}
  /\ lock = None
  /\ pc = [w \in Workers |-> "idle"]
  /\ who = [w \in Workers |-> None]
  /\ target = [w \in Workers |-> None]
  /\ row = [w \in Workers |-> 0]
  /\ page = [w \in Workers |-> NoPdf]
  /\ tally = [w \in Workers |-> 0]
  /\ verdict = [w \in Workers |-> None]
  /\ cronPc = "idle"
  /\ stray = FALSE /\ overlap = {} /\ misled = {}

----------------------------------------------------------------------------
(* send(): reads a draft with its fields, then writes it pending. *)

SendRead(w) ==
  /\ Goto(w, "idle", "sendWrite")
  /\ status = "draft"
  /\ kind.signature => fields # {}
  /\ UNCHANGED <<docVars, respVars, pdfVars, lock, locals, cronPc>>

SendWrite(w) ==
  /\ Goto(w, "sendWrite", "idle")
  /\ Unlocked
  /\ status' = "pending"
  /\ expiry' \in {expiry, "future"}
  /\ UNCHANGED <<kind, fields, usedFields, version, respVars, pdfVars, lock,
                 locals, cronPc>>

(* voidDocument(): reads a draft or pending document, then voids it. *)

VoidRead(w) ==
  /\ Goto(w, "idle", "voidWrite")
  /\ status \in {"draft", "pending"}
  /\ UNCHANGED <<docVars, respVars, pdfVars, lock, locals, cronPc>>

VoidWriteNow(w) ==                    \* mutant: voids under a signer's lock
  /\ Goto(w, "voidWrite", "idle")
  /\ status' = "voided"
  /\ UNCHANGED <<kind, fields, usedFields, expiry, version, respVars, pdfVars,
                 lock, locals, cronPc>>

VoidWrite(w) ==
  /\ Goto(w, "voidWrite", "idle")
  /\ Unlocked
  /\ status' = "voided"
  /\ UNCHANGED <<kind, fields, usedFields, expiry, version, respVars, pdfVars,
                 lock, locals, cronPc>>

(* setSignatureFields(): reads a draft, then replaces all its field rows *)
(* by new ones.  Inserting a row waits for the lock, deleting does not.  *)

FieldsRead(w) ==
  /\ Goto(w, "idle", "fieldsWrite")
  /\ status = "draft"
  /\ UNCHANGED <<docVars, respVars, pdfVars, lock, locals, cronPc>>

FieldsWrite(w) ==
  /\ Goto(w, "fieldsWrite", "idle")
  /\ fields' \in SUBSET (Field \ usedFields)
  /\ fields' # {} => Unlocked
  /\ usedFields' = usedFields \cup fields'
  /\ UNCHANGED <<status, kind, expiry, version, respVars, pdfVars, lock,
                 locals, cronPc>>

----------------------------------------------------------------------------
(* respond(): a client approves or declines.  It checks the document, then *)
(* the assignment, looks for the client's earlier response, updates it or  *)
(* creates one, and recomputes the status.                                 *)

RespondRead(w, u) ==
  /\ Goto(w, "idle", "respondCheck")
  /\ status \notin RespondBlocked
  /\ expiry # "past"
  /\ kind.approval
  /\ who' = [who EXCEPT ![w] = u]
  /\ UNCHANGED <<docVars, respVars, pdfVars, lock, target, row, page, tally,
                 verdict, misled, cronPc>>

RespondCheck(w) ==
  /\ Goto(w, "respondCheck", "respondFind")
  /\ who[w] \in assigned
  /\ UNCHANGED <<docVars, respVars, pdfVars, lock, locals, cronPc>>

RespondRefused(w) ==
  /\ Goto(w, "respondCheck", "idle")
  /\ who[w] \notin assigned
  /\ Forget(w)
  /\ UNCHANGED <<docVars, respVars, pdfVars, lock, cronPc>>

\* Requests that found no earlier response of their client.
Creating == {w \in Workers : pc[w] = "respondWrite" /\ row[w] = 0}

RespondFindNone(w) ==          \* mutant: an earlier response is never found
  /\ Goto(w, "respondFind", "respondWrite")
  /\ overlap' = overlap \cup {who[v] : v \in {x \in Creating : who[x] = who[w]}}
  /\ UNCHANGED <<docVars, assigned, signed, answers, lastRow, pdfVars, lock, locals,
                 cronPc>>

RespondFind(w) ==
  /\ Goto(w, "respondFind", "respondWrite")
  /\ LET mine == {a.row : a \in {b \in answers : b.user = who[w]}}
     IN  IF mine = {} THEN row' = row
                      ELSE \E r \in mine : row' = [row EXCEPT ![w] = r]
  /\ overlap' = overlap \cup {who[v] : v \in {x \in Creating : who[x] = who[w]}}
  /\ UNCHANGED <<docVars, assigned, signed, answers, lastRow, pdfVars, lock, who,
                 target, page, tally, verdict, misled, cronPc>>

\* No row was found: insert one (the insert references the document row).
RespondCreate(w) ==
  /\ Goto(w, "respondWrite", "recomputeRead")
  /\ row[w] = 0
  /\ Unlocked
  /\ lastRow < MaxRows
  /\ lastRow' = lastRow + 1
  /\ \E act \in {"accepted", "declined"} :
       answers' = answers \cup {[row |-> lastRow + 1, user |-> who[w], action |-> act]}
  /\ misled' = misled \cup Overtaken
  /\ UNCHANGED <<docVars, assigned, signed, overlap, pdfVars, lock, memory, cronPc>>

\* A row was found: rewrite it if it is still there.
RespondUpdate(w) ==
  /\ Goto(w, "respondWrite", "recomputeRead")
  /\ \E a \in answers : \E act \in {"accepted", "declined"} :
       /\ a.row = row[w]
       /\ answers' = (answers \ {a}) \cup {[a EXCEPT !.action = act]}
  /\ misled' = misled \cup Overtaken
  /\ UNCHANGED <<docVars, assigned, signed, lastRow, overlap, pdfVars, lock, memory,
                 cronPc>>

\* The row was deleted with the old version: the update throws.
RespondLost(w) ==
  /\ Goto(w, "respondWrite", "idle")
  /\ row[w] # 0
  /\ \A a \in answers : a.row # row[w]
  /\ Forget(w)
  /\ UNCHANGED <<docVars, respVars, pdfVars, lock, cronPc>>

(* updateDocumentStatus(): after a response, outside any transaction.  It *)
(* reads the document with its responses and fields, counts the clients   *)
(* unless these decide, and writes the status.                            *)

RecomputeRead(w) ==
  /\ Goto(w, "recomputeRead", "recomputeWrite")
  /\ Verdict # None
  /\ verdict' = [verdict EXCEPT ![w] = Verdict]
  /\ UNCHANGED <<docVars, respVars, pdfVars, lock, who, target, row, page, tally,
                 misled, cronPc>>

RecomputeTally(w) ==
  /\ Goto(w, "recomputeRead", "recomputeCount")
  /\ Counting
  /\ tally' = [tally EXCEPT ![w] = Cardinality(answers) + Cardinality(signed)]
  /\ misled' = IF Miscounted THEN misled \cup {w} ELSE misled \ {w}
  /\ UNCHANGED <<docVars, respVars, pdfVars, lock, who, target, row, page, verdict,
                 cronPc>>

RecomputeSkip(w) ==
  /\ Goto(w, "recomputeRead", "idle")
  /\ Verdict = None /\ ~Counting
  /\ Forget(w)
  /\ UNCHANGED <<docVars, respVars, pdfVars, lock, cronPc>>

RecomputeCount(w) ==
  /\ Goto(w, "recomputeCount", "recomputeWrite")
  /\ tally[w] >= Cardinality(assigned)
  /\ verdict' = [verdict EXCEPT ![w] = "accepted"]
  /\ UNCHANGED <<docVars, respVars, pdfVars, lock, who, target, row, page, tally,
                 misled, cronPc>>

RecomputeShort(w) ==
  /\ Goto(w, "recomputeCount", "idle")
  /\ tally[w] < Cardinality(assigned)
  /\ Forget(w)
  /\ UNCHANGED <<docVars, respVars, pdfVars, lock, cronPc>>

RecomputeWrite(w) ==
  /\ Goto(w, "recomputeWrite", "idle")
  /\ Unlocked
  /\ status' = verdict[w]
  /\ Forget(w)
  /\ UNCHANGED <<kind, fields, usedFields, expiry, version, respVars, pdfVars,
                 lock, cronPc>>

----------------------------------------------------------------------------
(* sign(): locks the document row, checks, and reads the PDF to stamp:    *)
(* the signed one if there is one, the current file otherwise.            *)

\* mutant: any assigned client may sign any field
MaySignAny(u, f) ==
  /\ f \in fields /\ u \in assigned \cup Staff
  /\ <<u, f>> \notin signed /\ InTurn(f)

MaySign(u, f) ==
  /\ f \in fields
  /\ u \in assigned \cup Staff
  /\ <<u, f>> \notin signed
  /\ InTurn(f)
  /\ AssignedTo[f] \in {None, u}

SignBegin(w, u, f) ==
  /\ Goto(w, "idle", "signUpload")
  /\ Unlocked
  /\ kind.signature
  /\ status \notin SignBlocked
  /\ expiry # "past"
  /\ MaySign(u, f)
  /\ signedFile => blob.base # 0          \* the download finds the object
  /\ lock' = w
  /\ who' = [who EXCEPT ![w] = u]
  /\ target' = [target EXCEPT ![w] = f]
  /\ LET source == IF signedFile THEN blob ELSE [base |-> version, ink |-> {}]
     IN  page' = [page EXCEPT ![w] =
                    [base |-> source.base, ink |-> source.ink \cup {<<u, f>>}]]
  /\ UNCHANGED <<docVars, respVars, pdfVars, row, tally, verdict, misled, cronPc>>

\* The stamped PDF is stored under the fixed key, inside the transaction.
SignUpload(w) ==
  /\ Goto(w, "signUpload", "signCommit")
  /\ blob' = page[w]
  /\ stray' = (stray /\ signedFile)
  /\ UNCHANGED <<docVars, respVars, signedFile, deleting, lock, locals, cronPc>>

\* The rows are written and the transaction commits.
SignCommit(w) ==
  /\ Goto(w, "signCommit", "recomputeRead")
  /\ signed' = signed \cup {<<who[w], target[w]>>}
  /\ signedFile' = TRUE
  /\ lock' = None
  /\ UNCHANGED <<docVars, assigned, answers, lastRow, overlap, blob, deleting,
                 stray, locals, cronPc>>

\* The transaction times out while the upload is in flight: it is rolled back
\* and unlocked, and the upload arrives later.
SignTimeout(w) ==
  /\ TxTimeouts
  /\ Goto(w, "signUpload", "lateUpload")
  /\ lock' = None
  /\ UNCHANGED <<docVars, respVars, pdfVars, locals, cronPc>>

LateUpload(w) ==
  /\ Goto(w, "lateUpload", "idle")
  /\ blob' = page[w]
  /\ stray' = (stray \/ signedFile \/ \E v \in Workers : pc[v] = "signCommit")
  /\ Forget(w)
  /\ UNCHANGED <<docVars, respVars, signedFile, deleting, lock, cronPc>>

----------------------------------------------------------------------------
(* uploadVersion() and restoreVersion(): a new current file.  A document   *)
(* that was sent loses its responses and is pending again; the signed PDF  *)
(* is detached, and deleted from storage by a call nobody awaits.          *)

ReplaceFile ==
  /\ Unlocked
  /\ status \notin {"voided", "expired"}
  /\ version < MaxVersion
  /\ version' = version + 1
  /\ deleting' = deleting \cup (IF signedFile THEN {version} ELSE {})
  /\ signedFile' = FALSE
  /\ \/ status = "draft" /\ UNCHANGED <<status, signed, answers>>
     \/ status # "draft" /\ status' = "pending" /\ signed' = {} /\ answers' = {}
  /\ stray' = FALSE
  /\ misled' = misled \cup Overtaken
  /\ UNCHANGED <<kind, fields, usedFields, expiry, assigned, lastRow, overlap, blob, lock, pc,
                 memory, cronPc>>

UploadVersion == ReplaceFile
RestoreVersion == version > 1 /\ ReplaceFile

DeleteOrphan(v) ==
  /\ v \in deleting
  /\ deleting' = deleting \ {v}
  /\ blob' \in {NoPdf, blob}            \* a failed deletion is only logged
  /\ UNCHANGED <<docVars, respVars, signedFile, stray, workVars, cronPc>>

----------------------------------------------------------------------------
(* The expiry task finds an overdue pending document, then writes it by id. *)

ExpireFindEarly ==                      \* mutant: gt instead of lt
  /\ cronPc = "idle"
  /\ status = "pending" /\ expiry = "future"
  /\ cronPc' = "write"
  /\ UNCHANGED <<docVars, respVars, pdfVars, workVars>>

ExpireFind ==
  /\ cronPc = "idle"
  /\ status = "pending" /\ expiry = "past"
  /\ cronPc' = "write"
  /\ UNCHANGED <<docVars, respVars, pdfVars, workVars>>

ExpireWrite ==
  /\ cronPc = "write"
  /\ Unlocked
  /\ status' = "expired"
  /\ cronPc' = "idle"
  /\ UNCHANGED <<kind, fields, usedFields, expiry, version, respVars, pdfVars, workVars>>

\* The expiry date goes by.
Tick ==
  /\ expiry = "future"
  /\ expiry' = "past"
  /\ UNCHANGED <<status, kind, fields, usedFields, version, respVars, pdfVars,
                 workVars, cronPc>>

\* A project update replaces the assigned clients.
AssignClients ==
  /\ assigned' \in Rosters
  /\ misled' = misled \cup Overtaken
  /\ UNCHANGED <<docVars, signed, answers, lastRow, overlap, pdfVars, lock, pc, memory,
                 cronPc>>

\* A request dies: an open transaction is rolled back and unlocked.
Crash(w) ==
  /\ Crashes
  /\ pc[w] # "idle"
  /\ pc' = [pc EXCEPT ![w] = "idle"]
  /\ lock' = IF lock = w THEN None ELSE lock
  /\ Forget(w)
  /\ UNCHANGED <<docVars, respVars, pdfVars, cronPc>>

----------------------------------------------------------------------------

\* The steps that carry a request on once it has begun.
Continue(w) ==
  \/ SendWrite(w) \/ VoidWrite(w) \/ FieldsWrite(w)
  \/ RespondCheck(w) \/ RespondRefused(w) \/ RespondFind(w)
  \/ RespondCreate(w) \/ RespondUpdate(w) \/ RespondLost(w)
  \/ RecomputeRead(w) \/ RecomputeTally(w) \/ RecomputeSkip(w)
  \/ RecomputeCount(w) \/ RecomputeShort(w) \/ RecomputeWrite(w)
  \/ SignUpload(w) \/ SignCommit(w) \/ SignTimeout(w) \/ LateUpload(w)

Begin(w) ==
  \/ SendRead(w) \/ VoidRead(w) \/ FieldsRead(w)
  \/ \E u \in Users : RespondRead(w, u)
  \/ \E u \in Users, f \in Field : SignBegin(w, u, f)

Next ==
  \/ \E w \in Workers : Begin(w) \/ Continue(w) \/ Crash(w)
  \/ UploadVersion \/ RestoreVersion
  \/ \E v \in deleting : DeleteOrphan(v)
  \/ ExpireFind \/ ExpireWrite \/ Tick \/ AssignClients

Spec == Init /\ [][Next]_vars

\* A request that has begun goes on unless it crashes, and the hourly task
\* keeps being run by the scheduler.
Fairness ==
  /\ \A w \in Workers : WF_vars(Continue(w))
  /\ WF_vars(ExpireFind) /\ WF_vars(ExpireWrite)

FairSpec == Spec /\ Fairness

----------------------------------------------------------------------------
(* Properties *)

\* Every variable has its type, and a request holds the lock exactly while
\* its signing transaction is open.
TypeOK ==
  /\ status \in Status /\ kind \in Kinds
  /\ usedFields \in SUBSET Field /\ fields \in SUBSET usedFields
  /\ expiry \in {"none", "future", "past"}
  /\ version \in 1..MaxVersion
  /\ assigned \in Rosters
  /\ signed \in SUBSET Signature
  /\ answers \in SUBSET Answer /\ lastRow \in 0..MaxRows
  /\ IsFiniteSet(signed) /\ IsFiniteSet(answers)
  /\ signedFile \in BOOLEAN /\ blob \in Pdf /\ deleting \in SUBSET (1..MaxVersion)
  /\ lock \in Workers \cup {None}
  /\ pc \in [Workers -> Pc]
  /\ who \in [Workers -> Users \cup {None}]
  /\ target \in [Workers -> Field \cup {None}]
  /\ row \in [Workers -> 0..MaxRows]
  /\ page \in [Workers -> Pdf]
  /\ tally \in [Workers -> Nat]
  /\ verdict \in [Workers -> Status \cup {None}]
  /\ cronPc \in {"idle", "write"}
  /\ stray \in BOOLEAN /\ overlap \in SUBSET Users /\ misled \in SUBSET Workers
  /\ \A w \in Workers : pc[w] \in SignPc <=> lock = w

\* The signed PDF the document points to, when storage still has it, stamps
\* the current file and shows every signature the responses record: no
\* signer overwrites another's, and none signs a replaced text.  This is what
\* the comment on the row lock of sign() promises (documents.service.ts:510).
\* Only an upload that outlived its transaction breaks it, and only when it
\* arrives once a later signer has stored a PDF.
NoSignatureLost ==
  signedFile /\ blob.base # 0 /\ ~stray => blob.base = version /\ signed \subseteq blob.ink

\* A document becomes accepted only when every assigned client has responded
\* positively (documents.service.ts:417), except by a recomputation that counted
\* a second answer given at once with the first, or one of a client taken off
\* the project, or signatures, or was overtaken by another change.
AllAccepted == \A c \in assigned : \E a \in answers : a.user = c /\ a.action = "accepted"
AcceptedByAll ==
  [][status # "accepted" /\ status' = "accepted" =>
       AllAccepted \/ \E w \in misled : pc[w] = "recomputeWrite" /\ pc'[w] = "idle"]_vars

\* With the signing order on, a field in force is signed only after every
\* field of a lower order, whoever signs them and however they interleave.
SigningOrderKept ==
  kind.ordered =>
    \A f \in fields \cap SignedFields(signed) :
       Prior(f, fields) \subseteq SignedFields(signed)

\* A draft carries no response and no signed PDF: uploadVersion() keeps the
\* responses of a draft because it takes for granted that there are none.
DraftIsBlank ==
  status = "draft" => signed = {} /\ answers = {} /\ ~signedFile

\* A signature is recorded only on a document still open to signing, though
\* voiding, expiry and status writes race the check sign() made long before.
SignedOnlyWhileOpen ==
  [][signed' \subseteq signed \/ status \notin SignBlocked]_vars

\* The handlers implement the signing ledger: marks are responses of the
\* current version, the sheet is the set of field rows in force.
Ledger == INSTANCE SigningLedger
            WITH Signer <- Users, ordered <- kind.ordered, sheet <- fields,
                 marks <- signed, edition <- version
LedgerSpec == Ledger!LedgerSpec

\* The inductive invariant behind them.  What a request read still holds when
\* it writes only where the lock protects it: an open signing transaction
\* knows its document open, its field acceptable and its page complete.
RequestsSane ==
  \A w \in Workers :
    /\ pc[w] \in {"respondCheck", "respondFind", "respondWrite"} =>
         who[w] \in Users /\ status # "draft"
    /\ pc[w] = "recomputeWrite" => verdict[w] \in {"declined", "signed", "accepted"}
SignerKnowsDocument ==
  \A w \in Workers : pc[w] \in SignPc =>
    /\ status \notin SignBlocked
    /\ who[w] \in Users /\ target[w] \in Field
    /\ AssignedTo[target[w]] \in {None, who[w]}
    /\ <<who[w], target[w]>> \notin signed
    /\ target[w] \in usedFields
    /\ target[w] \in fields => InTurn(target[w])
SignaturesHaveRows == /\ ~signedFile => signed = {}
                      /\ SignedFields(signed) \subseteq usedFields
IInv == /\ TypeOK /\ DraftIsBlank /\ SigningOrderKept
        /\ RequestsSane /\ SignerKnowsDocument /\ SignaturesHaveRows

\* What the signing transaction knows of the PDF, unless it started from one that
\* a late upload had come over.
SignerKnowsPage ==
  \A w \in Workers :
    /\ pc[w] \in SignPc /\ ~(stray /\ signedFile) =>
         /\ page[w].base = version
         /\ signed \cup {<<who[w], target[w]>>} \subseteq page[w].ink
    /\ pc[w] = "signCommit" /\ blob.base # 0 /\ ~stray => blob = page[w]
PdfInv == NoSignatureLost /\ SignerKnowsPage

\* A client whose answers were never given at once has one answer, or one request
\* about to create it; a recomputation that was not misled counts just these, and
\* so finds that all clients accepted.
OneAnswerEach ==
  \A u \in Users \ overlap :
    /\ \A a, b \in answers : a.user = u /\ b.user = u => a = b
    /\ \A w \in Creating : who[w] = u => \A a \in answers : a.user # u
    /\ \A v, w \in Creating : who[v] = u /\ who[w] = u => v = w
CountedRight ==
  \A w \in Workers \ misled :
    /\ pc[w] = "recomputeCount" =>
         AnswersCount /\ ~AnyDeclined /\ tally[w] = Cardinality(answers)
    /\ pc[w] = "recomputeWrite" /\ verdict[w] = "accepted" => AllAccepted
AnswersInv == OneAnswerEach /\ CountedRight

\* A pending document whose expiry date has gone by does not stay pending:
\* the hourly task finds and writes it unless someone settles it first, or a
\* second send() that raced the first one gives it a new date.
ExpiryEnforced ==
  (status = "pending" /\ expiry = "past") ~> (status # "pending" \/ expiry # "past")

\* When a response completes the field set, the status recomputation of that
\* response settles the document, whatever other requests do meanwhile.
Recomputing == \E w \in Workers : pc[w] = "recomputeRead"
CompletionSettles ==
  (AllFieldsSigned /\ status = "pending" /\ Recomputing)
     ~> (status # "pending" \/ ~AllFieldsSigned)

----------------------------------------------------------------------------
(* Promises the code does not keep; the README tells how each one breaks. *)

\* A document of status "signed" has all its fields signed: the certificate
\* "is only available for fully signed documents" (documents.service.ts:1346).
SignedMeansComplete == status = "signed" => AllFieldsSigned

\* The object of the signed PDF exists while the document refers to it: only
\* orphaned blobs are deleted (documents.service.ts:1063).
SignedPdfStored == signedFile => blob.base # 0

\* The same without the exceptions of AcceptedByAll, as the comment says it.
AlwaysAcceptedByAll == [][status # "accepted" /\ status' = "accepted" => AllAccepted]_vars
=============================================================================
