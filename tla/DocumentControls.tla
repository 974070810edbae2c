--------------------------- MODULE DocumentControls ---------------------------
(* The controls of a document and of a project's plain file: the files tab of  *)
(* the dashboard and of the portal, the viewer, the signing screen, the page   *)
(* behind a signing link, and the routes of /api/documents and /api/files.     *)
(* The project has two clients; a document has at most one field, which either *)
(* of them or the staff may sign, and at most one signing link, the client's.  *)
EXTENDS Controls

Statuses == {"draft", "pending", "accepted", "declined", "signed", "voided", "expired"}
Document == [kind : {"document"}, status : Statuses, archived : BOOLEAN,
             wants    : {"nothing", "signature", "approval"},
             choices  : BOOLEAN,                           \* Document.options is set
             fields   : {"none", "sign", "select"},        \* the type of its field
             assigned : Clients \cup Staff \cup {"anyone"},   \* SignatureField.assignedTo
             signer   : Clients \cup Staff \cup {"nobody"},
             answers  : [Clients -> {"none", "accepted", "chosen", "declined"}],
             versions : BOOLEAN,                           \* an earlier version is kept
             late     : BOOLEAN,                           \* Document.expiresAt is past
             link     : {"none", "active", "lapsed", "revoked"}]

-----------------------------------------------------------------------------
(* The upload form of the dashboard.                                           *)

\* Signature and approval exclude each other, an attachment has neither and no
\* choices, and only a PDF can ask for a signature.
UploadForms ==
  {f \in [attachment : BOOLEAN, pdf : BOOLEAN, choices : BOOLEAN, notify : BOOLEAN,
          wants : {"nothing", "signature", "approval"}] :
     /\ f.attachment => f.wants = "nothing" /\ ~f.choices
     /\ f.wants = "signature" => f.pdf}

\* POST /api/documents checks the type of the file, and for a signature PDF.
CreateAccepts(f) == f.wants = "signature" => f.pdf

Created(f) == [kind |-> "document", status |-> "draft", archived |-> FALSE,
               wants |-> f.wants, choices |-> f.choices, fields |-> "none",
               assigned |-> "anyone", signer |-> "nobody", answers |-> [c \in Clients |-> "none"],
               versions |-> FALSE, late |-> FALSE, link |-> "none"]
NewDocuments == {Created(f) : f \in UploadForms}

-----------------------------------------------------------------------------
(* What the dashboard offers.                                                  *)

\* The signing screen sends a signature for a field it does not know signed: to
\* staff /signing-info names everybody's signed fields, to a client his own. The
\* value of a select field is never sent: it falls into the branch that waits
\* for a drawn image.
SigningInfoNames(v, d) == d.signer = v \/ (v \in Staff /\ d.signer # "nobody")
SigningSends(v, d) == d.fields = "sign" /\ v # "preview" /\ ~SigningInfoNames(v, d)

\* The placer saves at least one field of one of the field types.
PlacerForm == {"place sign", "place select"}

CardActions(v, d) ==
  When(d.status = "draft" /\ ~d.archived, {"send"})
  \cup When(d.fields # "none" /\ d.signer = "nobody" /\ ~d.archived /\ d.status # "draft"
              /\ SigningSends(v, d), {"sign"})
  \cup When(d.status = "signed", {"certificate"})
  \cup When(d.wants = "signature" /\ d.status = "draft" /\ ~d.archived, PlacerForm)

VoidForm == {"void"}
CardVersionActions(d) ==
  When(~d.archived /\ d.status \notin {"voided", "expired"}, {"version"})
  \cup When(d.status \in {"draft", "pending"} /\ ~d.archived, VoidForm)
  \cup When(~d.archived, {"delete"})

\* The list of earlier versions; an archived project keeps its button.
EarlierVersionActions(d) == When(d.versions /\ d.status \notin {"voided", "expired"}, {"restore"})

LinkActions(d) ==
  When(d.wants = "signature" /\ d.status # "draft",
       IF d.link = "active" THEN {"revoke"} ELSE {"link"})

\* The plain list below shows every file of the project, those of documents too.
EditFileForm == {"edit file"}
FileCardActions(archived) == When(~archived, EditFileForm \cup {"delete file"})

DashboardDocument(v, d) ==
  CardActions(v, d) \cup CardVersionActions(d) \cup EarlierVersionActions(d)
    \cup LinkActions(d) \cup (FileCardActions(d.archived) \ EditFileForm)

-----------------------------------------------------------------------------
(* What the portal and the signing link offer.                                 *)

Unanswered(c, d) == d.answers[c] = "none"
ReadOnly(d) == d.status \in {"voided", "expired"}

\* The card's buttons without choices ...
PortalApprovalActions(v, d) ==
  LET c == PreviewAs[v] IN
  When(~ReadOnly(d) /\ ~d.choices,
    When(d.wants = "approval" /\ Unanswered(c, d), {"accept", "decline"})
    \cup When(d.signer # c /\ SigningSends(v, d), {"sign"}))

\* ... with choices: once chosen only the choice is shown ...
PortalChoiceActions(v, d) ==
  LET c == PreviewAs[v] IN
  When(~ReadOnly(d) /\ d.choices /\ d.answers[c] # "chosen",
    {"choose"} \cup When(d.wants = "approval", {"accept", "decline"})
               \cup When(d.signer # c /\ SigningSends(v, d), {"sign"}))

\* ... and those of the full-screen viewer, which asks for no status.
DocumentViewerActions(v, d) ==
  When(d.wants = "approval" /\ Unanswered(PreviewAs[v], d), {"accept", "decline"})

PortalDocument(v, d) ==
  When(~d.archived,
    When(d.status # "draft",
      PortalApprovalActions(v, d) \cup PortalChoiceActions(v, d) \cup DocumentViewerActions(v, d)
        \cup When(d.status = "signed", {"certificate"}))
    \cup {"open file"})

\* portal/sign/[token]: the link is checked when the page opens. It lapses after thirty
\* days, and with the document's deadline.
LinkOpens(d) == d.link = "active" /\ d.status \notin {"voided", "expired", "draft"}
SignPage(d) == When(LinkOpens(d) /\ d.wants = "signature" /\ SigningSends("client", d), {"sign"})

DocumentOffers(v, d) ==
  CASE v \in Staff                  -> DashboardDocument(v, d)
    [] v \in Clients \cup {"preview"} -> PortalDocument(v, d)
    [] v = "guest"                  -> SignPage(d)
    [] OTHER                        -> {}

-----------------------------------------------------------------------------
(* What the API accepts.                                                       *)

\* The routes behind @Roles("owner", "admin"), and those any session may ask.
CreationRoutes  == {"create"}
SendingRoutes   == {"send", "void"}
EditingRoutes   == {"place sign", "place select", "version", "restore"}
AnsweringRoutes == {"sign", "accept", "decline", "choose"}
LinkRoutes      == {"link", "revoke"}
ReadingRoutes   == {"certificate"}
StaffRoutes     == CreationRoutes \cup SendingRoutes \cup EditingRoutes \cup LinkRoutes \cup {"delete"}
GuestRoutes     == {"sign"}
FileStaffRoutes == {"edit file", "delete file"}
FileReadRoutes  == {"open file"}

DocumentRouteOpen(v, op) ==
  /\ ~(PreviewRefuses(v) /\ op \notin ReadingRoutes \cup FileReadRoutes)
  /\ CASE op \in StaffRoutes \cup FileStaffRoutes -> v \in Staff
       [] v = "guest" -> op \in GuestRoutes
       [] OTHER -> v \in Sessions

\* The user a request acts for: a guest for the client the link was made for.
Signatory(v) == IF v = "guest" THEN "client" ELSE v

RespondBlocked == {"draft", "voided", "expired", "accepted", "declined", "signed"}
RespondAccepts(v, d) ==
  d.status \notin RespondBlocked /\ ~d.late /\ v \in Clients /\ d.wants = "approval"
Assigned(v, d) == d.assigned \in {"anyone", Signatory(v)}
SignAccepts(v, d) ==
  /\ d.wants = "signature" /\ d.status \notin {"draft", "voided", "expired", "signed"} /\ ~d.late
  /\ d.fields # "none" /\ d.signer # Signatory(v) /\ Assigned(v, d)
  /\ v \in Staff \cup Clients \/ (v = "guest" /\ LinkOpens(d))

LinkAccepts(op, d) == op = "revoke" => d.link \in {"active", "lapsed"}
CertificateAccepts(v, d) == d.status = "signed" /\ HasProjectAccess(v)

\* No control of the placer assigns a field to anybody; a caller without a screen can,
\* and the placer keeps it.
AssignOps == {"assign client", "assign other", "assign owner"}
Assignee(op) == CASE op = "assign client" -> "client" [] op = "assign other" -> "other"
                  [] OTHER -> "owner"

\* The deadline, set when the document is sent, and the thirty days of a link go by; the
\* hourly task then expires the document.
TimePasses(op, d) ==
  \/ op = "deadline" /\ d.status # "draft" /\ ~d.late
  \/ op = "lapse" /\ d.link = "active"
  \/ op = "expire" /\ d.status = "pending" /\ d.late

DocumentAccepts(v, op, d) ==
  \/ v = "cron" /\ TimePasses(op, d)
  \/ v = "agent" /\ op \in AssignOps /\ d.status = "draft" /\ d.fields # "none"
  \/ /\ v \in Viewers /\ DocumentRouteOpen(v, op)
     /\ CASE op = "send" -> d.status = "draft" /\ (d.wants = "signature" => d.fields # "none")
          [] op = "void" -> d.status \in {"draft", "pending"}
          [] op \in {"place sign", "place select"} -> d.status = "draft"
          [] op = "version" -> d.status \notin {"voided", "expired"}
          [] op = "restore" -> d.versions /\ d.status \notin {"voided", "expired"}
          [] op \in LinkRoutes -> LinkAccepts(op, d)
          [] op = "certificate" -> CertificateAccepts(v, d)
          [] op = "sign" -> SignAccepts(v, d)
          [] op \in {"accept", "decline", "choose"} -> RespondAccepts(v, d)
          [] op = "open file" -> HasProjectAccess(v)
          [] op \in {"delete", "delete file"} -> TRUE
          [] OTHER -> FALSE

\* The verdict of updateDocumentStatus() on the answers.
Answered(d, v, answer) ==
  LET answers == [d.answers EXCEPT ![v] = answer] IN
  [d EXCEPT !.answers = answers,
            !.status = IF \E c \in Clients : answers[c] = "declined" THEN "declined"
                       ELSE IF \A c \in Clients : answers[c] # "none" THEN "accepted"
                       ELSE d.status]

\* A new version of a sent document starts over, with the fields where they were.
NewVersion(d) ==
  IF d.status = "draft" THEN [d EXCEPT !.versions = TRUE]
  ELSE [d EXCEPT !.versions = TRUE, !.status = "pending", !.signer = "nobody",
                 !.answers = [c \in Clients |-> "none"]]

\* The placer saves the field it has loaded, or another without an assignee.
Placed(d, type) ==
  [d EXCEPT !.fields = type, !.assigned = IF d.fields = type THEN d.assigned ELSE "anyone"]

\* A link is given no longer than the deadline.
Linked(d) == [d EXCEPT !.link = IF d.late THEN "lapsed" ELSE "active"]
Overdue(d) == [d EXCEPT !.late = TRUE, !.link = IF d.link = "active" THEN "lapsed" ELSE d.link]

\* File rows take their documents with them: Document.file cascades.
DocumentAfter(v, op, d) ==
  CASE op = "send" -> [d EXCEPT !.status = "pending"]
    [] op = "void" -> [d EXCEPT !.status = "voided"]
    [] op = "expire" -> [d EXCEPT !.status = "expired"]
    [] op = "deadline" -> Overdue(d)
    [] op = "lapse" -> [d EXCEPT !.link = "lapsed"]
    [] op \in AssignOps -> [d EXCEPT !.assigned = Assignee(op)]
    [] op = "place sign" -> Placed(d, "sign")
    [] op = "place select" -> Placed(d, "select")
    [] op \in {"version", "restore"} -> NewVersion(d)
    [] op = "link" -> Linked(d)
    [] op = "revoke" -> [d EXCEPT !.link = "revoked"]
    [] op = "sign" -> [d EXCEPT !.signer = Signatory(v), !.status = "signed"]
    [] op = "accept" -> Answered(d, v, "accepted")
    [] op = "choose" -> Answered(d, v, "chosen")
    [] op = "decline" -> Answered(d, v, "declined")
    [] op \in {"delete", "delete file"} -> Gone
    [] OTHER -> d
DocumentOps == StaffRoutes \cup AnsweringRoutes \cup ReadingRoutes \cup FileReadRoutes
                 \cup {"delete file", "expire"}
-----------------------------------------------------------------------------
(* A plain file or link; an uploaded invoice keeps its file here as well.      *)

File == [kind : {"file"}, link : BOOLEAN, billed : BOOLEAN, archived : BOOLEAN]
NewFiles == {f \in File : ~f.archived /\ ~(f.link /\ f.billed)}

PortalFile(f) == When(~f.archived, {"open file"})
FileOffers(v, f) ==
  CASE v \in Staff -> FileCardActions(f.archived) \cup {"open file"}
    [] v \in Clients \cup {"preview"} -> PortalFile(f)
    [] OTHER -> {}

\* FilesService.remove() keeps the file of an invoice.
FileAccepts(v, op, f) ==
  /\ v \in Viewers /\ DocumentRouteOpen(v, op)
  /\ CASE op = "delete file" -> ~f.billed
       [] op = "edit file" -> TRUE
       [] op = "open file" -> HasProjectAccess(v)
       [] OTHER -> FALSE
FileAfter(op, f) == IF op = "delete file" THEN Gone ELSE f
FileOps == FileStaffRoutes \cup FileReadRoutes

-----------------------------------------------------------------------------
(* Where the screens and the API disagree.                                     *)

\* Offered on an up-to-date screen and refused: signing a document that is over,
\* or that somebody else has finished (a client is told of his own signature
\* only), or a field assigned to another; sending a document whose field is not
\* placed yet; a choice nobody has to approve; an answer once the document is
\* settled; an answer or a signature after the deadline, until the hourly task
\* takes the buttons away.
DocumentRefusals(v, d) ==
  When(d.status \in {"voided", "expired", "signed"} \/ d.late \/ ~Assigned(v, d), {"sign"})
  \cup When(d.wants = "signature" /\ d.fields = "none", {"send"})
  \cup When(d.wants # "approval", {"choose"})
  \cup When(d.status \in RespondBlocked \/ d.late, {"accept", "decline", "choose"})
FileRefusals(f) == When(f.billed, {"delete file"})

\* Kept by the screens only, so that one opened earlier gets around them: an
\* archived project is read-only and hidden from its clients, a client answers
\* once, a client has one active link, one that has lapsed is not revoked.
DocumentScreenRules(v, d) ==
  When(d.archived, DocumentOps)
  \cup When(v \in Clients /\ ~Unanswered(v, d), {"accept", "decline", "choose"})
  \cup When(d.link = "active", {"link"}) \cup When(d.link = "lapsed", {"revoke"})
FileScreenRules(f) == When(f.archived, FileOps)

FileKinds == {"document", "file"}
StorageOffers(v, r)  == IF r.kind = "file" THEN FileOffers(v, r) ELSE DocumentOffers(v, r)
StorageAccepts(v, op, r) == IF r.kind = "file" THEN FileAccepts(v, op, r) ELSE DocumentAccepts(v, op, r)
StorageAfter(v, op, r) == IF r.kind = "file" THEN FileAfter(op, r) ELSE DocumentAfter(v, op, r)
StorageRefusals(v, r) == IF r.kind = "file" THEN FileRefusals(r) ELSE DocumentRefusals(v, r)
StorageScreenRules(v, r) == IF r.kind = "file" THEN FileScreenRules(r) ELSE DocumentScreenRules(v, r)

\* The banner over the client's tabs counts these as "need your attention".
PendingActions(c, d) == ~d.archived /\ d.status = "pending" /\ Unanswered(c, d) /\ d.signer # c

\* Promised and not kept ("Filter out drafts for clients", documents.service.ts:
\* 243): nothing of a draft is on a client's screen. Its file is in the list.
DraftsStayHidden(d) == d.status = "draft" => \A v \in Clients : DocumentOffers(v, d) = {}

\* Not kept either: whatever the banner counts can be answered or signed on the
\* client's screen. A document that asks for nothing, or with a select field or one of
\* somebody else's, cannot, nor can one past its deadline.
AttentionCanBeGiven(d) ==
  \A c \in Clients : PendingActions(c, d) =>
     \E op \in AnsweringRoutes : op \in DocumentOffers(c, d) /\ DocumentAccepts(c, op, d)
=============================================================================
