----------------------- MODULE DocumentSigning_proofs -----------------------
(***************************************************************************)
(* Proofs about DocumentSigning, for any number of clients, fields,        *)
(* requests in flight and versions.                                        *)
(***************************************************************************)
EXTENDS DocumentSigning, FiniteSetTheorems, TLAPS

USE ConstantsAssumption

\* updateDocumentStatus() writes one of three statuses, or nothing.
LEMMA VerdictRange == Verdict \in {None, "declined", "signed"}
BY Zenon DEF Verdict

\* One more mark signs one more field.
LEMMA SignedFieldsAdd ==
  ASSUME NEW marks, NEW u, NEW f
  PROVE  SignedFields(marks \cup {<<u, f>>}) = SignedFields(marks) \cup {f}
<1>1. <<u, f>>[2] = f
  OBVIOUS
<1>2. \A x : x \in SignedFields(marks \cup {<<u, f>>}) <=>
              x \in SignedFields(marks) \/ x = <<u, f>>[2]
  BY Zenon DEF SignedFields
<1> QED BY <1>1, <1>2

\* The initial state satisfies the inductive invariant.
LEMMA InitIInv == Init => IInv
<1> SUFFICES ASSUME Init PROVE IInv
  OBVIOUS
<1>1. TypeOK
  <2>1. version \in 1..MaxVersion /\ lastRow \in 0..MaxRows /\ blob \in Pdf
    BY DEF Init, Pdf, NoPdf
  <2>2. page \in [Workers -> Pdf] /\ row \in [Workers -> 0..MaxRows]
    BY DEF Init, Pdf, NoPdf
  <2>3. pc \in [Workers -> Pc] /\ \A w \in Workers : pc[w] \in SignPc <=> lock = w
    BY DEF Init, Pc, SignPc
  <2>4. /\ who \in [Workers -> Users \cup {None}]
        /\ target \in [Workers -> Field \cup {None}]
        /\ verdict \in [Workers -> Status \cup {None}]
        /\ lock \in Workers \cup {None}
    BY DEF Init
  <2>5. IsFiniteSet(signed) /\ IsFiniteSet(answers)
    BY FS_EmptySet DEF Init
  <2>6. tally \in [Workers -> Nat] /\ cronPc \in {"idle", "write"}
    BY DEF Init
  <2> QED
    BY <2>1, <2>2, <2>3, <2>4, <2>5, <2>6 DEF Init, TypeOK, Status
<1>2. DraftIsBlank /\ SigningOrderKept /\ SignaturesHaveRows
  BY DEF Init, DraftIsBlank, SigningOrderKept, SignaturesHaveRows, SignedFields
<1>3. RequestsSane /\ SignerKnowsDocument
  BY DEF Init, RequestsSane, SignerKnowsDocument, SignPc
<1> QED BY <1>1, <1>2, <1>3 DEF IInv

----------------------------------------------------------------------------
(* TypeOK is preserved, one step per action. *)

\* A response more, or another in the place of one, and there are still finitely many.
LEMMA StillFinite ==
  ASSUME NEW S, IsFiniteSet(S), NEW a, NEW b
  PROVE  IsFiniteSet(S \cup {b}) /\ IsFiniteSet((S \ {a}) \cup {b})
<1>1. IsFiniteSet(S \ {a})
  BY FS_RemoveElement
<1> QED BY <1>1, FS_AddElement

LEMMA OvertakenWorkers == Overtaken \subseteq Workers
BY DEF Overtaken

\* What a new version of the file changes.
LEMMA ReplaceFileEffect ==
  ASSUME ReplaceFile
  PROVE  /\ version < MaxVersion /\ version' = version + 1
         /\ deleting' \in {deleting, deleting \cup {version}}
         /\ signedFile' = FALSE /\ stray' = FALSE /\ misled' = misled \cup Overtaken
         /\ status' \in {status, "pending"}
         /\ signed' \in {signed, {}} /\ answers' \in {answers, {}}
         /\ UNCHANGED <<kind, fields, usedFields, expiry, assigned, lastRow, overlap, blob>>
         /\ UNCHANGED <<lock, pc, memory, cronPc>>
BY DEF ReplaceFile

LEMMA ReplaceFileVersion ==
  ASSUME ReplaceFile, version \in 1..MaxVersion, deleting \in SUBSET (1..MaxVersion)
  PROVE  version' \in 1..MaxVersion /\ deleting' \in SUBSET (1..MaxVersion)
<1>1. version' \in 1..MaxVersion
  BY ReplaceFileEffect
<1>2. deleting' \in SUBSET (1..MaxVersion)
  BY ReplaceFileEffect
<1> QED BY <1>1, <1>2

LEMMA ReplaceFileFinite ==
  ASSUME ReplaceFile, IsFiniteSet(signed), IsFiniteSet(answers)
  PROVE  IsFiniteSet(signed') /\ IsFiniteSet(answers')
<1>1. signed' = signed \/ signed' = {}
  BY ReplaceFileEffect
<1>2. answers' = answers \/ answers' = {}
  BY ReplaceFileEffect
<1> QED BY <1>1, <1>2, FS_EmptySet

LEMMA NextTypeOK == ASSUME TypeOK, RequestsSane, SignerKnowsDocument, [Next]_vars PROVE TypeOK'
<1> USE DEF TypeOK, Goto, SignPc, Pc
<1>1. ASSUME NEW w \in Workers, SendRead(w) \/ VoidRead(w) \/ FieldsRead(w) PROVE TypeOK'
  <2>1. CASE SendRead(w)
    BY <2>1 DEF SendRead, docVars, respVars, pdfVars, locals, memory
  <2>2. CASE VoidRead(w)
    BY <2>2 DEF VoidRead, docVars, respVars, pdfVars, locals, memory
  <2>3. CASE FieldsRead(w)
    BY <2>3 DEF FieldsRead, docVars, respVars, pdfVars, locals, memory
  <2> QED BY <1>1, <2>1, <2>2, <2>3
<1>2. ASSUME NEW w \in Workers, NEW u \in Users, RespondRead(w, u) PROVE TypeOK'
  BY <1>2 DEF RespondRead, docVars, respVars, pdfVars
<1>3. ASSUME NEW w \in Workers, NEW u \in Users, NEW f \in Field, SignBegin(w, u, f) PROVE TypeOK'
  <2>1. page' \in [Workers -> Pdf]
    BY <1>3 DEF SignBegin, Pdf, Signature
  <2>2. QED
    BY <1>3, <2>1 DEF SignBegin, Unlocked, docVars, respVars, pdfVars
<1>4. ASSUME NEW w \in Workers, SendWrite(w) PROVE TypeOK'
  BY <1>4 DEF SendWrite, respVars, pdfVars, locals, memory, Status
<1>5. ASSUME NEW w \in Workers, VoidWrite(w) PROVE TypeOK'
  BY <1>5 DEF VoidWrite, respVars, pdfVars, locals, memory, Status
<1>6. ASSUME NEW w \in Workers, FieldsWrite(w) PROVE TypeOK'
  BY <1>6 DEF FieldsWrite, respVars, pdfVars, locals, memory
<1>7. ASSUME NEW w \in Workers, RespondFind(w) PROVE TypeOK'
  <2>1. overlap' \in SUBSET Users
    BY <1>7 DEF RespondFind, RequestsSane
  <2>2. row' \in [Workers -> 0..MaxRows]
    BY <1>7 DEF RespondFind, Answer
  <2>3. /\ pc' \in [Workers -> Pc]
        /\ \A x \in Workers : pc'[x] \in SignPc <=> pc[x] \in SignPc
    BY <1>7 DEF RespondFind
  <2>4. /\ UNCHANGED <<docVars, assigned, signed, answers, lastRow, pdfVars, lock, who>>
        /\ UNCHANGED <<target, page, tally, verdict, misled, cronPc>>
    BY <1>7 DEF RespondFind
  <2> QED BY <2>1, <2>2, <2>3, <2>4 DEF docVars, pdfVars
<1>8. ASSUME NEW w \in Workers, RespondCreate(w) PROVE TypeOK'
  <2>1. lastRow' \in 0..MaxRows /\ answers' \in SUBSET Answer
    BY <1>8 DEF RespondCreate, Answer, RequestsSane
  <2>2. IsFiniteSet(answers')
    <3>1. PICK act \in {"accepted", "declined"} :
            answers' = answers \cup {[row |-> lastRow + 1, user |-> who[w], action |-> act]}
      BY <1>8 DEF RespondCreate
    <3> QED BY <3>1, StillFinite
  <2>3. /\ misled' \in SUBSET Workers /\ pc' \in [Workers -> Pc]
        /\ \A x \in Workers : pc'[x] \in SignPc <=> pc[x] \in SignPc
    BY <1>8, OvertakenWorkers DEF RespondCreate
  <2>4. UNCHANGED <<docVars, assigned, signed, overlap, pdfVars, lock, memory, cronPc>>
    BY <1>8 DEF RespondCreate
  <2> QED BY <2>1, <2>2, <2>3, <2>4 DEF docVars, pdfVars, memory
<1>9. ASSUME NEW w \in Workers, RespondUpdate(w) PROVE TypeOK'
  <2>1. answers' \in SUBSET Answer
    BY <1>9 DEF RespondUpdate, Answer
  <2>2. IsFiniteSet(answers')
    <3>1. PICK a \in answers, act \in {"accepted", "declined"} :
            answers' = (answers \ {a}) \cup {[a EXCEPT !.action = act]}
      BY <1>9 DEF RespondUpdate
    <3> QED BY <3>1, StillFinite
  <2>3. /\ misled' \in SUBSET Workers /\ pc' \in [Workers -> Pc]
        /\ \A x \in Workers : pc'[x] \in SignPc <=> pc[x] \in SignPc
    BY <1>9, OvertakenWorkers DEF RespondUpdate
  <2>4. UNCHANGED <<docVars, assigned, signed, lastRow, overlap, pdfVars, lock, memory, cronPc>>
    BY <1>9 DEF RespondUpdate
  <2> QED BY <2>1, <2>2, <2>3, <2>4 DEF docVars, pdfVars, memory
<1>10. ASSUME NEW w \in Workers, RespondLost(w) PROVE TypeOK'
  BY <1>10 DEF RespondLost, docVars, respVars, pdfVars, Forget, Pdf, NoPdf
<1>11. ASSUME NEW w \in Workers, RecomputeRead(w) PROVE TypeOK'
  BY <1>11, VerdictRange DEF RecomputeRead, docVars, respVars, pdfVars, Status
<1>12. ASSUME NEW w \in Workers, RecomputeSkip(w) PROVE TypeOK'
  BY <1>12 DEF RecomputeSkip, docVars, respVars, pdfVars, Forget, Pdf, NoPdf
<1>13. ASSUME NEW w \in Workers, RecomputeWrite(w) PROVE TypeOK'
  BY <1>13 DEF RecomputeWrite, respVars, pdfVars, Forget, Pdf, NoPdf, RequestsSane, Status
<1>14. ASSUME NEW w \in Workers, SignUpload(w) PROVE TypeOK'
  BY <1>14 DEF SignUpload, docVars, respVars, locals, memory
<1>15. ASSUME NEW w \in Workers, SignCommit(w) PROVE TypeOK'
  <2>1. signed' \in SUBSET Signature
    BY <1>15 DEF SignCommit, SignerKnowsDocument, Signature
  <2>2. IsFiniteSet(signed')
    <3>1. signed' = signed \cup {<<who[w], target[w]>>}
      BY <1>15 DEF SignCommit
    <3> QED BY <3>1, StillFinite
  <2> QED BY <1>15, <2>1, <2>2 DEF SignCommit, docVars, locals, memory
<1>16. ASSUME NEW w \in Workers, SignTimeout(w) PROVE TypeOK'
  BY <1>16 DEF SignTimeout, docVars, respVars, pdfVars, locals, memory
<1>17. ASSUME NEW w \in Workers, LateUpload(w) PROVE TypeOK'
  BY <1>17 DEF LateUpload, docVars, respVars, Forget, Pdf, NoPdf
<1>18. ASSUME NEW w \in Workers, Crash(w) PROVE TypeOK'
  BY <1>18 DEF Crash, docVars, respVars, pdfVars, Forget, Pdf, NoPdf
<1>19. ASSUME UploadVersion \/ RestoreVersion PROVE TypeOK'
  <2>1. ReplaceFile
    BY <1>19 DEF UploadVersion, RestoreVersion
  <2>2. version' \in 1..MaxVersion /\ deleting' \in SUBSET (1..MaxVersion)
    BY <2>1, ReplaceFileVersion
  <2>3. status' \in Status /\ signed' \in SUBSET Signature /\ answers' \in SUBSET Answer
    BY <2>1, ReplaceFileEffect DEF Status
  <2>4. IsFiniteSet(signed') /\ IsFiniteSet(answers')
    BY <2>1, ReplaceFileFinite
  <2>5. misled' \in SUBSET Workers
    BY <2>1, ReplaceFileEffect, OvertakenWorkers
  <2>6. signedFile' \in BOOLEAN /\ stray' \in BOOLEAN
    BY <2>1, ReplaceFileEffect
  <2>7. /\ UNCHANGED <<kind, fields, usedFields, expiry, assigned, lastRow, overlap, blob>>
        /\ UNCHANGED <<lock, pc, memory, cronPc>>
    BY <2>1, ReplaceFileEffect
  <2> QED
    BY <2>2, <2>3, <2>4, <2>5, <2>6, <2>7 DEF memory
<1>20. ASSUME NEW v \in deleting, DeleteOrphan(v) PROVE TypeOK'
  BY <1>20 DEF DeleteOrphan, docVars, respVars, workVars, Pdf, NoPdf
<1>21. ASSUME ExpireFind \/ ExpireWrite PROVE TypeOK'
  <2>1. CASE ExpireFind
    BY <2>1 DEF ExpireFind, docVars, respVars, pdfVars, workVars
  <2>2. CASE ExpireWrite
    <3>1. status' \in Status
      BY <2>2 DEF ExpireWrite, Status
    <3> QED BY <2>2, <3>1 DEF ExpireWrite, respVars, pdfVars, workVars
  <2> QED BY <1>21, <2>1, <2>2
<1>22. ASSUME Tick \/ AssignClients PROVE TypeOK'
  <2>1. CASE Tick
    BY <2>1 DEF Tick, respVars, pdfVars, workVars
  <2>2. CASE AssignClients
    BY <2>2, OvertakenWorkers DEF AssignClients, docVars, pdfVars, memory
  <2> QED BY <1>22, <2>1, <2>2
<1>23. CASE UNCHANGED vars
  BY <1>23 DEF vars, docVars, respVars, pdfVars, workVars
<1>24. ASSUME NEW w \in Workers, RespondCheck(w) \/ RespondRefused(w) PROVE TypeOK'
  <2>1. CASE RespondCheck(w)
    BY <2>1 DEF RespondCheck, docVars, respVars, pdfVars, locals, memory
  <2>2. CASE RespondRefused(w)
    BY <2>2 DEF RespondRefused, docVars, respVars, pdfVars, Forget, Pdf, NoPdf
  <2> QED BY <1>24, <2>1, <2>2
<1>25. ASSUME NEW w \in Workers, RecomputeTally(w) PROVE TypeOK'
  <2>1. tally' \in [Workers -> Nat]
    BY <1>25, FS_CardinalityType DEF RecomputeTally
  <2> QED BY <1>25, <2>1 DEF RecomputeTally, docVars, respVars, pdfVars
<1>26. ASSUME NEW w \in Workers, RecomputeCount(w) \/ RecomputeShort(w) PROVE TypeOK'
  <2>1. CASE RecomputeCount(w)
    BY <2>1 DEF RecomputeCount, docVars, respVars, pdfVars, Status
  <2>2. CASE RecomputeShort(w)
    BY <2>2 DEF RecomputeShort, docVars, respVars, pdfVars, Forget, Pdf, NoPdf
  <2> QED BY <1>26, <2>1, <2>2
<1> QED
  BY <1>1, <1>2, <1>3, <1>4, <1>5, <1>6, <1>7, <1>8, <1>9, <1>10, <1>11, <1>12,
     <1>13, <1>14, <1>15, <1>16, <1>17, <1>18, <1>19, <1>20, <1>21, <1>22, <1>23, <1>24,
     <1>25, <1>26
     DEF Next, Begin, Continue

----------------------------------------------------------------------------
(* The rest of the invariant is preserved, one step per action. *)

Rest == DraftIsBlank /\ SigningOrderKept /\ RequestsSane /\ SignerKnowsDocument
          /\ SignaturesHaveRows

LEMMA NextRest == ASSUME IInv, [Next]_vars PROVE Rest'
<1>a. ASSUME NEW w \in Workers, signed' = signed \cup {<<who[w], target[w]>>}
      PROVE  SignedFields(signed') = SignedFields(signed) \cup {target[w]}
  BY <1>a, SignedFieldsAdd
<1> USE DEF IInv, TypeOK, Rest, Goto, SignPc, docVars, respVars, pdfVars, workVars, locals, memory
<1> USE DEF DraftIsBlank, SigningOrderKept, RequestsSane, SignerKnowsDocument,
            SignaturesHaveRows, InTurn, Prior, SignedFields
<1>1. ASSUME NEW w \in Workers, SendRead(w) PROVE Rest'
  BY <1>1 DEF SendRead
<1>2. ASSUME NEW w \in Workers, VoidRead(w) PROVE Rest'
  BY <1>2 DEF VoidRead
<1>3. ASSUME NEW w \in Workers, FieldsRead(w) PROVE Rest'
  BY <1>3 DEF FieldsRead
<1>4. ASSUME NEW w \in Workers, NEW u \in Users, RespondRead(w, u) PROVE Rest'
  BY <1>4 DEF RespondRead, RespondBlocked, SignBlocked
<1>5. ASSUME NEW w \in Workers, NEW u \in Users, NEW f \in Field, SignBegin(w, u, f) PROVE Rest'
  <2>1. DraftIsBlank' /\ SigningOrderKept' /\ SignaturesHaveRows'
    BY <1>5 DEF SignBegin
  <2>2. RequestsSane'
    BY <1>5 DEF SignBegin
  <2>3. ASSUME NEW x \in Workers, pc'[x] \in SignPc PROVE x = w
    BY <1>5, <2>3 DEF SignBegin, Unlocked
  <2>4. SignerKnowsDocument'
    BY <1>5, <2>3 DEF SignBegin, MaySign
  <2> QED BY <2>1, <2>2, <2>4
<1>6. ASSUME NEW w \in Workers, SendWrite(w) PROVE Rest'
  BY <1>6 DEF SendWrite, Unlocked
<1>7. ASSUME NEW w \in Workers, VoidWrite(w) PROVE Rest'
  BY <1>7 DEF VoidWrite, Unlocked
<1>8. ASSUME NEW w \in Workers, FieldsWrite(w) PROVE Rest'
  BY <1>8 DEF FieldsWrite, Unlocked
<1>9. ASSUME NEW w \in Workers, RespondFind(w) PROVE Rest'
  BY <1>9 DEF RespondFind
<1>10. ASSUME NEW w \in Workers, RespondCreate(w) PROVE Rest'
  BY <1>10 DEF RespondCreate
<1>11. ASSUME NEW w \in Workers, RespondUpdate(w) PROVE Rest'
  BY <1>11 DEF RespondUpdate
<1>12. ASSUME NEW w \in Workers, RespondLost(w) PROVE Rest'
  BY <1>12 DEF RespondLost, Forget
<1>13. ASSUME NEW w \in Workers, RecomputeRead(w) PROVE Rest'
  BY <1>13, VerdictRange DEF RecomputeRead
<1>14. ASSUME NEW w \in Workers, RecomputeSkip(w) PROVE Rest'
  BY <1>14 DEF RecomputeSkip, Forget
<1>15. ASSUME NEW w \in Workers, RecomputeWrite(w) PROVE Rest'
  BY <1>15 DEF RecomputeWrite, Forget, Unlocked
<1>16. ASSUME NEW w \in Workers, SignUpload(w) PROVE Rest'
  BY <1>16 DEF SignUpload
<1>17. ASSUME NEW w \in Workers, SignCommit(w) PROVE Rest'
  <2>1. /\ lock = w /\ lock' = None /\ fields' = fields /\ kind' = kind
        /\ signed' = signed \cup {<<who[w], target[w]>>}
    BY <1>17 DEF SignCommit
  <2>2. SignedFields(signed') = SignedFields(signed) \cup {target[w]}
    BY <2>1, <1>a
  <2>3. DraftIsBlank' /\ RequestsSane'
    BY <1>17 DEF SignCommit, SignBlocked
  <2>4. SignerKnowsDocument'
    BY <1>17 DEF SignCommit
  <2>5. target[w] \in fields => InTurn(target[w])
    BY <2>1
  <2>6. SigningOrderKept'
    BY <2>1, <2>2, <2>5
  <2>7. SignaturesHaveRows'
    BY <1>17, <2>2 DEF SignCommit
  <2> QED BY <2>3, <2>4, <2>6, <2>7
<1>18. ASSUME NEW w \in Workers, SignTimeout(w) PROVE Rest'
  BY <1>18 DEF SignTimeout
<1>19. ASSUME NEW w \in Workers, LateUpload(w) PROVE Rest'
  BY <1>19 DEF LateUpload, Forget
<1>20. ASSUME NEW w \in Workers, Crash(w) PROVE Rest'
  BY <1>20 DEF Crash, Forget
<1>21. ASSUME ReplaceFile PROVE Rest'
  BY <1>21 DEF ReplaceFile, Unlocked
<1>22. ASSUME NEW v \in deleting, DeleteOrphan(v) PROVE Rest'
  BY <1>22 DEF DeleteOrphan
<1>23. ASSUME ExpireFind PROVE Rest'
  BY <1>23 DEF ExpireFind
<1>24. ASSUME ExpireWrite PROVE Rest'
  BY <1>24 DEF ExpireWrite, Unlocked
<1>25. ASSUME Tick PROVE Rest'
  BY <1>25 DEF Tick
<1>26. ASSUME AssignClients PROVE Rest'
  BY <1>26 DEF AssignClients
<1>27. CASE UNCHANGED vars
  BY <1>27 DEF vars
<1>28. ASSUME NEW w \in Workers, RespondCheck(w) PROVE Rest'
  BY <1>28 DEF RespondCheck
<1>29. ASSUME NEW w \in Workers, RespondRefused(w) PROVE Rest'
  BY <1>29 DEF RespondRefused, Forget
<1>30. ASSUME NEW w \in Workers, RecomputeTally(w) PROVE Rest'
  BY <1>30 DEF RecomputeTally
<1>31. ASSUME NEW w \in Workers, RecomputeCount(w) PROVE Rest'
  BY <1>31 DEF RecomputeCount
<1>32. ASSUME NEW w \in Workers, RecomputeShort(w) PROVE Rest'
  BY <1>32 DEF RecomputeShort, Forget
<1> QED
  BY <1>1, <1>2, <1>3, <1>4, <1>5, <1>6, <1>7, <1>8, <1>9, <1>10, <1>11, <1>12, <1>13,
     <1>14, <1>15, <1>16, <1>17, <1>18, <1>19, <1>20, <1>21, <1>22, <1>23, <1>24, <1>25,
     <1>26, <1>27,
     <1>28, <1>29, <1>30, <1>31, <1>32
     DEF Next, Begin, Continue, UploadVersion, RestoreVersion

\* The inductive invariant holds in every reachable state.
LEMMA InductiveInvariant == Spec => []IInv
<1>1. IInv /\ [Next]_vars => IInv'
  BY NextTypeOK, NextRest DEF IInv, Rest
<1> QED
  BY InitIInv, <1>1, PTL DEF Spec

\* Every reachable state is well typed, and the row lock is held exactly by
\* the request whose signing transaction is open.
THEOREM TypeCorrect == Spec => []TypeOK
BY InductiveInvariant, PTL DEF IInv

\* uploadVersion() may keep the responses of a draft: it never has any.
THEOREM DraftsAreBlank == Spec => []DraftIsBlank
BY InductiveInvariant, PTL DEF IInv

\* No interleaving of signers, versions and field edits lets a field be signed
\* before the fields of a lower order.
THEOREM OrderIsKept == Spec => []SigningOrderKept
BY InductiveInvariant, PTL DEF IInv

----------------------------------------------------------------------------
(* Signatures are recorded only on open documents. *)

\* Only the commit of sign() adds a signature.
LEMMA OnlyCommitSigns ==
  ASSUME [Next]_vars, ~(signed' \subseteq signed)
  PROVE  \E w \in Workers : SignCommit(w)
<1> USE DEF docVars, respVars, pdfVars, workVars
<1>1. ASSUME NEW w \in Workers, Begin(w) PROVE signed' = signed
  BY <1>1 DEF Begin, SendRead, VoidRead, FieldsRead, RespondRead, SignBegin
<1>2. ASSUME NEW w \in Workers, Continue(w), ~SignCommit(w) PROVE signed' = signed
  BY <1>2 DEF Continue, SendWrite, VoidWrite, FieldsWrite, RespondCheck, RespondRefused, RespondFind,
              RespondCreate, RespondUpdate, RespondLost, RecomputeRead, RecomputeTally,
              RecomputeSkip, RecomputeCount, RecomputeShort, RecomputeWrite, SignUpload, SignTimeout, LateUpload
<1>3. ASSUME NEW w \in Workers, Crash(w) PROVE signed' = signed
  BY <1>3 DEF Crash
<1>4. ASSUME UploadVersion \/ RestoreVersion PROVE signed' \subseteq signed
  BY <1>4 DEF UploadVersion, RestoreVersion, ReplaceFile
<1>5. ASSUME NEW v \in deleting, DeleteOrphan(v) PROVE signed' = signed
  BY <1>5 DEF DeleteOrphan
<1>6. ASSUME ExpireFind \/ ExpireWrite \/ Tick \/ AssignClients PROVE signed' = signed
  BY <1>6 DEF ExpireFind, ExpireWrite, Tick, AssignClients
<1>7. ASSUME UNCHANGED vars PROVE signed' = signed
  BY <1>7 DEF vars
<1> QED
  BY <1>1, <1>2, <1>3, <1>4, <1>5, <1>6, <1>7 DEF Next

\* The status sign() checked under the lock is still open when it commits.
THEOREM SignaturesOnlyWhileOpen == Spec => SignedOnlyWhileOpen
<1>1. IInv /\ [Next]_vars => [signed' \subseteq signed \/ status \notin SignBlocked]_vars
  <2> SUFFICES ASSUME IInv, [Next]_vars, ~(signed' \subseteq signed)
               PROVE  status \notin SignBlocked
    OBVIOUS
  <2>1. PICK w \in Workers : SignCommit(w)
    BY OnlyCommitSigns
  <2> QED
    BY <2>1 DEF SignCommit, Goto, SignPc, IInv, SignerKnowsDocument
<1> QED
  BY InductiveInvariant, <1>1, PTL DEF Spec, SignedOnlyWhileOpen

----------------------------------------------------------------------------
(* No signature is lost, unless a late upload comes over a later signer's PDF. *)

LEMMA NextPdfInv == ASSUME IInv, PdfInv, [Next]_vars PROVE PdfInv'
<1> USE DEF IInv, TypeOK, PdfInv, NoSignatureLost, SignerKnowsPage, Goto, SignPc,
            docVars, respVars, pdfVars, workVars, locals, memory
<1>1. ASSUME NEW w \in Workers, SendRead(w) PROVE PdfInv'
  BY <1>1 DEF SendRead
<1>2. ASSUME NEW w \in Workers, VoidRead(w) PROVE PdfInv'
  BY <1>2 DEF VoidRead
<1>3. ASSUME NEW w \in Workers, FieldsRead(w) PROVE PdfInv'
  BY <1>3 DEF FieldsRead
<1>4. ASSUME NEW w \in Workers, NEW u \in Users, RespondRead(w, u) PROVE PdfInv'
  BY <1>4 DEF RespondRead
<1>5. ASSUME NEW w \in Workers, NEW u \in Users, NEW f \in Field, SignBegin(w, u, f) PROVE PdfInv'
  <2> DEFINE source == IF signedFile THEN blob ELSE [base |-> version, ink |-> {}]
  <2>1. ~(stray /\ signedFile) => source.base = version /\ signed \subseteq source.ink
    BY <1>5 DEF SignBegin, SignaturesHaveRows
  <2>2. page'[w] = [base |-> source.base, ink |-> source.ink \cup {<<u, f>>}]
    BY <1>5 DEF SignBegin
  <2>3. who'[w] = u /\ target'[w] = f /\ signed' = signed /\ version' = version
    BY <1>5 DEF SignBegin
  <2>4. \A x \in Workers : pc'[x] \in SignPc => x = w /\ pc'[x] = "signUpload"
    BY <1>5 DEF SignBegin, Unlocked
  <2> HIDE DEF source
  <2>5. ~(stray /\ signedFile) =>
          page'[w].base = version' /\ signed' \cup {<<who'[w], target'[w]>>} \subseteq page'[w].ink
    BY <2>1, <2>2, <2>3
  <2>6. SignerKnowsPage'
    BY <1>5, <2>4, <2>5 DEF SignBegin
  <2> QED
    BY <1>5, <2>6 DEF SignBegin
<1>6. ASSUME NEW w \in Workers, SendWrite(w) PROVE PdfInv'
  BY <1>6 DEF SendWrite
<1>7. ASSUME NEW w \in Workers, VoidWrite(w) PROVE PdfInv'
  BY <1>7 DEF VoidWrite
<1>8. ASSUME NEW w \in Workers, FieldsWrite(w) PROVE PdfInv'
  BY <1>8 DEF FieldsWrite
<1>9. ASSUME NEW w \in Workers, RespondFind(w) PROVE PdfInv'
  BY <1>9 DEF RespondFind
<1>10. ASSUME NEW w \in Workers, RespondCreate(w) PROVE PdfInv'
  BY <1>10 DEF RespondCreate
<1>11. ASSUME NEW w \in Workers, RespondUpdate(w) PROVE PdfInv'
  BY <1>11 DEF RespondUpdate
<1>12. ASSUME NEW w \in Workers, RespondLost(w) PROVE PdfInv'
  BY <1>12 DEF RespondLost, Forget
<1>13. ASSUME NEW w \in Workers, RecomputeRead(w) PROVE PdfInv'
  BY <1>13 DEF RecomputeRead
<1>14. ASSUME NEW w \in Workers, RecomputeSkip(w) PROVE PdfInv'
  BY <1>14 DEF RecomputeSkip, Forget
<1>15. ASSUME NEW w \in Workers, RecomputeWrite(w) PROVE PdfInv'
  BY <1>15 DEF RecomputeWrite, Forget
<1>16. ASSUME NEW w \in Workers, SignUpload(w) PROVE PdfInv'
  BY <1>16 DEF SignUpload, Pdf
<1>17. ASSUME NEW w \in Workers, SignCommit(w) PROVE PdfInv'
  BY <1>17 DEF SignCommit
<1>18. ASSUME NEW w \in Workers, SignTimeout(w) PROVE PdfInv'
  BY <1>18 DEF SignTimeout
<1>19. ASSUME NEW w \in Workers, LateUpload(w) PROVE PdfInv'
  BY <1>19 DEF LateUpload, Forget
<1>20. ASSUME NEW w \in Workers, Crash(w) PROVE PdfInv'
  BY <1>20 DEF Crash, Forget
<1>21. ASSUME ReplaceFile PROVE PdfInv'
  BY <1>21 DEF ReplaceFile, Unlocked
<1>22. ASSUME NEW v \in deleting, DeleteOrphan(v) PROVE PdfInv'
  BY <1>22 DEF DeleteOrphan, NoPdf
<1>23. ASSUME ExpireFind PROVE PdfInv'
  BY <1>23 DEF ExpireFind
<1>24. ASSUME ExpireWrite PROVE PdfInv'
  BY <1>24 DEF ExpireWrite
<1>25. ASSUME Tick PROVE PdfInv'
  BY <1>25 DEF Tick
<1>26. ASSUME AssignClients PROVE PdfInv'
  BY <1>26 DEF AssignClients
<1>27. CASE UNCHANGED vars
  BY <1>27 DEF vars
<1>28. ASSUME NEW w \in Workers, RespondCheck(w) PROVE PdfInv'
  BY <1>28 DEF RespondCheck
<1>29. ASSUME NEW w \in Workers, RespondRefused(w) PROVE PdfInv'
  BY <1>29 DEF RespondRefused, Forget
<1>30. ASSUME NEW w \in Workers, RecomputeTally(w) PROVE PdfInv'
  BY <1>30 DEF RecomputeTally
<1>31. ASSUME NEW w \in Workers, RecomputeCount(w) PROVE PdfInv'
  BY <1>31 DEF RecomputeCount
<1>32. ASSUME NEW w \in Workers, RecomputeShort(w) PROVE PdfInv'
  BY <1>32 DEF RecomputeShort, Forget
<1> QED
  BY <1>1, <1>2, <1>3, <1>4, <1>5, <1>6, <1>7, <1>8, <1>9, <1>10, <1>11, <1>12, <1>13,
     <1>14, <1>15, <1>16, <1>17, <1>18, <1>19, <1>20, <1>21, <1>22, <1>23, <1>24, <1>25,
     <1>26, <1>27,
     <1>28, <1>29, <1>30, <1>31, <1>32
     DEF Next, Begin, Continue, UploadVersion, RestoreVersion

\* The stored signed PDF stamps the current file and shows every recorded
\* signature, unless an upload that outlived its transaction came over it.
THEOREM SignaturesSurvive == Spec => []NoSignatureLost
<1>1. Init => PdfInv
  BY DEF Init, PdfInv, NoSignatureLost, SignerKnowsPage, SignPc
<1>2. IInv /\ PdfInv /\ [Next]_vars => PdfInv'
  BY NextPdfInv
<1>3. PdfInv => NoSignatureLost
  BY DEF PdfInv
<1> QED
  BY InductiveInvariant, <1>1, <1>2, <1>3, PTL DEF Spec

----------------------------------------------------------------------------
(* A document is accepted by all its clients, but for the known exceptions. *)

\* As many rows as clients, all of them theirs and no two of one client: every
\* client has one.  This is what counting responses relies on.
LEMMA OneRowEach ==
  ASSUME NEW R, NEW C, IsFiniteSet(C),
         \A a \in R : a.user \in C,
         \A a, b \in R : a.user = b.user => a = b,
         Cardinality(R) >= Cardinality(C)
  PROVE  \A c \in C : \E a \in R : a.user = c
<1> DEFINE f == [a \in R |-> a.user]
<1>1. f \in Injection(R, C)
  BY DEF Injection, IsInjective
<1>2. IsFiniteSet(R) /\ Cardinality(R) <= Cardinality(C)
        /\ (Cardinality(R) = Cardinality(C) => f \in Surjection(R, C))
  BY <1>1, FS_Injection
<1>3. Cardinality(R) \in Nat /\ Cardinality(C) \in Nat
  BY <1>2, FS_CardinalityType
<1>4. f \in Surjection(R, C)
  BY <1>2, <1>3
<1> QED
  BY <1>4 DEF Surjection

\* As many answers as clients, each of a client and counted once, and none that
\* declines: every assigned client has accepted.
LEMMA EnoughIsAll ==
  ASSUME TypeOK, OneAnswerEach, AnswersCount, ~AnyDeclined,
         Cardinality(answers) >= Cardinality(assigned)
  PROVE  AllAccepted
<1>1. IsFiniteSet(assigned) /\ assigned \subseteq Users
  BY FS_Subset DEF TypeOK, Users
<1>2. \A a, b \in answers : a.user = b.user => a = b
  BY <1>1 DEF OneAnswerEach, AnswersCount
<1>3. \A c \in assigned : \E a \in answers : a.user = c
  BY <1>1, <1>2, OneRowEach DEF AnswersCount
<1>4. \A a \in answers : a.action = "accepted"
  BY DEF AnyDeclined, TypeOK, Answer
<1> QED BY <1>3, <1>4 DEF AllAccepted

\* A client has one answer, or one request about to create it, unless two of its
\* answers were given at once.
LEMMA NextOneAnswerEach ==
  ASSUME IInv, OneAnswerEach, [Next]_vars
  PROVE  OneAnswerEach'
<1> USE DEF IInv, TypeOK, OneAnswerEach, Creating, Goto, docVars, respVars, pdfVars,
            workVars, locals, memory
<1>1. ASSUME answers' = answers, overlap' = overlap, Creating' \subseteq Creating,
             \A w \in Creating' : who'[w] = who[w]
      PROVE  OneAnswerEach'
  <2> USE <1>1
  <2> HIDE DEF Creating, TypeOK, IInv
  <2> QED OBVIOUS
<1>2. ASSUME NEW w \in Workers, Begin(w) PROVE OneAnswerEach'
  <2>1. pc'[w] # "respondWrite" /\ \A x \in Workers \ {w} : pc'[x] = pc[x]
    BY <1>2 DEF Begin, SendRead, VoidRead, FieldsRead, RespondRead, SignBegin
  <2>2. answers' = answers /\ overlap' = overlap /\ row' = row
    BY <1>2 DEF Begin, SendRead, VoidRead, FieldsRead, RespondRead, SignBegin
  <2>3. \A x \in Workers \ {w} : who'[x] = who[x]
    BY <1>2 DEF Begin, SendRead, VoidRead, FieldsRead, RespondRead, SignBegin
  <2> QED BY <1>1, <2>1, <2>2, <2>3
<1>3. ASSUME NEW w \in Workers, RespondFind(w) PROVE OneAnswerEach'
  <2> DEFINE mine == {a.row : a \in {b \in answers : b.user = who[w]}}
  <2>a. (mine = {} /\ row' = row) \/ (\E r \in mine : row' = [row EXCEPT ![w] = r])
    BY <1>3 DEF RespondFind
  <2>b. \A r \in mine : r # 0
    BY DEF Answer
  <2>c. (\E a \in answers : a.user = who[w]) => mine # {}
    OBVIOUS
  <2>d. \A x \in Workers \ {w} : pc'[x] = pc[x]
    BY <1>3 DEF RespondFind
  <2> HIDE DEF mine
  <2>e. (\A x \in Workers \ {w} : row'[x] = row[x]) /\ (mine # {} => row'[w] # 0)
    BY <2>a, <2>b
  <2>1. (\E a \in answers : a.user = who[w]) => Creating' \subseteq Creating
    BY <2>c, <2>d, <2>e
  <2>2. Creating' \subseteq Creating \cup {w}
    BY <2>d, <2>e
  <2>3. \A v \in Creating : who[v] = who[w] => who[w] \in overlap'
    BY <1>3 DEF RespondFind
  <2>4. answers' = answers /\ who' = who /\ overlap \subseteq overlap'
    BY <1>3 DEF RespondFind
  <2>5. Creating \subseteq Workers
    OBVIOUS
  <2> HIDE DEF Creating, TypeOK, IInv
  <2> QED BY <2>1, <2>2, <2>3, <2>4, <2>5
<1>4. ASSUME NEW w \in Workers, RespondCreate(w) PROVE OneAnswerEach'
  <2>1. w \in Creating /\ Creating' = Creating \ {w} /\ who' = who /\ overlap' = overlap
    BY <1>4 DEF RespondCreate
  <2>2. PICK act : answers' = answers \cup {[row |-> lastRow + 1, user |-> who[w], action |-> act]}
    BY <1>4 DEF RespondCreate
  <2> DEFINE b == [row |-> lastRow + 1, user |-> who[w], action |-> act]
  <2>3. answers' = answers \cup {b} /\ b.user = who[w]
    BY <2>2
  <2> HIDE DEF b
  <2> HIDE DEF Creating, TypeOK, IInv
  <2> QED BY <2>1, <2>3
<1>5. ASSUME NEW w \in Workers, RespondUpdate(w) PROVE OneAnswerEach'
  <2>1. Creating' = Creating \ {w} /\ who' = who /\ overlap' = overlap
    BY <1>5 DEF RespondUpdate
  <2>2. PICK a \in answers : \E act \in {"accepted", "declined"} :
          answers' = (answers \ {a}) \cup {[a EXCEPT !.action = act]}
    BY <1>5 DEF RespondUpdate
  <2>3. PICK act \in {"accepted", "declined"} :
          answers' = (answers \ {a}) \cup {[a EXCEPT !.action = act]}
    BY <2>2
  <2> DEFINE b == [a EXCEPT !.action = act]
  <2>4. b.user = a.user
    BY DEF Answer
  <2>5. answers' = (answers \ {a}) \cup {b}
    BY <2>3
  <2> HIDE DEF Creating, TypeOK, IInv, b
  <2> QED BY <2>1, <2>4, <2>5
<1>6. ASSUME NEW w \in Workers,
             \/ SendWrite(w) \/ VoidWrite(w) \/ FieldsWrite(w) \/ RespondCheck(w)
             \/ RespondRefused(w) \/ RespondLost(w) \/ RecomputeRead(w) \/ RecomputeTally(w)
             \/ RecomputeSkip(w) \/ RecomputeCount(w) \/ RecomputeShort(w) \/ RecomputeWrite(w)
             \/ SignUpload(w) \/ SignCommit(w) \/ SignTimeout(w) \/ LateUpload(w)
             \/ Crash(w)
      PROVE  OneAnswerEach'
  <2>1. CASE SendWrite(w) \/ VoidWrite(w) \/ FieldsWrite(w)
    BY <1>1, <2>1 DEF SendWrite, VoidWrite, FieldsWrite
  <2>2. CASE RespondRefused(w) \/ RespondLost(w) \/ Crash(w)
    BY <1>1, <2>2 DEF RespondRefused, RespondLost, Crash, Forget
  <2>3. CASE RespondCheck(w) \/ RecomputeRead(w) \/ RecomputeTally(w) \/ RecomputeCount(w)
    BY <1>1, <2>3 DEF RespondCheck, RecomputeRead, RecomputeTally, RecomputeCount
  <2>4. CASE RecomputeSkip(w) \/ RecomputeShort(w) \/ RecomputeWrite(w)
    BY <1>1, <2>4 DEF RecomputeSkip, RecomputeShort, RecomputeWrite, Forget
  <2>5. CASE SignUpload(w) \/ SignCommit(w) \/ SignTimeout(w)
    BY <1>1, <2>5 DEF SignUpload, SignCommit, SignTimeout
  <2>6. CASE LateUpload(w)
    BY <1>1, <2>6 DEF LateUpload, Forget
  <2> QED BY <1>6, <2>1, <2>2, <2>3, <2>4, <2>5, <2>6
<1>7. ASSUME ReplaceFile PROVE OneAnswerEach'
  <2>1. answers' \in {answers, {}} /\ Creating' = Creating /\ who' = who /\ overlap' = overlap
    BY <1>7 DEF ReplaceFile
  <2> HIDE DEF Creating, TypeOK, IInv
  <2> QED BY <2>1
<1>8. ASSUME NEW v \in deleting, DeleteOrphan(v) PROVE OneAnswerEach'
  BY <1>1, <1>8 DEF DeleteOrphan
<1>9. ASSUME ExpireFind \/ ExpireWrite \/ Tick \/ AssignClients PROVE OneAnswerEach'
  BY <1>1, <1>9 DEF ExpireFind, ExpireWrite, Tick, AssignClients
<1>10. CASE UNCHANGED vars
  BY <1>1, <1>10 DEF vars
<1> QED
  <2> HIDE DEF IInv, OneAnswerEach, Goto
  <2> QED
    BY <1>2, <1>3, <1>4, <1>5, <1>6, <1>7, <1>8, <1>9, <1>10
       DEF Next, Continue, UploadVersion, RestoreVersion

\* A recomputation that was not misled has counted an answer of every client, and
\* nothing that it counted has changed since.
LEMMA NextCountedRight ==
  ASSUME IInv, OneAnswerEach, CountedRight, [Next]_vars
  PROVE  CountedRight'
<1> DEFINE CountSure(w) == w \in Workers \ misled /\ pc[w] = "recomputeCount"
           WriteSure(w) == w \in Workers \ misled /\ pc[w] = "recomputeWrite" /\ verdict[w] = "accepted"
<1>0. TypeOK
  BY DEF IInv
<1> USE <1>0 DEF TypeOK, Goto, docVars, respVars, pdfVars, workVars, locals, memory
<1>1. ASSUME UNCHANGED <<answers, assigned>>, AnswersCount => AnswersCount',
             \A w \in Workers : CountSure(w)' => CountSure(w) /\ tally'[w] = tally[w],
             \A w \in Workers : WriteSure(w)' => WriteSure(w)
      PROVE  CountedRight'
  <2>1. AnyDeclined' = AnyDeclined /\ AllAccepted' = AllAccepted
    BY <1>1 DEF AnyDeclined, AllAccepted
  <2>2. Cardinality(answers)' = Cardinality(answers)
    BY <1>1
  <2> QED BY <1>1, <2>1, <2>2 DEF CountedRight
<1>2. ASSUME UNCHANGED <<answers, assigned, overlap>>, misled \subseteq misled',
             \A w \in Workers : pc'[w] = pc[w] \/ pc'[w] \notin {"recomputeCount", "recomputeWrite"},
             UNCHANGED <<tally, verdict>>
      PROVE  CountedRight'
  BY <1>1, <1>2 DEF AnswersCount
<1>3. ASSUME UNCHANGED <<answers, assigned, overlap>>, NEW w \in Workers,
             misled' = misled \ {w}, pc'[w] = "idle",
             \A x \in Workers \ {w} : pc'[x] = pc[x] /\ tally'[x] = tally[x] /\ verdict'[x] = verdict[x]
      PROVE  CountedRight'
  BY <1>1, <1>3 DEF AnswersCount
<1>4. ASSUME Overtaken \subseteq misled', misled \subseteq misled',
             \A w \in Workers : pc'[w] = pc[w] \/ pc'[w] \notin {"recomputeCount", "recomputeWrite"}
      PROVE  CountedRight'
  BY <1>4 DEF Overtaken, CountedRight
<1>5. ASSUME NEW w \in Workers, Begin(w) PROVE CountedRight'
  BY <1>2, <1>5 DEF Begin, SendRead, VoidRead, FieldsRead, RespondRead, SignBegin
<1>6. ASSUME NEW w \in Workers, RespondCreate(w) \/ RespondUpdate(w) PROVE CountedRight'
  <2>1. Overtaken \subseteq misled' /\ misled \subseteq misled'
    BY <1>6 DEF RespondCreate, RespondUpdate
  <2>2. \A x \in Workers : pc'[x] = pc[x] \/ pc'[x] \notin {"recomputeCount", "recomputeWrite"}
    BY <1>6 DEF RespondCreate, RespondUpdate
  <2> QED BY <1>4, <2>1, <2>2
<1>7. ASSUME NEW w \in Workers, RespondFind(w) PROVE CountedRight'
  <2>1. ASSUME AnswersCount PROVE AnswersCount'
    <3>1. \A u \in overlap' : u \in overlap \/ \E v \in Creating : who[v] = u
      BY <1>7 DEF RespondFind
    <3>2. \A a \in answers : \A v \in Creating : a.user \in Users \ overlap => who[v] # a.user
      BY DEF OneAnswerEach
    <3>3. assigned \subseteq Users /\ UNCHANGED <<answers, assigned>>
      BY <1>7 DEF RespondFind, Users
    <3> QED BY <2>1, <3>1, <3>2, <3>3 DEF AnswersCount
  <2>2. UNCHANGED <<answers, assigned, misled, tally, verdict>>
    BY <1>7 DEF RespondFind
  <2>3. \A x \in Workers : pc'[x] = pc[x] \/ pc'[x] = "respondWrite"
    BY <1>7 DEF RespondFind
  <2> QED BY <1>1, <2>1, <2>2, <2>3
<1>8. ASSUME NEW w \in Workers, RecomputeRead(w) PROVE CountedRight'
  <2>1. UNCHANGED <<answers, assigned, overlap, misled, tally>>
    BY <1>8 DEF RecomputeRead
  <2>2. verdict'[w] # "accepted"
    BY <1>8, VerdictRange DEF RecomputeRead, Status
  <2>3. pc'[w] = "recomputeWrite" /\ \A x \in Workers \ {w} : pc'[x] = pc[x] /\ verdict'[x] = verdict[x]
    BY <1>8 DEF RecomputeRead
  <2> QED BY <1>1, <2>1, <2>2, <2>3 DEF AnswersCount
<1>9. ASSUME NEW w \in Workers, RecomputeTally(w) PROVE CountedRight'
  <2>1. /\ UNCHANGED <<answers, assigned, overlap, verdict>>
        /\ pc'[w] = "recomputeCount" /\ tally'[w] = Cardinality(answers) + Cardinality(signed)
        /\ \A x \in Workers \ {w} : pc'[x] = pc[x] /\ tally'[x] = tally[x]
        /\ misled' = IF Miscounted THEN misled \cup {w} ELSE misled \ {w}
        /\ ~AnyDeclined
    BY <1>9 DEF RecomputeTally, Counting
  <2>2. (AnswersCount' <=> AnswersCount) /\ (AnyDeclined' <=> AnyDeclined) /\ (AllAccepted' <=> AllAccepted)
    BY <2>1 DEF AnswersCount, AnyDeclined, AllAccepted
  <2>3. w \in misled' \/ (AnswersCount' /\ ~AnyDeclined' /\ tally'[w] = Cardinality(answers'))
    <3>1. CASE Miscounted
      BY <2>1, <3>1
    <3>2. CASE ~Miscounted
      <4>1. Cardinality(signed) = 0 /\ Cardinality(answers) \in Nat
        BY <3>2, FS_EmptySet, FS_CardinalityType DEF Miscounted
      <4>2. tally'[w] = Cardinality(answers)
        BY <2>1, <4>1
      <4> QED BY <2>1, <2>2, <3>2, <4>2 DEF Miscounted
    <3> QED BY <3>1, <3>2
  <2>4. \A x \in Workers \ {w} : x \in misled => x \in misled'
    BY <2>1
  <2> QED BY <2>1, <2>2, <2>3, <2>4 DEF CountedRight
<1>10. ASSUME NEW w \in Workers, RecomputeCount(w) PROVE CountedRight'
  <2>1. /\ UNCHANGED <<answers, assigned, overlap, misled, tally>>
        /\ pc[w] = "recomputeCount" /\ pc'[w] = "recomputeWrite"
        /\ tally[w] >= Cardinality(assigned)
        /\ \A x \in Workers \ {w} : pc'[x] = pc[x] /\ verdict'[x] = verdict[x]
    BY <1>10 DEF RecomputeCount
  <2>2. (AnswersCount' <=> AnswersCount) /\ (AnyDeclined' <=> AnyDeclined) /\ (AllAccepted' <=> AllAccepted)
    BY <2>1 DEF AnswersCount, AnyDeclined, AllAccepted
  <2>3. w \in misled \/ AllAccepted
    BY <2>1, EnoughIsAll DEF CountedRight
  <2> QED BY <2>1, <2>2, <2>3 DEF CountedRight
<1>11. ASSUME NEW w \in Workers,
              \/ SendWrite(w) \/ VoidWrite(w) \/ FieldsWrite(w) \/ RespondCheck(w)
              \/ SignUpload(w) \/ SignCommit(w) \/ SignTimeout(w)
       PROVE  CountedRight'
  <2>1. CASE SendWrite(w) \/ VoidWrite(w) \/ FieldsWrite(w) \/ RespondCheck(w)
    BY <1>2, <2>1 DEF SendWrite, VoidWrite, FieldsWrite, RespondCheck
  <2>2. CASE SignUpload(w) \/ SignCommit(w) \/ SignTimeout(w)
    BY <1>2, <2>2 DEF SignUpload, SignCommit, SignTimeout
  <2> QED BY <1>11, <2>1, <2>2
<1>12. ASSUME NEW w \in Workers,
              \/ RespondLost(w) \/ RespondRefused(w) \/ RecomputeSkip(w) \/ RecomputeShort(w)
              \/ RecomputeWrite(w) \/ LateUpload(w) \/ Crash(w)
       PROVE  CountedRight'
  <2>1. Forget(w) /\ pc' = [pc EXCEPT ![w] = "idle"]
    BY <1>12 DEF RespondLost, RespondRefused, RecomputeSkip, RecomputeShort, RecomputeWrite,
                 LateUpload, Crash
  <2>2. UNCHANGED <<answers, assigned, overlap>>
    BY <1>12 DEF RespondLost, RespondRefused, RecomputeSkip, RecomputeShort, RecomputeWrite,
                 LateUpload, Crash
  <2> QED BY <1>3, <2>1, <2>2 DEF Forget
<1>13. ASSUME ReplaceFile \/ AssignClients PROVE CountedRight'
  BY <1>4, <1>13 DEF ReplaceFile, AssignClients
<1>14. ASSUME NEW v \in deleting, DeleteOrphan(v) PROVE CountedRight'
  BY <1>2, <1>14 DEF DeleteOrphan
<1>15. ASSUME ExpireFind \/ ExpireWrite \/ Tick PROVE CountedRight'
  BY <1>2, <1>15 DEF ExpireFind, ExpireWrite, Tick
<1>16. CASE UNCHANGED vars
  BY <1>2, <1>16 DEF vars
<1> QED
  <2> HIDE <1>0 DEF TypeOK, Goto
  <2> QED
    BY <1>5, <1>6, <1>7, <1>8, <1>9, <1>10, <1>11, <1>12, <1>13, <1>14, <1>15, <1>16
       DEF Next, Continue, UploadVersion, RestoreVersion

\* Only updateDocumentStatus() makes a document accepted.
LEMMA OnlyRecomputeAccepts ==
  ASSUME IInv, [Next]_vars, status # "accepted", status' = "accepted"
  PROVE  \E w \in Workers : RecomputeWrite(w)
<1> USE DEF docVars
<1>1. ASSUME NEW w \in Workers, Begin(w) PROVE status' = status
  BY <1>1 DEF Begin, SendRead, VoidRead, FieldsRead, RespondRead, SignBegin
<1>2. ASSUME NEW w \in Workers, Continue(w), ~RecomputeWrite(w) PROVE status' # "accepted"
  BY <1>2 DEF Continue, SendWrite, VoidWrite, FieldsWrite, RespondCheck, RespondRefused, RespondFind,
              RespondCreate, RespondUpdate, RespondLost, RecomputeRead, RecomputeTally,
              RecomputeSkip, RecomputeCount, RecomputeShort, SignUpload,
              SignCommit, SignTimeout, LateUpload
<1>3. ASSUME NEW w \in Workers, Crash(w) PROVE status' = status
  BY <1>3 DEF Crash
<1>4. ASSUME UploadVersion \/ RestoreVersion PROVE status' # "accepted"
  BY <1>4 DEF UploadVersion, RestoreVersion, ReplaceFile
<1>5. ASSUME NEW v \in deleting, DeleteOrphan(v) PROVE status' = status
  BY <1>5 DEF DeleteOrphan
<1>6. ASSUME ExpireFind \/ ExpireWrite \/ Tick \/ AssignClients PROVE status' # "accepted"
  BY <1>6 DEF ExpireFind, ExpireWrite, Tick, AssignClients
<1>7. ASSUME UNCHANGED vars PROVE status' = status
  BY <1>7 DEF vars
<1> QED
  BY <1>1, <1>2, <1>3, <1>4, <1>5, <1>6, <1>7 DEF Next

\* A document becomes accepted when every assigned client has a positive response;
\* the exceptions are answers given at once, a client taken off the project,
\* signatures counted as responses, and a change behind the recomputation.
THEOREM AcceptedByEveryone == Spec => AcceptedByAll
<1>1. Init => AnswersInv
  BY DEF Init, AnswersInv, OneAnswerEach, CountedRight, Creating
<1>2. IInv /\ AnswersInv /\ [Next]_vars => AnswersInv'
  BY NextOneAnswerEach, NextCountedRight DEF AnswersInv
<1>3. IInv /\ AnswersInv /\ [Next]_vars =>
        [status # "accepted" /\ status' = "accepted" =>
           AllAccepted \/ \E w \in misled : pc[w] = "recomputeWrite" /\ pc'[w] = "idle"]_vars
  <2> SUFFICES ASSUME IInv, AnswersInv, [Next]_vars, status # "accepted", status' = "accepted",
                      ~AllAccepted
               PROVE  \E w \in misled : pc[w] = "recomputeWrite" /\ pc'[w] = "idle"
    OBVIOUS
  <2>1. PICK w \in Workers : RecomputeWrite(w)
    BY OnlyRecomputeAccepts
  <2>2. pc[w] = "recomputeWrite" /\ pc'[w] = "idle" /\ verdict[w] = "accepted"
    BY <2>1 DEF RecomputeWrite, Goto, IInv, TypeOK
  <2> QED BY <2>2 DEF AnswersInv, CountedRight
<1> QED
  BY InductiveInvariant, <1>1, <1>2, <1>3, PTL DEF Spec, AcceptedByAll

----------------------------------------------------------------------------
(* The handlers implement the signing ledger. *)

\* The tests of sign() allow the mark the ledger allows.
LEMMA CommitIsMark ==
  ASSUME IInv, NEW w \in Workers, SignCommit(w)
  PROVE  Ledger!Mark(who[w], target[w]) /\ who[w] \in Users /\ target[w] \in Field
<1> USE DEF IInv, SignCommit, Goto, SignPc, SignerKnowsDocument
<1>1. who[w] \in Users /\ target[w] \in Field
  OBVIOUS
<1>2. AssignedTo[target[w]] \in {None, who[w]} /\ <<who[w], target[w]>> \notin signed
  OBVIOUS
<1>3. (kind.ordered /\ target[w] \in fields) => Ledger!Before(target[w]) \subseteq Ledger!MarkedFields
  BY DEF InTurn, Prior, SignedFields, Ledger!Before, Ledger!MarkedFields
<1>4. signed' = signed \cup {<<who[w], target[w]>>} /\ UNCHANGED <<kind, fields, version>>
  BY DEF docVars
<1> QED
  BY <1>1, <1>2, <1>3, <1>4 DEF Ledger!Mark

\* Replacing the field rows, or the file, is a step of the ledger.
LEMMA FieldsWriteIsPlace ==
  ASSUME IInv, NEW w \in Workers, FieldsWrite(w)
  PROVE  Ledger!Place
BY DEF IInv, TypeOK, SignaturesHaveRows, FieldsWrite, respVars, SignedFields,
       Ledger!Place, Ledger!MarkedFields

LEMMA ReplaceFileIsNewEdition ==
  ASSUME IInv, ReplaceFile
  PROVE  Ledger!NewEdition
BY DEF IInv, DraftIsBlank, ReplaceFile, Ledger!NewEdition

\* Every step of the handlers is a step of the ledger or leaves it alone.
LEMMA StepRefines ==
  ASSUME IInv, [Next]_vars
  PROVE  [Ledger!LedgerNext]_(Ledger!ledgerVars)
<1> USE DEF docVars, respVars, pdfVars, workVars, Ledger!ledgerVars
<1>1. ASSUME NEW w \in Workers, Begin(w) PROVE UNCHANGED Ledger!ledgerVars
  BY <1>1 DEF Begin, SendRead, VoidRead, FieldsRead, RespondRead, SignBegin
<1>2. ASSUME NEW w \in Workers, Continue(w), ~SignCommit(w), ~FieldsWrite(w)
      PROVE  UNCHANGED Ledger!ledgerVars
  BY <1>2 DEF Continue, SendWrite, VoidWrite, RespondCheck, RespondRefused, RespondFind,
              RespondCreate, RespondUpdate, RespondLost, RecomputeRead, RecomputeTally,
              RecomputeSkip, RecomputeCount, RecomputeShort, RecomputeWrite, SignUpload, SignTimeout, LateUpload
<1>3. ASSUME NEW w \in Workers, SignCommit(w) PROVE Ledger!LedgerNext
  BY <1>3, CommitIsMark DEF Ledger!LedgerNext
<1>4. ASSUME NEW w \in Workers, FieldsWrite(w) PROVE Ledger!LedgerNext
  BY <1>4, FieldsWriteIsPlace DEF Ledger!LedgerNext
<1>5. ASSUME NEW w \in Workers, Crash(w) PROVE UNCHANGED Ledger!ledgerVars
  BY <1>5 DEF Crash
<1>6. ASSUME UploadVersion \/ RestoreVersion PROVE Ledger!LedgerNext
  BY <1>6, ReplaceFileIsNewEdition DEF UploadVersion, RestoreVersion, Ledger!LedgerNext
<1>7. ASSUME NEW v \in deleting, DeleteOrphan(v) PROVE UNCHANGED Ledger!ledgerVars
  BY <1>7 DEF DeleteOrphan
<1>8. ASSUME ExpireFind \/ ExpireWrite \/ Tick \/ AssignClients
      PROVE  UNCHANGED Ledger!ledgerVars
  BY <1>8 DEF ExpireFind, ExpireWrite, Tick, AssignClients
<1>9. ASSUME UNCHANGED vars PROVE UNCHANGED Ledger!ledgerVars
  BY <1>9 DEF vars
<1> QED
  BY <1>1, <1>2, <1>3, <1>4, <1>5, <1>6, <1>7, <1>8, <1>9 DEF Next

\* sign(), uploadVersion() and the rest keep the ledger of signatures: a mark
\* is given in turn by a signer its field accepts, and never lost alone.
THEOREM ImplementsLedger == Spec => LedgerSpec
<1>1. Init => Ledger!LedgerInit
  BY DEF Init, Kind, Ledger!LedgerInit
<1>2. IInv /\ [Next]_vars => [Ledger!LedgerNext]_(Ledger!ledgerVars)
  BY StepRefines
<1> QED
  BY InductiveInvariant, <1>1, <1>2, PTL DEF Spec, LedgerSpec, Ledger!LedgerSpec
====
