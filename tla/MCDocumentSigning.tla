------------------------- MODULE MCDocumentSigning -------------------------
(* Small instances of DocumentSigning for TLC. *)
EXTENDS DocumentSigning, TLC

CONSTANTS c1, c2, adm, f1, f2, w1, w2

MCClients == {c1, c2}
OneClient == {c1}
OneRoster == {{c1}}
BothRosters == {{c1}, {c1, c2}}

\* f1 is c1's and comes first, f2 is anyone's and comes second.
MCOrder == [f \in Field |-> IF f = f1 THEN 1 ELSE 2]
MCAssignedTo == [f \in Field |-> IF f = f1 THEN c1 ELSE None]

MCKind(s, a, o) == [signature |-> s, approval |-> a, ordered |-> o]
OrderedKind == {MCKind(TRUE, FALSE, TRUE)}
ApprovalKind == {MCKind(FALSE, TRUE, FALSE)}
TwoKinds == OrderedKind \cup ApprovalKind
FullKind == {MCKind(TRUE, TRUE, TRUE)}

\* Bounds of the search over both kinds: an approval has no fields (they play no
\* part in it) and its file is replaced once, a document to sign has one client
\* next to the staff.
InBounds == IF kind.approval THEN usedFields = {} /\ version <= 2 ELSE assigned = {c1}

WorkerSymmetry == Permutations(Workers)
=============================================================================
