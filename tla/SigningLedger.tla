--------------------------- MODULE SigningLedger ---------------------------
(***************************************************************************)
(* What signing a document promises, whatever the handlers interleave: a   *)
(* ledger of marks <<signer, field>> for the edition in force.  A mark is  *)
(* added by a signer the field accepts, when the fields before it are      *)
(* signed; no mark is ever removed or changed alone; only a new edition    *)
(* of the file empties the ledger.                                         *)
(***************************************************************************)
EXTENDS Integers

CONSTANTS
  Signer,      \* who may sign
  Field,       \* the fields a sheet may have
  Order,       \* Order[f]: 0 for any order, else the turn of f
  AssignedTo,  \* AssignedTo[f]: the only signer of f, or None
  None

VARIABLES
  ordered,  \* is the signing order enforced?
  sheet,    \* the fields in force
  marks,    \* the signatures given
  edition   \* the number of the file signed

ledgerVars == <<ordered, sheet, marks, edition>>

Before(f) == {g \in sheet : Order[g] > 0 /\ Order[g] < Order[f]}
MarkedFields == {m[2] : m \in marks}

LedgerInit ==
  /\ ordered \in BOOLEAN
  /\ sheet = {} /\ marks = {} /\ edition = 1

\* New fields are placed; what was signed stays signed.
Place ==
  /\ sheet' \in SUBSET Field
  /\ sheet' \cap MarkedFields = {}
  /\ UNCHANGED <<ordered, marks, edition>>

\* One signer signs one field, in turn; a field withdrawn while its signer
\* was stamping it has no turn to wait for.
Mark(u, f) ==
  /\ AssignedTo[f] \in {None, u}
  /\ <<u, f>> \notin marks
  /\ (ordered /\ f \in sheet) => Before(f) \subseteq MarkedFields
  /\ marks' = marks \cup {<<u, f>>}
  /\ UNCHANGED <<ordered, sheet, edition>>

NewEdition ==
  /\ edition' = edition + 1
  /\ marks' = {}
  /\ UNCHANGED <<ordered, sheet>>

LedgerNext ==
  \/ Place
  \/ \E u \in Signer, f \in Field : Mark(u, f)
  \/ NewEdition

LedgerSpec == LedgerInit /\ [][LedgerNext]_ledgerVars
=============================================================================
