---------------------------- MODULE TimeLedger -----------------------------
(***************************************************************************)
(* What the books on time promise, whatever the handlers interleave.  An   *)
(* entry is written once, for one person, whose clock runs for at most one *)
(* entry, in a folder; persons and folders are closed for good, with all   *)
(* their entries.  A bill is issued once, whole, and withdrawn whole.  It  *)
(* takes entries that no other bill takes, and until it is rewritten none  *)
(* of them is taken back alone, and no clock starts on it again: except    *)
(* while a writer is at work who began before the bill, and unless the     *)
(* bill itself was late.                                                   *)
(***************************************************************************)
CONSTANTS
  Persons, Folders,
  Items,       \* entries that may be written
  FolderOf,    \* the folder an entry is in
  Bills,       \* bills that may be issued
  None

VARIABLES
  closed,     \* the persons and folders closed for good
  blank,      \* entries not written yet
  author,     \* who an entry was written for; None: not written, or taken back
  clock,      \* the entries whose clock runs
  unissued,   \* bills not issued yet
  items,      \* the entries a bill charges
  rewritten,  \* bills rewritten by hand: they take no entry any more
  disputed,   \* entries a bill took although they were no longer free
  raced       \* entries somebody has been writing to since before they were taken

bookVars == <<closed, blank, author, clock>>
billVars == <<unissued, items, rewritten, disputed>>
ledgerVars == <<bookVars, billVars, raced>>

Running(p) == {e \in clock : author[e] = p}
Taken(e) == \E b \in Bills \ rewritten : e \in items[b]
Free(e) == Taken(e) => e \in disputed \cup raced

LedgerInit ==
  /\ closed = {} /\ blank = Items /\ author = [e \in Items |-> None] /\ clock = {}
  /\ unissued = Bills /\ items = [b \in Bills |-> {}]
  /\ rewritten = {} /\ disputed = {} /\ raced = {}

\* An entry is written, its clock running in place of any other or not at all.
Write(p, e) ==
  /\ closed \cap {p, FolderOf[e]} = {}
  /\ e \in blank /\ blank' = blank \ {e}
  /\ author' = [author EXCEPT ![e] = p]
  /\ clock' \in {clock, (clock \ Running(p)) \cup {e}}
  /\ UNCHANGED <<closed, billVars, raced>>

\* A writer to an entry ends: its clock is stopped or started, the entry is
\* taken back, or nothing comes of it.
Finish == raced' \in SUBSET raced

Stop(e) ==
  /\ clock' = clock \ {e}
  /\ Finish /\ UNCHANGED <<closed, blank, author, billVars>>

Resume(p, e) ==
  /\ author[e] = p /\ Running(p) \subseteq {e} /\ Free(e)
  /\ clock' = clock \cup {e}
  /\ Finish /\ UNCHANGED <<closed, blank, author, billVars>>

TakeBack(e) ==
  /\ Free(e)
  /\ author' = [author EXCEPT ![e] = None]
  /\ clock' = clock \ {e}
  /\ Finish /\ UNCHANGED <<closed, blank, billVars>>

GiveUp == Finish /\ UNCHANGED <<bookVars, billVars>>

\* All the entries of a person or of a folder go, taken or not, and no more come.
Its(x) == {e \in Items : x \in {author[e], FolderOf[e]}}
Close(x) ==
  /\ closed' = closed \cup {x}
  /\ author' = [e \in Items |-> IF e \in Its(x) THEN None ELSE author[e]]
  /\ clock' = clock \ Its(x)
  /\ UNCHANGED <<blank, billVars, raced>>

Issue(b, taken) ==
  /\ b \in unissued /\ unissued' = unissued \ {b}
  /\ taken # {} /\ taken \cap blank = {}
  /\ items' = [items EXCEPT ![b] = taken]
  /\ disputed' = disputed \cup {e \in taken : author[e] = None \/ Taken(e)}
  /\ raced \subseteq raced' /\ raced' \subseteq raced \cup taken
  /\ UNCHANGED <<bookVars, rewritten>>

Rewrite(b, lines) ==
  /\ b \notin unissued /\ lines \cap blank = {}
  /\ items' = [items EXCEPT ![b] = lines]
  /\ rewritten' = rewritten \cup {b}
  /\ UNCHANGED <<bookVars, unissued, disputed, raced>>

Withdraw(b) ==
  /\ items' = [items EXCEPT ![b] = {}]
  /\ UNCHANGED <<bookVars, unissued, rewritten, disputed, raced>>

LedgerNext ==
  \/ GiveUp
  \/ \E p \in Persons, e \in Items : Write(p, e) \/ Resume(p, e)
  \/ \E e \in Items : Stop(e) \/ TakeBack(e)
  \/ \E x \in Persons \cup Folders : Close(x)
  \/ \E b \in Bills : Withdraw(b) \/ \E es \in SUBSET Items : Issue(b, es) \/ Rewrite(b, es)

LedgerSpec == LedgerInit /\ [][LedgerNext]_ledgerVars
=============================================================================
