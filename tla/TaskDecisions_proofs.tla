------------------------ MODULE TaskDecisions_proofs ------------------------
(***************************************************************************)
(* Proofs about TaskDecisions, for any number of clients, tasks, options   *)
(* and requests in flight.                                                 *)
(***************************************************************************)
EXTENDS TaskDecisions, FiniteSetTheorems, TLAPS

USE TaskAssumption

\* The initial state satisfies the inductive invariant.
LEMMA InitIInv == Init => IInv
<1> SUFFICES ASSUME Init PROVE IInv
  OBVIOUS
<1>1. TypeOK
  BY DEF Init, TypeOK, Pc, Memory, Blank, Unvoted, Statuses
<1>2. MemorySane /\ VotesInFlight /\ TallyFinal
  BY DEF Init, MemorySane, VotesInFlight, Voting, TallyFinal
<1>3. CapturesBounded
  <2> SUFFICES ASSUME NEW t \in Task
               PROVE  open[t] + Cardinality(Capturing(t)) <= Cardinality(Workers)
    BY DEF CapturesBounded
  <2>1. Capturing(t) = {} /\ open[t] = 0
    BY DEF Init, Capturing
  <2>2. Cardinality(Capturing(t)) = 0 /\ Cardinality(Workers) \in Nat
    BY <2>1, FS_EmptySet, FS_CardinalityType
  <2> QED
    BY <2>1, <2>2
<1> QED BY <1>1, <1>2, <1>3 DEF IInv

----------------------------------------------------------------------------
(* Types *)

\* A request remembers what it read in a record of the right type.
LEMMA MemoryTyped ==
  /\ Blank \in Memory
  /\ \A c \in Clients : [Blank EXCEPT !.client = c] \in Memory
  /\ \A t \in Task : [Blank EXCEPT !.task = t] \in Memory
  /\ \A c \in Clients, t \in Task : [Blank EXCEPT !.client = c, !.task = t] \in Memory
  /\ \A c \in Clients, t \in Task : [Blank EXCEPT !.task = t, !.client = c] \in Memory
  /\ \A t \in Task, s \in Statuses : [Blank EXCEPT !.task = t, !.status = s] \in Memory
  /\ \A c \in Clients, t \in Task, b \in BOOLEAN, v \in SUBSET Clients :
       [Blank EXCEPT !.client = c, !.task = t, !.closed = b, !.voters = v] \in Memory
BY DEF Blank, Memory

\* A step of request w leaves every place and memory typed.
LEMMA StepTyped ==
  ASSUME TypeOK, NEW w \in Workers, NEW to \in Pc, NEW what \in Memory,
         pc' = [pc EXCEPT ![w] = to], my' = my \/ my' = [my EXCEPT ![w] = what]
  PROVE  pc' \in [Workers -> Pc] /\ my' \in [Workers -> Memory]
BY DEF TypeOK

LEMMA NextTypeOK == ASSUME TypeOK, MemorySane, [Next]_vars PROVE TypeOK'
<1> USE DEF TypeOK, Goto, Forget, Remember, taskVars, voteVars, Exists
<1>a. /\ Pc = {"idle", "request", "vote", "voting", "close", "update", "cancel", "capture",
               "captured", "view"}
      /\ Blank \in Memory
  BY MemoryTyped DEF Pc
<1>b. \A t \in Task : [Blank EXCEPT !.task = t] \in Memory
  BY MemoryTyped
<1>c. \A c \in Clients, t \in Task : /\ [Blank EXCEPT !.client = c, !.task = t] \in Memory
                                     /\ [Blank EXCEPT !.task = t, !.client = c] \in Memory
  BY MemoryTyped
<1>1. ASSUME NEW w \in Workers, NEW c \in Clients, CreateForClientRead(w, c) PROVE TypeOK'
  <2>1. pc' \in [Workers -> Pc] /\ my' \in [Workers -> Memory]
    BY <1>1, <1>a, MemoryTyped, StepTyped DEF CreateForClientRead
  <2> QED BY <1>1, <2>1 DEF CreateForClientRead
<1>2. ASSUME NEW w \in Workers, NEW c \in Clients, NEW t \in Task, VoteRead(w, c, t)
      PROVE  TypeOK'
  <2>1. pc' \in [Workers -> Pc] /\ my' \in [Workers -> Memory]
    BY <1>2, <1>a, <1>c, StepTyped DEF VoteRead
  <2> QED BY <1>2, <2>1 DEF VoteRead
<1>3. ASSUME NEW w \in Workers, NEW c \in Clients, NEW t \in Task, CancelRead(w, c, t)
      PROVE  TypeOK'
  <2>1. pc' \in [Workers -> Pc] /\ my' \in [Workers -> Memory]
    BY <1>3, <1>a, <1>c, StepTyped DEF CancelRead
  <2> QED BY <1>3, <2>1 DEF CancelRead
<1>4. ASSUME NEW w \in Workers, NEW c \in Clients, NEW t \in Task, ViewRead(w, c, t)
      PROVE  TypeOK'
  <2>1. [Blank EXCEPT !.client = c, !.task = t, !.closed = closed[t], !.voters = Voters(t)]
          \in Memory
    BY MemoryTyped DEF Voters
  <2>2. pc' \in [Workers -> Pc] /\ my' \in [Workers -> Memory]
    BY <1>4, <1>a, <2>1, StepTyped DEF ViewRead
  <2> QED BY <1>4, <2>2 DEF ViewRead
<1>5. ASSUME NEW w \in Workers, NEW t \in Task, CloseRead(w, t) PROVE TypeOK'
  <2>1. pc' \in [Workers -> Pc] /\ my' \in [Workers -> Memory]
    BY <1>5, <1>a, <1>b, StepTyped DEF CloseRead
  <2> QED BY <1>5, <2>1 DEF CloseRead
<1>6. ASSUME NEW w \in Workers, NEW t \in Task, UpdateRead(w, t) PROVE TypeOK'
  <2>1. [Blank EXCEPT !.task = t, !.status = status[t]] \in Memory
    BY MemoryTyped
  <2>2. pc' \in [Workers -> Pc] /\ my' \in [Workers -> Memory]
    BY <1>6, <1>a, <2>1, StepTyped DEF UpdateRead
  <2> QED BY <1>6, <2>2 DEF UpdateRead
<1>7. ASSUME NEW w \in Workers, CreateForClientWrite(w) PROVE TypeOK'
  <2>1. pc' \in [Workers -> Pc] /\ my' \in [Workers -> Memory]
    BY <1>7, <1>a, StepTyped DEF CreateForClientWrite
  <2> QED BY <1>7, <2>1 DEF CreateForClientWrite, Insert, MemorySane
<1>8. ASSUME NEW w \in Workers, VoteCheck(w) PROVE TypeOK'
  <2>1. pc' \in [Workers -> Pc] /\ my' \in [Workers -> Memory]
    BY <1>8, <1>a, StepTyped DEF VoteCheck
  <2> QED BY <1>8, <2>1 DEF VoteCheck
<1>9. ASSUME NEW w \in Workers, NEW o \in Option, VoteWrite(w, o) PROVE TypeOK'
  <2>1. pc' \in [Workers -> Pc] /\ my' \in [Workers -> Memory]
    BY <1>9, <1>a, StepTyped DEF VoteWrite
  <2>2. my[w].task \in Task /\ my[w].client \in Clients
    BY <1>9 DEF VoteWrite, MemorySane
  <2>3. vote' \in [Task -> [Clients -> Option \cup {None}]]
    BY <1>9, <2>2 DEF VoteWrite
  <2>4. kind[my[w].task] = "decision"
    BY <1>9 DEF VoteWrite, MemorySane
  <2>5. \A t \in Task : kind[t] # "decision" => vote'[t] = Unvoted
    BY <1>9, <2>4 DEF VoteWrite
  <2>6. kind' = kind /\ closed' = closed /\ fresh' = fresh /\ open' = open
    BY <1>9 DEF VoteWrite
  <2> QED BY <1>9, <2>1, <2>3, <2>5, <2>6 DEF VoteWrite
<1>10. ASSUME NEW w \in Workers, CloseWrite(w) PROVE TypeOK'
  <2>1. pc' \in [Workers -> Pc] /\ my' \in [Workers -> Memory]
    BY <1>10, <1>a, StepTyped DEF CloseWrite
  <2>2. my[w].task \in Task \ fresh
    BY <1>10 DEF CloseWrite, MemorySane
  <2> DEFINE t == my[w].task
             S == {my[v].client : v \in {u \in Workers : Voting(u, t)}}
  <2>3. S \in SUBSET Clients
    BY DEF MemorySane, Voting
  <2>4. /\ result' \in [Task -> [Clients -> Option \cup {None}]]
        /\ late' \in [Task -> SUBSET Clients]
    <3>1. CASE closed[t]
      BY <1>10, <3>1 DEF CloseWrite, Record
    <3>2. CASE ~closed[t]
      <4>1. result' = [result EXCEPT ![t] = vote[t]] /\ late' = [late EXCEPT ![t] = S]
        BY <1>10, <3>2 DEF CloseWrite, Record
      <4> HIDE DEF S
      <4> QED BY <4>1, <2>2, <2>3
    <3> QED BY <3>1, <3>2
  <2>5. kind[t] = "decision" /\ closed' = [closed EXCEPT ![t] = TRUE] /\ kind' = kind
    BY <1>10, <2>2 DEF CloseWrite, MemorySane
  <2>6. \A s \in Task : closed'[s] => kind'[s] \in {"decision", None}
    BY <2>2, <2>5
  <2>7. /\ fresh' = fresh /\ requester' = requester /\ roster' = roster /\ vote' = vote
        /\ open' = open /\ status' = [status EXCEPT ![t] = "done"]
    BY <1>10 DEF CloseWrite
  <2> HIDE DEF S
  <2> QED BY <2>1, <2>2, <2>4, <2>5, <2>6, <2>7 DEF Statuses
<1>11. ASSUME NEW w \in Workers, CancelWrite(w) PROVE TypeOK'
  <2>1. pc' \in [Workers -> Pc] /\ my' \in [Workers -> Memory]
    BY <1>11, <1>a, StepTyped DEF CancelWrite
  <2> QED BY <1>11, <2>1 DEF CancelWrite, Statuses
<1>12. ASSUME NEW w \in Workers, NEW s \in Statuses, UpdateWrite(w, s) PROVE TypeOK'
  <2>1. pc' \in [Workers -> Pc] /\ my' \in [Workers -> Memory]
    BY <1>12, <1>a, StepTyped DEF UpdateWrite
  <2> QED BY <1>12, <2>1 DEF UpdateWrite
<1>13. ASSUME NEW w \in Workers, Refused(w) PROVE TypeOK'
  <2>1. pc' \in [Workers -> Pc] /\ my' \in [Workers -> Memory]
    BY <1>13, <1>a, StepTyped DEF Refused
  <2> QED BY <1>13, <2>1 DEF Refused
<1>14. ASSUME NEW w \in Workers, CaptureRead(w) PROVE TypeOK'
  <2>1. pc' \in [Workers -> Pc] /\ my' \in [Workers -> Memory]
    BY <1>14, <1>a, StepTyped DEF CaptureRead
  <2> QED BY <1>14, <2>1 DEF CaptureRead
<1>15. ASSUME NEW w \in Workers, CaptureWrite(w) PROVE TypeOK'
  <2>1. pc' \in [Workers -> Pc] /\ my' \in [Workers -> Memory]
    BY <1>15, <1>a, StepTyped DEF CaptureWrite
  <2>2. my[w].task \in Task
    BY <1>15 DEF CaptureWrite, MemorySane
  <2> QED BY <1>15, <2>1, <2>2 DEF CaptureWrite
<1>16. ASSUME NEW w \in Workers, ViewResults(w) \/ ViewHidden(w) PROVE TypeOK'
  <2>1. pc' \in [Workers -> Pc] /\ my' \in [Workers -> Memory]
    BY <1>16, <1>a, StepTyped DEF ViewResults, ViewHidden
  <2> QED BY <1>16, <2>1 DEF ViewResults, ViewHidden
<1>17. ASSUME NEW t \in Task, NEW k \in {"checkbox", "decision"}, Create(t, k) PROVE TypeOK'
  BY <1>17 DEF Create, Insert
<1>18. ASSUME NEW t \in Task, Remove(t) PROVE TypeOK'
  BY <1>18 DEF Remove, Unvoted
<1>19. ASSUME NEW t \in Task, Resolve(t) PROVE TypeOK'
  BY <1>19 DEF Resolve
<1>20. ASSUME NEW clients \in SUBSET Clients, AssignClients(clients) PROVE TypeOK'
  BY <1>20 DEF AssignClients
<1>21. ASSUME UNCHANGED vars PROVE TypeOK'
  BY <1>21 DEF vars
<1> HIDE DEF TypeOK
<1> QED
  BY <1>1, <1>2, <1>3, <1>4, <1>5, <1>6, <1>7, <1>8, <1>9, <1>10, <1>11, <1>12, <1>13, <1>14,
     <1>15, <1>16, <1>17, <1>18, <1>19, <1>20, <1>21 DEF Next, Ask, Answer

----------------------------------------------------------------------------
(* What requests remember, and votes on closed decisions *)

LEMMA NextMemorySane == ASSUME TypeOK, MemorySane, [Next]_vars PROVE MemorySane'
<1> USE DEF TypeOK, Goto, Forget, Remember, MemorySane, taskVars, voteVars, Exists, Blank
<1>1. ASSUME NEW w \in Workers, NEW c \in Clients, CreateForClientRead(w, c)
      PROVE  MemorySane'
  BY <1>1 DEF CreateForClientRead
<1>2. ASSUME NEW w \in Workers, NEW c \in Clients, NEW t \in Task, VoteRead(w, c, t)
      PROVE  MemorySane'
  BY <1>2 DEF VoteRead
<1>3. ASSUME NEW w \in Workers, NEW c \in Clients, NEW t \in Task, CancelRead(w, c, t)
      PROVE  MemorySane'
  BY <1>3 DEF CancelRead
<1>4. ASSUME NEW w \in Workers, NEW c \in Clients, NEW t \in Task, ViewRead(w, c, t)
      PROVE  MemorySane'
  BY <1>4 DEF ViewRead
<1>5. ASSUME NEW w \in Workers, NEW t \in Task, CloseRead(w, t) PROVE MemorySane'
  BY <1>5 DEF CloseRead
<1>6. ASSUME NEW w \in Workers, NEW t \in Task, UpdateRead(w, t) PROVE MemorySane'
  BY <1>6 DEF UpdateRead
<1>7. ASSUME NEW w \in Workers, CreateForClientWrite(w) PROVE MemorySane'
  BY <1>7 DEF CreateForClientWrite, Insert
<1>8. ASSUME NEW w \in Workers, VoteCheck(w) PROVE MemorySane'
  BY <1>8 DEF VoteCheck
<1>9. ASSUME NEW w \in Workers, NEW o \in Option, VoteWrite(w, o) PROVE MemorySane'
  BY <1>9 DEF VoteWrite
<1>10. ASSUME NEW w \in Workers, CloseWrite(w) PROVE MemorySane'
  BY <1>10 DEF CloseWrite
<1>11. ASSUME NEW w \in Workers, CancelWrite(w) PROVE MemorySane'
  BY <1>11 DEF CancelWrite
<1>12. ASSUME NEW w \in Workers, NEW s \in Statuses, UpdateWrite(w, s) PROVE MemorySane'
  BY <1>12 DEF UpdateWrite
<1>13. ASSUME NEW w \in Workers, Refused(w) PROVE MemorySane'
  BY <1>13 DEF Refused
<1>14. ASSUME NEW w \in Workers, CaptureRead(w) PROVE MemorySane'
  BY <1>14 DEF CaptureRead
<1>15. ASSUME NEW w \in Workers, CaptureWrite(w) PROVE MemorySane'
  BY <1>15 DEF CaptureWrite
<1>16. ASSUME NEW w \in Workers, ViewResults(w) \/ ViewHidden(w) PROVE MemorySane'
  BY <1>16 DEF ViewResults, ViewHidden
<1>17. ASSUME NEW t \in Task, NEW k \in {"checkbox", "decision"}, Create(t, k) PROVE MemorySane'
  BY <1>17 DEF Create, Insert
<1>18. ASSUME NEW t \in Task, Remove(t) PROVE MemorySane'
  BY <1>18 DEF Remove
<1>19. ASSUME NEW t \in Task, Resolve(t) PROVE MemorySane'
  BY <1>19 DEF Resolve
<1>20. ASSUME NEW clients \in SUBSET Clients, AssignClients(clients) PROVE MemorySane'
  BY <1>20 DEF AssignClients
<1>21. ASSUME UNCHANGED vars PROVE MemorySane'
  BY <1>21 DEF vars
<1> QED
  BY <1>1, <1>2, <1>3, <1>4, <1>5, <1>6, <1>7, <1>8, <1>9, <1>10, <1>11, <1>12, <1>13,
     <1>14, <1>15, <1>16, <1>17, <1>18, <1>19, <1>20, <1>21 DEF Next, Ask, Answer

\* A request that does not vote changes neither votes nor who is voting.
LEMMA NoVote ==
  ASSUME VotesInFlight, TallyFinal, NEW w \in Workers, UNCHANGED <<closed, late, result, vote>>,
         pc'[w] \notin {"vote", "voting"},
         \A v \in Workers \ {w} : pc'[v] = pc[v] /\ my'[v] = my[v]
  PROVE  VotesInFlight' /\ TallyFinal'
<1>1. \A v \in Workers, t \in Task : Voting(v, t)' => Voting(v, t) /\ my'[v] = my[v]
  BY DEF Voting
<1>2. VotesInFlight'
  BY <1>1 DEF VotesInFlight
<1>3. TallyFinal'
  BY DEF TallyFinal
<1> QED BY <1>2, <1>3

\* A vote that is in flight when its decision is closed is known to be late; no
\* vote starts after that.
LEMMA NextTally ==
  ASSUME TypeOK, MemorySane, VotesInFlight, TallyFinal, [Next]_vars
  PROVE  VotesInFlight' /\ TallyFinal'
<1> USE DEF TypeOK, Goto, Forget, Remember, taskVars, voteVars, Exists, Blank,
            VotesInFlight, TallyFinal, Voting
<1>1. ASSUME NEW w \in Workers, NEW c \in Clients, CreateForClientRead(w, c)
      PROVE  VotesInFlight' /\ TallyFinal'
  BY <1>1 DEF CreateForClientRead
<1>2. ASSUME NEW w \in Workers, NEW c \in Clients, NEW t \in Task, VoteRead(w, c, t)
      PROVE  VotesInFlight' /\ TallyFinal'
  BY <1>2 DEF VoteRead
<1>3. ASSUME NEW w \in Workers, NEW c \in Clients, NEW t \in Task, CancelRead(w, c, t)
      PROVE  VotesInFlight' /\ TallyFinal'
  BY <1>3 DEF CancelRead
<1>4. ASSUME NEW w \in Workers, NEW c \in Clients, NEW t \in Task, ViewRead(w, c, t)
      PROVE  VotesInFlight' /\ TallyFinal'
  BY <1>4 DEF ViewRead
<1>5. ASSUME NEW w \in Workers, NEW t \in Task, CloseRead(w, t)
      PROVE  VotesInFlight' /\ TallyFinal'
  BY <1>5 DEF CloseRead
<1>6. ASSUME NEW w \in Workers, NEW t \in Task, UpdateRead(w, t)
      PROVE  VotesInFlight' /\ TallyFinal'
  BY <1>6 DEF UpdateRead
<1>7. ASSUME NEW w \in Workers, CreateForClientWrite(w) PROVE VotesInFlight' /\ TallyFinal'
  BY <1>7 DEF CreateForClientWrite, Insert
<1>8. ASSUME NEW w \in Workers, VoteCheck(w) PROVE VotesInFlight' /\ TallyFinal'
  BY <1>8 DEF VoteCheck
<1>9. ASSUME NEW w \in Workers, NEW o \in Option, VoteWrite(w, o)
      PROVE  VotesInFlight' /\ TallyFinal'
  <2>1. /\ my[w].task \in Task /\ my[w].client \in Clients /\ Voting(w, my[w].task)
        /\ closed' = closed /\ late' = late /\ result' = result
        /\ pc' = [pc EXCEPT ![w] = "idle"]
        /\ vote' = [vote EXCEPT ![my[w].task][my[w].client] = o]
        /\ my' = [my EXCEPT ![w] = Blank]
    BY <1>9 DEF VoteWrite, MemorySane
  <2>2. VotesInFlight'
    BY <2>1
  <2>3. TallyFinal'
    BY <2>1
  <2> QED BY <2>2, <2>3
<1>10. ASSUME NEW w \in Workers, CloseWrite(w) PROVE VotesInFlight' /\ TallyFinal'
  <2> DEFINE d == my[w].task
             S == {my[v].client : v \in {u \in Workers : Voting(u, d)}}
  <2>1. d \in Task /\ pc' = [pc EXCEPT ![w] = "capture"] /\ my' = my /\ vote' = vote
        /\ closed' = [closed EXCEPT ![d] = TRUE]
    BY <1>10 DEF CloseWrite, MemorySane
  <2>2. CASE closed[d]
    <3>1. closed' = closed /\ late' = late /\ result' = result
      BY <1>10, <2>1, <2>2 DEF CloseWrite, Record
    <3> QED BY <3>1, <2>1
  <2>3. CASE ~closed[d]
    <3>1. result' = [result EXCEPT ![d] = vote[d]] /\ late' = [late EXCEPT ![d] = S]
      BY <1>10, <2>3 DEF CloseWrite, Record
    <3>2. \A v \in Workers : Voting(v, d) => my[v].client \in S
      OBVIOUS
    <3> HIDE DEF S
    <3> QED BY <2>1, <3>1, <3>2
  <2> QED BY <2>2, <2>3
<1>11. ASSUME NEW w \in Workers, CancelWrite(w) PROVE VotesInFlight' /\ TallyFinal'
  BY <1>11 DEF CancelWrite
<1>12. ASSUME NEW w \in Workers, NEW s \in Statuses, UpdateWrite(w, s)
      PROVE  VotesInFlight' /\ TallyFinal'
  <2>1. UNCHANGED <<closed, late, result, vote>>
    BY <1>12 DEF UpdateWrite
  <2>2. \A v \in Workers \ {w} : my'[v] = my[v]
    BY <1>12 DEF UpdateWrite
  <2>3. pc'[w] \in {"capture", "idle"} /\ \A v \in Workers \ {w} : pc'[v] = pc[v]
    BY <1>12 DEF UpdateWrite
  <2> HIDE DEF VotesInFlight, TallyFinal, Voting, TypeOK
  <2> QED BY <2>1, <2>2, <2>3, NoVote
<1>13. ASSUME NEW w \in Workers, Refused(w) PROVE VotesInFlight' /\ TallyFinal'
  BY <1>13 DEF Refused
<1>14. ASSUME NEW w \in Workers, CaptureRead(w) PROVE VotesInFlight' /\ TallyFinal'
  <2>1. UNCHANGED <<closed, late, result, vote>>
    BY <1>14 DEF CaptureRead
  <2>2. \A v \in Workers \ {w} : my'[v] = my[v]
    BY <1>14 DEF CaptureRead
  <2>3. pc'[w] \in {"captured", "idle"} /\ \A v \in Workers \ {w} : pc'[v] = pc[v]
    BY <1>14 DEF CaptureRead
  <2> HIDE DEF VotesInFlight, TallyFinal, Voting, TypeOK
  <2> QED BY <2>1, <2>2, <2>3, NoVote
<1>15. ASSUME NEW w \in Workers, CaptureWrite(w) PROVE VotesInFlight' /\ TallyFinal'
  BY <1>15 DEF CaptureWrite
<1>16. ASSUME NEW w \in Workers, ViewResults(w) \/ ViewHidden(w)
      PROVE  VotesInFlight' /\ TallyFinal'
  <2>1. /\ pc' = [pc EXCEPT ![w] = "idle"] /\ my' = [my EXCEPT ![w] = Blank]
        /\ UNCHANGED <<taskVars, voteVars>>
    BY <1>16 DEF ViewResults, ViewHidden
  <2> QED BY <2>1
<1>17. ASSUME NEW t \in Task, NEW k \in {"checkbox", "decision"}, Create(t, k) PROVE VotesInFlight' /\ TallyFinal'
  BY <1>17 DEF Create, Insert
<1>18. ASSUME NEW t \in Task, Remove(t) PROVE VotesInFlight' /\ TallyFinal'
  BY <1>18 DEF Remove
<1>19. ASSUME NEW t \in Task, Resolve(t) PROVE VotesInFlight' /\ TallyFinal'
  BY <1>19 DEF Resolve
<1>20. ASSUME NEW clients \in SUBSET Clients, AssignClients(clients) PROVE VotesInFlight' /\ TallyFinal'
  BY <1>20 DEF AssignClients
<1>21. ASSUME UNCHANGED vars PROVE VotesInFlight' /\ TallyFinal'
  BY <1>21 DEF vars
<1> QED
  BY <1>1, <1>2, <1>3, <1>4, <1>5, <1>6, <1>7, <1>8, <1>9, <1>10, <1>11, <1>12, <1>13,
     <1>14, <1>15, <1>16, <1>17, <1>18, <1>19, <1>20, <1>21 DEF Next, Ask, Answer

----------------------------------------------------------------------------
(* The bound on unresolved captures *)

\* A step that adds neither a capture nor a request about to create one keeps
\* the bound.
LEMMA FewerCaptures ==
  ASSUME CapturesBounded, open \in [Task -> Nat], open' \in [Task -> Nat],
         \A t \in Task : open'[t] <= open[t] /\ Capturing(t)' \subseteq Capturing(t)
  PROVE  CapturesBounded'
<1> SUFFICES ASSUME NEW t \in Task
             PROVE  open'[t] + Cardinality(Capturing(t)') <= Cardinality(Workers)
  BY DEF CapturesBounded
<1>1. Capturing(t) \in SUBSET Workers /\ Capturing(t)' \in SUBSET Capturing(t)
  BY DEF Capturing
<1>2. IsFiniteSet(Capturing(t)) /\ IsFiniteSet(Capturing(t)')
  BY <1>1, FS_Subset
<1>3. Cardinality(Capturing(t)') <= Cardinality(Capturing(t))
  BY <1>1, <1>2, FS_Subset
<1>4. /\ Cardinality(Capturing(t)) \in Nat /\ Cardinality(Capturing(t)') \in Nat
      /\ Cardinality(Workers) \in Nat
  BY <1>2, FS_CardinalityType
<1>5. open[t] + Cardinality(Capturing(t)) <= Cardinality(Workers)
  BY DEF CapturesBounded
<1>6. open'[t] \in Nat /\ open[t] \in Nat /\ open'[t] <= open[t]
  OBVIOUS
<1> QED BY <1>3, <1>4, <1>5, <1>6

\* A request may create a capture only where it found none: the requests that are
\* about to are at most all there are.
LEMMA CaptureReadBounded ==
  ASSUME TypeOK, CapturesBounded, NEW w \in Workers, CaptureRead(w)
  PROVE  CapturesBounded'
<1> DEFINE d == my[w].task
<1>1. open' = open
  BY DEF CaptureRead
<1>2. \A t \in Task : (t = d /\ open[d] = 0) \/ Capturing(t)' \subseteq Capturing(t)
  <2>1. CASE open[d] = 0
    <3>1. pc' = [pc EXCEPT ![w] = "captured"] /\ my' = my
      BY <2>1 DEF CaptureRead, Goto
    <3> QED BY <3>1, <2>1 DEF Capturing, TypeOK
  <2>2. CASE open[d] # 0
    <3>1. pc' = [pc EXCEPT ![w] = "idle"] /\ my' = [my EXCEPT ![w] = Blank]
      BY <2>2 DEF CaptureRead, Goto, Forget, Remember
    <3> QED BY <3>1 DEF Capturing, TypeOK
  <2> QED BY <2>1, <2>2
<1> SUFFICES ASSUME NEW t \in Task
             PROVE  open[t] + Cardinality(Capturing(t)') <= Cardinality(Workers)
  BY <1>1 DEF CapturesBounded
<1>3. Capturing(t)' \in SUBSET Workers /\ Capturing(t) \in SUBSET Workers
  BY DEF Capturing
<1>4. /\ IsFiniteSet(Capturing(t)') /\ IsFiniteSet(Capturing(t))
      /\ Cardinality(Capturing(t)') <= Cardinality(Workers)
  BY <1>3, FS_Subset
<1>5. /\ Cardinality(Capturing(t)) \in Nat /\ Cardinality(Capturing(t)') \in Nat
      /\ Cardinality(Workers) \in Nat /\ open[t] \in Nat
  BY <1>4, FS_CardinalityType DEF TypeOK
<1>6. CASE t = d /\ open[d] = 0
  BY <1>4, <1>5, <1>6
<1>7. CASE Capturing(t)' \subseteq Capturing(t)
  <2>1. Cardinality(Capturing(t)') <= Cardinality(Capturing(t))
    BY <1>4, <1>7, FS_Subset
  <2>2. open[t] + Cardinality(Capturing(t)) <= Cardinality(Workers)
    BY DEF CapturesBounded
  <2> QED BY <2>1, <2>2, <1>5
<1> QED BY <1>2, <1>6, <1>7

\* A capture that is created takes the place of the request that creates it.
LEMMA CaptureWriteBounded ==
  ASSUME TypeOK, MemorySane, CapturesBounded, NEW w \in Workers, CaptureWrite(w)
  PROVE  CapturesBounded'
<1> DEFINE d == my[w].task
<1>1. d \in Task /\ d \notin {None}
  BY DEF CaptureWrite, Goto, MemorySane
<1>2. /\ pc[w] = "captured" /\ pc' = [pc EXCEPT ![w] = "idle"]
      /\ my' = [my EXCEPT ![w] = Blank]
  BY DEF CaptureWrite, Goto, Forget, Remember
<1>3. \A t \in Task : Capturing(t)' = Capturing(t) \ {w}
  BY <1>2 DEF Capturing, TypeOK
<1>4. w \in Capturing(d)
  BY <1>2 DEF Capturing
<1> SUFFICES ASSUME NEW t \in Task
             PROVE  open'[t] + Cardinality(Capturing(t)') <= Cardinality(Workers)
  BY DEF CapturesBounded
<1>5. IsFiniteSet(Capturing(t))
  <2>1. Capturing(t) \in SUBSET Workers
    BY DEF Capturing
  <2> QED BY <2>1, FS_Subset
<1>6. Cardinality(Capturing(t) \ {w}) =
        IF w \in Capturing(t) THEN Cardinality(Capturing(t)) - 1 ELSE Cardinality(Capturing(t))
  BY <1>5, FS_RemoveElement
<1>7. Cardinality(Capturing(t)) \in Nat /\ Cardinality(Workers) \in Nat /\ open[t] \in Nat
  BY <1>5, FS_CardinalityType DEF TypeOK
<1>8. open'[t] = open[t] \/ (t = d /\ open'[t] = open[t] + 1)
  BY <1>1 DEF CaptureWrite, TypeOK
<1>9. open[t] + Cardinality(Capturing(t)) <= Cardinality(Workers)
  BY DEF CapturesBounded
<1>10. Cardinality(Capturing(t)') = Cardinality(Capturing(t) \ {w})
  BY <1>3
<1> HIDE DEF d
<1> QED BY <1>4, <1>6, <1>7, <1>8, <1>9, <1>10

LEMMA NextCaptures ==
  ASSUME TypeOK, TypeOK', MemorySane, CapturesBounded, [Next]_vars
  PROVE  CapturesBounded'
<1> USE DEF Goto, Forget, Remember, taskVars, voteVars
<1>1. ASSUME \A t \in Task : open'[t] <= open[t] /\ Capturing(t)' \subseteq Capturing(t)
      PROVE  CapturesBounded'
  BY <1>1, FewerCaptures DEF TypeOK
<1>2. ASSUME NEW w \in Workers, NEW to \in Pc \ {"captured"}, open' = open,
             pc' = [pc EXCEPT ![w] = to], \A v \in Workers \ {w} : my'[v] = my[v]
      PROVE  CapturesBounded'
  <2>1. \A t \in Task : Capturing(t)' \subseteq Capturing(t)
    BY <1>2 DEF Capturing, TypeOK
  <2> QED BY <2>1, <1>1, <1>2 DEF TypeOK
<1>3. ASSUME NEW w \in Workers, Ask(w) PROVE CapturesBounded'
  <2> DEFINE Turns(to) == /\ to \in Pc \ {"captured"} /\ pc' = [pc EXCEPT ![w] = to] /\ open' = open
                           /\ \A v \in Workers \ {w} : my'[v] = my[v]
  <2>1. ASSUME NEW c \in Clients, CreateForClientRead(w, c) PROVE Turns("request")
    BY <2>1 DEF CreateForClientRead, Pc, TypeOK
  <2>2. ASSUME NEW c \in Clients, NEW t \in Task, VoteRead(w, c, t) PROVE Turns("vote")
    BY <2>2 DEF VoteRead, Pc, TypeOK
  <2>3. ASSUME NEW c \in Clients, NEW t \in Task, CancelRead(w, c, t) PROVE Turns("cancel")
    BY <2>3 DEF CancelRead, Pc, TypeOK
  <2>4. ASSUME NEW c \in Clients, NEW t \in Task, ViewRead(w, c, t) PROVE Turns("view")
    BY <2>4 DEF ViewRead, Pc, TypeOK
  <2>5. ASSUME NEW t \in Task, CloseRead(w, t) PROVE Turns("close")
    BY <2>5 DEF CloseRead, Pc, TypeOK
  <2>6. ASSUME NEW t \in Task, UpdateRead(w, t) PROVE Turns("update")
    BY <2>6 DEF UpdateRead, Pc, TypeOK
  <2>7. ASSUME NEW to, Turns(to) PROVE CapturesBounded'
    BY <1>2, <2>7
  <2> HIDE DEF Turns
  <2> QED BY <1>3, <2>1, <2>2, <2>3, <2>4, <2>5, <2>6, <2>7 DEF Ask
<1>4. ASSUME NEW w \in Workers, Answer(w), ~CaptureRead(w), ~CaptureWrite(w)
      PROVE  CapturesBounded'
  <2>1. PICK to \in Pc \ {"captured"} : pc' = [pc EXCEPT ![w] = to]
    BY <1>4 DEF Answer, CreateForClientWrite, VoteCheck, VoteWrite, CloseWrite, CancelWrite,
                UpdateWrite, Refused, ViewResults, ViewHidden, Pc
  <2>2. open' = open /\ \A v \in Workers \ {w} : my'[v] = my[v]
    BY <1>4 DEF Answer, CreateForClientWrite, VoteCheck, VoteWrite, CloseWrite, CancelWrite,
                UpdateWrite, Refused, ViewResults, ViewHidden, TypeOK
  <2> QED BY <2>1, <2>2, <1>2
<1>5. ASSUME NEW t \in Task, NEW k \in {"checkbox", "decision"}, Create(t, k)
      PROVE  CapturesBounded'
  BY <1>5, <1>1 DEF Create, Capturing, TypeOK
<1>6. ASSUME NEW t \in Task, Remove(t) PROVE CapturesBounded'
  BY <1>6, <1>1 DEF Remove, Capturing, TypeOK
<1>7. ASSUME NEW t \in Task, Resolve(t) PROVE CapturesBounded'
  BY <1>7, <1>1 DEF Resolve, Capturing, TypeOK
<1>8. ASSUME NEW clients \in SUBSET Clients, AssignClients(clients) PROVE CapturesBounded'
  BY <1>8, <1>1 DEF AssignClients, Capturing, TypeOK
<1>9. ASSUME UNCHANGED vars PROVE CapturesBounded'
  BY <1>9, <1>1 DEF vars, Capturing, TypeOK
<1> QED
  BY <1>3, <1>4, <1>5, <1>6, <1>7, <1>8, <1>9, CaptureReadBounded, CaptureWriteBounded DEF Next

----------------------------------------------------------------------------
(* Theorems *)

LEMMA Invariance == Spec => []IInv
<1>1. IInv /\ [Next]_vars => IInv'
  BY NextTypeOK, NextMemorySane, NextTally, NextCaptures DEF IInv
<1> QED BY InitIInv, <1>1, PTL DEF Spec

\* Every reachable state is well typed; what does not exist has no votes and no
\* captures.
THEOREM TypeCorrect == Spec => []TypeOK
<1>1. IInv => TypeOK
  BY DEF IInv
<1> QED BY Invariance, <1>1, PTL

\* After the close only votes in flight at that moment change a result.
THEOREM TallyIsFinal == Spec => []TallyFinal
<1>1. IInv => TallyFinal
  BY DEF IInv
<1> QED BY Invariance, <1>1, PTL

\* A task has no more open captures than requests that complete it together.
THEOREM CapturesAreBounded == Spec => []CapturesBounded
<1>1. IInv => CapturesBounded
  BY DEF IInv
<1> QED BY Invariance, <1>1, PTL
=============================================================================
