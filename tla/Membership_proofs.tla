-------------------------- MODULE Membership_proofs --------------------------
(***************************************************************************)
(* Proofs about Membership, for any number of people, rows, invitations,   *)
(* projects and requests.                                                  *)
(***************************************************************************)
EXTENDS Membership, FiniteSetTheorems, TLAPS

USE MembershipAssumption

----------------------------------------------------------------------------
(* Steps that only read, and the worker that takes a step *)

\* What a request remembers when it begins.
Remembers ==
  /\ Blank \in Memory
  /\ \A u, x \in Person, role \in Roles : [Blank EXCEPT !.by = u, !.for = x, !.role = role] \in Memory
  /\ \A x \in Person, i \in Invitation, role \in Roles :
       [Blank EXCEPT !.for = x, !.invite = i, !.role = role] \in Memory
  /\ \A u, x \in Person, r \in Row, ps \in SUBSET Project, os \in SUBSET (Row \X Person) :
       [Blank EXCEPT !.by = u, !.for = x, !.row = r, !.seen = ps, !.owners = os] \in Memory
  /\ \A u \in Person, r \in Row, role \in Roles, os \in SUBSET (Row \X Person) :
       [Blank EXCEPT !.by = u, !.row = r, !.role = role, !.owners = os] \in Memory
  /\ \A u \in Person, f \in BOOLEAN, os \in SUBSET (Row \X Person) :
       [Blank EXCEPT !.by = u, !.owners = os, !.flag = f] \in Memory
  /\ \A us \in SUBSET Person : [Blank EXCEPT !.clients = us] \in Memory
  /\ \A p \in Project, us \in SUBSET Person : [Blank EXCEPT !.project = p, !.clients = us] \in Memory
  /\ \A m \in Memory, f \in BOOLEAN, r \in Row \cup {None} : [m EXCEPT !.flag = f, !.row = r] \in Memory

LEMMA MemoryTypes == Remembers
<1> USE DEF Memory, Blank, Roles
<1>1. Blank \in Memory
  OBVIOUS
<1>2. \A u, x \in Person, role \in Roles : [Blank EXCEPT !.by = u, !.for = x, !.role = role] \in Memory
  OBVIOUS
<1>3. \A x \in Person, i \in Invitation, role \in Roles :
       [Blank EXCEPT !.for = x, !.invite = i, !.role = role] \in Memory
  OBVIOUS
<1>4. \A u, x \in Person, r \in Row, ps \in SUBSET Project, os \in SUBSET (Row \X Person) :
       [Blank EXCEPT !.by = u, !.for = x, !.row = r, !.seen = ps, !.owners = os] \in Memory
  OBVIOUS
<1>5. \A u \in Person, r \in Row, role \in Roles, os \in SUBSET (Row \X Person) :
       [Blank EXCEPT !.by = u, !.row = r, !.role = role, !.owners = os] \in Memory
  OBVIOUS
<1>6. \A u \in Person, f \in BOOLEAN, os \in SUBSET (Row \X Person) :
       [Blank EXCEPT !.by = u, !.owners = os, !.flag = f] \in Memory
  OBVIOUS
<1>7. \A us \in SUBSET Person : [Blank EXCEPT !.clients = us] \in Memory
  OBVIOUS
<1>8. \A p \in Project, us \in SUBSET Person : [Blank EXCEPT !.project = p, !.clients = us] \in Memory
  OBVIOUS
<1>9. \A m \in Memory, f \in BOOLEAN, r \in Row \cup {None} : [m EXCEPT !.flag = f, !.row = r] \in Memory
  <2>1. \A m \in Memory, f \in BOOLEAN : [m EXCEPT !.flag = f] \in Memory
    OBVIOUS
  <2>2. \A m \in Memory, r \in Row \cup {None} : [m EXCEPT !.row = r] \in Memory
    OBVIOUS
  <2>3. ASSUME NEW m \in Memory, NEW f \in BOOLEAN, NEW r \in Row \cup {None}
        PROVE  [m EXCEPT !.flag = f, !.row = r] \in Memory
    <3>1. PICK n : n = [m EXCEPT !.flag = f]
      OBVIOUS
    <3>2. n \in Memory
      BY <2>1, <3>1
    <3>3. [n EXCEPT !.row = r] \in Memory
      BY <2>2, <3>2
    <3> QED
      BY <3>1, <3>3
  <2> QED
    BY <2>3
<1> QED
  BY <1>1, <1>2, <1>3, <1>4, <1>5, <1>6, <1>7, <1>8, <1>9 DEF Remembers

\* The rows of a person, and the people who have rows, have their types.
LEMMA RowTypes ==
  ASSUME TypeOK
  PROVE  /\ \A r \in Row : row[r] # NoRow => row[r] \in Member /\ row[r].user \in Person
         /\ \A r \in Row : row[r] = NoRow <=> row[r].user = None
         /\ \A i \in Invitation : invited[i] # NoInvite =>
              /\ invited[i] \in Invite /\ invited[i].for \in Person /\ invited[i].role \in Roles
         /\ Owning \in SUBSET (Row \X Person)
<1>1. \A r \in Row : row[r] # NoRow => row[r] \in Member /\ row[r].user \in Person
  BY DEF TypeOK, Member
<1>2. \A r \in Row : row[r] = NoRow <=> row[r].user = None
  BY DEF TypeOK, Member, NoRow
<1>3. \A i \in Invitation : invited[i] # NoInvite =>
        /\ invited[i] \in Invite /\ invited[i].for \in Person /\ invited[i].role \in Roles
  BY DEF TypeOK, Invite
<1>4. \A r \in Owners : r \in Row /\ row[r].user \in Person
  BY <1>1, <1>2 DEF Owners
<1>5. Owning \in SUBSET (Row \X Person)
  BY <1>4 DEF Owning
<1> QED BY <1>1, <1>2, <1>3, <1>5

\* A step of one request that changes no row: it remembers what is typed and true.
ReadsOnly(w) ==
  /\ UNCHANGED dataVars
  /\ pc' \in [Workers -> Pc] /\ my' \in [Workers -> Memory]
  /\ \A v \in Workers \ {w} : pc'[v] = pc[v] /\ my'[v] = my[v]

LEMMA ReadsKeepTypes ==
  ASSUME TypeOK, NEW w \in Workers, ReadsOnly(w)
  PROVE  TypeOK'
  BY DEF TypeOK, ReadsOnly, dataVars, Members, RowsOf, Known

\* The reads, and what each of them remembers.
LEMMA Reads ==
  ASSUME TypeOK, NEW w \in Workers, NEW to \in Pc, NEW what \in Memory, Read(w, to, what)
  PROVE  ReadsOnly(w) /\ pc'[w] = to /\ my'[w] = what /\ pc[w] = "idle"
<1>1. "idle" \in Pc
  BY DEF Pc
<1> QED BY <1>1 DEF Read, Goto, Remember, ReadsOnly, TypeOK

BeginsToRead(w) ==
  \/ \E u, x \in Person, role \in Roles : InviteRead(w, u, x, role)
  \/ \E i \in Invitation : AcceptRead(w, i)
  \/ \E u \in Person, r \in Row : RemoveRead(w, u, r) \/ \E role \in Roles : RoleRead(w, u, r, role)
  \/ \E u \in Person : DeleteRead(w, u)
  \/ \E clients \in SUBSET Person :
       \/ CreateRead(w, clients) \/ AgentCreateRead(w, clients)
       \/ \E p \in Project : UpdateRead(w, p, clients) \/ AgentUpdateRead(w, p, clients)
  \/ \E p \in Project, all \in BOOLEAN : DuplicateRead(w, p, all)

\* A request that has begun knows whom and what it is about.
Knows(w) ==
  /\ pc'[w] \in {"invite", "accept", "join"} => my'[w].for \in Person
  /\ pc'[w] \in {"invite", "remove", "count", "role"} => my'[w].by \in Person
  /\ pc'[w] \in {"remove", "count", "role"} =>
       my'[w].row \in Row /\ row[my'[w].row].user # my'[w].by
  /\ pc'[w] = "remove" => row[my'[w].row].user \in {my'[w].for, None}
  /\ pc'[w] # "join"

LEMMA Begins ==
  ASSUME TypeOK, NEW w \in Workers, BeginsToRead(w)
  PROVE  ReadsOnly(w) /\ Knows(w) /\ pc[w] = "idle"
<1>1. Pc = {"idle", "invite", "expire", "accept", "join", "remove", "count", "role", "delete",
            "create", "update"}
  BY DEF Pc
<1>2. Remembers
  BY MemoryTypes
<1>3. /\ \A r \in Row : row[r] # NoRow => row[r].user \in Person
      /\ \A i \in Invitation : invited[i] # NoInvite =>
              invited[i].for \in Person /\ invited[i].role \in Roles
      /\ Owning \in SUBSET (Row \X Person)
  BY RowTypes
<1>4. CASE \E u, x \in Person, role \in Roles : InviteRead(w, u, x, role)
  <2> PICK u \in Person, x \in Person, role \in Roles : InviteRead(w, u, x, role)
    BY <1>4
  <2> DEFINE m == [Blank EXCEPT !.by = u, !.for = x, !.role = role]
  <2>1. m \in Memory /\ Read(w, "invite", m)
    BY <1>2 DEF Remembers, InviteRead
  <2>2. m.by = u /\ m.for = x
    BY DEF Blank
  <2> HIDE DEF m
  <2>3. ReadsOnly(w) /\ pc'[w] = "invite" /\ my'[w] = m /\ pc[w] = "idle"
    BY <1>1, <2>1, Reads
  <2> QED BY <2>2, <2>3 DEF Knows
<1>5. CASE \E i \in Invitation : AcceptRead(w, i)
  <2> PICK i \in Invitation : AcceptRead(w, i)
    BY <1>5
  <2> DEFINE m == [Blank EXCEPT !.for = invited[i].for, !.invite = i, !.role = invited[i].role]
  <2>1. invited[i] # NoInvite
    BY DEF AcceptRead, NoInvite
  <2>2. m \in Memory
    BY <1>2, <1>3, <2>1 DEF Remembers
  <2>3. m.for = invited[i].for /\ Read(w, IF i \in late THEN "expire" ELSE "accept", m)
    BY DEF Blank, AcceptRead
  <2> HIDE DEF m
  <2>4. PICK to \in {"expire", "accept"} : Read(w, to, m)
    BY <2>3
  <2>5. ReadsOnly(w) /\ pc'[w] = to /\ my'[w] = m /\ pc[w] = "idle"
    BY <1>1, <2>2, <2>4, Reads
  <2> QED BY <1>3, <2>1, <2>3, <2>5 DEF Knows
<1>6. CASE \E u \in Person, r \in Row : RemoveRead(w, u, r)
  <2> PICK u \in Person, r \in Row : RemoveRead(w, u, r)
    BY <1>6
  <2> DEFINE m == [Blank EXCEPT !.by = u, !.for = row[r].user, !.row = r,
                                !.seen = {p \in Project : Exists(p)}, !.owners = Owning]
  <2>1. row[r].user \in Person /\ row[r].user # u
    BY <1>3 DEF RemoveRead
  <2>2. m \in Memory
    BY <1>2, <1>3, <2>1 DEF Remembers
  <2>3. m.by = u /\ m.for = row[r].user /\ m.row = r /\ Read(w, "remove", m)
    BY DEF Blank, RemoveRead
  <2> HIDE DEF m
  <2>4. ReadsOnly(w) /\ pc'[w] = "remove" /\ my'[w] = m /\ pc[w] = "idle"
    BY <1>1, <2>2, <2>3, Reads
  <2> QED BY <2>1, <2>3, <2>4 DEF Knows
<1>7. CASE \E u \in Person, r \in Row, role \in Roles : RoleRead(w, u, r, role)
  <2> PICK u \in Person, r \in Row, role \in Roles : RoleRead(w, u, r, role)
    BY <1>7
  <2> DEFINE m == [Blank EXCEPT !.by = u, !.row = r, !.role = role, !.owners = Owning]
  <2>1. row[r].user # u
    BY DEF RoleRead
  <2>2. m \in Memory
    BY <1>2, <1>3 DEF Remembers
  <2>3. m.by = u /\ m.row = r /\ Read(w, IF row[r].role = "owner" THEN "count" ELSE "role", m)
    BY DEF Blank, RoleRead
  <2> HIDE DEF m
  <2>4. PICK to \in {"count", "role"} : Read(w, to, m)
    BY <2>3
  <2>5. ReadsOnly(w) /\ pc'[w] = to /\ my'[w] = m /\ pc[w] = "idle"
    BY <1>1, <2>2, <2>4, Reads
  <2> QED BY <2>1, <2>3, <2>5 DEF Knows
<1>8. CASE \/ \E u \in Person : DeleteRead(w, u)
           \/ \E clients \in SUBSET Person : CreateRead(w, clients) \/ AgentCreateRead(w, clients)
           \/ \E clients \in SUBSET Person, p \in Project :
                UpdateRead(w, p, clients) \/ AgentUpdateRead(w, p, clients)
           \/ \E p \in Project, all \in BOOLEAN : DuplicateRead(w, p, all)
  <2>1. \E to \in {"delete", "create", "update"}, m \in Memory : Read(w, to, m)
    <3>1. ASSUME NEW u \in Person, DeleteRead(w, u)
          PROVE  \E m \in Memory : Read(w, "delete", m)
      <4>1. PICK f \in BOOLEAN : f = (HasRole(u, {"owner"}) /\ \A r \in Owners : row[r].user = u)
        OBVIOUS
      <4> QED BY <1>2, <1>3, <3>1, <4>1 DEF Remembers, DeleteRead
    <3>2. ASSUME NEW clients \in SUBSET Person, CreateRead(w, clients) \/ AgentCreateRead(w, clients)
          PROVE  \E m \in Memory : Read(w, "create", m)
      BY <1>2, <3>2 DEF Remembers, CreateRead, AgentCreateRead
    <3>3. ASSUME NEW clients \in SUBSET Person, NEW p \in Project,
                 UpdateRead(w, p, clients) \/ AgentUpdateRead(w, p, clients)
          PROVE  \E m \in Memory : Read(w, "update", m)
      BY <1>2, <3>3 DEF Remembers, UpdateRead, AgentUpdateRead
    <3>4. ASSUME NEW p \in Project, NEW all \in BOOLEAN, DuplicateRead(w, p, all)
          PROVE  \E m \in Memory : Read(w, "create", m)
      <4>1. PICK us \in SUBSET Person : us = IF all THEN project[p].clients ELSE {}
        BY DEF TypeOK, Body
      <4> QED BY <1>2, <3>4, <4>1 DEF Remembers, DuplicateRead
    <3> QED BY <1>8, <3>1, <3>2, <3>3, <3>4
  <2>2. PICK to \in {"delete", "create", "update"}, m \in Memory : Read(w, to, m)
    BY <2>1
  <2>3. ReadsOnly(w) /\ pc'[w] = to /\ my'[w] = m /\ pc[w] = "idle"
    BY <1>1, <2>2, Reads
  <2> QED BY <2>3 DEF Knows
<1> QED BY <1>4, <1>5, <1>6, <1>7, <1>8 DEF BeginsToRead

\* A request that ends forgets everything.
LEMMA Ends ==
  ASSUME TypeOK, NEW w \in Workers, NEW from, Done(w, from)
  PROVE  /\ pc[w] = from /\ pc'[w] = "idle" /\ my'[w] = Blank
         /\ pc' \in [Workers -> Pc] /\ my' \in [Workers -> Memory]
         /\ \A v \in Workers \ {w} : pc'[v] = pc[v] /\ my'[v] = my[v]
<1>1. Blank \in Memory /\ "idle" \in Pc
  BY MemoryTypes DEF Remembers, Pc
<1> HIDE DEF Blank, Memory, Pc
<1> QED BY <1>1 DEF Done, Goto, Remember, TypeOK

\* The reads in the middle of a request.
LEMMA FindsOrFails ==
  ASSUME TypeOK, NEW w \in Workers, AcceptFind(w) \/ RoleCount(w) \/ Fail(w)
  PROVE  ReadsOnly(w)
<1>1. {"idle", "join", "role"} \subseteq Pc /\ Blank \in Memory
  BY MemoryTypes DEF Remembers, Pc
<1>2. CASE AcceptFind(w)
  <2>1. PICK r \in Row \cup {None} :
          my' = [my EXCEPT ![w] = [my[w] EXCEPT !.flag = (user[my[w].for] = "known"), !.row = r]]
    BY <1>2 DEF AcceptFind, RowsOf, Remember
  <2>2. PICK f \in BOOLEAN : f = (user[my[w].for] = "known")
    OBVIOUS
  <2>3. my[w] \in Memory
    BY DEF TypeOK
  <2>4. [my[w] EXCEPT !.flag = f, !.row = r] \in Memory
    BY <2>3, MemoryTypes DEF Remembers
  <2> HIDE DEF Memory, Pc
  <2> QED BY <1>1, <1>2, <2>1, <2>2, <2>4 DEF AcceptFind, Goto, ReadsOnly, TypeOK
<1> HIDE DEF Memory, Pc, Blank
<1>3. CASE RoleCount(w)
  BY <1>1, <1>3 DEF RoleCount, Goto, ReadsOnly, TypeOK
<1>4. CASE Fail(w)
  BY <1>1, <1>4 DEF Fail, Remember, ReadsOnly, TypeOK
<1> QED BY <1>2, <1>3, <1>4

----------------------------------------------------------------------------
(* Types *)

LEMMA InitIInv == Init => IInv
<1> SUFFICES ASSUME Init PROVE IInv
  OBVIOUS
<1>1. Blank \in Memory /\ "idle" \in Pc
  BY MemoryTypes DEF Remembers, Pc
<1>2. TypeOK
  <2>1. PICK r0 \in Row : row = [x \in Row |-> IF x = r0 THEN [user |-> Founder, role |-> "owner"]
                                                       ELSE NoRow]
    BY DEF Init
  <2>2. row \in [Row -> Member \cup {NoRow}]
    BY <2>1 DEF Member, Roles
  <2>3. Members \subseteq Known
    BY <2>1 DEF Init, Members, RowsOf, Known, NoRow
  <2>4. NoProject \in Body /\ \A p \in Project : project[p].clients = {}
    BY DEF Init, NoProject, Body
  <2>5. user \in [Person -> {"new", "known", "gone"}]
    BY DEF Init
  <2> HIDE DEF Memory, Pc, Blank, Body, NoProject
  <2> QED BY <1>1, <2>2, <2>3, <2>4, <2>5 DEF Init, TypeOK
<1>3. RequestsSane /\ OwnersChecked /\ AssignedAreMembers
  BY DEF Init, RequestsSane, OwnersChecked, AssignedAreMembers, NoProject
<1>4. MembershipsBounded
  <2> SUFFICES ASSUME NEW u \in Person
               PROVE  Cardinality(RowsOf(u)) + Cardinality(Joining(u)) <= Cardinality(Workers)
    BY DEF MembershipsBounded
  <2>1. PICK r0 \in Row : RowsOf(u) \in SUBSET {r0}
    BY DEF Init, RowsOf, NoRow
  <2>2. Cardinality(Joining(u)) = 0
    BY FS_EmptySet DEF Init, Joining
  <2>3. Cardinality(RowsOf(u)) \in Nat /\ Cardinality(RowsOf(u)) <= 1
    <3>1. IsFiniteSet({r0}) /\ Cardinality({r0}) = 1
      BY FS_Singleton
    <3> QED BY <2>1, <3>1, FS_Subset, FS_CardinalityType
  <2>4. Cardinality(Workers) \in Nat /\ Cardinality(Workers) # 0
    BY FS_CardinalityType, FS_EmptySet
  <2> QED BY <2>2, <2>3, <2>4
<1> QED BY <1>2, <1>3, <1>4 DEF IInv

LEMMA NextTypeOK == IInv /\ [Next]_vars => TypeOK'
<1> SUFFICES ASSUME IInv, [Next]_vars PROVE TypeOK'
  OBVIOUS
<1>0. TypeOK /\ RequestsSane
  BY DEF IInv
<1>r. /\ \A r \in Row : row[r] # NoRow => row[r] \in Member /\ row[r].user \in Person
      /\ \A r \in Row : row[r] = NoRow <=> row[r].user = None
      /\ \A i \in Invitation : invited[i] # NoInvite =>
              /\ invited[i] \in Invite /\ invited[i].for \in Person /\ invited[i].role \in Roles
  BY <1>0, RowTypes
<1>m. \A w \in Workers : my[w] \in Memory /\ my[w].role \in Roles /\ my[w].clients \in SUBSET Person
  BY <1>0 DEF TypeOK, Memory
<1>b. NoRow \in Member \cup {NoRow} /\ NoProject \in Body /\ NoProject.clients = {}
  BY DEF NoProject, Body
<1>d. ASSUME NEW w \in Workers, NEW from, Done(w, from)
      PROVE  pc' \in [Workers -> Pc] /\ my' \in [Workers -> Memory] /\ pc[w] = from
  BY <1>0, <1>d, Ends
\* References are kept when nobody unknown joins or is assigned.
<1>k. ASSUME Members' \subseteq Members, user' = user, org' = org,
             \A p \in Project : project'[p].clients \subseteq Known
      PROVE  /\ Members' \subseteq Known' /\ \A p \in Project : project'[p].clients \subseteq Known'
             /\ ~org' => Members' = {}
  BY <1>0, <1>k DEF TypeOK, Known
<1> HIDE DEF Memory, Pc, Blank, Body, NoProject, Member, NoRow, Invite, NoInvite
<1>1. ASSUME NEW w \in Workers, BeginsToRead(w) \/ AcceptFind(w) \/ RoleCount(w) \/ Fail(w)
      PROVE  TypeOK'
  BY <1>0, <1>1, Begins, FindsOrFails, ReadsKeepTypes
<1>2. ASSUME NEW w \in Workers, NEW i \in Invitation, InviteWrite(w, i)
      PROVE  TypeOK'
  <2>1. my[w].for \in Person /\ my[w].by \in Person
    BY <1>0, <1>2, <1>d DEF InviteWrite, RequestsSane
  <2>2. [for |-> my[w].for, role |-> my[w].role, by |-> my[w].by, status |-> "pending"] \in Invite
    BY <1>m, <2>1 DEF Invite
  <2>3. invited' \in [Invitation -> Invite \cup {NoInvite}]
    BY <1>0, <1>2, <2>2 DEF InviteWrite, TypeOK
  <2>4. UNCHANGED <<org, user, row, late, project, stray>>
    BY <1>2 DEF InviteWrite
  <2>5. pc' \in [Workers -> Pc] /\ my' \in [Workers -> Memory]
    BY <1>2, <1>d DEF InviteWrite
  <2> QED BY <1>0, <2>3, <2>4, <2>5 DEF TypeOK, Members, RowsOf, Known
<1>3. ASSUME NEW w \in Workers, ExpireWrite(w)
      PROVE  TypeOK'
  <2>1. invited' \in [Invitation -> Invite \cup {NoInvite}]
    <3>1. \A x \in Invite : [x EXCEPT !.status = "expired"] \in Invite
      BY DEF Invite
    <3> QED BY <1>0, <1>3, <1>r, <3>1 DEF ExpireWrite, Answer, TypeOK
  <2>2. UNCHANGED <<org, user, row, late, project, stray>>
    BY <1>3 DEF ExpireWrite
  <2>3. pc' \in [Workers -> Pc] /\ my' \in [Workers -> Memory]
    BY <1>3, <1>d DEF ExpireWrite
  <2> QED BY <1>0, <2>1, <2>2, <2>3 DEF TypeOK, Members, RowsOf, Known
<1>4. ASSUME NEW w \in Workers, NEW r \in Row, Join(w, r)
      PROVE  TypeOK'
  <2>1. my[w].for \in Person
    BY <1>0, <1>4, <1>d DEF Join, RequestsSane
  <2>2. invited' \in [Invitation -> Invite \cup {NoInvite}]
    <3>1. \A x \in Invite : [x EXCEPT !.status = "accepted"] \in Invite
      BY DEF Invite
    <3> QED BY <1>0, <1>4, <1>r, <3>1 DEF Join, Answer, TypeOK
  <2>3. row' = row \/ row' = [row EXCEPT ![r] = [user |-> my[w].for, role |-> my[w].role]]
    BY <1>4 DEF Join
  <2>4. [user |-> my[w].for, role |-> my[w].role] \in Member
    BY <1>m, <2>1 DEF Member
  <2>5. row' \in [Row -> Member \cup {NoRow}]
    BY <1>0, <2>3, <2>4 DEF TypeOK
  <2>6. /\ user' \in [Person -> {"new", "known", "gone"}]
        /\ Known \cup {my[w].for} \subseteq Known'
    BY <1>0, <1>4, <2>1 DEF Join, TypeOK, Known
  <2>7. Members' \subseteq Members \cup {my[w].for}
    BY <1>0, <2>3, <2>4 DEF Members, RowsOf, TypeOK
  <2>8. UNCHANGED <<org, late, project, stray>> /\ org
    BY <1>4 DEF Join
  <2>9. pc' \in [Workers -> Pc] /\ my' \in [Workers -> Memory]
    BY <1>4, <1>d DEF Join
  <2> QED BY <1>0, <2>2, <2>5, <2>6, <2>7, <2>8, <2>9 DEF TypeOK
<1>5. ASSUME NEW w \in Workers, RemoveWrite(w)
      PROVE  TypeOK'
  <2>1. row' \in [Row -> Member \cup {NoRow}]
    BY <1>0, <1>5 DEF RemoveWrite, TypeOK
  <2>2. Members' \subseteq Members
    BY <1>0, <1>5 DEF RemoveWrite, TypeOK, Members, RowsOf, NoRow
  <2>3. /\ project' \in [Project -> Body]
        /\ \A p \in Project : project'[p].clients \subseteq project[p].clients
    <3>1. \A b \in Body : \A u : /\ [b EXCEPT !.clients = @ \ {u}] \in Body
                                 /\ [b EXCEPT !.clients = @ \ {u}].clients \subseteq b.clients
      BY DEF Body
    <3> QED BY <1>0, <1>5, <3>1 DEF RemoveWrite, Without, TypeOK
  <2>4. stray' \in SUBSET Person
    BY <1>0, <1>5 DEF RemoveWrite, TypeOK, Body
  <2>5. UNCHANGED <<org, user, invited, late>>
    BY <1>5 DEF RemoveWrite
  <2>6. pc' \in [Workers -> Pc] /\ my' \in [Workers -> Memory]
    BY <1>5, <1>d DEF RemoveWrite
  <2>7. \A p \in Project : project'[p].clients \subseteq Known
    BY <1>0, <2>3 DEF TypeOK
  <2> QED BY <1>0, <1>k, <2>1, <2>2, <2>3, <2>4, <2>5, <2>6, <2>7 DEF TypeOK
<1>6. ASSUME NEW w \in Workers, RoleWrite(w)
      PROVE  TypeOK'
  <2>1. my[w].row \in Row /\ my[w].role \in Roles
    BY <1>0, <1>6, <1>d, <1>m DEF RoleWrite, RequestsSane
  <2>2. \A x \in Member, role \in Roles : /\ [x EXCEPT !.role = role] \in Member
                                          /\ [x EXCEPT !.role = role].user = x.user
    BY DEF Member
  <2>3. row' \in [Row -> Member \cup {NoRow}] /\ \A r \in Row : row'[r].user = row[r].user
    BY <1>0, <1>6, <1>r, <2>1, <2>2 DEF RoleWrite, TypeOK
  <2>4. Members' \subseteq Members
    BY <2>3 DEF Members, RowsOf
  <2>5. UNCHANGED <<org, user, invited, late, project, stray>>
    BY <1>6 DEF RoleWrite
  <2>6. pc' \in [Workers -> Pc] /\ my' \in [Workers -> Memory]
    BY <1>6, <1>d DEF RoleWrite
  <2>7. \A p \in Project : project'[p].clients \subseteq Known
    BY <1>0, <2>5 DEF TypeOK
  <2> QED BY <1>0, <1>k, <2>3, <2>4, <2>5, <2>6, <2>7 DEF TypeOK
<1>7. ASSUME NEW w \in Workers, DeleteWrite(w)
      PROVE  TypeOK'
  <2> DEFINE u == my[w].by
  <2>1. /\ user' \in [Person -> {"new", "known", "gone"}] /\ Known \ {u} \subseteq Known'
        /\ stray' \in SUBSET Person /\ late' = late
    BY <1>0, <1>7 DEF DeleteWrite, TypeOK, Known
  <2>2. pc' \in [Workers -> Pc] /\ my' \in [Workers -> Memory]
    BY <1>7, <1>d DEF DeleteWrite
  <2>3. CASE my[w].flag
    <3>1. /\ row' = [r \in Row |-> NoRow] /\ invited' = [i \in Invitation |-> NoInvite]
          /\ project' = [p \in Project |-> NoProject] /\ org' = FALSE
      BY <1>7, <2>3 DEF DeleteWrite
    <3>2. Members' = {}
      BY <3>1 DEF Members, RowsOf, NoRow
    <3> QED BY <1>0, <1>b, <2>1, <2>2, <3>1, <3>2 DEF TypeOK
  <2>4. CASE ~my[w].flag
    <3>1. /\ row' = [r \in Row |-> IF row[r].user = u THEN NoRow ELSE row[r]]
          /\ invited' = [i \in Invitation |-> IF invited[i].by = u THEN NoInvite ELSE invited[i]]
          /\ project' = Without(u, {p \in Project : Exists(p)}) /\ org' = org
      BY <1>7, <2>4 DEF DeleteWrite
    <3>2. /\ row' \in [Row -> Member \cup {NoRow}]
          /\ invited' \in [Invitation -> Invite \cup {NoInvite}]
      BY <1>0, <3>1 DEF TypeOK
    <3>3. Members' \subseteq Members \ {u}
      <4>1. None \notin Person /\ NoRow.user = None
        BY DEF NoRow
      <4> QED BY <3>1, <4>1 DEF Members, RowsOf
    <3>4. /\ project' \in [Project -> Body]
          /\ \A p \in Project : project'[p].clients \subseteq project[p].clients \ {u}
      <4>1. \A b \in Body : /\ [b EXCEPT !.clients = @ \ {u}] \in Body
                            /\ [b EXCEPT !.clients = @ \ {u}].clients = b.clients \ {u}
        BY DEF Body
      <4>2. \A p \in Project : project[p] \in Body /\ (~Exists(p) => project[p].clients = {})
        BY <1>0, <1>b DEF TypeOK, Exists
      <4> HIDE DEF u
      <4> QED BY <3>1, <4>1, <4>2 DEF Without
    <3>5. Members' \subseteq Known' /\ \A p \in Project : project'[p].clients \subseteq Known'
      BY <1>0, <2>1, <3>3, <3>4 DEF TypeOK
    <3>6. ~org' => Members' = {}
      BY <1>0, <3>1, <3>3 DEF TypeOK
    <3> QED BY <1>0, <2>1, <2>2, <3>1, <3>2, <3>4, <3>5, <3>6 DEF TypeOK
  <2> QED BY <2>3, <2>4
<1>8. ASSUME NEW w \in Workers, UpdateWrite(w) \/ \E p \in Project : CreateWrite(w, p)
      PROVE  TypeOK'
  <2>1. my[w].clients \in SUBSET Person /\ my[w].clients \subseteq Known
    BY <1>8, <1>m DEF CreateWrite, UpdateWrite
  <2>2. /\ \A b \in Body, us \in SUBSET Person :
              /\ [b EXCEPT !.clients = us] \in Body /\ [b EXCEPT !.clients = us].clients = us
        /\ \A us \in SUBSET Person : [clients |-> us, archived |-> FALSE] \in Body
    BY DEF Body
  <2>3. /\ project' \in [Project -> Body]
        /\ \A q \in Project : project'[q].clients \in {project[q].clients, my[w].clients}
    <3>1. CASE \E p \in Project : CreateWrite(w, p)
      BY <1>0, <3>1, <2>1, <2>2 DEF CreateWrite, TypeOK
    <3>2. CASE UpdateWrite(w)
      BY <1>0, <3>2, <2>1, <2>2 DEF UpdateWrite, TypeOK
    <3> QED BY <1>8, <3>1, <3>2
  <2>4. stray' \in SUBSET Person /\ UNCHANGED <<org, user, row, invited, late>>
    BY <1>0, <1>8, <2>1 DEF CreateWrite, UpdateWrite, TypeOK
  <2>5. pc' \in [Workers -> Pc] /\ my' \in [Workers -> Memory]
    BY <1>8, <1>d DEF CreateWrite, UpdateWrite
  <2>6. \A q \in Project : project'[q].clients \subseteq Known
    BY <1>0, <2>1, <2>3 DEF TypeOK
  <2>7. Members' \subseteq Members
    BY <2>4 DEF Members, RowsOf
  <2> QED BY <1>0, <1>k, <2>3, <2>4, <2>5, <2>6, <2>7 DEF TypeOK
<1>9. ASSUME NEW i \in Invitation, Lapse(i)
      PROVE  TypeOK'
  BY <1>0, <1>9 DEF Lapse, TypeOK, Members, RowsOf, Known
<1>10. ASSUME NEW p \in Project, Archive(p) \/ Unarchive(p) \/ Remove(p)
       PROVE  TypeOK'
  <2>1. \A b \in Body, f \in BOOLEAN : /\ [b EXCEPT !.archived = f] \in Body
                                       /\ [b EXCEPT !.archived = f].clients = b.clients
    BY DEF Body
  <2>2. /\ project' \in [Project -> Body]
        /\ \A q \in Project : project'[q].clients \subseteq project[q].clients
    <3>1. CASE Archive(p) \/ Unarchive(p)
      <4>1. PICK f \in BOOLEAN : project' = [project EXCEPT ![p] = [project[p] EXCEPT !.archived = f]]
        BY <3>1 DEF Archive, Unarchive
      <4>2. project[p] \in Body
        BY <1>0 DEF TypeOK
      <4>3. [project[p] EXCEPT !.archived = f] \in Body
        BY <2>1, <4>2
      <4>4. [project[p] EXCEPT !.archived = f].clients = project[p].clients
        BY <2>1, <4>2
      <4> QED BY <1>0, <4>1, <4>3, <4>4 DEF TypeOK
    <3>2. CASE Remove(p)
      BY <1>0, <1>b, <3>2 DEF Remove, TypeOK
    <3> QED BY <1>10, <3>1, <3>2
  <2>3. UNCHANGED <<org, user, row, invited, late, stray, pc, my>>
    BY <1>10 DEF Archive, Unarchive, Remove
  <2>4. \A q \in Project : project'[q].clients \subseteq Known
    BY <1>0, <2>2 DEF TypeOK
  <2>5. Members' \subseteq Members
    BY <2>3 DEF Members, RowsOf
  <2> QED BY <1>0, <1>k, <2>2, <2>3, <2>4, <2>5 DEF TypeOK
<1>11. CASE UNCHANGED vars
  BY <1>0, <1>11 DEF vars, dataVars, TypeOK, Members, RowsOf, Known
<1>12. CASE \E w \in Workers : Serve(w)
  <2> PICK w \in Workers : Serve(w)
    BY <1>12
  <2>1. CASE BeginsToRead(w) \/ AcceptFind(w) \/ RoleCount(w) \/ Fail(w)
    BY <1>1, <2>1
  <2>2. CASE ~(BeginsToRead(w) \/ AcceptFind(w) \/ RoleCount(w) \/ Fail(w))
    <3>1. \/ \E i \in Invitation : InviteWrite(w, i)
          \/ ExpireWrite(w) \/ RemoveWrite(w) \/ RoleWrite(w) \/ DeleteWrite(w) \/ UpdateWrite(w)
          \/ \E r \in Row : Join(w, r)
          \/ \E p \in Project : CreateWrite(w, p)
      BY <2>2 DEF Serve, BeginsToRead
    <3> QED BY <3>1, <1>2, <1>3, <1>4, <1>5, <1>6, <1>7, <1>8
  <2> QED BY <2>1, <2>2
<1> QED BY <1>9, <1>10, <1>11, <1>12 DEF Next

----------------------------------------------------------------------------
(* What a request knows *)

\* The row a request has read stays the row of the same person, or is gone.
RowsKeepPeople ==
  \A v \in Workers : my[v].row \in Row => row'[my[v].row].user \in {row[my[v].row].user, None}

GoOnOrEnd ==
  \A v \in Workers :
    \/ pc'[v] = "idle"
    \/ pc'[v] = pc[v] /\ my'[v] = my[v]

LEMMA KnowsOn ==
  ASSUME RequestsSane, RowsKeepPeople, GoOnOrEnd
  PROVE  RequestsSane'
<1>1. ASSUME NEW v \in Workers
      PROVE  /\ pc'[v] \in {"invite", "accept", "join"} => my'[v].for \in Person
             /\ pc'[v] \in {"invite", "remove", "count", "role"} => my'[v].by \in Person
             /\ pc'[v] \in {"remove", "count", "role"} =>
                  my'[v].row \in Row /\ row'[my'[v].row].user # my'[v].by
             /\ pc'[v] = "remove" => row'[my'[v].row].user \in {my'[v].for, None}
  <2>1. CASE pc'[v] = "idle"
    BY <2>1
  <2>2. CASE pc'[v] = pc[v] /\ my'[v] = my[v]
    BY <2>2 DEF RequestsSane, RowsKeepPeople
  <2> QED BY <2>1, <2>2 DEF GoOnOrEnd
<1> QED BY <1>1 DEF RequestsSane

\* What each step does to the rows of members.
LEMMA RowSteps ==
  ASSUME IInv, [Next]_vars
  PROVE  /\ RowsKeepPeople
         /\ \A u \in Person : \/ RowsOf(u)' \subseteq RowsOf(u)
                              \/ \E w \in Workers, r \in Row : Join(w, r) /\ my[w].for = u
<1>0. TypeOK /\ RequestsSane
  BY DEF IInv
<1>u. ASSUME \A r \in Row : row'[r].user \in {row[r].user, None}
      PROVE  RowsKeepPeople /\ \A u \in Person : RowsOf(u)' \subseteq RowsOf(u)
  BY <1>u DEF RowsKeepPeople, RowsOf
<1>1. ASSUME NEW w \in Workers, NEW r \in Row, Join(w, r)
      PROVE  /\ RowsKeepPeople
             /\ \A u \in Person : u # my[w].for => RowsOf(u)' \subseteq RowsOf(u)
  <2>1. CASE my[w].row = None
    <3>1. /\ \A v \in Workers : my[v].row # r
          /\ row' = [row EXCEPT ![r] = [user |-> my[w].for, role |-> my[w].role]]
      BY <1>1, <2>1 DEF Join
    <3> QED BY <1>0, <3>1 DEF RowsKeepPeople, RowsOf, TypeOK
  <2>2. CASE my[w].row # None
    BY <1>1, <1>u, <2>2 DEF Join
  <2> QED BY <2>1, <2>2
<1>2. ASSUME NEW w \in Workers, RemoveWrite(w) \/ RoleWrite(w) \/ DeleteWrite(w)
      PROVE  \A r \in Row : row'[r].user \in {row[r].user, None}
  <2>1. NoRow.user = None /\ \A r \in Row : [row[r] EXCEPT !.role = my[w].role].user = row[r].user
    BY <1>0 DEF NoRow, Member, TypeOK
  <2> HIDE DEF NoRow
  <2>2. CASE RemoveWrite(w)
    BY <1>0, <2>1, <2>2 DEF RemoveWrite, TypeOK
  <2>3. CASE RoleWrite(w)
    BY <1>0, <2>1, <2>3 DEF RoleWrite, TypeOK
  <2>4. CASE DeleteWrite(w)
    BY <1>0, <2>1, <2>4 DEF DeleteWrite, TypeOK
  <2> QED BY <1>2, <2>2, <2>3, <2>4
<1>3. CASE UNCHANGED row
  BY <1>3, <1>u
<1>4. CASE \E w \in Workers : Serve(w)
  <2> PICK w \in Workers : Serve(w)
    BY <1>4
  <2>1. CASE BeginsToRead(w) \/ AcceptFind(w) \/ RoleCount(w) \/ Fail(w)
    BY <1>0, <1>3, <2>1, Begins, FindsOrFails DEF ReadsOnly, dataVars
  <2>2. CASE RemoveWrite(w) \/ RoleWrite(w) \/ DeleteWrite(w)
    BY <1>2, <1>u, <2>2
  <2>3. CASE \E i \in Invitation, p \in Project : InviteWrite(w, i) \/ CreateWrite(w, p)
    BY <1>3, <2>3 DEF InviteWrite, CreateWrite
  <2>4. CASE ExpireWrite(w) \/ UpdateWrite(w)
    BY <1>3, <2>4 DEF ExpireWrite, UpdateWrite
  <2>5. CASE \E i \in Invitation : InviteWrite(w, i)
    BY <1>3, <2>5 DEF InviteWrite
  <2>6. CASE \E p \in Project : CreateWrite(w, p)
    BY <1>3, <2>6 DEF CreateWrite
  <2>7. CASE \E r \in Row : Join(w, r)
    BY <1>1, <2>7
  <2> QED BY <2>1, <2>2, <2>4, <2>5, <2>6, <2>7 DEF Serve, BeginsToRead
<1>5. CASE \/ \E i \in Invitation : Lapse(i)
           \/ \E p \in Project : Archive(p) \/ Unarchive(p) \/ Remove(p)
  BY <1>3, <1>5 DEF Lapse, Archive, Unarchive, Remove
<1>6. CASE UNCHANGED vars
  BY <1>3, <1>6 DEF vars, dataVars
<1> QED BY <1>4, <1>5, <1>6 DEF Next

\* The writes of a request end it.
Writes(w) ==
  \/ \E i \in Invitation : InviteWrite(w, i)
  \/ ExpireWrite(w) \/ RemoveWrite(w) \/ RoleWrite(w) \/ DeleteWrite(w) \/ UpdateWrite(w)
  \/ \E r \in Row : Join(w, r)
  \/ \E p \in Project : CreateWrite(w, p)

LEMMA WritesEnd ==
  ASSUME NEW w \in Workers, Writes(w)
  PROVE  \E from \in Pc \ {"idle"} : Done(w, from)
  BY DEF Writes, InviteWrite, ExpireWrite, RemoveWrite, RoleWrite, DeleteWrite, UpdateWrite, Join,
         CreateWrite, Pc

\* A step is a request's read or write, or changes no request.
LEMMA Steps ==
  ASSUME [Next]_vars
  PROVE  \/ \E w \in Workers : BeginsToRead(w) \/ AcceptFind(w) \/ RoleCount(w) \/ Fail(w) \/ Writes(w)
         \/ UNCHANGED <<org, user, row, stray, pc, my>> /\ \E i \in Invitation : Lapse(i)
         \/ /\ UNCHANGED <<org, user, row, stray, pc, my>>
            /\ \E p \in Project : Archive(p) \/ Unarchive(p) \/ Remove(p)
         \/ UNCHANGED vars
<1>1. ASSUME NEW w \in Workers, Serve(w)
      PROVE  BeginsToRead(w) \/ AcceptFind(w) \/ RoleCount(w) \/ Fail(w) \/ Writes(w)
  BY <1>1 DEF Serve, BeginsToRead, Writes
<1>2. ASSUME NEW i \in Invitation, Lapse(i)
      PROVE  UNCHANGED <<org, user, row, stray, pc, my>>
  BY <1>2 DEF Lapse
<1>3. ASSUME NEW p \in Project, Archive(p) \/ Unarchive(p) \/ Remove(p)
      PROVE  UNCHANGED <<org, user, row, stray, pc, my>>
  BY <1>3 DEF Archive, Unarchive, Remove
<1> QED BY <1>1, <1>2, <1>3 DEF Next

LEMMA NextRequestsSane == IInv /\ [Next]_vars => RequestsSane'
<1> SUFFICES ASSUME IInv, [Next]_vars PROVE RequestsSane'
  OBVIOUS
<1>0. TypeOK /\ RequestsSane /\ RowsKeepPeople
  BY RowSteps DEF IInv
<1>s. ASSUME UNCHANGED <<row, pc, my>>
      PROVE  RequestsSane'
  BY <1>0, <1>s DEF RequestsSane
<1>1. ASSUME NEW w \in Workers, BeginsToRead(w)
      PROVE  RequestsSane'
  <2>1. ReadsOnly(w) /\ Knows(w)
    BY <1>0, <1>1, Begins
  <2> QED BY <1>0, <2>1 DEF ReadsOnly, dataVars, Knows, RequestsSane
<1>2. ASSUME NEW w \in Workers, AcceptFind(w)
      PROVE  RequestsSane'
  <2>1. ReadsOnly(w)
    BY <1>0, <1>2, FindsOrFails
  <2>2. pc[w] = "accept" /\ pc'[w] = "join"
    BY <1>0, <1>2 DEF AcceptFind, Goto, TypeOK
  <2>3. my'[w].for = my[w].for
    <3>1. \A m \in Memory : \A f, r : [m EXCEPT !.flag = f, !.row = r].for = m.for
      BY DEF Memory
    <3> QED BY <1>0, <1>2, <3>1 DEF AcceptFind, Remember, TypeOK
  <2> QED BY <1>0, <2>1, <2>2, <2>3 DEF ReadsOnly, dataVars, RequestsSane
<1>3. ASSUME NEW w \in Workers, RoleCount(w)
      PROVE  RequestsSane'
  <2>1. row' = row /\ my' = my /\ pc[w] = "count" /\ pc'[w] = "role"
    BY <1>0, <1>3 DEF RoleCount, Goto, TypeOK, dataVars
  <2>2. \A v \in Workers \ {w} : pc'[v] = pc[v]
    BY <1>0, <1>3 DEF RoleCount, Goto, TypeOK
  <2> QED BY <1>0, <2>1, <2>2 DEF RequestsSane
<1>4. ASSUME NEW w \in Workers, Fail(w)
      PROVE  RequestsSane'
  <2>1. ReadsOnly(w) /\ pc'[w] = "idle"
    BY <1>0, <1>4, FindsOrFails DEF Fail, TypeOK
  <2>2. \A v \in Workers \ {w} : pc'[v] = pc[v] /\ my'[v] = my[v]
    BY <2>1 DEF ReadsOnly
  <2>3. GoOnOrEnd
    BY <2>1, <2>2 DEF GoOnOrEnd
  <2> QED BY <1>0, <2>3, KnowsOn
<1>5. ASSUME NEW w \in Workers, Writes(w)
      PROVE  RequestsSane'
  <2>1. PICK from \in Pc : Done(w, from)
    BY <1>5, WritesEnd
  <2>2. pc'[w] = "idle" /\ \A v \in Workers \ {w} : pc'[v] = pc[v] /\ my'[v] = my[v]
    BY <1>0, <2>1, Ends
  <2>3. GoOnOrEnd
    BY <2>2 DEF GoOnOrEnd
  <2> QED BY <1>0, <2>3, KnowsOn
<1> QED BY <1>1, <1>2, <1>3, <1>4, <1>5, <1>s, Steps DEF vars, dataVars

----------------------------------------------------------------------------
(* What a request has checked of the owners *)

\* What one request has checked.
Checked(p, m) ==
  LET asOwner == \E r \in Row : <<r, m.by>> \in m.owners
  IN  /\ p = "remove" /\ (\E u \in Person : <<m.row, u>> \in m.owners) => asOwner
      /\ p \in {"count", "role"} => asOwner
      /\ p = "delete" /\ m.owners # {} /\ (\A o \in m.owners : o[2] = m.by) => m.flag

LEMMA EachChecked ==
  /\ OwnersChecked <=> \A w \in Workers : Checked(pc[w], my[w])
  /\ OwnersChecked' <=> \A w \in Workers : Checked(pc'[w], my'[w])
  BY DEF OwnersChecked, Checked

\* An owner of now is one of those remembered.
LEMMA OwnersNow ==
  ASSUME TypeOK, NEW u \in Person, HasRole(u, {"owner"})
  PROVE  \E r \in Row : <<r, u>> \in Owning
<1>1. PICK r \in Row : row[r].user = u /\ row[r].role = "owner"
  BY DEF HasRole, RowsOf
<1>2. r \in Owners
  BY <1>1 DEF Owners
<1> QED BY <1>1, <1>2 DEF Owning

LEMMA BeginsChecked ==
  ASSUME TypeOK, NEW w \in Workers, BeginsToRead(w)
  PROVE  Checked(pc'[w], my'[w])
<1> DEFINE Other == \E m, to : to \in {"invite", "expire", "accept", "create", "update"}
                             /\ Read(w, to, m)
<1>0. \A to, m : Read(w, to, m) => pc'[w] = to /\ my'[w] = m
  BY DEF Read, Goto, Remember, TypeOK
<1>1. ASSUME Other PROVE Checked(pc'[w], my'[w])
  BY <1>0, <1>1 DEF Checked
<1>2. ASSUME NEW u \in Person, NEW r \in Row, RemoveRead(w, u, r)
      PROVE  Checked(pc'[w], my'[w])
  <2> DEFINE m == [Blank EXCEPT !.by = u, !.for = row[r].user, !.row = r,
                                !.seen = {p \in Project : Exists(p)}, !.owners = Owning]
  <2>m. m.by = u /\ m.row = r /\ m.owners = Owning /\ Read(w, "remove", m)
    BY <1>2 DEF RemoveRead, Blank
  <2> HIDE DEF m
  <2>1. /\ pc'[w] = "remove" /\ my'[w].by = u /\ my'[w].row = r /\ my'[w].owners = Owning
    BY <1>0, <2>m
  <2>2. ASSUME NEW x \in Person, <<r, x>> \in Owning PROVE \E q \in Row : <<q, u>> \in Owning
    <3>1. row[r].role = "owner"
      BY <2>2 DEF Owning, Owners
    <3> QED BY <1>2, <3>1, OwnersNow DEF RemoveRead
  <2> QED BY <2>1, <2>2 DEF Checked
<1>3. ASSUME NEW u \in Person, NEW r \in Row, NEW role \in Roles, RoleRead(w, u, r, role)
      PROVE  Checked(pc'[w], my'[w])
  <2> DEFINE m == [Blank EXCEPT !.by = u, !.row = r, !.role = role, !.owners = Owning]
  <2>m. /\ m.by = u /\ m.row = r /\ m.owners = Owning
        /\ Read(w, IF row[r].role = "owner" THEN "count" ELSE "role", m)
    BY <1>3 DEF RoleRead, Blank
  <2> HIDE DEF m
  <2>n. PICK to \in {"count", "role"} : Read(w, to, m)
    BY <2>m
  <2>1. /\ pc'[w] \in {"count", "role"} /\ my'[w].by = u /\ my'[w].owners = Owning
    BY <1>0, <2>m, <2>n
  <2>2. \E q \in Row : <<q, u>> \in Owning
    BY <1>3, OwnersNow DEF RoleRead
  <2> QED BY <2>1, <2>2 DEF Checked
<1>4. ASSUME NEW u \in Person, DeleteRead(w, u) PROVE Checked(pc'[w], my'[w])
  <2>1. /\ pc'[w] = "delete" /\ my'[w].by = u /\ my'[w].owners = Owning
        /\ my'[w].flag = (HasRole(u, {"owner"}) /\ \A r \in Owners : row[r].user = u)
    <3> DEFINE f == HasRole(u, {"owner"}) /\ \A r \in Owners : row[r].user = u
               m == [Blank EXCEPT !.by = u, !.owners = Owning, !.flag = f]
    <3>1. m.by = u /\ m.owners = Owning /\ m.flag = f /\ Read(w, "delete", m)
      BY <1>4 DEF DeleteRead, Blank
    <3> HIDE DEF m, f
    <3>2. pc'[w] = "delete" /\ my'[w] = m
      BY <1>0, <3>1
    <3> QED BY <3>1, <3>2 DEF f
  <2>2. ASSUME Owning # {}, \A o \in Owning : o[2] = u
        PROVE  HasRole(u, {"owner"}) /\ \A r \in Owners : row[r].user = u
    <3>1. \A r \in Owners : row[r].user = u
      <4>1. \A r \in Owners : <<r, row[r].user>> \in Owning
        BY DEF Owning
      <4>2. \A r \in Owners : <<r, row[r].user>>[2] = u
        BY <2>2, <4>1
      <4> QED BY <4>2
    <3>2. \E r \in Owners : TRUE
      BY <2>2 DEF Owning
    <3> QED BY <3>1, <3>2 DEF HasRole, RowsOf, Owners
  <2> QED BY <2>1, <2>2 DEF Checked
<1>5. ASSUME \/ \E u, x \in Person, role \in Roles : InviteRead(w, u, x, role)
             \/ \E i \in Invitation : AcceptRead(w, i)
             \/ \E clients \in SUBSET Person :
                  \/ CreateRead(w, clients) \/ AgentCreateRead(w, clients)
                  \/ \E p \in Project : UpdateRead(w, p, clients) \/ AgentUpdateRead(w, p, clients)
             \/ \E p \in Project, all \in BOOLEAN : DuplicateRead(w, p, all)
      PROVE  Other
  BY <1>5 DEF InviteRead, AcceptRead, CreateRead, AgentCreateRead, UpdateRead, AgentUpdateRead,
              DuplicateRead
<1> HIDE DEF Other
<1> QED BY <1>1, <1>2, <1>3, <1>4, <1>5 DEF BeginsToRead

\* What a request has checked stays as it was: it is about what it remembers.
LEMMA NextChecked == IInv /\ [Next]_vars => OwnersChecked'
<1> SUFFICES ASSUME IInv, [Next]_vars PROVE OwnersChecked'
  OBVIOUS
<1>0. TypeOK /\ OwnersChecked
  BY DEF IInv
<1>s. ASSUME UNCHANGED <<pc, my>> PROVE OwnersChecked'
  BY <1>0, <1>s DEF OwnersChecked
<1>1. ASSUME NEW w \in Workers, Checked(pc'[w], my'[w]),
             \A v \in Workers \ {w} : pc'[v] = pc[v] /\ my'[v] = my[v]
      PROVE  OwnersChecked'
  BY <1>0, <1>1, EachChecked
<1>2. ASSUME NEW w \in Workers, BeginsToRead(w) PROVE OwnersChecked'
  BY <1>0, <1>1, <1>2, Begins, BeginsChecked DEF ReadsOnly
<1>3. ASSUME NEW w \in Workers, AcceptFind(w) \/ Fail(w) PROVE OwnersChecked'
  <2>1. pc'[w] \in {"join", "idle"}
    BY <1>0, <1>3 DEF AcceptFind, Fail, Goto, TypeOK
  <2>2. Checked(pc'[w], my'[w])
    BY <2>1 DEF Checked
  <2> QED BY <1>0, <1>1, <1>3, <2>2, FindsOrFails DEF ReadsOnly
<1>4. ASSUME NEW w \in Workers, RoleCount(w) PROVE OwnersChecked'
  <2>1. my' = my /\ pc[w] = "count" /\ pc'[w] = "role"
    BY <1>0, <1>4 DEF RoleCount, Goto, TypeOK
  <2>2. Checked(pc'[w], my'[w])
    BY <1>0, <2>1, EachChecked DEF Checked
  <2> QED BY <1>0, <1>1, <1>4, <2>2, FindsOrFails DEF ReadsOnly
<1>5. ASSUME NEW w \in Workers, Writes(w) PROVE OwnersChecked'
  <2>1. PICK from \in Pc : Done(w, from)
    BY <1>5, WritesEnd
  <2>2. pc'[w] = "idle" /\ \A v \in Workers \ {w} : pc'[v] = pc[v] /\ my'[v] = my[v]
    BY <1>0, <2>1, Ends
  <2> QED BY <1>1, <2>2 DEF Checked
<1> QED BY <1>2, <1>3, <1>4, <1>5, <1>s, Steps DEF vars, dataVars

----------------------------------------------------------------------------
(* Who is assigned to a project *)

LEMMA NextAssigned == IInv /\ [Next]_vars => AssignedAreMembers'
<1> SUFFICES ASSUME IInv, [Next]_vars PROVE AssignedAreMembers'
  OBVIOUS
<1>0. TypeOK /\ RequestsSane /\ AssignedAreMembers
  BY DEF IInv
<1>b. \A b \in Body, us \in SUBSET Person, f \in BOOLEAN :
        [b EXCEPT !.clients = us].clients = us /\ [b EXCEPT !.archived = f].clients = b.clients
  BY DEF Body
<1>p. \A q \in Project : project[q] \in Body /\ project[q].clients \in SUBSET Person
  BY <1>0 DEF TypeOK, Body
\* Nobody is assigned, nobody leaves, nobody is forgiven.
<1>s. ASSUME Members \subseteq Members', stray \subseteq stray',
             \A q \in Project : project'[q].clients \subseteq project[q].clients
      PROVE  AssignedAreMembers'
  BY <1>0, <1>s DEF AssignedAreMembers
<1>m. ASSUME UNCHANGED row
      PROVE  Members' = Members
  BY <1>m DEF Members, RowsOf
<1> HIDE DEF Body, NoRow
<1>1. ASSUME NEW w \in Workers, BeginsToRead(w) \/ AcceptFind(w) \/ RoleCount(w) \/ Fail(w)
      PROVE  AssignedAreMembers'
  <2>1. UNCHANGED <<row, project, stray>>
    BY <1>0, <1>1, Begins, FindsOrFails DEF ReadsOnly, dataVars
  <2> QED BY <1>m, <1>s, <2>1
<1>2. ASSUME NEW w \in Workers, ExpireWrite(w) \/ \E i \in Invitation : InviteWrite(w, i)
      PROVE  AssignedAreMembers'
  <2>1. UNCHANGED <<row, project, stray>>
    BY <1>2 DEF ExpireWrite, InviteWrite
  <2> QED BY <1>m, <1>s, <2>1
<1>3. ASSUME NEW w \in Workers, NEW r \in Row, Join(w, r)
      PROVE  AssignedAreMembers'
  <2>1. UNCHANGED <<project, stray>>
    BY <1>3 DEF Join
  <2>2. Members \subseteq Members'
    BY <1>0, <1>3 DEF Join, Members, RowsOf, TypeOK, NoRow
  <2> QED BY <1>s, <2>1, <2>2
<1>4. ASSUME NEW w \in Workers, RemoveWrite(w)
      PROVE  AssignedAreMembers'
  <2> DEFINE u == my[w].for
  <2>1. pc[w] = "remove" /\ my[w].row \in Row
    BY <1>0, <1>4, Ends DEF RemoveWrite, RequestsSane
  <2>2. row[my[w].row].user \in {u, None}
    BY <1>0, <2>1 DEF RequestsSane
  <2>3. Members \ {u} \subseteq Members'
    BY <1>0, <1>4, <2>1, <2>2 DEF RemoveWrite, Members, RowsOf, TypeOK
  <2>4. \A q \in Project : project'[q].clients = IF q \in my[w].seen THEN project[q].clients \ {u}
                                                                   ELSE project[q].clients
    BY <1>4, <1>b, <1>p DEF RemoveWrite, Without
  <2>5. stray' = stray \cup {x \in {u} : \E q \in Project \ my[w].seen : x \in project[q].clients}
    BY <1>4 DEF RemoveWrite
  <2> HIDE DEF u
  <2> QED BY <1>0, <2>3, <2>4, <2>5 DEF AssignedAreMembers
<1>5. ASSUME NEW w \in Workers, RoleWrite(w)
      PROVE  AssignedAreMembers'
  <2>1. UNCHANGED <<project, stray>>
    BY <1>5 DEF RoleWrite
  <2>2. my[w].row \in Row /\ row[my[w].row] # NoRow
    BY <1>0, <1>5, Ends DEF RoleWrite, RequestsSane
  <2>3. \A x \in Member : [x EXCEPT !.role = my[w].role].user = x.user
    BY DEF Member
  <2>4. \A r \in Row : row'[r].user = row[r].user
    BY <1>0, <1>5, <2>2, <2>3 DEF RoleWrite, TypeOK
  <2>5. Members \subseteq Members'
    BY <2>4 DEF Members, RowsOf
  <2> QED BY <1>s, <2>1, <2>5
<1>6. ASSUME NEW w \in Workers, DeleteWrite(w)
      PROVE  AssignedAreMembers'
  <2> DEFINE u == my[w].by
  <2>1. stray' = stray \ {u}
    BY <1>6 DEF DeleteWrite
  <2>2. CASE my[w].flag
    BY <1>6, <2>2 DEF DeleteWrite, AssignedAreMembers, NoProject
  <2>3. CASE ~my[w].flag
    <3>1. /\ row' = [r \in Row |-> IF row[r].user = u THEN NoRow ELSE row[r]]
          /\ project' = Without(u, {q \in Project : Exists(q)})
      BY <1>6, <2>3 DEF DeleteWrite
    <3>2. Members \ {u} \subseteq Members'
      BY <3>1 DEF Members, RowsOf
    <3>3. \A q \in Project : ~Exists(q) => project[q].clients = {}
      BY DEF Exists, NoProject
    <3>4. \A q \in Project : [project[q] EXCEPT !.clients = @ \ {u}].clients = project[q].clients \ {u}
      BY <1>b, <1>p
    <3> HIDE DEF u
    <3>5. \A q \in Project : project'[q].clients = project[q].clients \ {u}
      BY <3>1, <3>3, <3>4 DEF Without
    <3> QED BY <1>0, <2>1, <3>2, <3>5 DEF AssignedAreMembers
  <2> QED BY <2>2, <2>3
<1>7. ASSUME NEW w \in Workers, UpdateWrite(w) \/ \E p \in Project : CreateWrite(w, p)
      PROVE  AssignedAreMembers'
  <2>1. row' = row /\ stray' = stray \cup (my[w].clients \ Members)
    BY <1>7 DEF CreateWrite, UpdateWrite
  <2>2. my[w].clients \in SUBSET Person
    BY <1>0 DEF TypeOK, Memory
  <2>3. \A q \in Project : project'[q].clients \in {project[q].clients, my[w].clients}
    <3>1. CASE \E p \in Project : CreateWrite(w, p)
      BY <1>0, <3>1 DEF CreateWrite, TypeOK
    <3>2. CASE UpdateWrite(w)
      BY <1>0, <3>2, <1>b, <1>p, <2>2 DEF UpdateWrite, TypeOK
    <3> QED BY <1>7, <3>1, <3>2
  <2> QED BY <1>0, <1>m, <2>1, <2>3 DEF AssignedAreMembers
<1>8. ASSUME NEW p \in Project, Archive(p) \/ Unarchive(p) \/ Remove(p), UNCHANGED <<row, stray>>
      PROVE  AssignedAreMembers'
  <2>1. \A q \in Project : project'[q].clients \subseteq project[q].clients
    <3>1. CASE Remove(p)
      BY <1>0, <3>1 DEF Remove, TypeOK, NoProject
    <3>2. CASE Archive(p) \/ Unarchive(p)
      <4>1. PICK f \in BOOLEAN : project' = [project EXCEPT ![p] = [project[p] EXCEPT !.archived = f]]
        BY <3>2 DEF Archive, Unarchive
      <4>2. [project[p] EXCEPT !.archived = f].clients = project[p].clients
        BY <1>b, <1>p
      <4> QED BY <1>0, <4>1, <4>2 DEF TypeOK
    <3> QED BY <1>8, <3>1, <3>2
  <2> QED BY <1>8, <1>m, <1>s, <2>1
<1>9. ASSUME UNCHANGED <<row, stray, project>>
      PROVE  AssignedAreMembers'
  BY <1>9, <1>m, <1>s
<1>10. ASSUME NEW i \in Invitation, Lapse(i)
       PROVE  AssignedAreMembers'
  BY <1>9, <1>10 DEF Lapse
<1>11. ASSUME NEW w \in Workers, Writes(w)
       PROVE  AssignedAreMembers'
  BY <1>2, <1>3, <1>4, <1>5, <1>6, <1>7, <1>11 DEF Writes
<1> QED BY <1>1, <1>8, <1>9, <1>10, <1>11, Steps DEF vars, dataVars

----------------------------------------------------------------------------
(* How many memberships a person has *)

LEMMA FiniteParts ==
  ASSUME NEW u
  PROVE  /\ IsFiniteSet(RowsOf(u)) /\ Cardinality(RowsOf(u)) \in Nat
         /\ IsFiniteSet(Joining(u)) /\ Cardinality(Joining(u)) \in Nat
         /\ Cardinality(Joining(u)) <= Cardinality(Workers)
<1>1. RowsOf(u) \in SUBSET Row /\ Joining(u) \in SUBSET Workers
  BY DEF RowsOf, Joining
<1> HIDE DEF RowsOf, Joining
<1>2. /\ IsFiniteSet(RowsOf(u)) /\ IsFiniteSet(Joining(u))
      /\ Cardinality(Joining(u)) <= Cardinality(Workers)
  BY <1>1, FS_Subset
<1> QED BY <1>2, FS_CardinalityType

LEMMA NoMore ==
  ASSUME NEW R, IsFiniteSet(R), NEW J, IsFiniteSet(J), NEW n \in Nat,
         NEW R2 \in SUBSET R, NEW J2 \in SUBSET J,
         Cardinality(R) + Cardinality(J) <= n
  PROVE  Cardinality(R2) + Cardinality(J2) <= n
<1>1. Cardinality(R2) <= Cardinality(R) /\ Cardinality(R2) \in Nat /\ Cardinality(R) \in Nat
  BY FS_Subset, FS_CardinalityType
<1>2. Cardinality(J2) <= Cardinality(J) /\ Cardinality(J2) \in Nat /\ Cardinality(J) \in Nat
  BY FS_Subset, FS_CardinalityType
<1> QED BY <1>1, <1>2

\* A row for a request.
LEMMA OneForOne ==
  ASSUME NEW R, IsFiniteSet(R), NEW J, IsFiniteSet(J), NEW n \in Nat, NEW r, NEW w \in J,
         NEW R2 \in SUBSET (R \cup {r}), NEW J2 \in SUBSET (J \ {w}),
         Cardinality(R) + Cardinality(J) <= n
  PROVE  Cardinality(R2) + Cardinality(J2) <= n
<1>1. Cardinality(R) \in Nat /\ Cardinality(J) \in Nat
  BY FS_CardinalityType
<1>2. /\ IsFiniteSet(R \cup {r})
      /\ Cardinality(R \cup {r}) = Cardinality(R) \/ Cardinality(R \cup {r}) = Cardinality(R) + 1
  BY FS_AddElement
<1>3. IsFiniteSet(J \ {w}) /\ Cardinality(J \ {w}) = Cardinality(J) - 1
  BY FS_RemoveElement
<1>4. Cardinality(R \cup {r}) + Cardinality(J \ {w}) <= n
  BY <1>1, <1>2, <1>3
<1> QED BY <1>2, <1>3, <1>4, NoMore

LEMMA NextBounded == IInv /\ [Next]_vars => MembershipsBounded'
<1> SUFFICES ASSUME IInv, [Next]_vars, NEW u \in Person
             PROVE  Cardinality(RowsOf(u)') + Cardinality(Joining(u)') <= Cardinality(Workers)
  BY DEF MembershipsBounded
<1>0. /\ TypeOK /\ RequestsSane
      /\ Cardinality(RowsOf(u)) + Cardinality(Joining(u)) <= Cardinality(Workers)
  BY DEF IInv, MembershipsBounded
<1>n. Cardinality(Workers) \in Nat /\ IsFiniteSet(RowsOf(u)) /\ IsFiniteSet(Joining(u))
  BY FiniteParts, FS_CardinalityType
\* No row more, and nobody more about to make one.
<1>s. ASSUME RowsOf(u)' \subseteq RowsOf(u), Joining(u)' \subseteq Joining(u)
      PROVE  Cardinality(RowsOf(u)') + Cardinality(Joining(u)') <= Cardinality(Workers)
  BY <1>0, <1>n, <1>s, NoMore
<1>r. RowsOf(u)' \subseteq RowsOf(u) \/ \E w \in Workers, r \in Row : Join(w, r) /\ my[w].for = u
  BY RowSteps
<1>1. ASSUME NEW w \in Workers, BeginsToRead(w) \/ RoleCount(w) \/ Fail(w)
      PROVE  Cardinality(RowsOf(u)') + Cardinality(Joining(u)') <= Cardinality(Workers)
  <2>1. ReadsOnly(w)
    BY <1>0, <1>1, Begins, FindsOrFails
  <2>2. pc'[w] # "join"
    <3>1. CASE BeginsToRead(w)
      BY <1>0, <3>1, Begins DEF Knows
    <3>2. CASE RoleCount(w) \/ Fail(w)
      BY <1>0, <3>2 DEF RoleCount, Fail, Goto, TypeOK
    <3> QED BY <1>1, <3>1, <3>2
  <2>3. RowsOf(u)' \subseteq RowsOf(u)
    BY <2>1 DEF ReadsOnly, dataVars, RowsOf
  <2>4. Joining(u)' \subseteq Joining(u)
    BY <2>1, <2>2 DEF ReadsOnly, Joining
  <2> QED BY <1>s, <2>3, <2>4
<1>2. ASSUME NEW w \in Workers, AcceptFind(w)
      PROVE  Cardinality(RowsOf(u)') + Cardinality(Joining(u)') <= Cardinality(Workers)
  <2>1. ReadsOnly(w)
    BY <1>0, <1>2, FindsOrFails
  <2>2. RowsOf(u)' = RowsOf(u)
    BY <2>1 DEF ReadsOnly, dataVars, RowsOf
  <2>3. CASE RowsOf(u) = {}
    <3>1. Cardinality(RowsOf(u)') = 0
      BY <2>2, <2>3, FS_EmptySet
    <3>2. Joining(u)' \in SUBSET Workers
      BY DEF Joining
    <3>3. Cardinality(Joining(u)') \in Nat /\ Cardinality(Joining(u)') <= Cardinality(Workers)
      BY <3>2, FS_Subset, FS_CardinalityType
    <3> QED BY <1>n, <3>1, <3>3
  <2>4. CASE RowsOf(u) # {}
    <3>1. PICK r : /\ my' = [my EXCEPT ![w] = [my[w] EXCEPT !.flag = (user[my[w].for] = "known"),
                                                           !.row = r]]
                   /\ my[w].for = u => r \in Row
      BY <1>2, <2>4 DEF AcceptFind, RowsOf, Remember
    <3>2. \A m \in Memory : \A f : /\ [m EXCEPT !.flag = f, !.row = r].for = m.for
                                   /\ [m EXCEPT !.flag = f, !.row = r].row = r
      BY DEF Memory
    <3>3. my'[w].for = my[w].for /\ my'[w].row = r
      BY <1>0, <3>1, <3>2 DEF TypeOK
    <3>4. my'[w].for = u => my'[w].row # None
      BY <3>1, <3>3
    <3>5. Joining(u)' \subseteq Joining(u)
      BY <2>1, <3>4 DEF ReadsOnly, Joining
    <3> QED BY <1>s, <2>2, <3>5
  <2> QED BY <2>3, <2>4
<1>3. ASSUME NEW w \in Workers, Writes(w)
      PROVE  Cardinality(RowsOf(u)') + Cardinality(Joining(u)') <= Cardinality(Workers)
  <2>1. PICK from \in Pc : Done(w, from)
    BY <1>3, WritesEnd
  <2>2. pc'[w] = "idle" /\ \A v \in Workers \ {w} : pc'[v] = pc[v] /\ my'[v] = my[v]
    BY <1>0, <2>1, Ends
  <2>3. Joining(u)' \subseteq Joining(u) \ {w}
    BY <2>2 DEF Joining
  <2>4. CASE RowsOf(u)' \subseteq RowsOf(u)
    BY <1>s, <2>3, <2>4
  <2>5. ASSUME NEW v \in Workers, NEW r \in Row, Join(v, r), my[v].for = u
        PROVE  Cardinality(RowsOf(u)') + Cardinality(Joining(u)') <= Cardinality(Workers)
    <3>1. pc[v] = "join" /\ pc'[v] = "idle"
      BY <1>0, <2>5, Ends DEF Join
    <3>2. Joining(u)' \subseteq Joining(u) \ {v}
      BY <2>3, <3>1 DEF Joining
    <3>3. CASE my[v].row = None
      <4>1. v \in Joining(u)
        BY <2>5, <3>1, <3>3 DEF Joining
      <4>2. RowsOf(u)' \subseteq RowsOf(u) \cup {r}
        BY <1>0, <2>5, <3>3 DEF Join, RowsOf, TypeOK
      <4>3. Cardinality(RowsOf(u)) + Cardinality(Joining(u)) <= Cardinality(Workers)
        BY <1>0
      <4> HIDE <1>0
      <4> QED BY ONLY <1>n, <3>2, <4>1, <4>2, <4>3, OneForOne
    <3>4. CASE my[v].row # None
      <4>1. RowsOf(u)' \subseteq RowsOf(u)
        BY <2>5, <3>4 DEF Join, RowsOf
      <4> QED BY <1>s, <3>2, <4>1
    <3> QED BY <3>3, <3>4
  <2> QED BY <1>r, <2>4, <2>5
<1>4. ASSUME UNCHANGED <<row, pc, my>>
      PROVE  Cardinality(RowsOf(u)') + Cardinality(Joining(u)') <= Cardinality(Workers)
  BY <1>4, <1>s DEF RowsOf, Joining
<1> QED BY <1>1, <1>2, <1>3, <1>4, Steps DEF vars, dataVars

----------------------------------------------------------------------------

LEMMA IInvHolds == Spec => []IInv
<1>1. IInv /\ [Next]_vars => IInv'
  BY NextTypeOK, NextRequestsSane, NextChecked, NextAssigned, NextBounded DEF IInv
<1> QED BY InitIInv, <1>1, PTL DEF Spec

\* Every reachable state is well typed, and what is left of a deleted user or of a deleted
\* organization is nothing.
THEOREM TypeCorrect == Spec => []TypeOK
<1>1. IInv => TypeOK
  BY DEF IInv
<1> QED BY IInvHolds, <1>1, PTL

\* A person has at most as many memberships as acceptances were under way together.
THEOREM MembershipsAreBounded == Spec => []MembershipsBounded
<1>1. IInv => MembershipsBounded
  BY DEF IInv
<1> QED BY IInvHolds, <1>1, PTL

----------------------------------------------------------------------------
(* What a step may do *)

\* If the owners are those a request has read, its caller was and is an owner if it was
\* checked to be one.
LEMMA CallerOwns ==
  ASSUME TypeOK, NEW w \in Workers, my[w].owners = Owning,
         \E r \in Row : <<r, my[w].by>> \in my[w].owners
  PROVE  \E r \in Owners : row[r].user = my[w].by
BY DEF Owning

LEMMA OwnersLast ==
  ASSUME IInv, [Next]_vars, org', Owners # {}, Owners' = {}
  PROVE  \E w \in Workers : /\ pc[w] \in {"remove", "role", "delete"} /\ pc'[w] = "idle"
                            /\ my[w].owners # Owning
<1>0. TypeOK /\ RequestsSane /\ \A w \in Workers : Checked(pc[w], my[w])
  BY EachChecked DEF IInv
<1>1. row' # row
  BY DEF Owners
<1>2. PICK w \in Workers : Writes(w)
  <2>1. \A w \in Workers : BeginsToRead(w) \/ AcceptFind(w) \/ RoleCount(w) \/ Fail(w) => row' = row
    BY <1>0, Begins, FindsOrFails DEF ReadsOnly, dataVars
  <2> QED BY <1>1, <2>1, Steps DEF vars, dataVars
<1>3. ASSUME NEW r \in Owners PROVE r \in Row /\ row[r].user \in Person /\ row'[r] # row[r]
  <2>1. r \in Row /\ row[r].user \in Person
    BY <1>0, <1>3, RowTypes DEF Owners
  <2>2. ASSUME row'[r] = row[r] PROVE FALSE
    BY <1>3, <2>1, <2>2 DEF Owners
  <2> QED BY <2>1, <2>2
<1>4. ASSUME RemoveWrite(w) \/ RoleWrite(w), my[w].owners = Owning PROVE FALSE
  <2>1. pc[w] \in {"remove", "role"}
    BY <1>0, <1>4, Ends DEF RemoveWrite, RoleWrite
  <2>2. my[w].row \in Row /\ row[my[w].row].user # my[w].by
    BY <1>0, <2>1 DEF RequestsSane
  <2>3. \A r \in Row \ {my[w].row} : row'[r] = row[r]
    BY <1>0, <1>4, <2>2 DEF RemoveWrite, RoleWrite, TypeOK
  <2>4. Owners = {my[w].row}
    BY <1>3, <2>3
  <2>5. <<my[w].row, row[my[w].row].user>> \in my[w].owners
    BY <1>4, <2>4 DEF Owning
  <2>6. row[my[w].row].user \in Person
    BY <1>3, <2>4
  <2>7. \E r \in Row : <<r, my[w].by>> \in my[w].owners
    BY <1>0, <2>1, <2>5, <2>6 DEF Checked
  <2>8. PICK r \in Owners : row[r].user = my[w].by
    BY <1>0, <1>4, <2>7, CallerOwns
  <2> QED BY <2>2, <2>4, <2>8
<1>5. ASSUME DeleteWrite(w), my[w].owners = Owning PROVE FALSE
  <2>1. pc[w] = "delete"
    BY <1>0, <1>5, Ends DEF DeleteWrite
  <2>2. ~my[w].flag
    BY <1>5 DEF DeleteWrite
  <2>3. row' = [r \in Row |-> IF row[r].user = my[w].by THEN NoRow ELSE row[r]]
    BY <1>5, <2>2 DEF DeleteWrite
  <2>4. \A r \in Owners : row[r].user = my[w].by
    BY <1>3, <2>3
  <2>5. Owning # {} /\ \A o \in Owning : o[2] = my[w].by
    <3>1. PICK r \in Owners : TRUE
      OBVIOUS
    <3>2. <<r, row[r].user>> \in Owning
      BY <3>1 DEF Owning
    <3>3. \A o \in Owning : \E x \in Owners : o = <<x, row[x].user>>
      BY DEF Owning
    <3> QED BY <2>4, <3>2, <3>3
  <2> QED BY <1>0, <1>5, <2>1, <2>2, <2>5 DEF Checked
<1>6. CASE RemoveWrite(w) \/ RoleWrite(w) \/ DeleteWrite(w)
  <2>1. pc[w] \in {"remove", "role", "delete"} /\ pc'[w] = "idle"
    BY <1>0, <1>6, Ends DEF RemoveWrite, RoleWrite, DeleteWrite
  <2> QED BY <1>4, <1>5, <1>6, <2>1
<1>7. CASE \E r \in Row : Join(w, r)
  <2> PICK r \in Row : Join(w, r)
    BY <1>7
  <2>1. row[r] = NoRow /\ \A x \in Row \ {r} : row'[x] = row[x]
    BY <1>0, <1>1 DEF Join, TypeOK
  <2>2. Owners \subseteq Owners'
    BY <2>1 DEF Owners, NoRow
  <2> QED BY <2>2
<1>8. CASE \/ ExpireWrite(w) \/ UpdateWrite(w)
           \/ \E i \in Invitation : InviteWrite(w, i)
           \/ \E p \in Project : CreateWrite(w, p)
  BY <1>1, <1>8 DEF ExpireWrite, UpdateWrite, InviteWrite, CreateWrite
<1> QED BY <1>2, <1>6, <1>7, <1>8 DEF Writes

\* The last owner leaves only by a request that was overtaken: since it read, others
\* changed who the owners are.
THEOREM LastOwnerIsOvertaken == Spec => LastOwnerLeaves
<1>1. IInv /\ [Next]_vars =>
        [ org' /\ Owners # {} /\ Owners' = {} =>
            \E w \in Workers : /\ pc[w] \in {"remove", "role", "delete"} /\ pc'[w] = "idle"
                               /\ my[w].owners # Owning ]_vars
  BY OwnersLast
<1> QED BY IInvHolds, <1>1, PTL DEF Spec, LastOwnerLeaves

LEMMA JoinsUnassigned ==
  ASSUME IInv, [Next]_vars, NEW u \in Person, u \notin Members, u \in Members', u \notin stray
  PROVE  findByClient(u)' = {}
<1>0. TypeOK /\ AssignedAreMembers
  BY DEF IInv
<1>1. RowsOf(u) = {} /\ RowsOf(u)' # {}
  BY DEF Members
<1>2. PICK w \in Workers, r \in Row : Join(w, r)
  BY <1>1, RowSteps
<1>3. project' = project
  BY <1>2 DEF Join
<1>4. \A p \in Project : u \notin project'[p].clients
  BY <1>0, <1>3 DEF AssignedAreMembers
<1> QED BY <1>4 DEF findByClient

\* Who joins sees no project of an earlier membership.
THEOREM NewcomersSeeNothing == Spec => JoinSeesNothing
<1>1. IInv /\ [Next]_vars =>
        [ \A u \in Person : u \notin Members /\ u \in Members' /\ u \notin stray
                              => findByClient(u)' = {} ]_vars
  BY JoinsUnassigned
<1> QED BY IInvHolds, <1>1, PTL DEF Spec, JoinSeesNothing
=============================================================================
