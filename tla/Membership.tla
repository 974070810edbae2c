------------------------------ MODULE Membership ------------------------------
(***************************************************************************)
(* The members of one organization (apps/api/src/clients, onboarding,      *)
(* account), their roles, the invitations they join by, and the clients    *)
(* assigned to its projects (apps/api/src/projects and agent-projects).    *)
(*                                                                         *)
(* A handler reads in one step and writes in a later one.  The rows of     *)
(* members have no unique key.  An identifier is used again only when no   *)
(* request knows it any more.  Names, rates, profiles and what a project   *)
(* contains are left out.                                                  *)
(***************************************************************************)
EXTENDS Integers, FiniteSets

CONSTANTS
  Person,      \* e-mail addresses; each gets at most one user
  Row,         \* identifiers of Member rows
  Invitation,  \* identifiers of Invitation rows
  Project,     \* identifiers of Project rows
  Workers,     \* API requests in flight together
  Founder,     \* who signed up
  None

ASSUME MembershipAssumption ==
  /\ IsFiniteSet(Person) /\ IsFiniteSet(Row) /\ IsFiniteSet(Workers) /\ Workers # {}
  /\ Founder \in Person
  /\ None \notin Person \cup Row \cup Invitation \cup Project

VARIABLES
  org,        \* does the organization exist?
  user,       \* the User row of a person: "new", "known" or, deleted, "gone"
  row,        \* Member rows
  invited,    \* Invitation rows
  late,       \* invitations past expiresAt
  project,    \* Project rows, with their ProjectClient rows
  stray,      \* history: clients a request left behind on a project
  pc, my      \* where each request is, and what it has read

dataVars == <<org, user, row, invited, late, project, stray>>
vars == <<dataVars, pc, my>>

Roles == {"owner", "admin", "member"}
Staff == {"owner", "admin"}
Member == [user : Person, role : Roles]
NoRow == [user |-> None, role |-> "member"]
Invite == [for : Person, role : Roles, by : Person,
           status : {"pending", "accepted", "expired"}]
NoInvite == [for |-> None, role |-> "member", by |-> None, status |-> "expired"]
Body == [clients : SUBSET Person, archived : BOOLEAN]
NoProject == [clients |-> {}, archived |-> TRUE]
Pc == {"idle", "invite", "expire", "accept", "join", "remove", "count", "role", "delete",
       "create", "update"}
Memory == [by : Person \cup {None}, for : Person \cup {None}, row : Row \cup {None},
           invite : Invitation \cup {None}, role : Roles, project : Project \cup {None},
           seen : SUBSET Project, clients : SUBSET Person, flag : BOOLEAN,
           owners : SUBSET (Row \X Person)]      \* owners: history, see LastOwnerLeaves
Blank == [by |-> None, for |-> None, row |-> None, invite |-> None, role |-> "member",
          project |-> None, seen |-> {}, clients |-> {}, flag |-> FALSE, owners |-> {}]

Goto(w, from, to) == pc[w] = from /\ pc' = [pc EXCEPT ![w] = to]
Remember(w, what) == my' = [my EXCEPT ![w] = what]
Read(w, to, what) == Goto(w, "idle", to) /\ Remember(w, what) /\ UNCHANGED dataVars
Done(w, from) == Goto(w, from, "idle") /\ Remember(w, Blank)

RowsOf(u) == {r \in Row : row[r].user = u}
HasRole(u, roles) == \E r \in RowsOf(u) : row[r].role \in roles
Owners == {r \in Row : row[r].user # None /\ row[r].role = "owner"}
Owning == {<<r, row[r].user>> : r \in Owners}
Has(roles) == \E r \in Row : row[r] # NoRow /\ row[r].role \in roles
Members == {u \in Person : RowsOf(u) # {}}
Exists(p) == project[p] # NoProject
Known == {u \in Person : user[u] = "known"}

\* signup(): the organization, its first user and its first member
Init ==
  /\ org = TRUE
  /\ user \in {[u \in Person |-> IF u = Founder THEN "known" ELSE s[u]] :
                 s \in [Person -> {"new", "known"}]}
  /\ \E r \in Row : row = [x \in Row |-> IF x = r THEN [user |-> Founder, role |-> "owner"]
                                                  ELSE NoRow]
  /\ invited = [i \in Invitation |-> NoInvite] /\ late = {}
  /\ project = [p \in Project |-> NoProject] /\ stray = {}
  /\ pc = [w \in Workers |-> "idle"] /\ my = [w \in Workers |-> Blank]

----------------------------------------------------------------------------
(* Invitations *)

\* createInvitation()
InviteRead(w, u, x, role) ==
  /\ HasRole(u, Staff) /\ RowsOf(x) = {}
  /\ Read(w, "invite", [Blank EXCEPT !.by = u, !.for = x, !.role = role])

InviteWrite(w, i) ==
  /\ Done(w, "invite")
  /\ org /\ invited[i] = NoInvite /\ i \notin late /\ \A v \in Workers : my[v].invite # i
  /\ invited' = [invited EXCEPT ![i] = [for |-> my[w].for, role |-> my[w].role,
                                        by |-> my[w].by, status |-> "pending"]]
  /\ UNCHANGED <<org, user, row, late, project, stray>>

\* Seven days pass.
Lapse(i) ==
  /\ invited[i].status = "pending" /\ late' = late \cup {i}
  /\ UNCHANGED <<org, user, row, invited, project, stray, pc, my>>

\* acceptInvitation(), by the person it was sent to
AcceptRead(w, i) ==
  /\ invited[i].status = "pending" /\ user[invited[i].for] # "gone"
  /\ Read(w, IF i \in late THEN "expire" ELSE "accept",
          [Blank EXCEPT !.for = invited[i].for, !.invite = i, !.role = invited[i].role])

Answer(i, status) == invited' = [invited EXCEPT ![i].status = status]

ExpireWrite(w) ==
  /\ Done(w, "expire")
  /\ invited[my[w].invite] # NoInvite
  /\ Answer(my[w].invite, "expired")
  /\ UNCHANGED <<org, user, row, late, project, stray>>

\* Its transaction looks for the user and the member, then makes what is missing;
\* two of them do not see each other's rows.
AcceptFindNothing(w) ==               \* mutant: does not look for a member
  /\ Goto(w, "accept", "join")
  /\ Remember(w, [my[w] EXCEPT !.flag = (user[my[w].for] = "known"), !.row = None])
  /\ UNCHANGED dataVars

AcceptFind(w) ==
  /\ Goto(w, "accept", "join")
  /\ LET mine == RowsOf(my[w].for)
     IN  \E r \in IF mine = {} THEN {None} ELSE mine :
           Remember(w, [my[w] EXCEPT !.flag = (user[my[w].for] = "known"), !.row = r])
  /\ UNCHANGED dataVars

Join(w, r) ==
  /\ Done(w, "join")
  /\ LET x == my[w].for IN
       /\ user[x] = IF my[w].flag THEN "known" ELSE "new"   \* User.email is unique
       /\ user' = [user EXCEPT ![x] = "known"]
       /\ IF my[w].row = None
          THEN /\ row[r] = NoRow /\ \A v \in Workers : my[v].row # r
               /\ row' = [row EXCEPT ![r] = [user |-> x, role |-> my[w].role]]
          ELSE r = my[w].row /\ UNCHANGED row
  /\ org /\ invited[my[w].invite] # NoInvite
  /\ Answer(my[w].invite, "accepted")
  /\ UNCHANGED <<org, late, project, stray>>

----------------------------------------------------------------------------
(* Members and their roles *)

Without(u, ps) == [p \in Project |-> IF p \in ps
                                     THEN [project[p] EXCEPT !.clients = @ \ {u}] ELSE project[p]]

\* removeMember(): the projects of the organization are listed before it writes.
RemoveReadAny(w, u, r) ==             \* mutant: admins may remove owners
  /\ HasRole(u, Staff) /\ row[r] # NoRow /\ row[r].user # u
  /\ Read(w, "remove", [Blank EXCEPT !.by = u, !.for = row[r].user, !.row = r,
                                     !.seen = {p \in Project : Exists(p)}, !.owners = Owning])

RemoveRead(w, u, r) ==
  /\ HasRole(u, Staff) /\ row[r] # NoRow /\ row[r].user # u
  /\ row[r].role = "owner" => HasRole(u, {"owner"})
  /\ Read(w, "remove", [Blank EXCEPT !.by = u, !.for = row[r].user, !.row = r,
                                     !.seen = {p \in Project : Exists(p)}, !.owners = Owning])

RemoveWriteRowOnly(w) ==              \* mutant: the projects keep their client
  /\ Done(w, "remove")
  /\ row[my[w].row] # NoRow /\ row' = [row EXCEPT ![my[w].row] = NoRow]
  /\ UNCHANGED <<org, user, invited, late, project, stray>>

RemoveWrite(w) ==
  /\ Done(w, "remove")
  /\ LET u == my[w].for IN
       /\ row[my[w].row] # NoRow /\ row' = [row EXCEPT ![my[w].row] = NoRow]
       /\ project' = Without(u, my[w].seen)
       /\ stray' = stray \cup {x \in {u} : \E p \in Project \ my[w].seen : x \in project[p].clients}
  /\ UNCHANGED <<org, user, invited, late>>

\* changeRole()
RoleRead(w, u, r, role) ==
  /\ HasRole(u, {"owner"}) /\ row[r] # NoRow /\ row[r].user # u
  /\ Read(w, IF row[r].role = "owner" THEN "count" ELSE "role",
          [Blank EXCEPT !.by = u, !.row = r, !.role = role, !.owners = Owning])

RoleCount(w) ==
  /\ Goto(w, "count", "role")
  /\ Cardinality(Owners) > 1
  /\ UNCHANGED <<dataVars, my>>

RoleWrite(w) ==
  /\ Done(w, "role")
  /\ row[my[w].row] # NoRow
  /\ row' = [row EXCEPT ![my[w].row].role = my[w].role]
  /\ UNCHANGED <<org, user, invited, late, project, stray>>

\* deleteAccount(): "flag" tells an organization without another owner.
DeleteReadUncounted(w, u) ==          \* mutant: does not look for other owners
  /\ user[u] = "known"
  /\ Read(w, "delete", [Blank EXCEPT !.by = u, !.owners = Owning])

DeleteRead(w, u) ==
  /\ user[u] = "known"
  /\ Read(w, "delete", [Blank EXCEPT !.by = u, !.owners = Owning,
          !.flag = HasRole(u, {"owner"}) /\ \A r \in Owners : row[r].user = u])

DeleteWriteRowsOnly(w) ==             \* mutant: projects keep the user as a client
  /\ Done(w, "delete")
  /\ ~my[w].flag /\ user' = [user EXCEPT ![my[w].by] = "gone"]
  /\ row' = [r \in Row |-> IF row[r].user = my[w].by THEN NoRow ELSE row[r]]
  /\ UNCHANGED <<org, invited, late, project, stray>>

DeleteWrite(w) ==
  /\ Done(w, "delete")
  /\ LET u == my[w].by IN
       /\ user[u] = "known" /\ user' = [user EXCEPT ![u] = "gone"]
       /\ stray' = stray \ {u}
       /\ IF my[w].flag
          THEN /\ org /\ org' = FALSE
               /\ row' = [r \in Row |-> NoRow]
               /\ invited' = [i \in Invitation |-> NoInvite]
               /\ project' = [p \in Project |-> NoProject]
          ELSE /\ row' = [r \in Row |-> IF row[r].user = u THEN NoRow ELSE row[r]]
               /\ invited' = [i \in Invitation |->
                                IF invited[i].by = u THEN NoInvite ELSE invited[i]]
               /\ project' = Without(u, {p \in Project : Exists(p)})
               /\ UNCHANGED org
  /\ UNCHANGED late

----------------------------------------------------------------------------
(* Projects and their clients.  PlanGuard may refuse create() and          *)
(* duplicate().                                                            *)

\* The clients named are as many as the member rows they have.
Assignable(clients) == Cardinality({r \in Row : row[r].user \in clients}) = Cardinality(clients)

\* create()
CreateRead(w, clients) ==
  /\ Has(Staff) /\ Assignable(clients)
  /\ Read(w, "create", [Blank EXCEPT !.clients = clients])

\* duplicate(): the clients of the source as it was read, or none
DuplicateRead(w, p, includeClients) ==
  /\ Has(Staff) /\ Exists(p)
  /\ Read(w, "create", [Blank EXCEPT
                          !.clients = IF includeClients THEN project[p].clients ELSE {}])

\* The agent assigns one client, or none.
AgentCreateRead(w, clients) ==
  /\ org /\ Cardinality(clients) <= 1 /\ clients \subseteq Members
  /\ Read(w, "create", [Blank EXCEPT !.clients = clients])

CreateWrite(w, p) ==
  /\ Done(w, "create")
  /\ org /\ ~Exists(p) /\ \A v \in Workers : p \notin my[v].seen \cup {my[v].project}
  /\ my[w].clients \subseteq Known
  /\ project' = [project EXCEPT ![p] = [clients |-> my[w].clients, archived |-> FALSE]]
  /\ stray' = stray \cup (my[w].clients \ Members)
  /\ UNCHANGED <<org, user, row, invited, late>>

\* update(): an archived project is not changed.
UpdateRead(w, p, clients) ==
  /\ Has(Staff) /\ Exists(p) /\ ~project[p].archived /\ Assignable(clients)
  /\ Read(w, "update", [Blank EXCEPT !.project = p, !.clients = clients])

AgentUpdateRead(w, p, clients) ==
  /\ Exists(p) /\ ~project[p].archived
  /\ Cardinality(clients) <= 1 /\ clients \subseteq Members
  /\ Read(w, "update", [Blank EXCEPT !.project = p, !.clients = clients])

UpdateWrite(w) ==
  /\ Done(w, "update")
  /\ Exists(my[w].project) /\ my[w].clients \subseteq Known
  /\ project' = [project EXCEPT ![my[w].project].clients = my[w].clients]
  /\ stray' = stray \cup (my[w].clients \ Members)
  /\ UNCHANGED <<org, user, row, invited, late>>

Archive(p) ==
  /\ Has(Staff) /\ Exists(p)
  /\ project' = [project EXCEPT ![p].archived = TRUE]
  /\ UNCHANGED <<org, user, row, invited, late, stray, pc, my>>

Unarchive(p) ==
  /\ Has(Staff) /\ Exists(p)
  /\ project' = [project EXCEPT ![p].archived = FALSE]
  /\ UNCHANGED <<org, user, row, invited, late, stray, pc, my>>

Remove(p) ==
  /\ Has({"owner"}) /\ Exists(p)
  /\ project' = [project EXCEPT ![p] = NoProject]
  /\ UNCHANGED <<org, user, row, invited, late, stray, pc, my>>

\* findByClient(), findOneByClient(): what a member sees in the portal
findByClient(u) == {p \in Project : u \in Members /\ ~project[p].archived /\ u \in project[p].clients}

----------------------------------------------------------------------------

\* A request fails and leaves nothing: a row it needs is gone, or the database is.
Fail(w) ==
  /\ pc[w] # "idle"
  /\ pc' = [pc EXCEPT ![w] = "idle"] /\ Remember(w, Blank)
  /\ UNCHANGED dataVars

Serve(w) ==
  \/ \E u, x \in Person, role \in Roles : InviteRead(w, u, x, role)
  \/ \E i \in Invitation : InviteWrite(w, i) \/ AcceptRead(w, i)
  \/ ExpireWrite(w) \/ AcceptFind(w) \/ RemoveWrite(w) \/ RoleCount(w) \/ RoleWrite(w)
  \/ \E r \in Row : Join(w, r)
  \/ \E u \in Person, r \in Row : RemoveRead(w, u, r) \/ \E role \in Roles : RoleRead(w, u, r, role)
  \/ \E u \in Person : DeleteRead(w, u)
  \/ DeleteWrite(w) \/ UpdateWrite(w) \/ Fail(w)
  \/ \E clients \in SUBSET Person :
       \/ CreateRead(w, clients) \/ AgentCreateRead(w, clients)
       \/ \E p \in Project : UpdateRead(w, p, clients) \/ AgentUpdateRead(w, p, clients)
  \/ \E p \in Project : CreateWrite(w, p) \/ \E all \in BOOLEAN : DuplicateRead(w, p, all)

Next ==
  \/ \E w \in Workers : Serve(w)
  \/ \E i \in Invitation : Lapse(i)
  \/ \E p \in Project : Archive(p) \/ Unarchive(p) \/ Remove(p)

Spec == Init /\ [][Next]_vars

----------------------------------------------------------------------------
(* Properties *)

\* Types, and referential integrity: what is left of a person without a user or of
\* an organization without a row is nothing.
TypeOK ==
  /\ org \in BOOLEAN /\ user \in [Person -> {"new", "known", "gone"}]
  /\ row \in [Row -> Member \cup {NoRow}]
  /\ invited \in [Invitation -> Invite \cup {NoInvite}] /\ late \in SUBSET Invitation
  /\ project \in [Project -> Body] /\ stray \in SUBSET Person
  /\ pc \in [Workers -> Pc] /\ my \in [Workers -> Memory]
  /\ Members \subseteq Known /\ \A p \in Project : project[p].clients \subseteq Known
  /\ ~org => Members = {}

\* An organization that goes on loses its last owner only by a request that was
\* overtaken: between its read and its write other requests changed who its owners
\* are.  No single call does it, nor any number of calls one after the other.
LastOwnerLeaves ==
  [][ org' /\ Owners # {} /\ Owners' = {} =>
        \E w \in Workers : /\ pc[w] \in {"remove", "role", "delete"} /\ pc'[w] = "idle"
                           /\ my[w].owners # Owning ]_vars

\* A person has as many memberships as requests accept invitations together, never more.
Joining(u) == {w \in Workers : pc[w] = "join" /\ my[w].for = u /\ my[w].row = None}
MembershipsBounded ==
  \A u \in Person : Cardinality(RowsOf(u)) + Cardinality(Joining(u)) <= Cardinality(Workers)

\* Whoever joins, even again, sees no project in the portal before being assigned to
\* it -- unless a request has left the assignment behind: it was overtaken, or took
\* two memberships of one client for those of two.
JoinSeesNothing ==
  [][ \A u \in Person : u \notin Members /\ u \in Members' /\ u \notin stray
                          => findByClient(u)' = {} ]_vars

----------------------------------------------------------------------------
(* Promises the code does not keep; the README tells how each one breaks. *)

\* An organization that goes on keeps an owner: "Cannot demote the last owner"
\* (apps/api/src/clients/clients.service.spec.ts).
LastOwnerStays == [][ org' /\ Owners # {} => Owners' # {} ]_vars

\* An organization goes away only with its only owner: "Delete orgs where user is
\* sole owner" (apps/api/src/account/account.service.ts).
OnlySoleOwnersDelete ==
  [][ org /\ ~org' => \E u \in Person : \A r \in Owners : row[r].user = u /\ user'[u] = "gone" ]_vars

\* Strengthening for the proofs: what a request knows of the people it is about, ...
RequestsSane ==
  \A w \in Workers :
    /\ pc[w] \in {"invite", "accept", "join"} => my[w].for \in Person
    /\ pc[w] \in {"invite", "remove", "count", "role"} => my[w].by \in Person
    /\ pc[w] \in {"remove", "count", "role"} =>
         my[w].row \in Row /\ row[my[w].row].user # my[w].by
    /\ pc[w] = "remove" => row[my[w].row].user \in {my[w].for, None}

\* ... and that who sees a project is a member, or was left behind on it.
AssignedAreMembers == \A p \in Project : project[p].clients \subseteq Members \cup stray

\* What a request checked of the owners was true of those there were when it read.
OwnersChecked ==
  \A w \in Workers :
    LET m == my[w]
        asOwner == \E r \in Row : <<r, m.by>> \in m.owners
    IN  /\ pc[w] = "remove" /\ (\E u \in Person : <<m.row, u>> \in m.owners) => asOwner
        /\ pc[w] \in {"count", "role"} => asOwner
        /\ pc[w] = "delete" /\ m.owners # {} /\ (\A o \in m.owners : o[2] = m.by) => m.flag

IInv == TypeOK /\ RequestsSane /\ OwnersChecked /\ AssignedAreMembers /\ MembershipsBounded
=============================================================================
