------------------------------- MODULE Access -------------------------------
(***************************************************************************)
(* Who may act on a tenant: users and their login (auth_router.py,         *)
(* api/auth.py), the memberships of one tenant and the routes that only    *)
(* its admins may call (tenants_router.py, tenant_service.py).             *)
(*                                                                         *)
(* A request is one handler of the API process with its session, one       *)
(* PostgreSQL transaction (READ COMMITTED).  Its pc names the SQL          *)
(* statement it is about to await, and one step is one statement, but for  *)
(* the DELETE of the tenant, which takes its locks in two; the last write  *)
(* is one step with the commit that follows it.                            *)
(***************************************************************************)
EXTENDS Integers

CONSTANTS
    Requests,    \* request slots of the API process
    Emails,      \* e-mail addresses
    UserIds,     \* values of user_id
    RowIds,      \* values of membership_id
    Tokens,      \* login tokens, as secrets.token_urlsafe returns them
    Names,       \* names of the tenant
    Roles,       \* roles that members are given
    Creator,     \* the e-mail address of the tenant's creator
    Faulty,      \* requests in which any call may raise
    MaxSurplus,  \* how far removals are counted beyond additions in the audit log
    None         \* Python's None

ASSUME NoneAssumption == None \notin UserIds \cup RowIds \cup Names \cup Emails \cup Tokens
ASSUME RolesAssumption == "tenant_admin" \in Roles /\ None \notin Roles
ASSUME CreatorAssumption == Creator \in Emails
ASSUME FaultyAssumption == Faulty \subseteq Requests
ASSUME SurplusAssumption == MaxSurplus \in Nat

VARIABLES
    user,        \* user[e]: the id in the committed users row of e, or None
    tenant,      \* the name in the committed tenants row, or None when deleted
    member,      \* member[u]: the committed memberships row of user u
    audit,       \* audit[u]: the committed audit events that add u less those that remove u
    token,       \* token[k]: what _pending_tokens and the mail box know of k
    sessions,    \* the access tokens that verify has returned
    req          \* req[p]: the progress of request p

vars == <<user, tenant, member, audit, token, sessions, req>>

MemberRows == [id : RowIds, role : Roles]
NoMember == [id |-> None, role |-> None]

\* An access token is signed and names its holder.
Sessions == [user : UserIds, email : Emails]

\* "unused": not drawn yet; "gone": popped, or lost with the process's memory.
\* sessions: how many verifications of it have succeeded (counted to two).
TokenRecords == [email : Emails \cup {None}, state : {"unused", "fresh", "expired", "gone"},
                 granted : 0..2]

MemberOps == {"add", "remove", "update", "delete"}
Pcs == {"select_user", "insert_user", "grant", "check_role", "insert_member", "audit_add",
        "select_member", "delete_member", "audit_remove", "get_tenant", "update_name",
        "set_deleting", "delete_tenant", "cascade", "idle"}

\* actor: the user of the access token; uid: the user in hand; newUser: its row is
\* inserted and not committed; row: the memberships row inserted or selected.
\* entitled (auxiliary): the actor has been an admin at some time since the request began.
RequestRecords ==
    [op : MemberOps \cup {"verify", "none"}, actor : UserIds \cup {None},
     email : Emails \cup {None}, role : Roles \cup {None}, token : Tokens \cup {None},
     name : Names \cup {None}, pc : Pcs, uid : UserIds \cup {None}, newUser : BOOLEAN,
     row : MemberRows \cup {NoMember}, entitled : BOOLEAN]
Idle ==
    [op |-> "none", actor |-> None, email |-> None, role |-> None,
     token |-> None, name |-> None, pc |-> "idle", uid |-> None, newUser |-> FALSE,
     row |-> NoMember, entitled |-> FALSE]

Active(p) == req[p].pc # "idle"
At(p, pc) == req[p].pc = pc
U(p) == req[p].uid
IsAdmin(u) == member[u].role = "tenant_admin"

\* Random ids never come twice.
FreshUsers == UserIds \ ({user[e] : e \in Emails} \cup {U(p) : p \in Requests}
                         \cup {s.user : s \in sessions})
FreshRows == RowIds \ ({member[u].id : u \in UserIds} \cup {req[p].row.id : p \in Requests})

-----------------------------------------------------------------------------
(* A statement that leaves the transaction open, and the ends of one. *)

Goto(p, r) ==
    /\ req' = [req EXCEPT ![p] = r]
    /\ UNCHANGED <<user, tenant, member, audit, token, sessions>>

Proceed(p, pc) == Goto(p, [req[p] EXCEPT !.pc = pc])

\* A response without a commit, or an exception.
Abort(p) == Goto(p, Idle)

\* An uncommitted users row is committed with the rest.
CommitUser(p) == user' = IF req[p].newUser THEN [user EXCEPT ![req[p].email] = U(p)] ELSE user

\* The commit of p makes the memberships m; the entitled admins among the others' actors
\* are brought up to date.
CommitMembers(p, m) ==
    /\ member' = m
    /\ req' = [q \in Requests |->
                 IF q = p \/ ~Active(q) \/ req[q].actor = None
                 THEN IF q = p THEN Idle ELSE req[q]
                 ELSE [req[q] EXCEPT !.entitled = @ \/ m[req[q].actor].role = "tenant_admin"]]

-----------------------------------------------------------------------------
(* The locks: for which rows of another transaction a statement waits, until that  *)
(* transaction ends.                                                               *)

\* An uncommitted INSERT or DELETE of the memberships row of u.
Inserting(q, u) == At(q, "audit_add") /\ U(q) = u
Deleting(q, u) == At(q, "audit_remove") /\ U(q) = u /\ req[q].row.id = member[u].id

\* users.email is unique.
UsersRow(q, p) ==
    At(p, "insert_user") /\ req[q].newUser /\ req[q].email = req[p].email

\* uq_membership; the row to delete; and the rows that go with the tenant.
MembershipsRow(q, p) ==
    \/ At(p, "insert_member") /\ (Inserting(q, U(p)) \/ Deleting(q, U(p)))
    \/ At(p, "delete_member") /\ Deleting(q, U(p)) /\ req[q].row.id = req[p].row.id
    \/ At(p, "cascade") /\ Deleting(q, U(q))

\* Mutant of TenantsRow: audit_events.tenant_id is a foreign key too.
TenantsRowOfEvents(q, p) ==
    \/ req[p].pc \in {"update_name", "set_deleting"} /\ req[q].pc \in {"delete_tenant", "cascade"}
    \/ At(p, "delete_tenant") /\ At(q, "audit_add")
    \/ req[p].pc \in {"insert_member", "audit_remove"} /\ At(q, "cascade")

\* The flushed UPDATE of the status keeps other writers out; the DELETE also waits for
\* the FOR KEY SHARE locks of inserted memberships, and they for the DELETE.
TenantsRow(q, p) ==
    \/ req[p].pc \in {"update_name", "set_deleting"} /\ req[q].pc \in {"delete_tenant", "cascade"}
    \/ At(p, "delete_tenant") /\ At(q, "audit_add")
    \/ At(p, "insert_member") /\ At(q, "cascade")

Blocks(q, p) == q # p /\ (UsersRow(q, p) \/ MembershipsRow(q, p) \/ TenantsRow(q, p))
Blocked(p) == \E q \in Requests : Blocks(q, p)

-----------------------------------------------------------------------------
(* login and verify. *)

Login(k, e) ==
    /\ token[k].state = "unused"
    /\ token' = [token EXCEPT ![k] = [email |-> e, state |-> "fresh", granted |-> 0]]
    /\ UNCHANGED <<user, tenant, member, audit, sessions, req>>

\* Fifteen minutes pass.
Expire(k) ==
    /\ token[k].state = "fresh"
    /\ token' = [token EXCEPT ![k].state = "expired"]
    /\ UNCHANGED <<user, tenant, member, audit, sessions, req>>

VerifyBegun(k) == [Idle EXCEPT !.op = "verify", !.email = token[k].email, !.token = k,
                               !.pc = "select_user"]

Popped(k) == [email |-> None, state |-> "gone", granted |-> token[k].granted]

\* Mutant of Verify: the token is looked up and left for a later clean-up.
VerifyKeepingToken(p, k) ==
    /\ ~Active(p)
    /\ token[k].state = "fresh"
    /\ req' = [req EXCEPT ![p] = VerifyBegun(k)]
    /\ UNCHANGED <<user, tenant, member, audit, token, sessions>>

\* The token is popped before the first await, and 401 is the answer if it has expired.
Verify(p, k) ==
    /\ ~Active(p)
    /\ token[k].state \in {"fresh", "expired"}
    /\ token' = [token EXCEPT ![k] = Popped(k)]
    /\ req' = IF token[k].state = "fresh" THEN [req EXCEPT ![p] = VerifyBegun(k)] ELSE req
    /\ UNCHANGED <<user, tenant, member, audit, sessions>>

\* The commit, and the access token.
Grant(p) ==
    LET k == req[p].token
    IN /\ At(p, "grant")
       /\ CommitUser(p)
       /\ sessions' = sessions \cup {[user |-> U(p), email |-> req[p].email]}
       /\ token' = [token EXCEPT ![k].granted = IF @ < 2 THEN @ + 1 ELSE @]
       /\ req' = [req EXCEPT ![p] = Idle]
       /\ UNCHANGED <<tenant, member, audit>>

-----------------------------------------------------------------------------
(* get_or_create_user, and the same statements in add_member. *)

AfterUser(p) == IF req[p].op = "verify" THEN "grant" ELSE "insert_member"

SelectUser(p) ==
    LET u == user[req[p].email]
    IN /\ At(p, "select_user")
       /\ \/ u # None /\ Goto(p, [req[p] EXCEPT !.uid = u, !.pc = AfterUser(p)])
          \/ u = None /\ Proceed(p, "insert_user")

InsertedUser(p, u) == [req[p] EXCEPT !.uid = u, !.newUser = TRUE, !.pc = AfterUser(p)]

\* Mutant of InsertUser: users.email is not unique.
InsertUserNotUnique(p) ==
    /\ At(p, "insert_user")
    /\ \E u \in FreshUsers : Goto(p, InsertedUser(p, u))

\* INSERT INTO users: waits for the transaction that has inserted the address, then
\* fails if there is one.
InsertUser(p) ==
    LET e == req[p].email
    IN /\ At(p, "insert_user")
       /\ ~Blocked(p)
       /\ \/ user[e] = None /\ \E u \in FreshUsers : Goto(p, InsertedUser(p, u))
          \/ user[e] # None /\ Abort(p)

-----------------------------------------------------------------------------
(* The routes for admins begin: get_current_user, then _require_member. *)

Begin(p, r) ==
    /\ ~Active(p)
    /\ Goto(p, [r EXCEPT !.pc = "check_role", !.entitled = IsAdmin(r.actor)])

AddMember(p, s, e, role) ==
    Begin(p, [Idle EXCEPT !.op = "add", !.actor = s.user, !.email = e, !.role = role])
RemoveMember(p, s, u) ==
    Begin(p, [Idle EXCEPT !.op = "remove", !.actor = s.user, !.uid = u])
UpdateTenant(p, s, n) ==
    Begin(p, [Idle EXCEPT !.op = "update", !.actor = s.user, !.name = n])
DeleteTenant(p, s) ==
    Begin(p, [Idle EXCEPT !.op = "delete", !.actor = s.user])

FirstPc(op) == CASE op = "add" -> "select_user"
                 [] op = "remove" -> "select_member"
                 [] op \in {"update", "delete"} -> "get_tenant"

\* Mutant of CheckRole: any membership will do.
CheckMembership(p) ==
    /\ At(p, "check_role")
    /\ \/ member[req[p].actor] # NoMember /\ Proceed(p, FirstPc(req[p].op))
       \/ member[req[p].actor] = NoMember /\ Abort(p)

\* SELECT FROM memberships: no row or another role, HTTP 403.
CheckRole(p) ==
    /\ At(p, "check_role")
    /\ \/ IsAdmin(req[p].actor) /\ Proceed(p, FirstPc(req[p].op))
       \/ ~IsAdmin(req[p].actor) /\ Abort(p)

-----------------------------------------------------------------------------
(* add_member and remove_member. *)

\* Mutant of InsertMember: memberships.tenant_id is no foreign key.
InsertMemberUnchecked(p) ==
    /\ At(p, "insert_member") /\ ~Blocked(p)
    /\ \/ /\ member[U(p)] = NoMember
          /\ \E i \in FreshRows :
               Goto(p, [req[p] EXCEPT !.row = [id |-> i, role |-> req[p].role],
                                      !.pc = "audit_add"])
       \/ member[U(p)] # NoMember /\ Abort(p)

\* Mutant of InsertMember: the membership is looked for, and uq_membership is left out.
InsertMemberNotUnique(p) ==
    /\ At(p, "insert_member")
    /\ \/ /\ tenant # None /\ member[U(p)] = NoMember
          /\ \E i \in FreshRows :
               Goto(p, [req[p] EXCEPT !.row = [id |-> i, role |-> req[p].role],
                                      !.pc = "audit_add"])
       \/ ~(tenant # None /\ member[U(p)] = NoMember) /\ Abort(p)

\* INSERT INTO memberships: waits for the fate of a duplicate; uq_membership and the
\* foreign key may refuse it.
InsertMember(p) ==
    /\ At(p, "insert_member") /\ ~Blocked(p)
    /\ \/ /\ tenant # None /\ member[U(p)] = NoMember
          /\ \E i \in FreshRows :
               Goto(p, [req[p] EXCEPT !.row = [id |-> i, role |-> req[p].role],
                                      !.pc = "audit_add"])
       \/ ~(tenant # None /\ member[U(p)] = NoMember) /\ Abort(p)

\* The audit event and the commit.  Events have no order to be read by: their ids are
\* random, and created_at is when their transaction began.  So they are counted.
AuditAdd(p) ==
    /\ At(p, "audit_add")
    /\ CommitUser(p)
    /\ CommitMembers(p, [member EXCEPT ![U(p)] = req[p].row])
    /\ audit' = [audit EXCEPT ![U(p)] = @ + 1]
    /\ UNCHANGED <<tenant, token, sessions>>

\* Nobody to remove is no error, and no event.
SelectMember(p) ==
    /\ At(p, "select_member")
    /\ \/ /\ member[U(p)] # NoMember
          /\ Goto(p, [req[p] EXCEPT !.row = member[U(p)], !.pc = "delete_member"])
       \/ member[U(p)] = NoMember /\ Abort(p)

\* DELETE FROM memberships WHERE membership_id = row.id: waits for another DELETE of the
\* row; a row that is gone is only a warning.
DeleteMember(p) ==
    /\ At(p, "delete_member") /\ ~Blocked(p)
    /\ Proceed(p, "audit_remove")

\* Mutant of Removed: the row stays, without a role.
RemovedSoftly(p) == IF member[U(p)].id = req[p].row.id
                    THEN [member EXCEPT ![U(p)].role = None] ELSE member

Removed(p) == IF member[U(p)].id = req[p].row.id
              THEN [member EXCEPT ![U(p)] = NoMember] ELSE member

\* Mutant of AuditRemove: the event is left to a transaction that is lost.
CommitRemove(p) ==
    /\ At(p, "audit_remove")
    /\ CommitMembers(p, Removed(p))
    /\ UNCHANGED <<user, tenant, audit, token, sessions>>

\* The audit event, which is emitted even when no row was there any more, and the commit.
\* (Further removals than MaxSurplus are not counted: audit is then above the log's.)
AuditRemove(p) ==
    /\ At(p, "audit_remove")
    /\ CommitMembers(p, Removed(p))
    /\ audit' = [audit EXCEPT ![U(p)] = IF @ > -MaxSurplus THEN @ - 1 ELSE @]
    /\ UNCHANGED <<user, tenant, token, sessions>>

-----------------------------------------------------------------------------
(* update_tenant and delete_tenant.  What the deletion does to Docker is in the module *)
(* TenantRuntime. *)

GetTenant(p) ==
    /\ At(p, "get_tenant")
    /\ \/ tenant # None /\ Proceed(p, IF req[p].op = "update" THEN "update_name"
                                                             ELSE "set_deleting")
       \/ tenant = None /\ Abort(p)

\* UPDATE tenants SET name, COMMIT; a row that is gone is not missed.
UpdateName(p) ==
    /\ At(p, "update_name") /\ ~Blocked(p)
    /\ tenant' = IF tenant = None THEN None ELSE req[p].name
    /\ req' = [req EXCEPT ![p] = Idle]
    /\ UNCHANGED <<user, member, audit, token, sessions>>

\* StaleDataError if the row is gone.
SetDeleting(p) ==
    /\ At(p, "set_deleting") /\ ~Blocked(p)
    /\ \/ tenant # None /\ Proceed(p, "delete_tenant")
       \/ tenant = None /\ Abort(p)

\* DELETE FROM tenants: the row itself.
DeleteTenantRow(p) ==
    /\ At(p, "delete_tenant") /\ ~Blocked(p)
    /\ Proceed(p, "cascade")

\* ON DELETE CASCADE, the end of the same statement, and COMMIT.
Cascade(p) ==
    /\ At(p, "cascade") /\ ~Blocked(p)
    /\ tenant' = None
    /\ CommitMembers(p, [u \in UserIds |-> NoMember])
    /\ UNCHANGED <<user, audit, token, sessions>>

-----------------------------------------------------------------------------
(* Around them. *)

\* A call of p raises.
Fail(p) == p \in Faulty /\ Active(p) /\ Abort(p)

\* The API process ends and starts again: the pending tokens were in its memory, and the
\* connections of its transactions are closed.
Restart ==
    /\ token' = [k \in Tokens |->
                   IF token[k].state = "unused" THEN token[k] ELSE Popped(k)]
    /\ req' = [p \in Requests |-> Idle]
    /\ UNCHANGED <<user, tenant, member, audit, sessions>>

Step(p) ==
    \/ SelectUser(p) \/ InsertUser(p) \/ Grant(p)
    \/ CheckRole(p) \/ InsertMember(p) \/ AuditAdd(p)
    \/ SelectMember(p) \/ DeleteMember(p) \/ AuditRemove(p)
    \/ GetTenant(p) \/ UpdateName(p) \/ SetDeleting(p) \/ DeleteTenantRow(p) \/ Cascade(p)
    \/ Fail(p)
Handler(p) ==
    \/ \E k \in Tokens : Verify(p, k)
    \/ \E s \in sessions :
         \/ \E e \in Emails, role \in Roles : AddMember(p, s, e, role)
         \/ \E u \in UserIds : RemoveMember(p, s, u)
         \/ \E n \in Names : UpdateTenant(p, s, n)
         \/ DeleteTenant(p, s)

Next ==
    \/ \E p \in Requests : Handler(p) \/ Step(p)
    \/ \E k \in Tokens : Expire(k) \/ \E e \in Emails : Login(k, e)
    \/ Restart

\* A tenant that its creator, logged in, has just created.
Init ==
    \E u \in UserIds, i \in RowIds, n \in Names :
        /\ user = [e \in Emails |-> IF e = Creator THEN u ELSE None]
        /\ tenant = n
        /\ member = [v \in UserIds |->
                       IF v = u THEN [id |-> i, role |-> "tenant_admin"] ELSE NoMember]
        /\ audit = [v \in UserIds |-> 0]
        /\ token = [k \in Tokens |-> [email |-> None, state |-> "unused", granted |-> 0]]
        /\ sessions = {[user |-> u, email |-> Creator]}
        /\ req = [p \in Requests |-> Idle]

Spec == Init /\ [][Next]_vars

-----------------------------------------------------------------------------
(* Properties. *)

\* Every variable has its type.
TypeOK ==
    /\ user \in [Emails -> UserIds \cup {None}]
    /\ tenant \in Names \cup {None}
    /\ member \in [UserIds -> MemberRows \cup {NoMember}]
    /\ audit \in [UserIds -> Int]
    /\ token \in [Tokens -> TokenRecords]
    /\ sessions \subseteq Sessions
    /\ req \in [Requests -> RequestRecords]

\* A login link serves once, however many verifications of it run at a time and however
\* they end, a restart of the process between them included.
LoginOnce == \A k \in Tokens : token[k].granted <= 1

\* Every access token names a user that exists, under the address that has logged in,
\* although the first login races with invitations of the same address.
SessionNamesUser == \A s \in sessions : user[s.email] = s.user

\* Each membership is one of an existing user in the existing tenant: whatever is added
\* while the tenant is being deleted.
NoOrphanMembers ==
    \A u \in UserIds : member[u] # NoMember =>
        tenant # None /\ \E e \in Emails : user[e] = u

\* "All sensitive actions emit audit events" (docs/security.md:102): while the tenant
\* exists, nobody has lost a membership without an event, whichever removals and additions
\* of a user overlap and wherever they fail.  The log, in whatever order it is read, has at
\* most as many additions of a user as removals, and one more of a present member.
NoUnloggedRemoval ==
    tenant # None =>
        \A u \in UserIds : audit[u] <= IF member[u] # NoMember THEN 1 ELSE 0

\* The transactions never wait for each other in a circle, which PostgreSQL would break
\* by failing one: of the requests in any set, there is one that waits for none of them.
\* A login, an invitation, a removal, a renaming and a deletion each lock rows of up to
\* three tables and wait for rows of the others, in no order that the code states.
NoDeadlock ==
    \A S \in (SUBSET Requests) \ {{}} : \E p \in S : \A q \in S : ~Blocks(q, p)

\* The users, tenants and memberships tables implement the roster, however logins,
\* invitations, removals and the deletion of the tenant race: the unique and foreign keys,
\* on which two handlers wait for each other, leave nobody with two accounts, with
\* a role that another invitation has put over theirs, or with a place in a deleted tenant.
Ros == INSTANCE Roster WITH
    registry <- {[email |-> e, user |-> user[e]] : e \in {f \in Emails : user[f] # None}},
    roster <- {[user |-> u, role |-> member[u].role] :
                  u \in {v \in UserIds : member[v] # NoMember}},
    open <- tenant # None
ImplementsRoster == Ros!Spec

\* "every tenant operation checks membership and role" (docs/security.md:97): the role
\* is checked in one statement and the change made in later ones, so an admin removed in
\* between still acts; but nobody acts who has not been an admin at any time during the request.
OnlyEntitledActors ==
    [][\A p \in Requests :
          /\ req[p].pc \in {"audit_add", "audit_remove", "update_name", "cascade"}
          /\ <<tenant, member>>' # <<tenant, member>> /\ req'[p] # req[p] /\ req'[p] = Idle
          => req[p].entitled]_vars

=============================================================================
