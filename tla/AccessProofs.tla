---------------------------- MODULE AccessProofs ----------------------------
(***************************************************************************)
(* Theorems about Access, for any requests, addresses, ids and tokens.     *)
(***************************************************************************)
EXTENDS Access, TLAPS

-----------------------------------------------------------------------------
(* The inductive invariant. *)

\* The fields that a request of each handler has, and the handler of each pc.
Shaped(r) ==
    /\ r.op = "none" => r.pc = "idle"
    /\ r.op = "verify" => r.email \in Emails /\ r.token \in Tokens
    /\ r.op = "add" => r.email \in Emails /\ r.role \in Roles
    /\ r.op = "remove" => r.uid \in UserIds
    /\ r.op = "update" => r.name \in Names
    /\ r.op \in MemberOps => r.actor \in UserIds /\ r.token = None
    /\ r.pc = "check_role" => r.op \in MemberOps
    /\ r.pc \in {"select_user", "insert_user"} => r.op \in {"verify", "add"}
    /\ r.pc = "grant" => r.op = "verify"
    /\ r.pc \in {"insert_member", "audit_add"} => r.op = "add"
    /\ r.pc \in {"select_member", "delete_member", "audit_remove"} => r.op = "remove"
    /\ r.pc = "get_tenant" => r.op \in {"update", "delete"}
    /\ r.pc = "update_name" => r.op = "update"
    /\ r.pc \in {"set_deleting", "delete_tenant", "cascade"} => r.op = "delete"

\* The user in hand has a row of that address, committed or the request's own.
UserPcs == {"grant", "insert_member", "audit_add"}
UserFits(r) ==
    /\ r.newUser => r.pc \in UserPcs /\ user[r.email] = None
    /\ r.pc \in UserPcs => r.uid \in UserIds /\ (r.newUser \/ user[r.email] = r.uid)

\* An uncommitted membership keeps the tenant.
TenantFits(r) == r.pc = "audit_add" => r.row \in MemberRows /\ tenant # None

\* Beyond the check of the role the actor has been an admin during the request.
RoleFits(r) ==
    /\ r.op \in MemberOps /\ r.pc # "check_role" => r.entitled
    /\ r.pc = "check_role" /\ IsAdmin(r.actor) => r.entitled

Fits(r) == Shaped(r) /\ UserFits(r) /\ TenantFits(r) /\ RoleFits(r)

\* Two requests never insert the same address and never verify the same token, and the
\* locks on the tenant's row keep a membership out while the row is deleted.
Apart(r, s) ==
    /\ r.newUser /\ s.newUser => r.email # s.email
    /\ r.token # None => r.token # s.token
    /\ r.pc = "cascade" => s.pc # "audit_add"

\* A token has granted nothing while it is pending or being verified, and no request
\* verifies it while it is pending.
TokensOK ==
    /\ \A k \in Tokens : token[k].state # "gone" =>
          token[k].granted = 0 /\ \A p \in Requests : req[p].token # k
    /\ \A k \in Tokens, p \in Requests : req[p].token = k => token[k].granted = 0
    /\ \A k \in Tokens : token[k].state \in {"fresh", "expired"} => token[k].email \in Emails
    /\ LoginOnce

IInv ==
    /\ TypeOK
    /\ \A p \in Requests : Fits(req[p])
    /\ \A p, q \in Requests : p # q => Apart(req[p], req[q])
    /\ TokensOK
    /\ SessionNamesUser
    /\ NoOrphanMembers

LEMMA IdleFacts ==
    /\ Idle \in RequestRecords /\ Idle.pc = "idle" /\ Idle.op = "none" /\ Idle.token = None
    /\ ~Idle.newUser /\ Idle.actor = None
BY DEF Idle, RequestRecords, Pcs, NoMember

LEMMA IdleFits == Fits(Idle) /\ Fits(Idle)'
BY IdleFacts DEF Fits, Shaped, UserFits, TenantFits, RoleFits, UserPcs, MemberOps

LEMMA IdleApart == \A r : Apart(Idle, r) /\ Apart(r, Idle)
BY IdleFacts DEF Apart

LEMMA InitInv == Init => IInv
<1> SUFFICES ASSUME Init PROVE IInv
  OBVIOUS
<1>1. PICK u \in UserIds, i \in RowIds, n \in Names :
        /\ user = [e \in Emails |-> IF e = Creator THEN u ELSE None]
        /\ tenant = n
        /\ member = [v \in UserIds |->
                       IF v = u THEN [id |-> i, role |-> "tenant_admin"] ELSE NoMember]
        /\ audit = [v \in UserIds |-> 0]
        /\ token = [k \in Tokens |-> [email |-> None, state |-> "unused", granted |-> 0]]
        /\ sessions = {[user |-> u, email |-> Creator]}
        /\ req = [p \in Requests |-> Idle]
  BY DEF Init
<1>2. member \in [UserIds -> MemberRows \cup {NoMember}]
  BY <1>1, RolesAssumption DEF MemberRows
<1>3. token \in [Tokens -> TokenRecords]
  BY <1>1 DEF TokenRecords
<1>4. sessions \subseteq Sessions
  BY <1>1, CreatorAssumption DEF Sessions
<1>5. TypeOK
  BY <1>1, <1>2, <1>3, <1>4, IdleFacts DEF TypeOK
<1>6. \A p \in Requests : req[p] = Idle
  BY <1>1
<1>7. TokensOK
  BY <1>1, <1>6, IdleFacts, NoneAssumption DEF TokensOK, LoginOnce
<1>8. SessionNamesUser
  BY <1>1, CreatorAssumption DEF SessionNamesUser
<1>9. NoOrphanMembers
  BY <1>1, CreatorAssumption, NoneAssumption DEF NoOrphanMembers
<1> QED BY <1>5, <1>6, <1>7, <1>8, <1>9, IdleFits, IdleApart DEF IInv

-----------------------------------------------------------------------------
(* Statements that leave the transaction open. *)

LEMMA GotoInv ==
    ASSUME IInv, NEW p \in Requests, NEW r \in RequestRecords, Goto(p, r), Fits(r),
           r.token \in {None, req[p].token},
           r.newUser => \A q \in Requests \ {p} : req[q].newUser => req[q].email # r.email,
           r.pc = "cascade" => \A q \in Requests \ {p} : req[q].pc # "audit_add",
           r.pc = "audit_add" => \A q \in Requests \ {p} : req[q].pc # "cascade"
    PROVE  IInv'
<1>1. /\ req' \in [Requests -> RequestRecords] /\ req'[p] = r
      /\ \A q \in Requests \ {p} : req'[q] = req[q]
      /\ UNCHANGED <<user, tenant, member, audit, token, sessions>>
  BY DEF IInv, TypeOK, Goto
<1>2. TypeOK'
  BY <1>1 DEF IInv, TypeOK
<1>3. ASSUME NEW q \in Requests PROVE Fits(req[q])'
  <2>1. Fits(req'[q])
    BY <1>1 DEF IInv
  <2> QED BY <1>1, <2>1 DEF Fits, Shaped, UserFits, TenantFits, RoleFits, IsAdmin
<1>4. ASSUME NEW q \in Requests, NEW s \in Requests, q # s PROVE Apart(req[q], req[s])'
  <2>1. CASE q # p /\ s # p
    BY <1>1, <1>4, <2>1 DEF IInv, Apart
  <2>2. CASE q = p
    BY <1>1, <1>4, <2>2 DEF IInv, Apart
  <2>3. CASE s = p
    BY <1>1, <1>4, <2>3 DEF IInv, Apart
  <2> QED BY <2>1, <2>2, <2>3
<1>5. TokensOK'
  <2>1. \A q \in Requests : req'[q].token \in {None, req[q].token}
    BY <1>1
  <2> QED BY <1>1, <2>1, NoneAssumption DEF IInv, TokensOK, LoginOnce
<1>6. (SessionNamesUser /\ NoOrphanMembers)'
  BY <1>1 DEF IInv, SessionNamesUser, NoOrphanMembers
<1> QED BY <1>2, <1>3, <1>4, <1>5, <1>6 DEF IInv

LEMMA AbortInv ==
    ASSUME IInv, NEW p \in Requests, Abort(p)
    PROVE  IInv'
BY IdleFacts, IdleFits, GotoInv DEF Abort

\* The next pc of a request that keeps what it knows.
LEMMA ProceedRecord ==
    ASSUME IInv, NEW p \in Requests, NEW pc \in Pcs
    PROVE  LET r == [req[p] EXCEPT !.pc = pc]
           IN  /\ r \in RequestRecords /\ r.pc = pc /\ r.op = req[p].op /\ r.actor = req[p].actor
               /\ r.email = req[p].email /\ r.role = req[p].role /\ r.token = req[p].token
               /\ r.name = req[p].name /\ r.uid = req[p].uid /\ r.newUser = req[p].newUser
               /\ r.row = req[p].row /\ r.entitled = req[p].entitled
               /\ req[p] \in RequestRecords /\ Fits(req[p])
BY DEF IInv, TypeOK, RequestRecords

LEMMA ProceedInv ==
    ASSUME IInv, NEW p \in Requests, NEW pc \in Pcs \ (UserPcs \cup {"check_role", "idle"}),
           Proceed(p, pc), req[p].pc \notin UserPcs,
           pc \in {"select_user", "insert_user"} => req[p].op \in {"verify", "add"},
           pc \in {"select_member", "delete_member", "audit_remove"} => req[p].op = "remove",
           pc = "get_tenant" => req[p].op \in {"update", "delete"},
           pc = "update_name" => req[p].op = "update",
           pc \in {"set_deleting", "delete_tenant", "cascade"} => req[p].op = "delete",
           pc = "cascade" => \A q \in Requests \ {p} : req[q].pc # "audit_add",
           req[p].pc = "check_role" => IsAdmin(req[p].actor),
           req[p].op # "none"
    PROVE  IInv'
<1> DEFINE r == [req[p] EXCEPT !.pc = pc]
<1>1. /\ r \in RequestRecords /\ r.pc = pc /\ r.op = req[p].op /\ r.actor = req[p].actor
      /\ r.email = req[p].email /\ r.role = req[p].role /\ r.token = req[p].token
      /\ r.name = req[p].name /\ r.uid = req[p].uid /\ r.newUser = req[p].newUser
      /\ r.row = req[p].row /\ r.entitled = req[p].entitled
      /\ req[p] \in RequestRecords /\ Fits(req[p])
  BY ProceedRecord
<1>2. Goto(p, r)
  BY DEF Proceed
<1> HIDE DEF r
<1>3. Shaped(r)
  BY <1>1 DEF Fits, Shaped, UserPcs, Pcs
<1>4. UserFits(r) /\ TenantFits(r) /\ ~r.newUser /\ r.pc # "audit_add"
  BY <1>1 DEF Fits, UserFits, TenantFits, UserPcs
<1>5. RoleFits(r)
  BY <1>1 DEF Fits, RoleFits
<1> QED BY <1>1, <1>2, <1>3, <1>4, <1>5, GotoInv DEF Fits

-----------------------------------------------------------------------------
(* Each of the statements. *)

LEMMA AtFacts ==
    ASSUME IInv, NEW p \in Requests
    PROVE  /\ req[p] \in RequestRecords /\ Fits(req[p]) /\ TypeOK
           /\ \A q \in Requests \ {p} : Apart(req[p], req[q]) /\ Apart(req[q], req[p])
BY DEF IInv, TypeOK

LEMMA SelectUserInv ==
    ASSUME IInv, NEW p \in Requests, SelectUser(p)
    PROVE  IInv'
<1> DEFINE u == user[req[p].email]
<1>1. /\ req[p].pc = "select_user" /\ req[p].op \in {"verify", "add"} /\ req[p].email \in Emails
      /\ req[p] \in RequestRecords /\ Fits(req[p]) /\ ~req[p].newUser
  BY AtFacts DEF SelectUser, At, Fits, Shaped, UserFits, UserPcs
<1>2. CASE u # None /\ Goto(p, [req[p] EXCEPT !.uid = u, !.pc = AfterUser(p)])
  <2> DEFINE r == [req[p] EXCEPT !.uid = u, !.pc = AfterUser(p)]
  <2>1. u \in UserIds
    BY <1>1, <1>2 DEF IInv, TypeOK
  <2>2. /\ AfterUser(p) \in Pcs
        /\ AfterUser(p) = IF req[p].op = "verify" THEN "grant" ELSE "insert_member"
    BY DEF AfterUser, Pcs
  <2>3. /\ r \in RequestRecords /\ r.pc = AfterUser(p) /\ r.op = req[p].op
        /\ r.actor = req[p].actor /\ r.email = req[p].email /\ r.role = req[p].role
        /\ r.token = req[p].token /\ r.name = req[p].name /\ r.uid = u
        /\ r.newUser = req[p].newUser /\ r.entitled = req[p].entitled
    BY <1>1, <2>1, <2>2 DEF RequestRecords
  <2> HIDE DEF r
  <2>4. Shaped(r)
    BY <1>1, <2>1, <2>2, <2>3 DEF Fits, Shaped
  <2>5. UserFits(r) /\ TenantFits(r) /\ ~r.newUser
    BY <1>1, <2>1, <2>2, <2>3 DEF Fits, UserFits, TenantFits
  <2>6. RoleFits(r)
    BY <1>1, <2>2, <2>3 DEF Fits, RoleFits
  <2>7. r.pc \notin {"audit_add", "cascade"}
    BY <2>2, <2>3
  <2> QED BY <1>2, <2>3, <2>4, <2>5, <2>6, <2>7, GotoInv DEF Fits, r
<1>3. CASE Proceed(p, "insert_user")
  BY <1>1, <1>3, ProceedInv DEF Pcs, UserPcs
<1> QED BY <1>2, <1>3 DEF SelectUser

LEMMA InsertUserInv ==
    ASSUME IInv, NEW p \in Requests, InsertUser(p)
    PROVE  IInv'
<1>1. /\ req[p].pc = "insert_user" /\ req[p].op \in {"verify", "add"} /\ req[p].email \in Emails
      /\ req[p] \in RequestRecords /\ Fits(req[p])
  BY AtFacts DEF InsertUser, At, Fits, Shaped
<1>2. CASE Abort(p)
  BY <1>2, AbortInv
<1>3. ASSUME user[req[p].email] = None, NEW u \in FreshUsers, Goto(p, InsertedUser(p, u))
      PROVE  IInv'
  <2> DEFINE r == InsertedUser(p, u)
  <2>1. u \in UserIds
    BY DEF FreshUsers
  <2>2. /\ AfterUser(p) \in Pcs
        /\ AfterUser(p) = IF req[p].op = "verify" THEN "grant" ELSE "insert_member"
    BY DEF AfterUser, Pcs
  <2>3. /\ r \in RequestRecords /\ r.pc = AfterUser(p) /\ r.op = req[p].op
        /\ r.actor = req[p].actor /\ r.email = req[p].email /\ r.role = req[p].role
        /\ r.token = req[p].token /\ r.name = req[p].name /\ r.uid = u
        /\ r.newUser = TRUE /\ r.entitled = req[p].entitled
    BY <1>1, <2>1, <2>2 DEF RequestRecords, InsertedUser
  <2>4. \A q \in Requests \ {p} : req[q].newUser => req[q].email # r.email
    BY <1>1, <2>3 DEF InsertUser, Blocked, Blocks, UsersRow, At
  <2> HIDE DEF r
  <2>5. Shaped(r)
    BY <1>1, <2>1, <2>2, <2>3 DEF Fits, Shaped
  <2>6. UserFits(r) /\ TenantFits(r)
    BY <1>1, <1>3, <2>1, <2>2, <2>3 DEF Fits, UserFits, TenantFits, UserPcs
  <2>7. RoleFits(r)
    BY <1>1, <2>2, <2>3 DEF Fits, RoleFits
  <2>8. r.pc \notin {"audit_add", "cascade"}
    BY <2>2, <2>3
  <2> QED BY <1>3, <2>3, <2>4, <2>5, <2>6, <2>7, <2>8, GotoInv DEF Fits, r
<1> QED BY <1>2, <1>3 DEF InsertUser

LEMMA CheckRoleInv ==
    ASSUME IInv, NEW p \in Requests, CheckRole(p)
    PROVE  IInv'
<1>1. CASE Abort(p)
  BY <1>1, AbortInv
<1>2. CASE IsAdmin(req[p].actor) /\ Proceed(p, FirstPc(req[p].op))
  <2>1. req[p].pc = "check_role" /\ req[p].op \in MemberOps
    BY AtFacts DEF CheckRole, At, Fits, Shaped
  <2>2. CASE req[p].op = "add"
    BY <1>2, <2>1, <2>2, ProceedInv DEF FirstPc, Pcs, UserPcs
  <2>3. CASE req[p].op = "remove"
    BY <1>2, <2>1, <2>3, ProceedInv DEF FirstPc, Pcs, UserPcs
  <2>4. CASE req[p].op \in {"update", "delete"}
    BY <1>2, <2>1, <2>4, ProceedInv DEF FirstPc, Pcs, UserPcs
  <2> QED BY <2>1, <2>2, <2>3, <2>4 DEF MemberOps
<1> QED BY <1>1, <1>2 DEF CheckRole

LEMMA InsertMemberInv ==
    ASSUME IInv, NEW p \in Requests, InsertMember(p)
    PROVE  IInv'
<1>1. CASE Abort(p)
  BY <1>1, AbortInv
<1>2. ASSUME tenant # None, NEW i \in FreshRows,
             Goto(p, [req[p] EXCEPT !.row = [id |-> i, role |-> req[p].role],
                                    !.pc = "audit_add"])
      PROVE  IInv'
  <2> DEFINE m == [id |-> i, role |-> req[p].role]
             r == [req[p] EXCEPT !.row = m, !.pc = "audit_add"]
  <2>1. /\ req[p].pc = "insert_member" /\ req[p].op = "add" /\ req[p].role \in Roles
        /\ req[p] \in RequestRecords /\ Fits(req[p])
    BY AtFacts DEF InsertMember, At, Fits, Shaped
  <2>2. m \in MemberRows
    BY <2>1 DEF FreshRows, MemberRows
  <2>3. /\ r \in RequestRecords /\ r.pc = "audit_add" /\ r.op = req[p].op
        /\ r.actor = req[p].actor /\ r.email = req[p].email /\ r.role = req[p].role
        /\ r.token = req[p].token /\ r.name = req[p].name /\ r.uid = req[p].uid
        /\ r.newUser = req[p].newUser /\ r.entitled = req[p].entitled /\ r.row = m
    BY <2>1, <2>2 DEF RequestRecords, Pcs
  <2> HIDE DEF r, m
  <2>4. Shaped(r)
    BY <2>1, <2>3 DEF Fits, Shaped
  <2>5. UserFits(r) /\ TenantFits(r)
    BY <1>2, <2>1, <2>2, <2>3 DEF Fits, UserFits, TenantFits, UserPcs
  <2>6. RoleFits(r)
    BY <2>1, <2>3 DEF Fits, RoleFits
  <2>7. r.newUser => \A q \in Requests \ {p} : req[q].newUser => req[q].email # r.email
    BY <2>3, AtFacts DEF Apart
  <2>8. \A q \in Requests \ {p} : req[q].pc # "cascade"
    BY <2>1 DEF InsertMember, Blocked, Blocks, TenantsRow, At
  <2> QED BY <1>2, <2>3, <2>4, <2>5, <2>6, <2>7, <2>8, GotoInv DEF Fits, r, m
<1> QED BY <1>1, <1>2 DEF InsertMember

LEMMA SelectMemberInv ==
    ASSUME IInv, NEW p \in Requests, SelectMember(p)
    PROVE  IInv'
<1>1. CASE Abort(p)
  BY <1>1, AbortInv
<1>2. CASE Goto(p, [req[p] EXCEPT !.row = member[U(p)], !.pc = "delete_member"])
  <2> DEFINE r == [req[p] EXCEPT !.row = member[U(p)], !.pc = "delete_member"]
  <2>1. /\ req[p].pc = "select_member" /\ req[p].op = "remove" /\ U(p) \in UserIds
        /\ req[p] \in RequestRecords /\ Fits(req[p])
    BY AtFacts DEF SelectMember, At, Fits, Shaped, U
  <2>2. member[U(p)] \in MemberRows \cup {NoMember}
    BY <2>1 DEF IInv, TypeOK
  <2>3. /\ r \in RequestRecords /\ r.pc = "delete_member" /\ r.op = req[p].op
        /\ r.actor = req[p].actor /\ r.email = req[p].email /\ r.role = req[p].role
        /\ r.token = req[p].token /\ r.name = req[p].name /\ r.uid = req[p].uid
        /\ r.newUser = req[p].newUser /\ r.entitled = req[p].entitled
    BY <2>1, <2>2 DEF RequestRecords, Pcs
  <2> HIDE DEF r
  <2>4. Shaped(r)
    BY <2>1, <2>3 DEF Fits, Shaped
  <2>5. UserFits(r) /\ TenantFits(r) /\ ~r.newUser
    BY <2>1, <2>2, <2>3 DEF Fits, UserFits, TenantFits, UserPcs
  <2>6. RoleFits(r)
    BY <2>1, <2>3 DEF Fits, RoleFits
  <2> QED BY <1>2, <2>3, <2>4, <2>5, <2>6, GotoInv DEF Fits, r
<1> QED BY <1>1, <1>2 DEF SelectMember

LEMMA DeleteMemberInv ==
    ASSUME IInv, NEW p \in Requests, DeleteMember(p)
    PROVE  IInv'
<1>1. req[p].pc = "delete_member" /\ req[p].op = "remove" /\ Proceed(p, "audit_remove")
  BY AtFacts DEF DeleteMember, At, Fits, Shaped
<1> QED BY <1>1, ProceedInv DEF Pcs, UserPcs

LEMMA GetTenantInv ==
    ASSUME IInv, NEW p \in Requests, GetTenant(p)
    PROVE  IInv'
<1>1. req[p].pc = "get_tenant" /\ req[p].op \in {"update", "delete"}
  BY AtFacts DEF GetTenant, At, Fits, Shaped
<1>2. CASE Abort(p)
  BY <1>2, AbortInv
<1>3. CASE req[p].op = "update" /\ Proceed(p, "update_name")
  BY <1>1, <1>3, ProceedInv DEF Pcs, UserPcs
<1>4. CASE req[p].op = "delete" /\ Proceed(p, "set_deleting")
  BY <1>1, <1>4, ProceedInv DEF Pcs, UserPcs
<1> QED BY <1>1, <1>2, <1>3, <1>4 DEF GetTenant

LEMMA SetDeletingInv ==
    ASSUME IInv, NEW p \in Requests, SetDeleting(p)
    PROVE  IInv'
<1>1. req[p].pc = "set_deleting" /\ req[p].op = "delete"
  BY AtFacts DEF SetDeleting, At, Fits, Shaped
<1>2. CASE Abort(p)
  BY <1>2, AbortInv
<1>3. CASE Proceed(p, "delete_tenant")
  BY <1>1, <1>3, ProceedInv DEF Pcs, UserPcs
<1> QED BY <1>2, <1>3 DEF SetDeleting

LEMMA DeleteTenantRowInv ==
    ASSUME IInv, NEW p \in Requests, DeleteTenantRow(p)
    PROVE  IInv'
<1>1. req[p].pc = "delete_tenant" /\ req[p].op = "delete" /\ Proceed(p, "cascade")
  BY AtFacts DEF DeleteTenantRow, At, Fits, Shaped
<1>2. \A q \in Requests \ {p} : req[q].pc # "audit_add"
  BY <1>1 DEF DeleteTenantRow, Blocked, Blocks, TenantsRow, At
<1> QED BY <1>1, <1>2, ProceedInv DEF Pcs, UserPcs

-----------------------------------------------------------------------------
(* Commits. *)

\* The users after a commit: the address of p has the user in hand, and nothing else
\* changes.
LEMMA CommitUserFacts ==
    ASSUME IInv, NEW p \in Requests, req[p].pc \in UserPcs, CommitUser(p)
    PROVE  /\ user' \in [Emails -> UserIds \cup {None}]
           /\ U(p) \in UserIds /\ req[p].email \in Emails /\ user'[req[p].email] = U(p)
           /\ \A e \in Emails : user[e] # None => user'[e] = user[e]
           /\ \A q \in Requests \ {p} :
                 /\ req[q].newUser => user'[req[q].email] = None
                 /\ req[q].pc \in UserPcs /\ ~req[q].newUser =>
                       user'[req[q].email] = req[q].uid
<1>1. /\ U(p) \in UserIds /\ req[p].email \in Emails
      /\ req[p].newUser => user[req[p].email] = None
      /\ req[p].newUser \/ user[req[p].email] = U(p)
      /\ user \in [Emails -> UserIds \cup {None}]
  BY AtFacts DEF Fits, Shaped, UserFits, UserPcs, U, TypeOK
<1>2. /\ user' \in [Emails -> UserIds \cup {None}] /\ user'[req[p].email] = U(p)
      /\ \A e \in Emails \ {req[p].email} : user'[e] = user[e]
      /\ ~req[p].newUser => user' = user
  BY <1>1 DEF CommitUser
<1>3. \A e \in Emails : user[e] # None => user'[e] = user[e]
  BY <1>1, <1>2
<1>4. ASSUME NEW q \in Requests \ {p}
      PROVE  /\ req[q].newUser => user'[req[q].email] = None
             /\ req[q].pc \in UserPcs /\ ~req[q].newUser => user'[req[q].email] = req[q].uid
  <2>1. /\ req[q].newUser => req[q].pc \in UserPcs /\ user[req[q].email] = None
        /\ req[q].pc \in UserPcs => /\ req[q].email \in Emails /\ req[q].uid \in UserIds
                                    /\ req[q].newUser \/ user[req[q].email] = req[q].uid
        /\ req[p].newUser /\ req[q].newUser => req[p].email # req[q].email
    BY AtFacts DEF Fits, Shaped, UserFits, UserPcs, Apart
  <2>2. ASSUME req[q].newUser PROVE user'[req[q].email] = None
    <3>1. CASE req[p].newUser
      BY <1>2, <2>1, <2>2, <3>1
    <3>2. CASE ~req[p].newUser
      BY <1>2, <2>1, <2>2, <3>2
    <3> QED BY <3>1, <3>2
  <2>3. ASSUME req[q].pc \in UserPcs, ~req[q].newUser PROVE user'[req[q].email] = req[q].uid
    <3>1. user[req[q].email] # None
      BY <2>1, <2>3, NoneAssumption
    <3> QED BY <1>3, <2>1, <2>3, <3>1
  <2> QED BY <2>2, <2>3
<1> QED BY <1>1, <1>2, <1>3, <1>4

\* What a commit leaves of a request r: its record, but for `entitled`.
SameBut(r, s) ==
    /\ s \in RequestRecords
    /\ s.op = r.op /\ s.actor = r.actor /\ s.email = r.email /\ s.role = r.role
    /\ s.token = r.token /\ s.name = r.name /\ s.pc = r.pc /\ s.uid = r.uid
    /\ s.newUser = r.newUser /\ s.row = r.row
    /\ r.entitled => s.entitled

LEMMA CommitMembersRequests ==
    ASSUME IInv, NEW p \in Requests, NEW m \in [UserIds -> MemberRows \cup {NoMember}],
           CommitMembers(p, m)
    PROVE  /\ req' \in [Requests -> RequestRecords] /\ req'[p] = Idle /\ member' = m
           /\ \A q \in Requests \ {p} :
                 /\ SameBut(req[q], req'[q])
                 /\ req[q].pc = "check_role" /\ m[req[q].actor].role = "tenant_admin" =>
                       req'[q].entitled
<1>1. req'[p] = Idle /\ member' = m
  BY DEF CommitMembers
<1>2. ASSUME NEW q \in Requests \ {p}
      PROVE  /\ SameBut(req[q], req'[q])
             /\ req[q].pc = "check_role" /\ m[req[q].actor].role = "tenant_admin" =>
                   req'[q].entitled
  <2>1. req[q] \in RequestRecords /\ Fits(req[q])
    BY AtFacts
  <2>2. CASE ~Active(q) \/ req[q].actor = None
    <3>1. req'[q] = req[q]
      BY <2>2 DEF CommitMembers
    <3>2. req[q].pc # "check_role"
      BY <2>1, <2>2, NoneAssumption DEF Active, Fits, Shaped
    <3> QED BY <2>1, <3>1, <3>2 DEF SameBut
  <2>3. CASE Active(q) /\ req[q].actor # None
    <3> DEFINE b == req[q].entitled \/ m[req[q].actor].role = "tenant_admin"
    <3>1. req'[q] = [req[q] EXCEPT !.entitled = b]
      BY <2>3 DEF CommitMembers
    <3>2. b \in BOOLEAN
      BY <2>1 DEF RequestRecords
    <3>3. /\ req[q].entitled => b
          /\ m[req[q].actor].role = "tenant_admin" => b
      OBVIOUS
    <3> HIDE DEF b
    <3>4. SameBut(req[q], req'[q]) /\ req'[q].entitled = b
      BY <2>1, <3>1, <3>2, <3>3 DEF SameBut, RequestRecords
    <3> QED BY <3>3, <3>4
  <2> QED BY <2>2, <2>3
<1>3. req' \in [Requests -> RequestRecords]
  <2>1. \A q \in Requests : req'[q] \in RequestRecords
    BY <1>1, <1>2, IdleFacts DEF SameBut
  <2>2. req' = [q \in Requests |-> req'[q]]
    BY DEF CommitMembers
  <2> HIDE DEF IInv
  <2> QED BY <2>1, <2>2
<1> QED BY <1>1, <1>2, <1>3

\* A commit: what is to be shown of the rows.
LEMMA CommitInv ==
    ASSUME IInv, NEW p \in Requests,
           req' \in [Requests -> RequestRecords], req'[p] = Idle,
           \A q \in Requests \ {p} :
               /\ SameBut(req[q], req'[q])
               /\ req[q].pc = "check_role" /\ member'[req[q].actor].role = "tenant_admin" =>
                     req'[q].entitled
               /\ req[q].newUser => user'[req[q].email] = None
               /\ req[q].pc \in UserPcs /\ ~req[q].newUser =>
                     user'[req[q].email] = req[q].uid
               /\ req[q].pc = "audit_add" => tenant' # None,
           user' \in [Emails -> UserIds \cup {None}],
           member' \in [UserIds -> MemberRows \cup {NoMember}],
           tenant' \in Names \cup {None}, audit' \in [UserIds -> Int],
           token' \in [Tokens -> TokenRecords], sessions' \subseteq Sessions,
           TokensOK', SessionNamesUser', NoOrphanMembers'
    PROVE  IInv'
<1>1. TypeOK'
  BY DEF TypeOK
<1>2. ASSUME NEW q \in Requests PROVE Fits(req[q])'
  <2>1. CASE q = p
    BY <2>1, IdleFacts DEF Fits, Shaped, UserFits, TenantFits, RoleFits, UserPcs, MemberOps
  <2>2. CASE q # p
    <3>1. Fits(req[q]) /\ SameBut(req[q], req'[q])
      BY <2>2, AtFacts
    <3>2. Shaped(req[q])'
      BY <3>1 DEF Fits, Shaped, SameBut
    <3>3. UserFits(req[q])'
      BY <2>2, <3>1 DEF Fits, UserFits, SameBut
    <3>4. TenantFits(req[q])'
      BY <2>2, <3>1 DEF Fits, TenantFits, SameBut
    <3>5. RoleFits(req[q])'
      BY <2>2, <3>1 DEF Fits, RoleFits, SameBut, IsAdmin
    <3> QED BY <3>2, <3>3, <3>4, <3>5 DEF Fits
  <2> QED BY <2>1, <2>2
<1>3. ASSUME NEW q \in Requests, NEW s \in Requests, q # s PROVE Apart(req[q], req[s])'
  <2>1. CASE q # p /\ s # p
    BY <1>3, <2>1 DEF IInv, Apart, SameBut
  <2>2. CASE q = p
    BY <2>2, IdleFacts DEF Apart
  <2>3. CASE s = p /\ q # p
    BY <2>3, IdleFacts DEF Apart
  <2> QED BY <2>1, <2>2, <2>3
<1> QED BY <1>1, <1>2, <1>3 DEF IInv

\* A commit that leaves the tokens alone.
LEMMA TokensKept ==
    ASSUME IInv, NEW p \in Requests, token' = token, req'[p] = Idle,
           \A q \in Requests \ {p} : req'[q].token = req[q].token
    PROVE  TokensOK' /\ token' \in [Tokens -> TokenRecords]
<1>1. \A q \in Requests : req'[q].token \in {None, req[q].token}
  BY IdleFacts
<1> QED BY <1>1, NoneAssumption DEF IInv, TypeOK, TokensOK, LoginOnce

LEMMA GrantInv ==
    ASSUME IInv, NEW p \in Requests, Grant(p)
    PROVE  IInv'
<1> DEFINE k == req[p].token
           g == IF token[k].granted < 2 THEN token[k].granted + 1 ELSE token[k].granted
           t == [token[k] EXCEPT !.granted = g]
<1>1. /\ req[p].pc \in UserPcs /\ req[p].pc = "grant" /\ CommitUser(p) /\ k \in Tokens
  BY AtFacts DEF Grant, At, UserPcs, Fits, Shaped
<1>2. /\ user' \in [Emails -> UserIds \cup {None}]
      /\ U(p) \in UserIds /\ req[p].email \in Emails /\ user'[req[p].email] = U(p)
      /\ \A e \in Emails : user[e] # None => user'[e] = user[e]
      /\ \A q \in Requests \ {p} :
            /\ req[q].newUser => user'[req[q].email] = None
            /\ req[q].pc \in UserPcs /\ ~req[q].newUser => user'[req[q].email] = req[q].uid
  BY <1>1, CommitUserFacts
<1>3. /\ UNCHANGED <<tenant, member, audit>>
      /\ req' = [req EXCEPT ![p] = Idle]
      /\ sessions' = sessions \cup {[user |-> U(p), email |-> req[p].email]}
      /\ token' = [token EXCEPT ![k] = t]
  BY DEF Grant
<1>4. TypeOK
  BY DEF IInv
<1>5. /\ req' \in [Requests -> RequestRecords] /\ req'[p] = Idle
      /\ \A q \in Requests \ {p} : req'[q] = req[q] /\ SameBut(req[q], req'[q])
  BY <1>3, <1>4, IdleFacts DEF TypeOK, SameBut
<1>6. \A q \in Requests \ {p} :
        /\ req[q].pc = "check_role" /\ member'[req[q].actor].role = "tenant_admin" =>
              req'[q].entitled
        /\ req[q].pc = "audit_add" => tenant' # None
  BY <1>3, <1>5, AtFacts DEF Fits, RoleFits, TenantFits, IsAdmin
<1>7. token[k].granted = 0 /\ token[k].state = "gone" /\ token[k] \in TokenRecords
  BY <1>1, <1>4 DEF IInv, TokensOK, TypeOK
<1>8. t \in TokenRecords /\ t.granted = 1 /\ t.state = "gone"
  BY <1>7 DEF TokenRecords
<1> HIDE DEF t
<1>9. token' \in [Tokens -> TokenRecords] /\ token'[k] = t
      /\ \A l \in Tokens \ {k} : token'[l] = token[l]
  BY <1>1, <1>3, <1>4, <1>8 DEF TypeOK
<1>10. \A q \in Requests : req'[q].token # k
  BY <1>1, <1>5, AtFacts, IdleFacts, NoneAssumption DEF Apart
<1>11. TokensOK'
  <2>1. \A l \in Tokens : token'[l].state # "gone" =>
           token'[l].granted = 0 /\ \A q \in Requests : req'[q].token # l
    BY <1>5, <1>8, <1>9, IdleFacts, NoneAssumption DEF IInv, TokensOK
  <2>2. \A l \in Tokens, q \in Requests : req'[q].token = l => token'[l].granted = 0
    BY <1>5, <1>9, <1>10, IdleFacts, NoneAssumption DEF IInv, TokensOK
  <2>3. \A l \in Tokens : /\ token'[l].state \in {"fresh", "expired"} => token'[l].email \in Emails
                          /\ token'[l].granted <= 1
    BY <1>8, <1>9 DEF IInv, TokensOK, LoginOnce
  <2> QED BY <2>1, <2>2, <2>3 DEF TokensOK, LoginOnce
<1>12. SessionNamesUser' /\ sessions' \subseteq Sessions
  <2>1. ASSUME NEW s \in sessions PROVE user'[s.email] = s.user
    <3>1. s.email \in Emails /\ s.user \in UserIds /\ user[s.email] = s.user
      BY <1>4 DEF IInv, SessionNamesUser, TypeOK, Sessions
    <3> QED BY <1>2, <3>1, NoneAssumption
  <2> QED BY <1>2, <1>3, <1>4, <2>1 DEF SessionNamesUser, TypeOK, Sessions
<1>13. NoOrphanMembers'
  BY <1>2, <1>3, NoneAssumption DEF IInv, NoOrphanMembers
<1> QED BY <1>2, <1>3, <1>4, <1>5, <1>6, <1>9, <1>11, <1>12, <1>13, CommitInv DEF TypeOK

LEMMA AuditAddInv ==
    ASSUME IInv, NEW p \in Requests, AuditAdd(p)
    PROVE  IInv'
<1> DEFINE m == [member EXCEPT ![U(p)] = req[p].row]
<1>1. /\ req[p].pc \in UserPcs /\ req[p].pc = "audit_add" /\ CommitUser(p)
      /\ req[p].row \in MemberRows /\ tenant # None
  BY AtFacts DEF AuditAdd, At, UserPcs, Fits, TenantFits
<1>2. /\ user' \in [Emails -> UserIds \cup {None}]
      /\ U(p) \in UserIds /\ req[p].email \in Emails /\ user'[req[p].email] = U(p)
      /\ \A e \in Emails : user[e] # None => user'[e] = user[e]
      /\ \A q \in Requests \ {p} :
            /\ req[q].newUser => user'[req[q].email] = None
            /\ req[q].pc \in UserPcs /\ ~req[q].newUser => user'[req[q].email] = req[q].uid
  BY <1>1, CommitUserFacts
<1>3. TypeOK
  BY DEF IInv
<1>4. /\ m \in [UserIds -> MemberRows \cup {NoMember}] /\ m[U(p)] = req[p].row
      /\ \A u \in UserIds \ {U(p)} : m[u] = member[u]
  BY <1>1, <1>2, <1>3 DEF TypeOK
<1>5. /\ CommitMembers(p, m) /\ UNCHANGED <<tenant, token, sessions>>
      /\ audit' = [audit EXCEPT ![U(p)] = @ + 1]
  BY DEF AuditAdd
<1> HIDE DEF m
<1>6. /\ req' \in [Requests -> RequestRecords] /\ req'[p] = Idle /\ member' = m
      /\ \A q \in Requests \ {p} :
            /\ SameBut(req[q], req'[q])
            /\ req[q].pc = "check_role" /\ m[req[q].actor].role = "tenant_admin" =>
                  req'[q].entitled
  BY <1>4, <1>5, CommitMembersRequests
<1>7. TokensOK' /\ token' \in [Tokens -> TokenRecords]
  BY <1>5, <1>6, TokensKept DEF SameBut
<1>8. SessionNamesUser'
  BY <1>2, <1>3, <1>5, NoneAssumption DEF IInv, SessionNamesUser, TypeOK, Sessions
<1>9. NoOrphanMembers'
  <2>1. SUFFICES ASSUME NEW u \in UserIds, m[u] # NoMember
                 PROVE  tenant # None /\ \E e \in Emails : user'[e] = u
    BY <1>5, <1>6 DEF NoOrphanMembers
  <2>2. CASE u = U(p)
    BY <1>1, <1>2, <2>2
  <2>3. CASE u # U(p)
    <3>1. \E e \in Emails : user[e] = u
      BY <1>4, <2>1, <2>3 DEF IInv, NoOrphanMembers
    <3> QED BY <1>1, <1>2, <3>1, NoneAssumption
  <2> QED BY <2>2, <2>3
<1>10. audit' \in [UserIds -> Int]
  BY <1>2, <1>3, <1>5 DEF TypeOK
<1> QED BY <1>1, <1>2, <1>3, <1>4, <1>5, <1>6, <1>7, <1>8, <1>9, <1>10, CommitInv DEF TypeOK

\* Users and their requests when only the memberships change.
LEMMA UsersKept ==
    ASSUME IInv, user' = user
    PROVE  \A q \in Requests :
              /\ req[q].newUser => user'[req[q].email] = None
              /\ req[q].pc \in UserPcs /\ ~req[q].newUser => user'[req[q].email] = req[q].uid
BY DEF IInv, Fits, UserFits

LEMMA AuditRemoveInv ==
    ASSUME IInv, NEW p \in Requests, AuditRemove(p)
    PROVE  IInv'
<1> DEFINE m == Removed(p)
<1>1. req[p].pc = "audit_remove" /\ U(p) \in UserIds
  BY AtFacts DEF AuditRemove, At, Fits, Shaped, U
<1>2. TypeOK
  BY DEF IInv
<1>3. /\ m \in [UserIds -> MemberRows \cup {NoMember}]
      /\ \A u \in UserIds \ {U(p)} : m[u] = member[u]
      /\ m[U(p)] \in {member[U(p)], NoMember}
  BY <1>1, <1>2 DEF Removed, TypeOK
<1>4. /\ CommitMembers(p, m) /\ UNCHANGED <<user, tenant, token, sessions>>
      /\ audit' = [audit EXCEPT ![U(p)] = IF @ > -MaxSurplus THEN @ - 1 ELSE @]
  BY DEF AuditRemove
<1> HIDE DEF m
<1>5. /\ req' \in [Requests -> RequestRecords] /\ req'[p] = Idle /\ member' = m
      /\ \A q \in Requests \ {p} :
            /\ SameBut(req[q], req'[q])
            /\ req[q].pc = "check_role" /\ m[req[q].actor].role = "tenant_admin" =>
                  req'[q].entitled
  BY <1>3, <1>4, CommitMembersRequests
<1>6. TokensOK' /\ token' \in [Tokens -> TokenRecords]
  BY <1>4, <1>5, TokensKept DEF SameBut
<1>7. SessionNamesUser' /\ NoOrphanMembers'
  BY <1>1, <1>3, <1>4, <1>5 DEF IInv, SessionNamesUser, NoOrphanMembers
<1>8. audit' \in [UserIds -> Int]
  BY <1>1, <1>2, <1>4, SurplusAssumption DEF TypeOK
<1>9. \A q \in Requests : req[q].pc = "audit_add" => tenant' # None
  BY <1>4 DEF IInv, Fits, TenantFits
<1>10. /\ user' \in [Emails -> UserIds \cup {None}]
       /\ tenant' \in Names \cup {None} /\ sessions' \subseteq Sessions
  BY <1>2, <1>4 DEF TypeOK
<1>11. \A q \in Requests :
          /\ req[q].newUser => user'[req[q].email] = None
          /\ req[q].pc \in UserPcs /\ ~req[q].newUser => user'[req[q].email] = req[q].uid
  BY <1>4, UsersKept
<1> QED BY <1>3, <1>5, <1>6, <1>7, <1>8, <1>9, <1>10, <1>11, CommitInv

LEMMA UpdateNameInv ==
    ASSUME IInv, NEW p \in Requests, UpdateName(p)
    PROVE  IInv'
<1>1. req[p].pc = "update_name" /\ req[p].name \in Names
  BY AtFacts DEF UpdateName, At, Fits, Shaped
<1>2. TypeOK
  BY DEF IInv
<1>3. /\ UNCHANGED <<user, member, audit, token, sessions>>
      /\ tenant' \in Names \cup {None} /\ (tenant' = None) = (tenant = None)
      /\ req' = [req EXCEPT ![p] = Idle]
  BY <1>1, <1>2, NoneAssumption DEF UpdateName, TypeOK
<1>4. /\ req' \in [Requests -> RequestRecords] /\ req'[p] = Idle
      /\ \A q \in Requests \ {p} : req'[q] = req[q] /\ SameBut(req[q], req'[q])
  BY <1>2, <1>3, IdleFacts DEF TypeOK, SameBut
<1>5. TokensOK' /\ token' \in [Tokens -> TokenRecords]
  BY <1>3, <1>4, TokensKept
<1>6. (SessionNamesUser /\ NoOrphanMembers)'
  BY <1>3 DEF IInv, SessionNamesUser, NoOrphanMembers
<1>7. \A q \in Requests \ {p} :
        /\ req[q].pc = "check_role" /\ member'[req[q].actor].role = "tenant_admin" =>
              req'[q].entitled
        /\ req[q].pc = "audit_add" => tenant' # None
  BY <1>3, <1>4, AtFacts DEF Fits, RoleFits, TenantFits, IsAdmin
<1>8. /\ user' \in [Emails -> UserIds \cup {None}] /\ sessions' \subseteq Sessions
      /\ member' \in [UserIds -> MemberRows \cup {NoMember}]
      /\ audit' \in [UserIds -> Int]
  BY <1>2, <1>3 DEF TypeOK
<1>9. \A q \in Requests :
        /\ req[q].newUser => user'[req[q].email] = None
        /\ req[q].pc \in UserPcs /\ ~req[q].newUser => user'[req[q].email] = req[q].uid
  BY <1>3, UsersKept
<1> QED BY <1>3, <1>4, <1>5, <1>6, <1>7, <1>8, <1>9, CommitInv

LEMMA CascadeInv ==
    ASSUME IInv, NEW p \in Requests, Cascade(p)
    PROVE  IInv'
<1> DEFINE m == [u \in UserIds |-> NoMember]
<1>1. TypeOK
  BY DEF IInv
<1>2. /\ CommitMembers(p, m) /\ UNCHANGED <<user, audit, token, sessions>> /\ tenant' = None
      /\ m \in [UserIds -> MemberRows \cup {NoMember}]
      /\ \A u \in UserIds : m[u] = NoMember
  BY DEF Cascade
<1> HIDE DEF m
<1>3. /\ req' \in [Requests -> RequestRecords] /\ req'[p] = Idle /\ member' = m
      /\ \A q \in Requests \ {p} :
            /\ SameBut(req[q], req'[q])
            /\ req[q].pc = "check_role" /\ m[req[q].actor].role = "tenant_admin" =>
                  req'[q].entitled
  BY <1>2, CommitMembersRequests
<1>4. TokensOK' /\ token' \in [Tokens -> TokenRecords]
  BY <1>2, <1>3, TokensKept DEF SameBut
<1>5. SessionNamesUser' /\ NoOrphanMembers'
  BY <1>2, <1>3 DEF IInv, SessionNamesUser, NoOrphanMembers
<1>6. \A q \in Requests \ {p} : req[q].pc # "audit_add"
  BY AtFacts DEF Cascade, At, Apart
<1>7. /\ user' \in [Emails -> UserIds \cup {None}] /\ sessions' \subseteq Sessions
      /\ tenant' \in Names \cup {None} /\ audit' \in [UserIds -> Int]
  BY <1>1, <1>2 DEF TypeOK
<1>8. \A q \in Requests :
        /\ req[q].newUser => user'[req[q].email] = None
        /\ req[q].pc \in UserPcs /\ ~req[q].newUser => user'[req[q].email] = req[q].uid
  BY <1>2, UsersKept
<1> QED BY <1>2, <1>3, <1>4, <1>5, <1>6, <1>7, <1>8, CommitInv

-----------------------------------------------------------------------------
(* Logins, restarts and handlers that begin. *)

LEMMA TokenStepInv ==
    ASSUME IInv, UNCHANGED <<user, tenant, member, audit, sessions>>,
           req' \in [Requests -> RequestRecords], token' \in [Tokens -> TokenRecords],
           \A q \in Requests : Fits(req'[q]),
           \A q, s \in Requests : q # s => Apart(req'[q], req'[s]),
           TokensOK'
    PROVE  IInv'
<1>1. TypeOK'
  BY DEF IInv, TypeOK
<1>2. \A q \in Requests : Fits(req[q])'
  BY DEF Fits, Shaped, UserFits, TenantFits, RoleFits, IsAdmin
<1>3. \A q, s \in Requests : q # s => Apart(req[q], req[s])'
  BY DEF Apart
<1>4. SessionNamesUser' /\ NoOrphanMembers'
  BY DEF IInv, SessionNamesUser, NoOrphanMembers
<1> QED BY <1>1, <1>2, <1>3, <1>4 DEF IInv

\* One token changes and no request.
LEMMA OneTokenInv ==
    ASSUME IInv, NEW k \in Tokens, NEW t \in TokenRecords,
           token[k].state # "gone", t.granted = 0, t.email \in Emails,
           token' = [token EXCEPT ![k] = t],
           UNCHANGED <<user, tenant, member, audit, sessions, req>>
    PROVE  IInv'
<1>1. /\ token' \in [Tokens -> TokenRecords] /\ token'[k] = t
      /\ \A l \in Tokens \ {k} : token'[l] = token[l]
  BY DEF IInv, TypeOK
<1>2. TokensOK'
  BY <1>1 DEF IInv, TokensOK, LoginOnce
<1> QED BY <1>1, <1>2, TokenStepInv DEF IInv, TypeOK

LEMMA LoginInv ==
    ASSUME IInv, NEW k \in Tokens, NEW e \in Emails, Login(k, e)
    PROVE  IInv'
<1> DEFINE t == [email |-> e, state |-> "fresh", granted |-> 0]
<1>1. t \in TokenRecords /\ t.granted = 0 /\ t.email \in Emails
  BY DEF TokenRecords
<1>2. /\ token[k].state # "gone" /\ token' = [token EXCEPT ![k] = t]
      /\ UNCHANGED <<user, tenant, member, audit, sessions, req>>
  BY DEF Login
<1> HIDE DEF t
<1> QED BY <1>1, <1>2, OneTokenInv

LEMMA ExpireInv ==
    ASSUME IInv, NEW k \in Tokens, Expire(k)
    PROVE  IInv'
<1> DEFINE t == [token[k] EXCEPT !.state = "expired"]
<1>1. /\ token[k] \in TokenRecords /\ token[k].state # "gone" /\ token[k].granted = 0
      /\ token[k].email \in Emails
  BY DEF IInv, TypeOK, TokensOK, Expire
<1>2. t \in TokenRecords /\ t.granted = 0 /\ t.email \in Emails
  BY <1>1 DEF TokenRecords
<1>3. /\ token' = [token EXCEPT ![k] = t]
      /\ UNCHANGED <<user, tenant, member, audit, sessions, req>>
  BY DEF Expire
<1> HIDE DEF t
<1> QED BY <1>1, <1>2, <1>3, OneTokenInv

LEMMA VerifyInv ==
    ASSUME IInv, NEW p \in Requests, NEW k \in Tokens, Verify(p, k)
    PROVE  IInv'
<1> DEFINE t == Popped(k)
           r == VerifyBegun(k)
<1>1. /\ token[k] \in TokenRecords /\ token[k].state # "gone" /\ token[k].granted = 0
      /\ token[k].email \in Emails
  BY DEF IInv, TypeOK, TokensOK, Verify
<1>2. t \in TokenRecords /\ t.granted = 0 /\ t.state = "gone"
  BY <1>1 DEF TokenRecords, Popped
<1>3. /\ token' = [token EXCEPT ![k] = t]
      /\ UNCHANGED <<user, tenant, member, audit, sessions>>
  BY DEF Verify
<1>4. /\ token' \in [Tokens -> TokenRecords] /\ token'[k] = t
      /\ \A l \in Tokens \ {k} : token'[l] = token[l]
  BY <1>2, <1>3 DEF IInv, TypeOK
<1> HIDE DEF t
<1>5. CASE req' = req
  <2>1. TokensOK'
    BY <1>1, <1>2, <1>4, <1>5 DEF IInv, TokensOK, LoginOnce
  <2> QED BY <1>3, <1>4, <1>5, <2>1, TokenStepInv DEF IInv, TypeOK
<1>6. CASE req' = [req EXCEPT ![p] = r] /\ token[k].email \in Emails
  <2>1. /\ r \in RequestRecords /\ r.op = "verify" /\ r.pc = "select_user" /\ r.token = k
        /\ r.email = token[k].email /\ r.newUser = FALSE
    BY <1>6 DEF VerifyBegun, Idle, RequestRecords, Pcs, NoMember
  <2>2. Fits(r)
    BY <1>6, <2>1 DEF Fits, Shaped, UserFits, TenantFits, RoleFits, UserPcs, MemberOps
  <2> HIDE DEF r
  <2>3. /\ req' \in [Requests -> RequestRecords] /\ req'[p] = r
        /\ \A q \in Requests \ {p} : req'[q] = req[q]
    BY <1>6, <2>1 DEF IInv, TypeOK
  <2>4. \A q \in Requests : req[q].token # k
    BY <1>1 DEF IInv, TokensOK
  <2>5. \A q, s \in Requests : q # s => Apart(req'[q], req'[s])
    BY <2>1, <2>3, <2>4 DEF IInv, Apart
  <2>6. \A q \in Requests : Fits(req'[q])
    BY <2>2, <2>3 DEF IInv
  <2>7. TokensOK'
    <3>1. \A l \in Tokens : token'[l].state # "gone" =>
             token'[l].granted = 0 /\ \A q \in Requests : req'[q].token # l
      BY <1>2, <1>4, <2>1, <2>3 DEF IInv, TokensOK
    <3>2. \A l \in Tokens, q \in Requests : req'[q].token = l => token'[l].granted = 0
      BY <1>2, <1>4, <2>1, <2>3 DEF IInv, TokensOK
    <3>3. \A l \in Tokens :
             /\ token'[l].state \in {"fresh", "expired"} => token'[l].email \in Emails
             /\ token'[l].granted <= 1
      BY <1>2, <1>4 DEF IInv, TokensOK, LoginOnce
    <3> QED BY <3>1, <3>2, <3>3 DEF TokensOK, LoginOnce
  <2> QED BY <1>3, <1>4, <2>3, <2>5, <2>6, <2>7, TokenStepInv
<1> QED BY <1>1, <1>5, <1>6 DEF Verify

LEMMA RestartInv ==
    ASSUME IInv, Restart
    PROVE  IInv'
<1>1. /\ UNCHANGED <<user, tenant, member, audit, sessions>>
      /\ req' = [p \in Requests |-> Idle]
      /\ token' = [k \in Tokens |->
                     IF token[k].state = "unused" THEN token[k] ELSE Popped(k)]
  BY DEF Restart
<1>2. req' \in [Requests -> RequestRecords] /\ \A p \in Requests : req'[p] = Idle
  BY <1>1, IdleFacts
<1>3. \A k \in Tokens : /\ token[k] \in TokenRecords
                        /\ Popped(k) \in TokenRecords /\ Popped(k).state = "gone"
                        /\ Popped(k).granted = token[k].granted
  BY DEF IInv, TypeOK, TokenRecords, Popped
<1>4. token' \in [Tokens -> TokenRecords]
  BY <1>1, <1>3
<1>5. TokensOK'
  BY <1>1, <1>2, <1>3, IdleFacts, NoneAssumption DEF IInv, TokensOK, LoginOnce
<1> QED BY <1>1, <1>2, <1>4, <1>5, IdleFits, IdleApart, TokenStepInv

\* A handler for admins begins.
LEMMA BeginInv ==
    ASSUME IInv, NEW p \in Requests, NEW r \in RequestRecords, Begin(p, r),
           r.op \in MemberOps, r.actor \in UserIds, r.token = None, ~r.newUser,
           r.op = "add" => r.email \in Emails /\ r.role \in Roles,
           r.op = "remove" => r.uid \in UserIds,
           r.op = "update" => r.name \in Names
    PROVE  IInv'
<1> DEFINE b == IsAdmin(r.actor)
           s == [r EXCEPT !.pc = "check_role", !.entitled = b]
<1>1. b \in BOOLEAN /\ (IsAdmin(r.actor) => b)
  BY DEF IsAdmin
<1>2. Goto(p, s)
  BY DEF Begin
<1> HIDE DEF b
<1>3. /\ s \in RequestRecords /\ s.pc = "check_role" /\ s.entitled = b /\ s.op = r.op
      /\ s.actor = r.actor /\ s.email = r.email /\ s.role = r.role /\ s.token = r.token
      /\ s.name = r.name /\ s.uid = r.uid /\ s.newUser = r.newUser
  <2>1. "check_role" \in Pcs
    BY DEF Pcs
  <2> QED BY <1>1, <2>1 DEF RequestRecords
<1> HIDE DEF s
<1>4. Shaped(s)
  BY <1>3 DEF Shaped, MemberOps
<1>5. UserFits(s) /\ TenantFits(s) /\ RoleFits(s)
  BY <1>1, <1>3 DEF UserFits, TenantFits, RoleFits, UserPcs
<1> QED BY <1>2, <1>3, <1>4, <1>5, GotoInv DEF Fits

LEMMA HandlerInv ==
    ASSUME IInv, NEW p \in Requests, Handler(p)
    PROVE  IInv'
<1>1. ASSUME NEW k \in Tokens, Verify(p, k) PROVE IInv'
  BY <1>1, VerifyInv
<1>2. ASSUME NEW s \in sessions PROVE s.user \in UserIds
  BY DEF IInv, TypeOK, Sessions
<1>3. ASSUME NEW s \in sessions, NEW e \in Emails, NEW role \in Roles, AddMember(p, s, e, role)
      PROVE  IInv'
  <2> DEFINE r == [Idle EXCEPT !.op = "add", !.actor = s.user, !.email = e, !.role = role]
  <2>1. /\ r \in RequestRecords /\ r.op = "add" /\ r.actor = s.user /\ r.token = None
        /\ ~r.newUser /\ r.email = e /\ r.role = role
    BY <1>2 DEF Idle, RequestRecords, MemberOps, Pcs
  <2>2. Begin(p, r)
    BY <1>3 DEF AddMember
  <2> HIDE DEF r
  <2> QED BY <1>2, <2>1, <2>2, BeginInv DEF MemberOps
<1>4. ASSUME NEW s \in sessions, NEW u \in UserIds, RemoveMember(p, s, u) PROVE IInv'
  <2> DEFINE r == [Idle EXCEPT !.op = "remove", !.actor = s.user, !.uid = u]
  <2>1. /\ r \in RequestRecords /\ r.op = "remove" /\ r.actor = s.user /\ r.token = None
        /\ ~r.newUser /\ r.uid = u
    BY <1>2 DEF Idle, RequestRecords, MemberOps, Pcs
  <2>2. Begin(p, r)
    BY <1>4 DEF RemoveMember
  <2> HIDE DEF r
  <2> QED BY <1>2, <2>1, <2>2, BeginInv DEF MemberOps
<1>5. ASSUME NEW s \in sessions, NEW n \in Names, UpdateTenant(p, s, n) PROVE IInv'
  <2> DEFINE r == [Idle EXCEPT !.op = "update", !.actor = s.user, !.name = n]
  <2>1. /\ r \in RequestRecords /\ r.op = "update" /\ r.actor = s.user /\ r.token = None
        /\ ~r.newUser /\ r.name = n
    BY <1>2 DEF Idle, RequestRecords, MemberOps, Pcs
  <2>2. Begin(p, r)
    BY <1>5 DEF UpdateTenant
  <2> HIDE DEF r
  <2> QED BY <1>2, <2>1, <2>2, BeginInv DEF MemberOps
<1>6. ASSUME NEW s \in sessions, DeleteTenant(p, s) PROVE IInv'
  <2> DEFINE r == [Idle EXCEPT !.op = "delete", !.actor = s.user]
  <2>1. /\ r \in RequestRecords /\ r.op = "delete" /\ r.actor = s.user /\ r.token = None
        /\ ~r.newUser
    BY <1>2 DEF Idle, RequestRecords, MemberOps, Pcs
  <2>2. Begin(p, r)
    BY <1>6 DEF DeleteTenant
  <2> HIDE DEF r
  <2> QED BY <1>2, <2>1, <2>2, BeginInv DEF MemberOps
<1> QED BY <1>1, <1>3, <1>4, <1>5, <1>6 DEF Handler

-----------------------------------------------------------------------------
(* The theorems. *)

LEMMA StutterInv ==
    ASSUME IInv, UNCHANGED vars
    PROVE  IInv'
<1> USE DEF vars
<1>1. TypeOK' /\ TokensOK'
  BY DEF IInv, TypeOK, TokensOK, LoginOnce
<1> QED BY <1>1, TokenStepInv DEF IInv, TypeOK

LEMMA NextInv == IInv /\ [Next]_vars => IInv'
<1> SUFFICES ASSUME IInv, [Next]_vars PROVE IInv'
  OBVIOUS
<1>1. ASSUME NEW p \in Requests, Step(p) PROVE IInv'
  BY <1>1, SelectUserInv, InsertUserInv, GrantInv, CheckRoleInv, InsertMemberInv, AuditAddInv,
     SelectMemberInv, DeleteMemberInv, AuditRemoveInv, GetTenantInv, UpdateNameInv,
     SetDeletingInv, DeleteTenantRowInv, CascadeInv, AbortInv DEF Step, Fail
<1> QED BY <1>1, HandlerInv, LoginInv, ExpireInv, RestartInv, StutterInv DEF Next

\* IInv is an invariant of every behaviour.
THEOREM Invariance == Spec => []IInv
BY InitInv, NextInv, PTL DEF Spec

\* Every variable has its type.
THEOREM TypeCorrect == Spec => []TypeOK
<1>1. IInv => TypeOK
  BY DEF IInv
<1> QED BY <1>1, Invariance, PTL

\* A login link grants at most one access token.
THEOREM LinkServesOnce == Spec => []LoginOnce
<1>1. IInv => LoginOnce
  BY DEF IInv, TokensOK
<1> QED BY <1>1, Invariance, PTL

\* The holder of an access token is the user of the address that logged in.
THEOREM SessionsNameUsers == Spec => []SessionNamesUser
<1>1. IInv => SessionNamesUser
  BY DEF IInv
<1> QED BY <1>1, Invariance, PTL

\* No membership outlives the tenant or names a user that does not exist.
THEOREM MembersBelong == Spec => []NoOrphanMembers
<1>1. IInv => NoOrphanMembers
  BY DEF IInv
<1> QED BY <1>1, Invariance, PTL

\* Whoever changes the tenant or its members has been an admin during the request.
THEOREM ActorsEntitled == Spec => OnlyEntitledActors
<1>1. ASSUME IInv, NEW p \in Requests,
             req[p].pc \in {"audit_add", "audit_remove", "update_name", "cascade"}
      PROVE  req[p].entitled
  <2>1. req[p].op \in MemberOps /\ req[p].pc # "check_role"
    BY <1>1, AtFacts DEF Fits, Shaped, MemberOps
  <2> QED BY <1>1, <2>1, AtFacts DEF Fits, RoleFits
<1>2. IInv /\ [Next]_vars =>
        [\A p \in Requests :
          /\ req[p].pc \in {"audit_add", "audit_remove", "update_name", "cascade"}
          /\ <<tenant, member>>' # <<tenant, member>> /\ req'[p] # req[p] /\ req'[p] = Idle
          => req[p].entitled]_vars
  BY <1>1
<1> QED BY <1>2, Invariance, PTL DEF Spec, OnlyEntitledActors

-----------------------------------------------------------------------------
(* The transactions take their locks in one order. *)

\* The height of a request in the waits: those of height 0 wait for nobody.
Height(p) ==
    CASE At(p, "insert_user") -> 3
      [] req[p].pc \in {"insert_member", "update_name", "set_deleting"} -> 2
      [] req[p].pc \in {"delete_member", "delete_tenant", "cascade"} -> 1
      [] OTHER -> 0

LEMMA HeightBounds == \A p : Height(p) \in 0..3
BY DEF Height

\* Who waits is higher than whom it waits for.  The inserted users row is the one that
\* needs the invariant: its request has gone on to the membership, or to the commit.
LEMMA WaitsDescend ==
    ASSUME IInv, NEW p \in Requests, NEW q \in Requests, Blocks(q, p)
    PROVE  Height(q) < Height(p)
<1>1. CASE UsersRow(q, p)
  <2>1. req[q].pc \in UserPcs
    BY <1>1, AtFacts DEF UsersRow, Fits, UserFits
  <2>2. Height(p) = 3
    BY <1>1 DEF UsersRow, Height, At
  <2>3. Height(q) \in 0..2
    BY <2>1 DEF Height, UserPcs, At
  <2> QED BY <2>2, <2>3
<1>2. CASE MembershipsRow(q, p)
  <2>1. Height(q) = 0
    BY <1>2 DEF MembershipsRow, Inserting, Deleting, Height, At
  <2>2. Height(p) \in 1..2
    BY <1>2 DEF MembershipsRow, Height, At
  <2> QED BY <2>1, <2>2
<1>3. CASE TenantsRow(q, p)
  <2>1. CASE req[p].pc \in {"update_name", "set_deleting", "insert_member"}
    <3>1. req[q].pc \in {"delete_tenant", "cascade"}
      BY <1>3, <2>1 DEF TenantsRow, At
    <3> QED BY <2>1, <3>1 DEF Height, At
  <2>2. CASE At(p, "delete_tenant") /\ At(q, "audit_add")
    BY <2>2 DEF Height, At
  <2> QED BY <1>3, <2>1, <2>2 DEF TenantsRow, At
<1> QED BY <1>1, <1>2, <1>3 DEF Blocks

\* The transactions of the API never wait for each other in a circle.
THEOREM NoCircle == Spec => []NoDeadlock
<1>1. ASSUME IInv, NEW S \in (SUBSET Requests) \ {{}}
      PROVE  \E p \in S : \A q \in S : ~Blocks(q, p)
  <2>1. PICK p \in S : \A q \in S : ~(Height(q) < Height(p))
    <3> DEFINE Some(h) == \E p \in S : Height(p) = h
    <3>1. CASE Some(0)
      BY <3>1, HeightBounds
    <3>2. CASE ~Some(0) /\ Some(1)
      BY <3>2, HeightBounds
    <3>3. CASE ~Some(0) /\ ~Some(1) /\ Some(2)
      BY <3>3, HeightBounds
    <3>4. CASE ~Some(0) /\ ~Some(1) /\ ~Some(2)
      BY <3>4, HeightBounds
    <3> QED BY <3>1, <3>2, <3>3, <3>4
  <2>2. \A q \in S : p \in Requests /\ q \in Requests
    BY <1>1
  <2> QED BY <1>1, <2>1, <2>2, WaitsDescend
<1>2. IInv => NoDeadlock
  BY <1>1 DEF NoDeadlock
<1> QED BY <1>2, Invariance, PTL

-----------------------------------------------------------------------------
(* Access implements Roster. *)

\* The accounts that requests are about to commit are nobody else's.
Unshared ==
    \A p \in Requests : req[p].newUser =>
        /\ \A e \in Emails : user[e] # U(p)
        /\ \A q \in Requests \ {p} : req[q].newUser => U(q) # U(p)

\* Whoever is about to commit a membership is the only one, and there is none yet.
Sole ==
    \A p \in Requests : At(p, "audit_add") =>
        /\ member[U(p)] = NoMember
        /\ \A q \in Requests \ {p} : At(q, "audit_add") => U(q) # U(p)

RInv == IInv /\ Unshared /\ Sole

\* Requests that go no further than they have been insert nothing new.
LEMMA NothingInserted ==
    ASSUME Unshared, Sole, UNCHANGED <<user, member>>,
           \A q \in Requests :
               /\ req'[q].newUser => req[q].newUser /\ req'[q].uid = req[q].uid
               /\ req'[q].pc = "audit_add" => req[q].pc = "audit_add" /\ req'[q].uid = req[q].uid
    PROVE  Unshared' /\ Sole'
BY DEF Unshared, Sole, At, U

LEMMA GotoKeeps ==
    ASSUME RInv, NEW p \in Requests, NEW r \in RequestRecords, Goto(p, r),
           r.newUser => req[p].newUser /\ r.uid = U(p),
           r.pc = "audit_add" => At(p, "audit_add") /\ r.uid = U(p)
    PROVE  Unshared' /\ Sole'
<1>1. /\ UNCHANGED <<user, member>> /\ req'[p] = r
      /\ \A q \in Requests \ {p} : req'[q] = req[q]
  BY DEF RInv, IInv, TypeOK, Goto
<1> QED BY <1>1, NothingInserted DEF RInv, At, U

LEMMA ProceedKeeps ==
    ASSUME RInv, NEW p \in Requests, NEW pc \in Pcs, Proceed(p, pc), pc # "audit_add"
    PROVE  Unshared' /\ Sole'
<1> DEFINE r == [req[p] EXCEPT !.pc = pc]
<1>1. r \in RequestRecords /\ r.pc = pc /\ r.uid = req[p].uid /\ r.newUser = req[p].newUser
  BY ProceedRecord DEF RInv
<1>2. Goto(p, r)
  BY DEF Proceed
<1> HIDE DEF r
<1> QED BY <1>1, <1>2, GotoKeeps DEF U

LEMMA AbortKeeps ==
    ASSUME RInv, NEW p \in Requests, Abort(p)
    PROVE  Unshared' /\ Sole'
BY GotoKeeps, IdleFacts DEF Abort

LEMMA SelectUserKeeps ==
    ASSUME RInv, NEW p \in Requests, SelectUser(p)
    PROVE  Unshared' /\ Sole'
<1> DEFINE u == user[req[p].email]
<1>1. /\ req[p].pc = "select_user" /\ req[p].email \in Emails
      /\ req[p] \in RequestRecords /\ ~req[p].newUser
  BY AtFacts DEF RInv, SelectUser, At, Fits, Shaped, UserFits, UserPcs
<1>2. CASE u # None /\ Goto(p, [req[p] EXCEPT !.uid = u, !.pc = AfterUser(p)])
  <2> DEFINE r == [req[p] EXCEPT !.uid = u, !.pc = AfterUser(p)]
  <2>1. u \in UserIds /\ AfterUser(p) \in Pcs \ {"audit_add"}
    BY <1>1, <1>2 DEF RInv, IInv, TypeOK, AfterUser, Pcs
  <2>2. r \in RequestRecords /\ r.pc # "audit_add" /\ r.newUser = req[p].newUser
    BY <1>1, <2>1 DEF RequestRecords
  <2> HIDE DEF r
  <2> QED BY <1>1, <1>2, <2>2, GotoKeeps DEF r
<1>3. CASE Proceed(p, "insert_user")
  BY <1>3, ProceedKeeps DEF Pcs
<1> QED BY <1>2, <1>3 DEF SelectUser

\* The id is drawn at random: nobody has it.
LEMMA InsertUserKeeps ==
    ASSUME RInv, NEW p \in Requests, InsertUser(p)
    PROVE  Unshared' /\ Sole'
<1>1. CASE Abort(p)
  BY <1>1, AbortKeeps
<1>2. ASSUME NEW u \in FreshUsers, Goto(p, InsertedUser(p, u))
      PROVE  Unshared' /\ Sole'
  <2> DEFINE r == InsertedUser(p, u)
  <2>1. /\ u \in UserIds /\ \A e \in Emails : user[e] # u
        /\ \A q \in Requests : U(q) # u
    BY DEF FreshUsers
  <2>2. AfterUser(p) \in Pcs \ {"audit_add"}
    BY DEF AfterUser, Pcs
  <2>3. /\ r \in RequestRecords /\ r.pc # "audit_add" /\ r.uid = u
    BY <2>1, <2>2, AtFacts DEF RInv, RequestRecords, InsertedUser
  <2> HIDE DEF r
  <2>4. /\ UNCHANGED <<user, member>> /\ req'[p] = r
        /\ \A q \in Requests \ {p} : req'[q] = req[q]
    BY <1>2, <2>3 DEF RInv, IInv, TypeOK, Goto, r
  <2>5. Unshared'
    BY <2>1, <2>3, <2>4 DEF RInv, Unshared, U
  <2>6. Sole'
    BY <2>3, <2>4 DEF RInv, Sole, At, U
  <2> QED BY <2>5, <2>6
<1> QED BY <1>1, <1>2 DEF InsertUser

\* uq_membership: the INSERT has waited for all others of the user.
LEMMA InsertMemberKeeps ==
    ASSUME RInv, NEW p \in Requests, InsertMember(p)
    PROVE  Unshared' /\ Sole'
<1>1. CASE Abort(p)
  BY <1>1, AbortKeeps
<1>2. ASSUME member[U(p)] = NoMember, NEW i \in FreshRows,
             Goto(p, [req[p] EXCEPT !.row = [id |-> i, role |-> req[p].role],
                                    !.pc = "audit_add"])
      PROVE  Unshared' /\ Sole'
  <2> DEFINE r == [req[p] EXCEPT !.row = [id |-> i, role |-> req[p].role], !.pc = "audit_add"]
  <2>1. req[p] \in RequestRecords /\ \A q \in Requests \ {p} : ~Inserting(q, U(p))
    BY AtFacts DEF RInv, InsertMember, Blocked, Blocks, MembershipsRow
  <2>2. r.pc = "audit_add" /\ r.uid = U(p) /\ r.newUser = req[p].newUser
    BY <2>1 DEF RequestRecords, U
  <2>3. /\ UNCHANGED <<user, member>> /\ req'[p] = r
        /\ \A q \in Requests \ {p} : req'[q] = req[q]
    BY <1>2 DEF RInv, IInv, TypeOK, Goto
  <2> HIDE DEF r
  <2>4. Unshared'
    BY <2>2, <2>3 DEF RInv, Unshared, U
  <2>5. Sole'
    BY <1>2, <2>1, <2>2, <2>3 DEF RInv, Sole, At, U, Inserting
  <2> QED BY <2>4, <2>5
<1> QED BY <1>1, <1>2 DEF InsertMember

LEMMA SelectMemberKeeps ==
    ASSUME RInv, NEW p \in Requests, SelectMember(p)
    PROVE  Unshared' /\ Sole'
<1>1. CASE Abort(p)
  BY <1>1, AbortKeeps
<1>2. CASE Goto(p, [req[p] EXCEPT !.row = member[U(p)], !.pc = "delete_member"])
  <2> DEFINE r == [req[p] EXCEPT !.row = member[U(p)], !.pc = "delete_member"]
  <2>1. req[p] \in RequestRecords /\ member[U(p)] \in MemberRows \cup {NoMember}
    <3>1. req[p] \in RequestRecords /\ U(p) \in UserIds
      BY AtFacts DEF RInv, SelectMember, At, Fits, Shaped, U
    <3> QED BY <3>1 DEF RInv, IInv, TypeOK
  <2>2. r \in RequestRecords /\ r.pc = "delete_member" /\ r.uid = req[p].uid
        /\ r.newUser = req[p].newUser
    BY <2>1 DEF RequestRecords, Pcs
  <2> HIDE DEF r
  <2> QED BY <1>2, <2>2, GotoKeeps DEF r, U
<1> QED BY <1>1, <1>2 DEF SelectMember

\* What the other requests are after a commit of p.
LEMMA OthersKept ==
    ASSUME RInv, NEW p \in Requests, NEW m \in [UserIds -> MemberRows \cup {NoMember}],
           CommitMembers(p, m)
    PROVE  /\ req'[p] = Idle /\ member' = m
           /\ \A q \in Requests \ {p} :
                 req'[q].pc = req[q].pc /\ req'[q].uid = req[q].uid
                 /\ req'[q].newUser = req[q].newUser
BY CommitMembersRequests DEF RInv, SameBut

\* An id committed by p is not the one that another request holds.
LEMMA CommitUserKeeps ==
    ASSUME RInv, NEW p \in Requests, req[p].pc \in UserPcs, CommitUser(p),
           req'[p] = Idle,
           \A q \in Requests \ {p} : req'[q].uid = req[q].uid /\ req'[q].newUser = req[q].newUser
    PROVE  Unshared'
<1> SUFFICES ASSUME NEW q \in Requests, req'[q].newUser
             PROVE  /\ \A e \in Emails : user'[e] # req'[q].uid
                    /\ \A s \in Requests \ {q} : req'[s].newUser => req'[s].uid # req'[q].uid
  BY DEF Unshared, U
<1>1. q # p /\ req[q].newUser /\ req'[q].uid = req[q].uid
  BY IdleFacts
<1>2. \A e \in Emails : user'[e] # req[q].uid
  <2>1. CASE req[p].newUser
    BY <1>1, <2>1 DEF RInv, IInv, TypeOK, Unshared, CommitUser, U
  <2>2. CASE ~req[p].newUser
    BY <1>1, <2>2 DEF RInv, Unshared, CommitUser, U
  <2> QED BY <2>1, <2>2
<1>3. \A s \in Requests \ {q} : req'[s].newUser => req'[s].uid # req[q].uid
  BY <1>1, IdleFacts DEF RInv, Unshared, U
<1> QED BY <1>1, <1>2, <1>3

LEMMA GrantKeeps ==
    ASSUME RInv, NEW p \in Requests, Grant(p)
    PROVE  Unshared' /\ Sole'
<1>1. /\ req[p].pc \in UserPcs /\ CommitUser(p) /\ member' = member /\ req'[p] = Idle
      /\ \A q \in Requests \ {p} : req'[q] = req[q]
  BY DEF Grant, At, UserPcs, RInv, IInv, TypeOK
<1>2. Unshared'
  BY <1>1, CommitUserKeeps
<1>3. Sole'
  BY <1>1, IdleFacts DEF RInv, Sole, At, U
<1> QED BY <1>2, <1>3

LEMMA AddedMembers ==
    ASSUME RInv, NEW p \in Requests, AuditAdd(p)
    PROVE  LET m == [member EXCEPT ![U(p)] = req[p].row]
           IN  /\ m \in [UserIds -> MemberRows \cup {NoMember}] /\ CommitMembers(p, m)
               /\ U(p) \in UserIds /\ m[U(p)] = req[p].row /\ req[p].row \in MemberRows
               /\ \A u \in UserIds \ {U(p)} : m[u] = member[u]
<1>1. req[p].row \in MemberRows /\ U(p) \in UserIds
  BY AtFacts DEF RInv, AuditAdd, At, UserPcs, Fits, UserFits, TenantFits, U
<1> QED BY <1>1 DEF AuditAdd, RInv, IInv, TypeOK

LEMMA AuditAddKeeps ==
    ASSUME RInv, NEW p \in Requests, AuditAdd(p)
    PROVE  Unshared' /\ Sole'
<1>1. /\ req'[p] = Idle /\ \A u \in UserIds \ {U(p)} : member'[u] = member[u]
      /\ \A q \in Requests \ {p} :
            req'[q].pc = req[q].pc /\ req'[q].uid = req[q].uid
            /\ req'[q].newUser = req[q].newUser
  BY AddedMembers, OthersKept
<1>2. Unshared'
  BY <1>1, CommitUserKeeps DEF AuditAdd, At, UserPcs
<1>3. Sole'
  <2>1. \A q \in Requests : At(q, "audit_add") => U(q) \in UserIds
    BY AtFacts DEF RInv, At, UserPcs, Fits, UserFits, U
  <2> QED BY <1>1, <2>1, IdleFacts DEF AuditAdd, RInv, Sole, At, U
<1> QED BY <1>2, <1>3

LEMMA RemovedMembers ==
    ASSUME RInv, NEW p \in Requests, AuditRemove(p)
    PROVE  /\ Removed(p) \in [UserIds -> MemberRows \cup {NoMember}]
           /\ U(p) \in UserIds
           /\ \A u \in UserIds \ {U(p)} : Removed(p)[u] = member[u]
           /\ Removed(p)[U(p)] \in {member[U(p)], NoMember}
<1>1. U(p) \in UserIds
  BY AtFacts DEF RInv, AuditRemove, At, Fits, Shaped, U
<1> QED BY <1>1 DEF Removed, RInv, IInv, TypeOK

\* A commit that only takes memberships away.
LEMMA FewerMembersKeep ==
    ASSUME RInv, NEW p \in Requests, user' = user,
           NEW m \in [UserIds -> MemberRows \cup {NoMember}], CommitMembers(p, m),
           \A u \in UserIds : m[u] \in {member[u], NoMember}
    PROVE  Unshared' /\ Sole'
<1>1. /\ req'[p] = Idle /\ member' = m
      /\ \A q \in Requests \ {p} :
            req'[q].pc = req[q].pc /\ req'[q].uid = req[q].uid
            /\ req'[q].newUser = req[q].newUser
  BY OthersKept
<1>2. \A q \in Requests : At(q, "audit_add") => U(q) \in UserIds
  BY AtFacts DEF RInv, At, UserPcs, Fits, UserFits, U
<1> QED BY <1>1, <1>2, IdleFacts DEF RInv, Unshared, Sole, At, U

LEMMA AuditRemoveKeeps ==
    ASSUME RInv, NEW p \in Requests, AuditRemove(p)
    PROVE  Unshared' /\ Sole'
BY RemovedMembers, FewerMembersKeep DEF AuditRemove

LEMMA CascadeKeeps ==
    ASSUME RInv, NEW p \in Requests, Cascade(p)
    PROVE  Unshared' /\ Sole'
<1> DEFINE m == [u \in UserIds |-> NoMember]
<1>1. m \in [UserIds -> MemberRows \cup {NoMember}] /\ \A u \in UserIds : m[u] = NoMember
  OBVIOUS
<1>2. user' = user /\ CommitMembers(p, m)
  BY DEF Cascade
<1> HIDE DEF m
<1> QED BY <1>1, <1>2, FewerMembersKeep

LEMMA StepKeeps ==
    ASSUME RInv, NEW p \in Requests, Step(p)
    PROVE  Unshared' /\ Sole'
<1>1. CASE CheckRole(p)
  <2>1. req[p].op \in MemberOps
    BY <1>1, AtFacts DEF RInv, CheckRole, At, Fits, Shaped
  <2>2. FirstPc(req[p].op) \in Pcs \ {"audit_add"}
    BY <2>1 DEF FirstPc, MemberOps, Pcs
  <2> QED BY <1>1, <2>2, ProceedKeeps, AbortKeeps DEF CheckRole
<1>2. CASE DeleteMember(p)
  BY <1>2, ProceedKeeps DEF DeleteMember, Pcs
<1>3. CASE GetTenant(p)
  BY <1>3, ProceedKeeps, AbortKeeps DEF GetTenant, Pcs
<1>4. CASE SetDeleting(p)
  BY <1>4, ProceedKeeps, AbortKeeps DEF SetDeleting, Pcs
<1>5. CASE UpdateName(p)
  <2>1. /\ UNCHANGED <<user, member>> /\ req'[p] = Idle
        /\ \A q \in Requests \ {p} : req'[q] = req[q]
    BY <1>5 DEF UpdateName, RInv, IInv, TypeOK
  <2> QED BY <2>1, IdleFacts, NothingInserted DEF RInv
<1>6. CASE Fail(p)
  BY <1>6, AbortKeeps DEF Fail
<1>7. CASE DeleteTenantRow(p)
  BY <1>7, ProceedKeeps DEF DeleteTenantRow, Pcs
<1> QED BY <1>1, <1>2, <1>3, <1>4, <1>5, <1>6, <1>7, SelectUserKeeps, InsertUserKeeps,
           GrantKeeps, InsertMemberKeeps, AuditAddKeeps, SelectMemberKeeps, AuditRemoveKeeps,
           CascadeKeeps DEF Step

\* A handler begins with nothing inserted.
LEMMA HandlerKeeps ==
    ASSUME RInv, NEW p \in Requests, Handler(p)
    PROVE  /\ UNCHANGED <<user, tenant, member>>
           /\ \A q \in Requests :
                 /\ req'[q].newUser => req[q].newUser /\ req'[q].uid = req[q].uid
                 /\ req'[q].pc = "audit_add" =>
                       req[q].pc = "audit_add" /\ req'[q].uid = req[q].uid
<1> DEFINE Fresh(r) == ~r.newUser /\ r.pc # "audit_add"
<1>1. ASSUME UNCHANGED <<user, tenant, member>>,
             NEW r, Fresh(r), req' = [req EXCEPT ![p] = r] \/ req' = req
      PROVE  /\ UNCHANGED <<user, tenant, member>>
             /\ \A q \in Requests :
                   /\ req'[q].newUser => req[q].newUser /\ req'[q].uid = req[q].uid
                   /\ req'[q].pc = "audit_add" =>
                         req[q].pc = "audit_add" /\ req'[q].uid = req[q].uid
  BY <1>1 DEF RInv, IInv, TypeOK
<1>2. ASSUME NEW k \in Tokens, Verify(p, k)
      PROVE  UNCHANGED <<user, tenant, member>> /\ Fresh(VerifyBegun(k))
             /\ (req' = [req EXCEPT ![p] = VerifyBegun(k)] \/ req' = req)
  BY <1>2 DEF Verify, VerifyBegun, Idle
<1>3. ASSUME NEW r \in RequestRecords, ~r.newUser, Begin(p, r)
      PROVE  \E s : /\ UNCHANGED <<user, tenant, member>> /\ Fresh(s)
                    /\ req' = [req EXCEPT ![p] = s]
  <2> DEFINE b == IsAdmin(r.actor)
             s == [r EXCEPT !.pc = "check_role", !.entitled = b]
  <2> HIDE DEF b
  <2>1. s.pc = "check_role" /\ s.newUser = r.newUser
    BY DEF RequestRecords
  <2>2. UNCHANGED <<user, tenant, member>> /\ req' = [req EXCEPT ![p] = s]
    BY <1>3 DEF Begin, Goto, b
  <2> QED BY <1>3, <2>1, <2>2
<1>4. ASSUME NEW s \in sessions PROVE s.user \in UserIds
  BY DEF RInv, IInv, TypeOK, Sessions
<1>5. ASSUME NEW s \in sessions,
             \/ \E e \in Emails, role \in Roles : AddMember(p, s, e, role)
             \/ \E u \in UserIds : RemoveMember(p, s, u)
             \/ \E n \in Names : UpdateTenant(p, s, n)
             \/ DeleteTenant(p, s)
      PROVE  \E r \in RequestRecords : ~r.newUser /\ Begin(p, r)
  <2>1. ASSUME NEW e \in Emails, NEW role \in Roles, AddMember(p, s, e, role)
        PROVE  \E r \in RequestRecords : ~r.newUser /\ Begin(p, r)
    <3> DEFINE r == [Idle EXCEPT !.op = "add", !.actor = s.user, !.email = e, !.role = role]
    <3>1. r \in RequestRecords /\ ~r.newUser
      BY <1>4 DEF Idle, RequestRecords, MemberOps, Pcs
    <3>2. Begin(p, r)
      BY <2>1 DEF AddMember
    <3> QED BY <3>1, <3>2
  <2>2. ASSUME NEW u \in UserIds, RemoveMember(p, s, u)
        PROVE  \E r \in RequestRecords : ~r.newUser /\ Begin(p, r)
    <3> DEFINE r == [Idle EXCEPT !.op = "remove", !.actor = s.user, !.uid = u]
    <3>1. r \in RequestRecords /\ ~r.newUser
      BY <1>4 DEF Idle, RequestRecords, MemberOps, Pcs
    <3>2. Begin(p, r)
      BY <2>2 DEF RemoveMember
    <3> QED BY <3>1, <3>2
  <2>3. ASSUME NEW n \in Names, UpdateTenant(p, s, n)
        PROVE  \E r \in RequestRecords : ~r.newUser /\ Begin(p, r)
    <3> DEFINE r == [Idle EXCEPT !.op = "update", !.actor = s.user, !.name = n]
    <3>1. r \in RequestRecords /\ ~r.newUser
      BY <1>4 DEF Idle, RequestRecords, MemberOps, Pcs
    <3>2. Begin(p, r)
      BY <2>3 DEF UpdateTenant
    <3> QED BY <3>1, <3>2
  <2>4. ASSUME DeleteTenant(p, s)
        PROVE  \E r \in RequestRecords : ~r.newUser /\ Begin(p, r)
    <3> DEFINE r == [Idle EXCEPT !.op = "delete", !.actor = s.user]
    <3>1. r \in RequestRecords /\ ~r.newUser
      BY <1>4 DEF Idle, RequestRecords, MemberOps, Pcs
    <3>2. Begin(p, r)
      BY <2>4 DEF DeleteTenant
    <3> QED BY <3>1, <3>2
  <2> QED BY <1>5, <2>1, <2>2, <2>3, <2>4
<1> HIDE DEF Fresh
<1>6. ASSUME NEW k \in Tokens, Verify(p, k)
      PROVE  /\ UNCHANGED <<user, tenant, member>>
             /\ \A q \in Requests :
                   /\ req'[q].newUser => req[q].newUser /\ req'[q].uid = req[q].uid
                   /\ req'[q].pc = "audit_add" =>
                         req[q].pc = "audit_add" /\ req'[q].uid = req[q].uid
  BY <1>1, <1>2, <1>6
<1> QED BY <1>1, <1>3, <1>5, <1>6 DEF Handler

LEMMA NextKeeps == RInv /\ [Next]_vars => RInv'
<1> SUFFICES ASSUME RInv, [Next]_vars PROVE RInv'
  OBVIOUS
<1>1. IInv'
  BY NextInv DEF RInv
<1>2. ASSUME NEW p \in Requests, Handler(p) PROVE Unshared' /\ Sole'
  BY <1>2, HandlerKeeps, NothingInserted DEF RInv
<1>3. ASSUME UNCHANGED <<user, member, req>> PROVE Unshared' /\ Sole'
  BY <1>3, NothingInserted DEF RInv
<1>4. ASSUME Restart PROVE Unshared' /\ Sole'
  <2>1. UNCHANGED <<user, member>> /\ \A p \in Requests : req'[p] = Idle
    BY <1>4 DEF Restart
  <2> QED BY <2>1, IdleFacts, NothingInserted DEF RInv
<1>5. CASE UNCHANGED vars
  <2>1. UNCHANGED <<user, member, req>>
    BY <1>5 DEF vars
  <2> QED BY <1>1, <1>3, <2>1 DEF RInv
<1>6. ASSUME NEW k \in Tokens, Expire(k) \/ \E e \in Emails : Login(k, e)
      PROVE  Unshared' /\ Sole'
  BY <1>3, <1>6 DEF Expire, Login
<1> QED BY <1>1, <1>2, <1>4, <1>5, <1>6, StepKeeps DEF Next, RInv

LEMMA InitKeeps == Init => Unshared /\ Sole
<1> SUFFICES ASSUME Init, NEW p \in Requests PROVE ~req[p].newUser /\ ~At(p, "audit_add")
  BY DEF Unshared, Sole
<1> QED BY IdleFacts DEF Init, At

LEMMA RosterInvariance == Spec => []RInv
<1>1. Init => RInv
  BY InitInv, InitKeeps DEF RInv
<1> QED BY <1>1, NextKeeps, PTL DEF Spec

-----------------------------------------------------------------------------
(* The audit log accounts for the members.  The bound moves with the membership, which *)
(* only a commit of an addition brings about and only where there is none.             *)

LEMMA AuditAddLogged ==
    ASSUME RInv, NoUnloggedRemoval, NEW p \in Requests, AuditAdd(p)
    PROVE  NoUnloggedRemoval'
<1>1. /\ member[U(p)] = NoMember /\ tenant' = tenant /\ U(p) \in UserIds
      /\ audit' = [audit EXCEPT ![U(p)] = @ + 1] /\ audit \in [UserIds -> Int]
  BY AddedMembers DEF RInv, IInv, TypeOK, Sole, AuditAdd
<1>2. /\ member'[U(p)] \in MemberRows
      /\ \A u \in UserIds \ {U(p)} : member'[u] = member[u]
  BY AddedMembers, OthersKept
<1>3. member'[U(p)] # NoMember
  BY <1>2, NoneAssumption DEF MemberRows, NoMember
<1> QED BY <1>1, <1>2, <1>3 DEF NoUnloggedRemoval

LEMMA AuditRemoveLogged ==
    ASSUME RInv, NoUnloggedRemoval, NEW p \in Requests, AuditRemove(p)
    PROVE  NoUnloggedRemoval'
<1>1. /\ member' = Removed(p) /\ tenant' = tenant
      /\ audit' = [audit EXCEPT ![U(p)] = IF @ > -MaxSurplus THEN @ - 1 ELSE @]
      /\ audit \in [UserIds -> Int]
  BY RemovedMembers, OthersKept DEF RInv, IInv, TypeOK, AuditRemove
<1>2. /\ U(p) \in UserIds /\ \A u \in UserIds \ {U(p)} : member'[u] = member[u]
      /\ member'[U(p)] \in {member[U(p)], NoMember}
  BY <1>1, RemovedMembers
<1> QED BY <1>1, <1>2, SurplusAssumption DEF NoUnloggedRemoval

LEMMA LoggedStep == RInv /\ NoUnloggedRemoval /\ [Next]_vars => NoUnloggedRemoval'
<1> SUFFICES ASSUME RInv, NoUnloggedRemoval, [Next]_vars PROVE NoUnloggedRemoval'
  OBVIOUS
<1>1. ASSUME UNCHANGED <<member, audit>>, (tenant' = None) = (tenant = None)
      PROVE  NoUnloggedRemoval'
  BY <1>1 DEF NoUnloggedRemoval
<1>2. ASSUME NEW p \in Requests, Step(p) PROVE NoUnloggedRemoval'
  <2>1. CASE UNCHANGED <<tenant, member, audit>>
    BY <1>1, <2>1
  <2>2. CASE UpdateName(p)
    <3>1. req[p].name # None
      BY <2>2, AtFacts, NoneAssumption DEF RInv, UpdateName, At, Fits, Shaped
    <3> QED BY <1>1, <2>2, <3>1 DEF UpdateName
  <2>3. CASE Cascade(p)
    BY <2>3 DEF Cascade, NoUnloggedRemoval
  <2>4. \/ UNCHANGED <<tenant, member, audit>> \/ UpdateName(p) \/ AuditAdd(p)
        \/ AuditRemove(p) \/ Cascade(p)
    BY <1>2 DEF Step, SelectUser, InsertUser, Grant, CheckRole, InsertMember, SelectMember,
                DeleteMember, GetTenant, SetDeleting, DeleteTenantRow, Fail, Abort, Proceed, Goto
  <2> QED BY <2>1, <2>2, <2>3, <2>4, AuditAddLogged, AuditRemoveLogged
<1>3. ASSUME NEW p \in Requests, Handler(p) PROVE UNCHANGED <<tenant, member, audit>>
  BY <1>3 DEF Handler, Verify, AddMember, RemoveMember, UpdateTenant, DeleteTenant, Begin, Goto
<1>4. ASSUME \/ Restart \/ UNCHANGED vars
             \/ \E k \in Tokens : Expire(k) \/ \E e \in Emails : Login(k, e)
      PROVE  UNCHANGED <<tenant, member, audit>>
  BY <1>4 DEF Restart, vars, Expire, Login
<1> QED BY <1>1, <1>2, <1>3, <1>4 DEF Next

\* In the audit log a user's additions never outnumber the removals by more than the
\* present membership, so that no removal has gone unrecorded.
THEOREM RemovalsLogged == Spec => []NoUnloggedRemoval
<1>1. Init => NoUnloggedRemoval
  BY DEF Init, NoUnloggedRemoval
<1> QED BY <1>1, LoggedStep, RosterInvariance, PTL DEF Spec

-----------------------------------------------------------------------------

\* The tables as Roster sees them.
RegistryIs == {[email |-> e, user |-> user[e]] : e \in {f \in Emails : user[f] # None}}
RosterIs == {[user |-> u, role |-> member[u].role] :
                u \in {v \in UserIds : member[v] # NoMember}}

\* Steps of which Roster sees nothing.
LEMMA RosterUnmoved ==
    ASSUME UNCHANGED <<user, member>>, (tenant' = None) = (tenant = None)
    PROVE  UNCHANGED Ros!vars
BY DEF Ros!vars

\* What committing the user in hand does to the registry.
LEMMA Registered ==
    ASSUME RInv, NEW p \in Requests, req[p].pc \in UserPcs, CommitUser(p)
    PROVE  LET a == [email |-> req[p].email, user |-> U(p)]
           IN  /\ a \in Ros!Accounts
               /\ RegistryIs' = RegistryIs \cup {a}
               /\ a \in RegistryIs \/ Ros!Unclaimed(a)
               /\ ~req[p].newUser => user' = user
<1> DEFINE a == [email |-> req[p].email, user |-> U(p)]
<1>1. /\ U(p) \in UserIds /\ req[p].email \in Emails
      /\ req[p].newUser => user[req[p].email] = None
      /\ ~req[p].newUser => user[req[p].email] = U(p)
      /\ user \in [Emails -> UserIds \cup {None}]
  BY AtFacts DEF RInv, Fits, Shaped, UserFits, UserPcs, U, TypeOK
<1>2. U(p) # None
  BY <1>1, NoneAssumption
<1>3. CASE req[p].newUser
  <2>1. /\ user'[req[p].email] = U(p)
        /\ \A e \in Emails \ {req[p].email} : user'[e] = user[e]
    BY <1>1, <1>3 DEF CommitUser
  <2>2. RegistryIs' = RegistryIs \cup {a}
    BY <1>1, <1>2, <1>3, <2>1 DEF RegistryIs
  <2>3. \A e \in Emails : user[e] # U(p)
    BY <1>3 DEF RInv, Unshared
  <2>4. Ros!Unclaimed(a)
    BY <1>1, <1>3, <2>3 DEF Ros!Unclaimed
  <2> QED BY <1>1, <1>3, <2>2, <2>4 DEF Ros!Accounts
<1>4. CASE ~req[p].newUser
  <2>1. user' = user
    BY <1>4 DEF CommitUser
  <2>2. a \in RegistryIs
    BY <1>1, <1>2, <1>4 DEF RegistryIs
  <2>3. RegistryIs' = RegistryIs
    BY <2>1 DEF RegistryIs
  <2> QED BY <1>1, <2>1, <2>2, <2>3 DEF Ros!Accounts
<1> QED BY <1>3, <1>4

LEMMA GrantRoster ==
    ASSUME RInv, NEW p \in Requests, Grant(p)
    PROVE  [Ros!Next]_Ros!vars
<1> DEFINE a == [email |-> req[p].email, user |-> U(p)]
<1>1. req[p].pc \in UserPcs /\ CommitUser(p) /\ UNCHANGED <<tenant, member>>
  BY DEF Grant, At, UserPcs
<1>2. /\ a \in Ros!Accounts /\ RegistryIs' = RegistryIs \cup {a}
      /\ a \in RegistryIs \/ Ros!Unclaimed(a)
  BY <1>1, Registered
<1>3. RosterIs' = RosterIs
  BY <1>1 DEF RosterIs
<1>4. CASE a \in RegistryIs
  <2>1. RegistryIs' = RegistryIs
    BY <1>2, <1>4
  <2> QED BY <1>1, <1>3, <2>1 DEF Ros!vars, RegistryIs, RosterIs
<1>5. CASE Ros!Unclaimed(a)
  <2> HIDE DEF a
  <2> QED BY <1>1, <1>2, <1>3, <1>5 DEF Ros!Next, Ros!Register, RegistryIs, RosterIs
<1> QED BY <1>2, <1>4, <1>5

LEMMA AuditAddRoster ==
    ASSUME RInv, NEW p \in Requests, AuditAdd(p)
    PROVE  [Ros!Next]_Ros!vars
<1> DEFINE a == [email |-> req[p].email, user |-> U(p)]
           role == req[p].row.role
<1>1. /\ req[p].pc \in UserPcs /\ CommitUser(p) /\ tenant' = tenant /\ tenant # None
  BY AtFacts DEF RInv, AuditAdd, At, UserPcs, Fits, TenantFits
<1>2. /\ a \in Ros!Accounts /\ RegistryIs' = RegistryIs \cup {a}
      /\ a \in RegistryIs \/ Ros!Unclaimed(a)
  BY <1>1, Registered
<1>3. /\ U(p) \in UserIds /\ req[p].row \in MemberRows /\ member'[U(p)] = req[p].row
      /\ \A u \in UserIds \ {U(p)} : member'[u] = member[u]
  BY AddedMembers, OthersKept
<1>4. role \in Roles /\ req[p].row # NoMember
  BY <1>3, NoneAssumption DEF MemberRows, NoMember
<1>5. member[U(p)] = NoMember
  BY DEF RInv, Sole, AuditAdd
<1>6. RosterIs' = RosterIs \cup {[user |-> U(p), role |-> role]}
  BY <1>3, <1>4, <1>5 DEF RosterIs
<1>7. \A m \in RosterIs : m.user # U(p)
  BY <1>5 DEF RosterIs
<1>8. a.user = U(p)
  OBVIOUS
<1> HIDE DEF a, role
<1> QED BY <1>1, <1>2, <1>4, <1>6, <1>7, <1>8
        DEF Ros!Next, Ros!Admit, RegistryIs, RosterIs

LEMMA AuditRemoveRoster ==
    ASSUME RInv, NEW p \in Requests, AuditRemove(p)
    PROVE  [Ros!Next]_Ros!vars
<1>1. /\ member' = Removed(p) /\ UNCHANGED <<user, tenant>>
  BY RemovedMembers, OthersKept DEF AuditRemove
<1>2. /\ U(p) \in UserIds /\ \A u \in UserIds \ {U(p)} : member'[u] = member[u]
      /\ member'[U(p)] \in {member[U(p)], NoMember}
      /\ member \in [UserIds -> MemberRows \cup {NoMember}]
      /\ member' \in [UserIds -> MemberRows \cup {NoMember}]
  BY <1>1, RemovedMembers DEF RInv, IInv, TypeOK
<1>3. CASE member'[U(p)] = member[U(p)]
  <2>1. member' = member
    BY <1>2, <1>3
  <2> QED BY <1>1, <2>1, RosterUnmoved
<1>4. CASE member'[U(p)] = NoMember /\ member[U(p)] # NoMember
  <2> DEFINE m == [user |-> U(p), role |-> member[U(p)].role]
  <2>1. m \in Ros!Places
    BY <1>2, <1>4 DEF MemberRows, Ros!Places
  <2>2. m \in RosterIs /\ RosterIs' = RosterIs \ {m}
    BY <1>2, <1>4 DEF RosterIs
  <2> HIDE DEF m
  <2> QED BY <1>1, <2>1, <2>2 DEF Ros!Next, Ros!Dismiss, RosterIs
<1> QED BY <1>2, <1>3, <1>4

LEMMA CascadeRoster ==
    ASSUME RInv, NEW p \in Requests, Cascade(p)
    PROVE  [Ros!Next]_Ros!vars
<1>1. /\ user' = user /\ tenant' = None /\ member' = [u \in UserIds |-> NoMember]
  BY DEF Cascade, CommitMembers
<1>2. CASE tenant = None
  <2>1. member = [u \in UserIds |-> NoMember]
    BY <1>2 DEF RInv, IInv, TypeOK, NoOrphanMembers
  <2> QED BY <1>1, <1>2, <2>1, RosterUnmoved
<1>3. CASE tenant # None
  <2>1. RosterIs' = {}
    BY <1>1 DEF RosterIs
  <2> QED BY <1>1, <1>3, <2>1 DEF Ros!Next, Ros!Close, RosterIs
<1> QED BY <1>2, <1>3

LEMMA RosterStep == RInv /\ [Next]_vars => [Ros!Next]_Ros!vars
<1> SUFFICES ASSUME RInv, [Next]_vars PROVE [Ros!Next]_Ros!vars
  OBVIOUS
<1>1. ASSUME NEW p \in Requests, Step(p) PROVE [Ros!Next]_Ros!vars
  <2>1. CASE UNCHANGED <<user, tenant, member>>
    BY <2>1, RosterUnmoved
  <2>2. CASE UpdateName(p)
    <3>1. req[p].name # None
      BY <2>2, AtFacts, NoneAssumption DEF RInv, UpdateName, At, Fits, Shaped
    <3>2. UNCHANGED <<user, member>> /\ (tenant' = None) = (tenant = None)
      BY <2>2, <3>1 DEF UpdateName
    <3> QED BY <3>2, RosterUnmoved
  <2>3. \/ UNCHANGED <<user, tenant, member>> \/ UpdateName(p) \/ Grant(p) \/ AuditAdd(p)
        \/ AuditRemove(p) \/ Cascade(p)
    BY <1>1 DEF Step, SelectUser, InsertUser, CheckRole, InsertMember, SelectMember,
                DeleteMember, GetTenant, SetDeleting, DeleteTenantRow, Fail, Abort, Proceed, Goto
  <2> QED BY <2>1, <2>2, <2>3, GrantRoster, AuditAddRoster, AuditRemoveRoster,
             CascadeRoster
<1>2. ASSUME NEW p \in Requests, Handler(p) PROVE [Ros!Next]_Ros!vars
  BY <1>2, HandlerKeeps, RosterUnmoved
<1>3. ASSUME UNCHANGED <<user, tenant, member>> PROVE [Ros!Next]_Ros!vars
  BY <1>3, RosterUnmoved
<1>4. ASSUME \/ Restart \/ UNCHANGED vars
             \/ \E k \in Tokens : Expire(k) \/ \E e \in Emails : Login(k, e)
      PROVE  UNCHANGED <<user, tenant, member>>
  BY <1>4 DEF Restart, vars, Expire, Login
<1> QED BY <1>1, <1>2, <1>3, <1>4 DEF Next

LEMMA RosterInit == Init => Ros!Init
<1> SUFFICES ASSUME Init PROVE Ros!Init
  OBVIOUS
<1>1. PICK u \in UserIds, i \in RowIds, n \in Names :
        /\ user = [e \in Emails |-> IF e = Creator THEN u ELSE None]
        /\ tenant = n
        /\ member = [v \in UserIds |->
                       IF v = u THEN [id |-> i, role |-> "tenant_admin"] ELSE NoMember]
  BY DEF Init
<1>2. RegistryIs = {[email |-> Creator, user |-> u]}
  BY <1>1, CreatorAssumption, NoneAssumption DEF RegistryIs
<1>3. RosterIs = {[user |-> u, role |-> "tenant_admin"]}
  BY <1>1, NoneAssumption DEF RosterIs, NoMember
<1>4. tenant # None
  BY <1>1, NoneAssumption
<1> QED BY <1>2, <1>3, <1>4 DEF Ros!Init, RegistryIs, RosterIs

\* The tables are a roster: every step is one of Roster or changes nothing of it.
THEOREM KeepsRoster == Spec => ImplementsRoster
BY RosterInit, RosterStep, RosterInvariance, PTL DEF Spec, ImplementsRoster, Ros!Spec

\* By the abstract specification alone: one account and one address, one role, no member
\* without an account and none in a deleted tenant.
THEOREM RosterOrderly == Spec => []Ros!Orderly
<1>1. Ros!Init => Ros!Orderly
  <2> SUFFICES ASSUME NEW u \in UserIds, tenant # None,
                      RegistryIs = {[email |-> Creator, user |-> u]},
                      RosterIs = {[user |-> u, role |-> "tenant_admin"]}
               PROVE  Ros!Orderly
    BY DEF Ros!Init, RegistryIs, RosterIs
  <2>1. RegistryIs \subseteq Ros!Accounts /\ RosterIs \subseteq Ros!Places
    BY CreatorAssumption, RolesAssumption DEF Ros!Accounts, Ros!Places
  <2>2. /\ \A a, b \in RegistryIs : a = b
        /\ \A m, n \in RosterIs : m = n
        /\ \A m \in RosterIs : \E a \in RegistryIs : a.user = m.user
    OBVIOUS
  <2> QED BY <2>1, <2>2 DEF Ros!Orderly, RegistryIs, RosterIs
<1>2. Ros!Orderly /\ [Ros!Next]_Ros!vars => Ros!Orderly'
  <2> SUFFICES ASSUME Ros!Orderly, [Ros!Next]_Ros!vars PROVE Ros!Orderly'
    OBVIOUS
  <2>1. CASE UNCHANGED Ros!vars
    BY <2>1 DEF Ros!Orderly, Ros!vars
  <2>2. ASSUME NEW a \in Ros!Accounts, Ros!Register(a) PROVE Ros!Orderly'
    BY <2>2 DEF Ros!Orderly, Ros!Register, Ros!Unclaimed
  <2>3. ASSUME NEW a \in Ros!Accounts, NEW role \in Roles, Ros!Admit(a, role)
        PROVE  Ros!Orderly'
    BY <2>3 DEF Ros!Orderly, Ros!Admit, Ros!Unclaimed, Ros!Accounts, Ros!Places
  <2>4. ASSUME NEW m \in Ros!Places, Ros!Dismiss(m) PROVE Ros!Orderly'
    BY <2>4 DEF Ros!Orderly, Ros!Dismiss
  <2>5. CASE Ros!Close
    BY <2>5 DEF Ros!Orderly, Ros!Close
  <2> QED BY <2>1, <2>2, <2>3, <2>4, <2>5 DEF Ros!Next
<1> QED BY <1>1, <1>2, KeepsRoster, PTL DEF ImplementsRoster, Ros!Spec

\* By it too: accounts are for good, roles of members do not change, and a deleted tenant
\* admits nobody.
THEOREM RosterSteady == Spec => Ros!Steady
<1>1. Ros!Orderly /\ [Ros!Next]_Ros!vars =>
        [/\ RegistryIs \subseteq RegistryIs'
         /\ \A m \in RosterIs, n \in RosterIs' : m.user = n.user => m = n
         /\ ~(tenant # None) => ~(tenant # None)' /\ RosterIs' = {}]_Ros!vars
  BY DEF Ros!Orderly, Ros!Next, Ros!Register, Ros!Admit, Ros!Dismiss, Ros!Close, Ros!vars,
         RegistryIs, RosterIs
<1> QED BY <1>1, KeepsRoster, RosterOrderly, PTL
        DEF ImplementsRoster, Ros!Spec, Ros!Steady, RegistryIs, RosterIs

=============================================================================
