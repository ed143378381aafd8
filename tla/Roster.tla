------------------------------- MODULE Roster -------------------------------
(***************************************************************************)
(* What OCTW promises of the people of a tenant: an address has one        *)
(* account for good; whoever is on the roster has an account and one role, *)
(* which changes only by leaving and being admitted again; and nobody is   *)
(* admitted once the tenant has closed.  Access implements it over the     *)
(* users, tenants and memberships tables.                                  *)
(***************************************************************************)
CONSTANTS
    Emails,      \* addresses
    UserIds,     \* accounts that there may ever be
    Roles,       \* roles that members are given
    Creator      \* the address of the tenant's creator

VARIABLES
    registry,    \* the accounts: a set of [email, user] records
    roster,      \* the members: a set of [user, role] records
    open         \* whether the tenant still exists

vars == <<registry, roster, open>>

Accounts == [email : Emails, user : UserIds]
Places == [user : UserIds, role : Roles]

\* Nobody else has the address or the id of account a.
Unclaimed(a) == \A b \in registry : b.email # a.email /\ b.user # a.user

Register(a) ==
    /\ Unclaimed(a)
    /\ registry' = registry \cup {a}
    /\ UNCHANGED <<roster, open>>

\* The holder of an account, which an invitation may have made for them, takes a place.
Admit(a, role) ==
    /\ open
    /\ a \in registry \/ Unclaimed(a)
    /\ \A m \in roster : m.user # a.user
    /\ registry' = registry \cup {a}
    /\ roster' = roster \cup {[user |-> a.user, role |-> role]}
    /\ UNCHANGED open

Dismiss(m) ==
    /\ m \in roster
    /\ roster' = roster \ {m}
    /\ UNCHANGED <<registry, open>>

\* The tenant is deleted, and all its places with it.
Close ==
    /\ open /\ ~open'
    /\ roster' = {}
    /\ UNCHANGED registry

Next ==
    \/ \E a \in Accounts : Register(a) \/ \E role \in Roles : Admit(a, role)
    \/ \E m \in Places : Dismiss(m)
    \/ Close

Init ==
    \E u \in UserIds :
        /\ registry = {[email |-> Creator, user |-> u]}
        /\ roster = {[user |-> u, role |-> "tenant_admin"]}
        /\ open

Spec == Init /\ [][Next]_vars

-----------------------------------------------------------------------------
(* Properties. *)

\* Addresses and accounts are one to one, every member has an account and one role, and a
\* closed tenant has no members.
Orderly ==
    /\ registry \subseteq Accounts /\ roster \subseteq Places /\ open \in BOOLEAN
    /\ \A a, b \in registry : a.email = b.email \/ a.user = b.user => a = b
    /\ \A m, n \in roster : m.user = n.user => m = n
    /\ \A m \in roster : \E a \in registry : a.user = m.user
    /\ ~open => roster = {}

\* An account is never withdrawn nor handed to somebody else, nobody's role is changed
\* while they are a member, and a closed tenant neither opens again nor admits anybody.
Steady ==
    [][/\ registry \subseteq registry'
       /\ \A m \in roster, n \in roster' : m.user = n.user => m = n
       /\ ~open => ~open' /\ roster' = {}]_vars

=============================================================================
