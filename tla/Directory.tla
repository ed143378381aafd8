----------------------------- MODULE Directory -----------------------------
(***************************************************************************)
(* What OCTW promises of its tenant directory, the relation between slugs  *)
(* and tenants by which the edge routes and the owner deletes: a slug is   *)
(* listed for one tenant at a time, a tenant is listed once in its life,   *)
(* and the entry does not change while it is listed.  Provisioning         *)
(* implements it over the tenants table.                                   *)
(***************************************************************************)
CONSTANTS
    Slugs,       \* slugs that somebody may ask for
    Tenants      \* tenants that there may ever be

VARIABLES
    listed,      \* the entries: a set of [slug, tenant] records
    known        \* the tenants that are or have been listed

vars == <<listed, known>>

Entries == [slug : Slugs, tenant : Tenants]

\* A tenant that was never listed takes a free slug.
Publish(e) ==
    /\ e.tenant \notin known
    /\ \A f \in listed : f.slug # e.slug
    /\ listed' = listed \cup {e}
    /\ known' = known \cup {e.tenant}

\* A tenant leaves and frees its slug.
Withdraw(e) ==
    /\ e \in listed
    /\ listed' = listed \ {e}
    /\ UNCHANGED known

Next == \E e \in Entries : Publish(e) \/ Withdraw(e)

Init == listed = {} /\ known = {}

Spec == Init /\ [][Next]_vars

-----------------------------------------------------------------------------
(* Properties. *)

\* The directory is a one-to-one function of the listed slugs, and every listed
\* tenant is known.
OneToOne ==
    /\ listed \subseteq Entries
    /\ \A e \in listed : e.tenant \in known
    /\ \A e, f \in listed : e.slug = f.slug \/ e.tenant = f.tenant => e = f

=============================================================================
