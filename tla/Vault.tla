-------------------------------- MODULE Vault --------------------------------
(***************************************************************************)
(* The secrets of one tenant: VaultService (vault/service.py) as the       *)
(* routes of secrets_router.py, `octw secret set` and start_tenant call    *)
(* it.  Envelope encryption: a secret's value is sealed under the tenant's *)
(* data key (DEK), which the first call that needs it makes.               *)
(*                                                                         *)
(* A request is one handler with its session; its pc names the SQL         *)
(* statement it is about to await, and one step is one statement.  Each    *)
(* request is one PostgreSQL transaction (READ COMMITTED): the last write  *)
(* is one step with the commit that follows it.  API requests and CLI      *)
(* processes interleave alike, for every step is an await.                 *)
(***************************************************************************)
EXTENDS Integers

CONSTANTS
    Requests,    \* request slots, of the API process and of CLI processes
    Names,       \* secret names
    EnvVars,     \* values of target_env_var
    Keys,        \* data keys os.urandom may return
    RowIds,      \* values of secret_id
    Faulty,      \* requests in which any call may raise, or that may be killed
    None         \* Python's None

ASSUME NoneAssumption == None \notin Names \cup Keys \cup RowIds
ASSUME FaultyAssumption == Faulty \subseteq Requests

VARIABLES
    tenant,      \* whether the tenants table holds the tenant's row
    dek,         \* the key in the tenant's committed tenant_deks row, or None
    secret,      \* secret[n]: the committed secrets row of name n
    req          \* req[p]: the progress of request p

vars == <<tenant, dek, secret, req>>

Types == {"env", "secretref"}
\* key: the DEK the value is sealed under; the ciphertext and its nonce are both
\* random and always written together.
SecretRows == [id : RowIds, key : Keys, type : Types, target : EnvVars \cup {None}]
NoSecret == [id |-> None, key |-> None, type |-> "env", target |-> None]

Pcs == {"get_dek", "insert_dek", "select", "write", "select_all", "commit",
        "select_deleted", "delete"}

\* key: the DEK in hand; newDek: its row is inserted and not committed; held: the
\* secrets row the SELECT returned.
RequestRecords ==
    [op : {"none", "set", "rotate", "delete", "read"}, name : Names \cup {None},
     type : Types, target : EnvVars \cup {None}, pc : Pcs \cup {"idle"},
     key : Keys \cup {None}, newDek : BOOLEAN, held : SecretRows \cup {NoSecret},
     result : {"none", "ok", "error"}]
Begun(op, n, type, target, pc) ==
    [op |-> op, name |-> n, type |-> type, target |-> target, pc |-> pc,
     key |-> None, newDek |-> FALSE, held |-> NoSecret, result |-> "none"]
Idle(result) ==
    [op |-> "none", name |-> None, type |-> "env", target |-> None, pc |-> "idle",
     key |-> None, newDek |-> FALSE, held |-> NoSecret, result |-> result]

Active(p) == req[p].pc # "idle"
At(p, pc) == req[p].pc = pc
N(p) == req[p].name

\* Random keys and ids never come twice.
FreshKeys == Keys \ ({dek} \cup {req[p].key : p \in Requests}
                     \cup {secret[n].key : n \in Names})
FreshIds == RowIds \ ({secret[n].id : n \in Names}
                      \cup {req[p].held.id : p \in Requests})

-----------------------------------------------------------------------------
(* The handlers begin. *)

Begin(p, r) ==
    /\ ~Active(p)
    /\ req' = [req EXCEPT ![p] = r]
    /\ UNCHANGED <<tenant, dek, secret>>

SetSecret(p, n, type, target) == Begin(p, Begun("set", n, type, target, "get_dek"))

\* rotate_secret passes neither a type nor a target: store_secret's defaults.
RotateSecret(p, n) == Begin(p, Begun("rotate", n, "env", None, "get_dek"))

\* get_decrypted_secrets, as start_tenant calls it.
ReadSecrets(p) == Begin(p, Begun("read", None, "env", None, "get_dek"))

DeleteSecret(p, n) == Begin(p, Begun("delete", n, "env", None, "select_deleted"))

-----------------------------------------------------------------------------
(* A statement that leaves the transaction open, and its end. *)

Goto(p, pc, key, newDek, held) ==
    /\ req' = [req EXCEPT ![p] = [@ EXCEPT !.pc = pc, !.key = key, !.newDek = newDek,
                                           !.held = held]]
    /\ UNCHANGED <<tenant, dek, secret>>

Abort(p) ==
    /\ req' = [req EXCEPT ![p] = Idle("error")]
    /\ UNCHANGED <<tenant, dek, secret>>

\* The secrets rows of name n become r; an uncommitted DEK row is committed with it.
Commit(p, n, r) ==
    /\ secret' = IF n = None THEN secret ELSE [secret EXCEPT ![n] = r]
    /\ dek' = IF req[p].newDek THEN req[p].key ELSE dek
    /\ req' = [req EXCEPT ![p] = Idle("ok")]
    /\ UNCHANGED tenant

-----------------------------------------------------------------------------
(* ensure_tenant_dek. *)

AfterDek(p) == IF req[p].op = "read" THEN "select_all" ELSE "select"

\* Mutant of GetDek: a read that finds no DEK makes one and does not store it.
GetDekUnstored(p) ==
    /\ At(p, "get_dek")
    /\ \/ dek # None /\ Goto(p, AfterDek(p), dek, FALSE, NoSecret)
       \/ /\ dek = None
          /\ \E k \in FreshKeys :
               Goto(p, IF req[p].op = "read" THEN "select_all" ELSE "insert_dek", k,
                    FALSE, NoSecret)

\* SELECT FROM tenant_deks; no row, a new key.
GetDek(p) ==
    /\ At(p, "get_dek")
    /\ \/ dek # None /\ Goto(p, AfterDek(p), dek, FALSE, NoSecret)
       \/ dek = None /\ \E k \in FreshKeys : Goto(p, "insert_dek", k, FALSE, NoSecret)

\* Mutant of InsertDek: INSERT ... ON CONFLICT DO UPDATE.
UpsertDek(p) ==
    /\ At(p, "insert_dek")
    /\ \A q \in Requests \ {p} : ~req[q].newDek
    /\ \/ tenant /\ Goto(p, AfterDek(p), req[p].key, TRUE, NoSecret)
       \/ ~tenant /\ Abort(p)

\* Mutant of InsertDek: tenant_deks has no foreign key.
InsertDekUnreferenced(p) ==
    /\ At(p, "insert_dek")
    /\ \A q \in Requests \ {p} : ~req[q].newDek
    /\ \/ dek = None /\ Goto(p, AfterDek(p), req[p].key, TRUE, NoSecret)
       \/ dek # None /\ Abort(p)

\* INSERT INTO tenant_deks: waits for the transaction that has inserted one, then
\* fails if there is one or if the tenant is gone.
InsertDek(p) ==
    /\ At(p, "insert_dek")
    /\ \A q \in Requests \ {p} : ~req[q].newDek
    /\ \/ tenant /\ dek = None /\ Goto(p, AfterDek(p), req[p].key, TRUE, NoSecret)
       \/ ~(tenant /\ dek = None) /\ Abort(p)

-----------------------------------------------------------------------------
(* store_secret, get_decrypted_secrets and delete_secret. *)

SelectSecret(p) ==
    /\ At(p, "select")
    /\ Goto(p, "write", req[p].key, req[p].newDek, secret[N(p)])

\* UPDATE secrets ... WHERE secret_id = held: only the columns that differ from what
\* the SELECT returned are sent.  A row that is gone is a StaleDataError.
UpdatedRow(p) ==
    LET held == req[p].held
        now == secret[N(p)]
    IN [id |-> held.id, key |-> req[p].key,
        type |-> IF req[p].type = held.type THEN now.type ELSE req[p].type,
        target |-> IF req[p].target = held.target THEN now.target ELSE req[p].target]
UpdateSecret(p) ==
    /\ At(p, "write") /\ req[p].held # NoSecret
    /\ \/ secret[N(p)].id = req[p].held.id /\ Commit(p, N(p), UpdatedRow(p))
       \/ secret[N(p)].id # req[p].held.id /\ Abort(p)

InsertedRow(p, id) ==
    [id |-> id, key |-> req[p].key, type |-> req[p].type, target |-> req[p].target]

\* INSERT INTO secrets: uq_tenant_secret and the foreign key may refuse it.
InsertSecret(p) ==
    /\ At(p, "write") /\ req[p].held = NoSecret
    /\ \/ /\ tenant /\ secret[N(p)] = NoSecret
          /\ \E id \in FreshIds : Commit(p, N(p), InsertedRow(p, id))
       \/ ~(tenant /\ secret[N(p)] = NoSecret) /\ Abort(p)

Readable(k) == \A n \in Names : secret[n] # NoSecret => secret[n].key = k

\* SELECT all rows and decrypt each: AES-GCM refuses a value sealed under another key.
SelectAll(p) ==
    /\ At(p, "select_all")
    /\ \/ Readable(req[p].key) /\ Goto(p, "commit", req[p].key, req[p].newDek, NoSecret)
       \/ ~Readable(req[p].key) /\ Abort(p)

\* start_tenant commits once the container runs.
CommitRead(p) == At(p, "commit") /\ Commit(p, None, NoSecret)

\* No such secret: HTTP 404.
SelectDeleted(p) ==
    /\ At(p, "select_deleted")
    /\ \/ secret[N(p)] # NoSecret /\ Goto(p, "delete", None, FALSE, secret[N(p)])
       \/ secret[N(p)] = NoSecret /\ Abort(p)

\* DELETE FROM secrets WHERE secret_id = held; a row that is gone is only a warning.
DeleteSecretRow(p) ==
    /\ At(p, "delete")
    /\ Commit(p, N(p), IF secret[N(p)].id = req[p].held.id THEN NoSecret ELSE secret[N(p)])

-----------------------------------------------------------------------------
(* Around them. *)

\* A call of p raises, or its process is killed.
Fail(p) == p \in Faulty /\ Active(p) /\ Abort(p)

\* delete_tenant's DELETE and COMMIT: ON DELETE CASCADE takes the DEK and the secrets.
\* It waits for the FOR KEY SHARE lock of a transaction that has inserted a DEK.
DeleteTenant ==
    /\ tenant
    /\ \A q \in Requests : ~req[q].newDek
    /\ tenant' = FALSE
    /\ dek' = None
    /\ secret' = [n \in Names |-> NoSecret]
    /\ UNCHANGED req

Step(p) ==
    \/ GetDek(p) \/ InsertDek(p) \/ SelectSecret(p) \/ UpdateSecret(p) \/ InsertSecret(p)
    \/ SelectAll(p) \/ CommitRead(p) \/ SelectDeleted(p) \/ DeleteSecretRow(p) \/ Fail(p)
Handler(p) ==
    \/ ReadSecrets(p)
    \/ \E n \in Names :
         \/ RotateSecret(p, n) \/ DeleteSecret(p, n)
         \/ \E type \in Types, target \in EnvVars \cup {None} : SetSecret(p, n, type, target)

Next == (\E p \in Requests : Handler(p) \/ Step(p)) \/ DeleteTenant

\* A tenant that create_tenant has just committed.
Init ==
    /\ tenant = TRUE
    /\ dek = None
    /\ secret = [n \in Names |-> NoSecret]
    /\ req = [p \in Requests |-> Idle("none")]

Spec == Init /\ [][Next]_vars

-----------------------------------------------------------------------------
(* Properties. *)

\* Every variable has its type, and no data key outlives its tenant: a first call that
\* the tenant's deletion overtakes stores none.
TypeOK ==
    /\ tenant \in BOOLEAN
    /\ dek \in Keys \cup {None} /\ (~tenant => dek = None)
    /\ secret \in [Names -> SecretRows \cup {NoSecret}]
    /\ req \in [Requests -> RequestRecords]

\* No stored secret is ever lost to its tenant: whatever first calls race to make the
\* DEK, whichever of them fail, and whatever the tenant's deletion overtakes, each
\* committed secrets row is sealed under the key that the tenant_deks row holds.
SecretsReadable ==
    \A n \in Names : secret[n] # NoSecret => dek # None /\ secret[n].key = dek

\* A start never fails to decrypt: the key that get_decrypted_secrets took in one
\* statement opens every row that it reads in a later one, in which other
\* transactions' commits and the tenant's deletion have become visible.
DecryptionNeverFails ==
    \A p \in Requests : At(p, "select_all") => Readable(req[p].key)

=============================================================================
