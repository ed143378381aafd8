------------------------------ MODULE VaultProofs ------------------------------
(***************************************************************************)
(* Theorems about Vault, for any number of handlers, names, keys and rows. *)
(***************************************************************************)
EXTENDS Vault, TLAPS

-----------------------------------------------------------------------------
(* The inductive invariant. *)

\* The pcs at which a handler has a name.
NamedPcs == {"select", "write", "select_deleted", "delete"}
\* The pcs at which the DEK in hand is the tenant's.
SealingPcs == {"select", "write", "select_all", "commit"}

\* What request p knows.  The key in hand is the committed one, or its row is p's
\* own uncommitted insert, or the tenant is gone.
RequestInv(p) ==
    /\ Active(p) => req[p].op \in {"set", "rotate", "delete", "read"}
    /\ Active(p) /\ req[p].op # "read" => N(p) \in Names
    /\ At(p, "insert_dek") => req[p].key \in Keys
    /\ req[p].pc \in NamedPcs => req[p].op \in {"set", "rotate", "delete"}
    /\ req[p].pc \in SealingPcs =>
           req[p].key \in Keys /\ (req[p].newDek \/ ~tenant \/ dek = req[p].key)
    /\ req[p].newDek => req[p].pc \in SealingPcs /\ tenant /\ dek = None

OneInsert == \A p, q \in Requests : req[p].newDek /\ req[q].newDek => p = q

IInv ==
    /\ TypeOK
    /\ SecretsReadable
    /\ OneInsert
    /\ \A p \in Requests : RequestInv(p)

-----------------------------------------------------------------------------
(* The steps that several actions share. *)

LEMMA RowFacts == NoSecret \notin SecretRows
<1> SUFFICES ASSUME NoSecret \in SecretRows
             PROVE  FALSE
  OBVIOUS
<1>1. NoSecret.id \in RowIds
  BY DEF SecretRows
<1> QED BY <1>1, NoneAssumption DEF NoSecret

LEMMA IdleFacts ==
    ASSUME NEW result \in {"none", "ok", "error"}
    PROVE  /\ Idle(result) \in RequestRecords
           /\ Idle(result).pc = "idle" /\ ~Idle(result).newDek
BY DEF Idle, RequestRecords, Types

LEMMA GotoFacts ==
    ASSUME TypeOK, NEW p \in Requests, NEW pc \in Pcs, NEW key \in Keys \cup {None},
           NEW newDek \in BOOLEAN, NEW held \in SecretRows \cup {NoSecret},
           Goto(p, pc, key, newDek, held)
    PROVE  /\ UNCHANGED <<tenant, dek, secret>>
           /\ req' \in [Requests -> RequestRecords]
           /\ \A q \in Requests \ {p} : req'[q] = req[q]
           /\ req'[p].op = req[p].op /\ req'[p].name = req[p].name
           /\ req'[p].pc = pc /\ req'[p].key = key /\ req'[p].newDek = newDek
<1> DEFINE r == [req[p] EXCEPT !.pc = pc, !.key = key, !.newDek = newDek, !.held = held]
<1>1. req[p] \in RequestRecords /\ req \in [Requests -> RequestRecords]
  BY DEF TypeOK
<1>2. r \in RequestRecords
  BY <1>1 DEF RequestRecords
<1>3. /\ r.op = req[p].op /\ r.name = req[p].name
      /\ r.pc = pc /\ r.key = key /\ r.newDek = newDek
  BY <1>1 DEF RequestRecords
<1>4. req' = [req EXCEPT ![p] = r] /\ UNCHANGED <<tenant, dek, secret>>
  BY DEF Goto
<1> HIDE DEF r
<1> QED BY <1>1, <1>2, <1>3, <1>4

\* A step that keeps the transaction open keeps the invariant if it keeps p's part.
LEMMA GotoInv ==
    ASSUME IInv, NEW p \in Requests, NEW pc \in Pcs, NEW key \in Keys \cup {None},
           NEW newDek \in BOOLEAN, NEW held \in SecretRows \cup {NoSecret},
           Goto(p, pc, key, newDek, held),
           req[p].op \in {"set", "rotate", "delete", "read"},
           req[p].op # "read" => N(p) \in Names,
           pc = "insert_dek" => key \in Keys,
           pc \in NamedPcs => req[p].op \in {"set", "rotate", "delete"},
           pc \in SealingPcs => key \in Keys /\ (newDek \/ ~tenant \/ dek = key),
           newDek => /\ pc \in SealingPcs /\ tenant /\ dek = None
                     /\ \A q \in Requests \ {p} : ~req[q].newDek
    PROVE  IInv'
<1>1. /\ UNCHANGED <<tenant, dek, secret>>
      /\ req' \in [Requests -> RequestRecords]
      /\ \A q \in Requests \ {p} : req'[q] = req[q]
      /\ req'[p].op = req[p].op /\ req'[p].name = req[p].name
      /\ req'[p].pc = pc /\ req'[p].key = key /\ req'[p].newDek = newDek
  BY GotoFacts DEF IInv
<1>2. TypeOK' /\ SecretsReadable'
  BY <1>1 DEF IInv, TypeOK, SecretsReadable
<1>3. OneInsert'
  BY <1>1 DEF IInv, OneInsert
<1>4. RequestInv(p)'
  BY <1>1 DEF RequestInv, N, At
<1>5. \A q \in Requests \ {p} : RequestInv(q)'
  BY <1>1 DEF IInv, RequestInv, N, At, Active
<1> QED BY <1>2, <1>3, <1>4, <1>5 DEF IInv

LEMMA AbortInv ==
    ASSUME IInv, NEW p \in Requests, Abort(p)
    PROVE  IInv'
<1>1. /\ UNCHANGED <<tenant, dek, secret>>
      /\ req' \in [Requests -> RequestRecords]
      /\ \A q \in Requests \ {p} : req'[q] = req[q]
      /\ req'[p].pc = "idle" /\ ~req'[p].newDek
  BY IdleFacts DEF Abort, IInv, TypeOK
<1>2. TypeOK' /\ SecretsReadable'
  BY <1>1 DEF IInv, TypeOK, SecretsReadable
<1>3. OneInsert'
  BY <1>1 DEF IInv, OneInsert
<1>4. RequestInv(p)'
  BY <1>1 DEF RequestInv, N, At, Active, NamedPcs, SealingPcs
<1>5. \A q \in Requests \ {p} : RequestInv(q)'
  BY <1>1 DEF IInv, RequestInv, N, At, Active
<1> QED BY <1>2, <1>3, <1>4, <1>5 DEF IInv

\* A commit seals what it writes under the key that is committed with it or before.
LEMMA CommitInv ==
    ASSUME IInv, NEW p \in Requests, NEW n \in Names \cup {None},
           NEW r \in SecretRows \cup {NoSecret}, Commit(p, n, r),
           n \in Names /\ r # NoSecret =>
               /\ tenant /\ r.key = req[p].key /\ req[p].pc \in SealingPcs
    PROVE  IInv'
<1>1. /\ UNCHANGED tenant
      /\ dek' = IF req[p].newDek THEN req[p].key ELSE dek
      /\ req' \in [Requests -> RequestRecords]
      /\ \A q \in Requests \ {p} : req'[q] = req[q]
      /\ req'[p].pc = "idle" /\ ~req'[p].newDek
  BY IdleFacts DEF Commit, IInv, TypeOK
<1>2. secret' \in [Names -> SecretRows \cup {NoSecret}]
      /\ \A m \in Names : secret'[m] = IF m = n THEN r ELSE secret[m]
  <2>1. CASE n = None
    BY <2>1, NoneAssumption DEF Commit, IInv, TypeOK
  <2>2. CASE n # None
    BY <2>2 DEF Commit, IInv, TypeOK
  <2> QED BY <2>1, <2>2
<1>3. req[p].newDek => dek = None /\ tenant /\ req[p].key \in Keys
  BY DEF IInv, RequestInv
<1>4. TypeOK'
  <2>1. dek' \in Keys \cup {None} /\ (~tenant' => dek' = None)
    BY <1>1, <1>3 DEF IInv, TypeOK
  <2> QED BY <1>1, <1>2, <2>1 DEF IInv, TypeOK
<1>5. SecretsReadable'
  <2> SUFFICES ASSUME NEW m \in Names, secret'[m] # NoSecret
               PROVE  dek' # None /\ secret'[m].key = dek'
    BY DEF SecretsReadable
  <2>1. CASE m = n
    <3>1. secret'[m] = r /\ r # NoSecret /\ n \in Names
      BY <1>2, <2>1
    <3>2. /\ tenant /\ r.key = req[p].key /\ req[p].key \in Keys
          /\ req[p].newDek \/ ~tenant \/ dek = req[p].key
      BY <3>1 DEF IInv, RequestInv
    <3> QED BY <1>1, <3>1, <3>2, NoneAssumption
  <2>2. CASE m # n
    <3>1. secret'[m] = secret[m] /\ dek # None /\ secret[m].key = dek
      BY <1>2, <2>2 DEF IInv, SecretsReadable
    <3> QED BY <1>1, <1>3, <3>1
  <2> QED BY <2>1, <2>2
<1>6. OneInsert'
  BY <1>1 DEF IInv, OneInsert
<1>7. RequestInv(p)'
  BY <1>1 DEF RequestInv, N, At, Active, NamedPcs, SealingPcs
<1>8. ASSUME NEW q \in Requests \ {p}
      PROVE  RequestInv(q)'
  <2>1. RequestInv(q) /\ req'[q] = req[q]
    BY <1>1 DEF IInv
  <2>2. CASE req[p].newDek
    <3>1. ~req[q].newDek /\ tenant /\ dek = None
      BY <1>3, <2>2 DEF IInv, OneInsert
    <3>2. req[q].pc \notin SealingPcs
      BY <2>1, <3>1, NoneAssumption DEF RequestInv
    <3> QED BY <2>1, <3>1, <3>2 DEF RequestInv, N, At, Active
  <2>3. CASE ~req[p].newDek
    BY <1>1, <2>1, <2>3 DEF RequestInv, N, At, Active
  <2> QED BY <2>2, <2>3
<1> QED BY <1>4, <1>5, <1>6, <1>7, <1>8 DEF IInv

-----------------------------------------------------------------------------
(* Every step keeps the invariant. *)

LEMMA BeginInv ==
    ASSUME IInv, NEW p \in Requests, Handler(p)
    PROVE  IInv'
<1>1. PICK r \in RequestRecords :
        /\ Begin(p, r) /\ ~r.newDek /\ r.pc \in {"get_dek", "select_deleted"}
        /\ r.op \in {"set", "rotate", "delete", "read"}
        /\ r.op = "read" \/ r.name \in Names
        /\ r.pc = "select_deleted" => r.op = "delete"
  <2>1. CASE ReadSecrets(p)
    <3>1. Begun("read", None, "env", None, "get_dek") \in RequestRecords
      BY DEF Begun, RequestRecords, Pcs, Types
    <3> QED BY <2>1, <3>1 DEF ReadSecrets, Begun
  <2>2. ASSUME NEW n \in Names, NEW type \in Types, NEW target \in EnvVars \cup {None}
        PROVE  /\ Begun("set", n, type, target, "get_dek") \in RequestRecords
               /\ Begun("rotate", n, "env", None, "get_dek") \in RequestRecords
               /\ Begun("delete", n, "env", None, "select_deleted") \in RequestRecords
    BY DEF Begun, RequestRecords, Pcs, Types
  <2>3. "env" \in Types /\ None \in EnvVars \cup {None}
    BY DEF Types
  <2>4. CASE \E n \in Names : RotateSecret(p, n)
    BY <2>2, <2>3, <2>4 DEF RotateSecret, Begun
  <2>5. CASE \E n \in Names : DeleteSecret(p, n)
    BY <2>2, <2>3, <2>5 DEF DeleteSecret, Begun
  <2>6. CASE \E n \in Names, type \in Types, target \in EnvVars \cup {None} :
               SetSecret(p, n, type, target)
    BY <2>2, <2>6 DEF SetSecret, Begun
  <2> QED BY <2>1, <2>4, <2>5, <2>6 DEF Handler
<1>2. /\ UNCHANGED <<tenant, dek, secret>>
      /\ req' \in [Requests -> RequestRecords] /\ req'[p] = r
      /\ \A q \in Requests \ {p} : req'[q] = req[q]
  BY <1>1 DEF Begin, IInv, TypeOK
<1>3. TypeOK' /\ SecretsReadable'
  BY <1>2 DEF IInv, TypeOK, SecretsReadable
<1>4. OneInsert'
  BY <1>1, <1>2 DEF IInv, OneInsert
<1>5. RequestInv(p)'
  BY <1>1, <1>2 DEF RequestInv, N, At, NamedPcs, SealingPcs
<1>6. \A q \in Requests \ {p} : RequestInv(q)'
  BY <1>2 DEF IInv, RequestInv, N, At, Active
<1> QED BY <1>3, <1>4, <1>5, <1>6 DEF IInv

LEMMA DeleteTenantInv == IInv /\ DeleteTenant => IInv'
<1> SUFFICES ASSUME IInv, DeleteTenant
             PROVE  IInv'
  OBVIOUS
<1>1. /\ tenant' = FALSE /\ dek' = None /\ req' = req
      /\ secret' = [n \in Names |-> NoSecret] /\ \A p \in Requests : ~req[p].newDek
  BY DEF DeleteTenant
<1>2. TypeOK' /\ SecretsReadable' /\ OneInsert'
  BY <1>1 DEF IInv, TypeOK, SecretsReadable, OneInsert
<1>3. \A p \in Requests : RequestInv(p)'
  BY <1>1 DEF IInv, RequestInv, N, At, Active
<1> QED BY <1>2, <1>3 DEF IInv

LEMMA StepInv ==
    ASSUME IInv, NEW p \in Requests, Step(p)
    PROVE  IInv'
<1>0. /\ TypeOK /\ req[p] \in RequestRecords /\ RequestInv(p)
      /\ req[p].key \in Keys \cup {None} /\ req[p].newDek \in BOOLEAN
      /\ NoSecret \in SecretRows \cup {NoSecret}
  BY DEF IInv, TypeOK, RequestRecords
<1>s. \A n \in Names : secret[n] \in SecretRows \cup {NoSecret}
  BY <1>0 DEF TypeOK
<1>p. Pcs = {"get_dek", "insert_dek", "select", "write", "select_all", "commit",
             "select_deleted", "delete"}
  BY DEF Pcs
<1>d. /\ AfterDek(p) \in {"select", "select_all"}
      /\ AfterDek(p) = "select" /\ Active(p) => req[p].op \in {"set", "rotate", "delete"}
  BY <1>0 DEF AfterDek, RequestInv
<1>1. CASE GetDek(p)
  <2>1. CASE dek # None /\ Goto(p, AfterDek(p), dek, FALSE, NoSecret)
    <3>1. dek \in Keys /\ AfterDek(p) \in Pcs /\ AfterDek(p) # "insert_dek" /\ Active(p)
      BY <1>0, <1>1, <1>p, <1>d, <2>1 DEF TypeOK, GetDek, At, Active
    <3> QED BY <1>0, <1>d, <2>1, <3>1, GotoInv DEF RequestInv, NamedPcs
  <2>2. ASSUME NEW k \in Keys, Goto(p, "insert_dek", k, FALSE, NoSecret)
        PROVE  IInv'
    <3>1. "insert_dek" \in Pcs /\ "insert_dek" \notin NamedPcs \cup SealingPcs /\ Active(p)
      BY <1>1, <1>p DEF NamedPcs, SealingPcs, GetDek, At, Active
    <3> QED BY <1>0, <2>2, <3>1, GotoInv DEF RequestInv
  <2> QED BY <1>1, <2>1, <2>2 DEF GetDek, FreshKeys
<1>2. CASE InsertDek(p)
  <2>1. CASE tenant /\ dek = None /\ Goto(p, AfterDek(p), req[p].key, TRUE, NoSecret)
    <3>1. /\ req[p].key \in Keys /\ AfterDek(p) \in Pcs \cap SealingPcs
          /\ AfterDek(p) # "insert_dek" /\ Active(p)
          /\ \A q \in Requests \ {p} : ~req[q].newDek
      BY <1>0, <1>2, <1>p, <1>d DEF InsertDek, At, Active, RequestInv, SealingPcs
    <3> QED BY <1>0, <1>d, <2>1, <3>1, GotoInv DEF RequestInv, NamedPcs
  <2>2. CASE Abort(p)
    BY <2>2, AbortInv
  <2> QED BY <1>2, <2>1, <2>2 DEF InsertDek
<1>3. CASE SelectSecret(p)
  <2>1. /\ Active(p) /\ req[p].op \in {"set", "rotate", "delete"} /\ N(p) \in Names
        /\ req[p].key \in Keys /\ (req[p].newDek \/ ~tenant \/ dek = req[p].key)
        /\ "write" \in Pcs \cap SealingPcs
    BY <1>0, <1>3, <1>p DEF SelectSecret, At, Active, RequestInv, NamedPcs, SealingPcs
  <2>2. \A q \in Requests \ {p} : req[p].newDek => ~req[q].newDek
    BY DEF IInv, OneInsert
  <2>3. Goto(p, "write", req[p].key, req[p].newDek, secret[N(p)])
    BY <1>3 DEF SelectSecret
  <2> QED BY <1>0, <1>s, <2>1, <2>2, <2>3, GotoInv DEF RequestInv
<1>4. CASE UpdateSecret(p)
  <2>1. /\ N(p) \in Names /\ req[p].key \in Keys /\ req[p].pc \in SealingPcs
        /\ req[p].held \in SecretRows
    BY <1>0, <1>4 DEF UpdateSecret, At, Active, RequestInv, NamedPcs, SealingPcs,
                      RequestRecords
  <2>2. CASE secret[N(p)].id = req[p].held.id /\ Commit(p, N(p), UpdatedRow(p))
    <3>1. secret[N(p)].id \in RowIds
      BY <2>1, <2>2 DEF SecretRows
    <3>2. secret[N(p)] \in SecretRows
      BY <1>s, <2>1, <3>1, NoneAssumption DEF NoSecret
    <3>3. tenant
      BY <2>1, <3>2, RowFacts DEF IInv, TypeOK, SecretsReadable
    <3>4. UpdatedRow(p) \in SecretRows /\ UpdatedRow(p).key = req[p].key
      BY <1>0, <2>1, <3>2 DEF UpdatedRow, SecretRows, RequestRecords
    <3> QED BY <2>1, <2>2, <3>3, <3>4, CommitInv
  <2>3. CASE Abort(p)
    BY <2>3, AbortInv
  <2> QED BY <1>4, <2>2, <2>3 DEF UpdateSecret
<1>5. CASE InsertSecret(p)
  <2>1. N(p) \in Names /\ req[p].key \in Keys /\ req[p].pc \in SealingPcs
    BY <1>0, <1>5 DEF InsertSecret, At, Active, RequestInv, NamedPcs, SealingPcs
  <2>2. ASSUME tenant, NEW id \in RowIds, Commit(p, N(p), InsertedRow(p, id))
        PROVE  IInv'
    <3>1. InsertedRow(p, id) \in SecretRows /\ InsertedRow(p, id).key = req[p].key
      BY <1>0, <2>1 DEF InsertedRow, SecretRows, RequestRecords
    <3> QED BY <2>1, <2>2, <3>1, CommitInv
  <2>3. CASE Abort(p)
    BY <2>3, AbortInv
  <2> QED BY <1>5, <2>2, <2>3 DEF InsertSecret, FreshIds
<1>6. CASE SelectAll(p)
  <2>1. CASE Goto(p, "commit", req[p].key, req[p].newDek, NoSecret)
    <3>1. /\ Active(p) /\ req[p].key \in Keys
          /\ req[p].newDek \/ ~tenant \/ dek = req[p].key
          /\ "commit" \in Pcs \cap SealingPcs /\ "commit" \notin NamedPcs
      BY <1>0, <1>6, <1>p DEF SelectAll, At, Active, RequestInv, NamedPcs, SealingPcs
    <3>2. \A q \in Requests \ {p} : req[p].newDek => ~req[q].newDek
      BY DEF IInv, OneInsert
    <3> QED BY <1>0, <2>1, <3>1, <3>2, GotoInv DEF RequestInv
  <2>2. CASE Abort(p)
    BY <2>2, AbortInv
  <2> QED BY <1>6, <2>1, <2>2 DEF SelectAll
<1>7. CASE CommitRead(p)
  BY <1>0, <1>7, CommitInv, NoneAssumption DEF CommitRead
<1>8. CASE SelectDeleted(p)
  <2>1. CASE Goto(p, "delete", None, FALSE, secret[N(p)])
    <3>1. /\ Active(p) /\ N(p) \in Names /\ req[p].op \in {"set", "rotate", "delete"}
          /\ "delete" \in Pcs /\ "delete" \notin SealingPcs
      BY <1>0, <1>8, <1>p DEF SelectDeleted, At, Active, RequestInv, NamedPcs, SealingPcs
    <3> QED BY <1>0, <1>s, <2>1, <3>1, GotoInv DEF RequestInv
  <2>2. CASE Abort(p)
    BY <2>2, AbortInv
  <2> QED BY <1>8, <2>1, <2>2 DEF SelectDeleted
<1>9. CASE DeleteSecretRow(p)
  <2>1. N(p) \in Names
    BY <1>0, <1>9 DEF DeleteSecretRow, At, Active, RequestInv, NamedPcs
  <2>2. CASE Commit(p, N(p), NoSecret)
    BY <1>0, <2>1, <2>2, CommitInv
  <2>3. CASE Commit(p, N(p), secret[N(p)])
    <3>1. ~req[p].newDek
      BY <1>0, <1>9 DEF DeleteSecretRow, At, RequestInv, SealingPcs
    <3>2. secret' = secret /\ UNCHANGED <<tenant, dek>> /\ req' = [req EXCEPT ![p] = Idle("ok")]
      BY <1>0, <2>1, <2>3, <3>1, NoneAssumption DEF Commit, TypeOK
    <3>3. Commit(p, None, NoSecret)
      BY <3>1, <3>2 DEF Commit
    <3> QED BY <1>0, <3>3, CommitInv, NoneAssumption
  <2> QED BY <1>9, <2>2, <2>3 DEF DeleteSecretRow
<1>10. CASE Fail(p)
  BY <1>10, AbortInv DEF Fail
<1> QED BY <1>1, <1>2, <1>3, <1>4, <1>5, <1>6, <1>7, <1>8, <1>9, <1>10 DEF Step

LEMMA InitInv == Init => IInv
BY IdleFacts DEF Init, IInv, TypeOK, SecretsReadable, OneInsert, RequestInv, Active, At,
                 NamedPcs, SealingPcs

LEMMA NextInv == IInv /\ [Next]_vars => IInv'
<1> SUFFICES ASSUME IInv, [Next]_vars
             PROVE  IInv'
  OBVIOUS
<1>1. CASE UNCHANGED vars
  BY <1>1 DEF vars, IInv, TypeOK, SecretsReadable, OneInsert, RequestInv, Active, At, N
<1> QED BY <1>1, BeginInv, StepInv, DeleteTenantInv DEF Next

LEMMA InvAlways == Spec => []IInv
BY InitInv, NextInv, PTL DEF Spec

-----------------------------------------------------------------------------
(* The theorems. *)

\* Every variable keeps its type, and no data key outlives its tenant.
THEOREM TypeCorrect == Spec => []TypeOK
<1>1. IInv => TypeOK
  BY DEF IInv
<1> QED BY <1>1, InvAlways, PTL

\* However many first calls race to make a tenant's DEK (vault/service.py:17-29) and
\* whichever of them fail, every committed secret is sealed under the committed DEK.
THEOREM NoSecretLost == Spec => []SecretsReadable
<1>1. IInv => SecretsReadable
  BY DEF IInv
<1> QED BY <1>1, InvAlways, PTL

\* get_decrypted_secrets (vault/service.py:73-87) opens every row that it reads.
THEOREM StartDecrypts == Spec => []DecryptionNeverFails
<1>1. ASSUME IInv
      PROVE  DecryptionNeverFails
  <2> SUFFICES ASSUME NEW p \in Requests, At(p, "select_all"),
                      NEW n \in Names, secret[n] # NoSecret
               PROVE  secret[n].key = req[p].key
    BY DEF DecryptionNeverFails, Readable
  <2>1. dek # None /\ secret[n].key = dek /\ tenant
    BY <1>1 DEF IInv, TypeOK, SecretsReadable
  <2>2. RequestInv(p) /\ req[p].pc \in SealingPcs
    BY <1>1 DEF IInv, At, SealingPcs
  <2> QED BY <2>1, <2>2 DEF RequestInv
<1>2. IInv => DecryptionNeverFails
  BY <1>1
<1> QED BY <1>2, InvAlways, PTL

=============================================================================
