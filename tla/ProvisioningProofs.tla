------------------------- MODULE ProvisioningProofs -------------------------
(***************************************************************************)
(* Theorems about Provisioning, for any slugs, requests and number of      *)
(* tenants.                                                                *)
(***************************************************************************)
EXTENDS Provisioning, TLAPS

-----------------------------------------------------------------------------
(* The inductive invariant. *)

CreatorPcs == CreatePcs \cup {"select_slug", "insert"}
DeleterPcs == DeletePcs \cup {"get", "set_deleting"}
StartPcs == {"create_container", "run_container", "set_running"}
JobPcs == {"run_job", "wait_job", "remove_job"}
ProvisionPcs ==
    {"set_provider", "store_secrets", "create_job", "configure"} \cup JobPcs \cup StartPcs

\* A request at work is of the handler that its pc belongs to, and it has an id: of a
\* tenant that was never listed, or, once it holds the row's lock, of a listed one.
Fits(p) ==
    /\ req[p].pc \in CreatorPcs =>
         /\ req[p].slug \in Slugs /\ I(p) \in Ids /\ I(p) <= drawn
         /\ row[I(p)] = NoRow
         /\ req[p].op \in {"provision", "create"}
    /\ req[p].pc \in DeleterPcs => I(p) \in Ids /\ req[p].op = "delete"
    /\ req[p].pc \in DeletePcs => Listed(row[I(p)])
    /\ req[p].op = "provision" => p \in ApiRequests /\ req[p].pc \in CreatorPcs
    /\ req[p].pc \in ProvisionPcs => req[p].op = "provision"

\* The uncommitted row.
Drafted(p) ==
    LET d == req[p].draft
    IN /\ req[p].pc \in CreatePcs => d.slug = req[p].slug
       /\ req[p].pc \in {"create_dirs", "create_network", "record"} => ~d.provider
       /\ req[p].pc \in ProvisionPcs => d.status = "stopped" /\ d.network /\ d.admin
       /\ req[p].pc \in ProvisionPcs \ {"set_provider"} => d.provider
       /\ req[p].pc \in ProvisionPcs \ {"set_provider", "store_secrets"} => d.dek

\* What the calls of a creation have made so far.
Made(p) ==
    /\ req[p].pc \in CreatorPcs =>
         /\ req[p].pc \notin JobPcs => initJob[I(p)] = "none"
         /\ req[p].pc \notin {"run_container", "set_running"} => container[I(p)] = "none"
    /\ req[p].pc \in ProvisionPcs \cup {"record"} => network[I(p)]
    /\ req[p].pc \in ProvisionPcs \cup {"record", "create_network"} => home[I(p)] # "none"
    /\ req[p].pc \in StartPcs => home[I(p)] # "onboarded"
    /\ req[p].pc = "set_running" => container[I(p)] = "running"

\* What the calls of a deletion have removed so far.
Unmade(p) ==
    /\ req[p].pc \in {"remove_network", "remove_dirs", "delete_row"} => container[I(p)] = "none"
    /\ req[p].pc \in {"remove_dirs", "delete_row"} => ~network[I(p)]
    /\ req[p].pc = "delete_row" => home[I(p)] = "none"

RequestOK(p) == Fits(p) /\ Drafted(p) /\ Made(p) /\ Unmade(p)

\* Two transactions never hold the same id, slug or row.
Apart(p, q) ==
    /\ req[p].pc \in CreatorPcs /\ req[q].pc \in CreatorPcs => I(p) # I(q)
    /\ req[p].pc \in CreatePcs /\ req[q].pc \in CreatePcs => req[p].slug # req[q].slug
    /\ req[p].pc \in DeletePcs /\ req[q].pc \in DeletePcs => I(p) # I(q)

SlugFree(p) ==
    req[p].pc \in CreatePcs => \A i \in Ids : Listed(row[i]) => row[i].slug # req[p].slug

Gone(i) == ~network[i] /\ home[i] = "none" /\ container[i] = "none" /\ initJob[i] = "none"

RowOK(i) ==
    /\ i > drawn => row[i] = NoRow /\ initJob[i] = "none" /\ container[i] = "none"
    /\ Listed(row[i]) => row[i].slug \in Slugs /\ initJob[i] = "none"
    /\ row[i].status = "deleted" => Gone(i)

SlugUnique ==
    \A i, j \in Ids : Listed(row[i]) /\ Listed(row[j]) /\ i # j => row[i].slug # row[j].slug

IInv ==
    /\ TypeOK
    /\ \A p \in Requests : RequestOK(p) /\ SlugFree(p)
    /\ \A p, q \in Requests : p # q => Apart(p, q)
    /\ \A i \in Ids : RowOK(i)
    /\ SlugUnique

Holder(p) == req[p].pc \in CreatorPcs \cup DeletePcs

LEMMA InitInv == Init => IInv
<1> SUFFICES ASSUME Init PROVE IInv
  OBVIOUS
<1>1. Idle \in RequestRecords /\ Idle.pc = "idle" /\ Idle.op = "none"
  BY DEF Idle, Begun, RequestRecords, NoRow, Rows, Statuses, Pcs
<1>2. NoRow \in Rows /\ NoRow.status = "absent"
  BY DEF NoRow, Rows, Statuses
<1>3. TypeOK
  BY <1>1, <1>2, MaxTenantsAssumption DEF Init, TypeOK, Homes, ContainerStates, InitStates
<1>4. \A p \in Requests : req[p].pc = "idle" /\ req[p].op = "none"
  BY <1>1 DEF Init
<1>5. \A i \in Ids : row[i] = NoRow /\ ~Listed(row[i])
  BY <1>2 DEF Init, Listed
<1>6. \A i \in Ids : RowOK(i)
  BY <1>2, <1>5 DEF Init, RowOK, Gone
<1>7. SlugUnique
  BY <1>5 DEF SlugUnique
<1>8. "idle" \notin CreatorPcs /\ "idle" \notin DeleterPcs /\ "idle" \notin ProvisionPcs
  BY DEF CreatorPcs, DeleterPcs, ProvisionPcs, CreatePcs, DeletePcs, JobPcs, StartPcs
<1>9. \A p \in Requests : RequestOK(p) /\ SlugFree(p)
  BY <1>4, <1>8 DEF RequestOK, SlugFree, Fits, Drafted, Made, Unmade, CreatorPcs, DeleterPcs,
     CreatePcs, DeletePcs, JobPcs, StartPcs, ProvisionPcs
<1>10. \A p, q \in Requests : Apart(p, q)
  BY <1>4 DEF Apart, CreatorPcs, CreatePcs, DeletePcs
<1> QED BY <1>3, <1>6, <1>7, <1>9, <1>10 DEF IInv

-----------------------------------------------------------------------------
(* Steps that leave the rows alone. *)

\* The fields of a request that goes on.
LEMMA GotoFields ==
    ASSUME TypeOK, NEW p \in Requests, NEW pc \in Pcs, NEW d \in Rows, Goto(p, pc, d)
    PROVE  /\ req' \in [Requests -> RequestRecords]
           /\ \A q \in Requests \ {p} : req'[q] = req[q]
           /\ req'[p].pc = pc /\ req'[p].draft = d /\ req'[p].id = req[p].id
           /\ req'[p].slug = req[p].slug /\ req'[p].op = req[p].op
           /\ drawn' = drawn /\ row' = row
<1> DEFINE r == [req[p] EXCEPT !.pc = pc, !.draft = d]
<1>1. req[p] \in RequestRecords /\ req \in [Requests -> RequestRecords]
  BY DEF TypeOK
<1>2. /\ r \in RequestRecords /\ r.pc = pc /\ r.draft = d
      /\ r.id = req[p].id /\ r.slug = req[p].slug /\ r.op = req[p].op
  BY <1>1 DEF RequestRecords
<1>3. req' = [req EXCEPT ![p] = r] /\ drawn' = drawn /\ row' = row
  BY DEF Goto
<1> HIDE DEF r
<1> QED BY <1>1, <1>2, <1>3

DockerTypes ==
    /\ network \in [Ids -> BOOLEAN] /\ home \in [Ids -> Homes]
    /\ container \in [Ids -> ContainerStates] /\ initJob \in [Ids -> InitStates]

\* Docker changes for the tenant i alone.
Only(i) == \A j \in Ids : j # i =>
    /\ network'[j] = network[j] /\ home'[j] = home[j]
    /\ container'[j] = container[j] /\ initJob'[j] = initJob[j]

\* Two requests that work on tenants never work on the same one.
LEMMA HoldersApart ==
    ASSUME IInv, NEW p \in Requests, NEW q \in Requests, p # q, Holder(p), Holder(q)
    PROVE  I(p) # I(q) /\ I(p) \in Ids /\ I(q) \in Ids
<1>1. Fits(p) /\ Fits(q) /\ Apart(p, q)
  BY DEF IInv, RequestOK
<1>2. ~Listed(NoRow)
  BY DEF Listed, NoRow
<1> QED BY <1>1, <1>2 DEF Fits, Apart, Holder, DeleterPcs

\* A request that keeps its record and whose tenant nothing happens to keeps its facts.
LEMMA OtherOK ==
    ASSUME NEW q \in Requests, RequestOK(q), req'[q] = req[q],
           drawn <= drawn', drawn \in Nat, drawn' \in Nat,
           I(q) \in Ids,
           row'[I(q)] = row[I(q)], network'[I(q)] = network[I(q)],
           home'[I(q)] = home[I(q)], container'[I(q)] = container[I(q)],
           initJob'[I(q)] = initJob[I(q)]
    PROVE  RequestOK(q)'
<1>1. I(q)' = I(q) /\ I(q) \in Nat
  BY DEF I, Ids
<1>2. Fits(q)'
  BY <1>1 DEF RequestOK, Fits
<1>3. Drafted(q)'
  BY <1>1 DEF RequestOK, Drafted
<1>4. Made(q)'
  BY <1>1 DEF RequestOK, Made
<1>5. Unmade(q)'
  BY <1>1 DEF RequestOK, Unmade
<1> QED BY <1>2, <1>3, <1>4, <1>5 DEF RequestOK

\* A request that works on no tenant.
LEMMA IdleOK ==
    ASSUME NEW q \in Requests, RequestOK(q), req'[q] = req[q], ~Holder(q)
    PROVE  RequestOK(q)'
<1>1. req[q].pc \notin CreatorPcs /\ req[q].pc \notin DeletePcs /\ req[q].pc \notin ProvisionPcs
  BY DEF Holder, CreatorPcs, ProvisionPcs, CreatePcs, JobPcs, StartPcs
<1>2. Fits(q)'
  BY <1>1 DEF RequestOK, Fits, I
<1>3. Drafted(q)'
  BY <1>1 DEF Drafted, ProvisionPcs, CreatorPcs, CreatePcs
<1>4. Made(q)'
  BY <1>1 DEF Made, CreatorPcs, CreatePcs, StartPcs
<1>5. Unmade(q)'
  BY <1>1 DEF Unmade, DeletePcs
<1> QED BY <1>2, <1>3, <1>4, <1>5 DEF RequestOK

\* What is to be shown of a request that goes on.
LEMMA GotoInv ==
    ASSUME IInv, NEW p \in Requests, NEW pc \in Pcs, NEW d \in Rows, Goto(p, pc, d),
           DockerTypes', I(p) \in Ids, Only(I(p)),
           Holder(p) \/ UNCHANGED docker,
           RequestOK(p)', SlugFree(p)', RowOK(I(p))',
           \A q \in Requests \ {p} : Apart(p, q)' /\ Apart(q, p)'
    PROVE  IInv'
<1>1. /\ req' \in [Requests -> RequestRecords]
      /\ \A q \in Requests \ {p} : req'[q] = req[q]
      /\ drawn' = drawn /\ row' = row /\ drawn \in Nat
  BY GotoFields DEF IInv, TypeOK
<1>2. TypeOK'
  BY <1>1 DEF IInv, TypeOK, DockerTypes
<1>3. ASSUME NEW q \in Requests PROVE RequestOK(q)' /\ SlugFree(q)'
  <2>1. CASE q = p
    BY <2>1
  <2>2. CASE q # p
    <3>1. RequestOK(q) /\ SlugFree(q) /\ req'[q] = req[q]
      BY <1>1, <2>2 DEF IInv
    <3>2. SlugFree(q)'
      BY <1>1, <3>1 DEF SlugFree
    <3>3. CASE ~Holder(q)
      BY <3>1, <3>2, <3>3, IdleOK
    <3>4. CASE Holder(q)
      <4>1. I(q) \in Ids
        BY <3>1, <3>4 DEF RequestOK, Fits, Holder, DeleterPcs
      <4>2. CASE Holder(p)
        <5>1. I(q) # I(p)
          BY <2>2, <3>4, <4>2, HoldersApart
        <5> QED BY <1>1, <3>1, <3>2, <4>1, <5>1, OtherOK DEF Only
      <4>3. CASE UNCHANGED docker
        BY <1>1, <3>1, <3>2, <4>1, <4>3, OtherOK DEF docker
      <4> QED BY <4>2, <4>3
    <3> QED BY <3>2, <3>3, <3>4
  <2> QED BY <2>1, <2>2
<1>4. ASSUME NEW i \in Ids PROVE RowOK(i)'
  <2>1. CASE i = I(p)
    BY <2>1, <1>1, GotoFields DEF IInv, I
  <2>2. CASE i # I(p)
    BY <2>2, <1>1 DEF IInv, RowOK, Only, Gone
  <2> QED BY <2>1, <2>2
<1>5. SlugUnique'
  BY <1>1 DEF IInv, SlugUnique
<1>6. ASSUME NEW q \in Requests, NEW r \in Requests, q # r PROVE Apart(q, r)'
  <2>1. CASE q # p /\ r # p
    BY <1>1, <1>6, <2>1 DEF IInv, Apart, I
  <2> QED BY <1>6, <2>1
<1> QED BY <1>2, <1>3, <1>4, <1>5, <1>6 DEF IInv

\* One step of a creation to the next.
LEMMA CreationInv ==
    ASSUME IInv, NEW p \in Requests, req[p].pc \in CreatePcs,
           NEW pc \in CreatePcs, NEW d \in Rows, Goto(p, pc, d), DockerTypes', Only(I(p)),
           pc \in ProvisionPcs => req[p].op = "provision",
           Drafted(p)', Made(p)'
    PROVE  IInv'
<1>1. /\ req'[p].pc = pc /\ req'[p].id = req[p].id /\ req'[p].slug = req[p].slug
      /\ req'[p].op = req[p].op /\ drawn' = drawn /\ row' = row /\ pc \in Pcs
      /\ \A q \in Requests \ {p} : req'[q] = req[q]
  BY GotoFields DEF IInv, Pcs
<1>2. RequestOK(p) /\ SlugFree(p) /\ Holder(p) /\ I(p)' = I(p)
  BY <1>1 DEF IInv, Holder, CreatorPcs, I
<1>3. /\ pc \notin DeletePcs /\ pc \notin DeleterPcs /\ req[p].pc \in CreatorPcs
      /\ pc \in CreatorPcs /\ pc \notin {"remove_network", "remove_dirs", "delete_row"}
  BY DEF CreatePcs, DeletePcs, DeleterPcs, CreatorPcs
<1>4. Fits(p)'
  BY <1>1, <1>2, <1>3 DEF RequestOK, Fits
<1>5. Unmade(p)'
  BY <1>1, <1>3 DEF Unmade
<1>6. SlugFree(p)'
  BY <1>1, <1>2 DEF SlugFree
<1>7. RowOK(I(p))'
  <2>1. I(p) \in Ids /\ I(p) <= drawn /\ row[I(p)] = NoRow
    BY <1>2, <1>3 DEF RequestOK, Fits
  <2>2. ~Listed(NoRow) /\ NoRow.status # "deleted"
    BY DEF Listed, NoRow
  <2>3. ~(I(p) > drawn)
    BY <2>1 DEF IInv, TypeOK, Ids
  <2> QED BY <1>1, <1>2, <2>1, <2>2, <2>3 DEF RowOK
<1>8. \A q \in Requests \ {p} : Apart(p, q)' /\ Apart(q, p)'
  BY <1>1, <1>2, <1>3 DEF IInv, Apart, I
<1> QED BY <1>1, <1>2, <1>3, <1>4, <1>5, <1>6, <1>7, <1>8, GotoInv DEF RequestOK, Fits

\* One step of a deletion to the next.
LEMMA DeletionInv ==
    ASSUME IInv, NEW p \in Requests, req[p].pc \in DeletePcs,
           NEW pc \in DeletePcs, NEW d \in Rows, Goto(p, pc, d), DockerTypes', Only(I(p)),
           initJob' = initJob, req[p].op # "provision", Unmade(p)'
    PROVE  IInv'
<1>1. /\ req'[p].pc = pc /\ req'[p].id = req[p].id /\ req'[p].slug = req[p].slug
      /\ req'[p].op = req[p].op /\ drawn' = drawn /\ row' = row /\ pc \in Pcs
      /\ \A q \in Requests \ {p} : req'[q] = req[q]
  BY GotoFields DEF IInv, Pcs
<1>2. RequestOK(p) /\ Holder(p) /\ I(p)' = I(p) /\ RowOK(I(p))
  BY <1>1 DEF IInv, Holder, I, RequestOK, Fits, DeleterPcs
<1>3. /\ pc \notin CreatePcs /\ pc \notin CreatorPcs /\ req[p].pc \in DeleterPcs
      /\ pc \in DeleterPcs /\ pc \notin ProvisionPcs
  BY DEF CreatePcs, DeletePcs, DeleterPcs, CreatorPcs, ProvisionPcs, JobPcs, StartPcs
<1>4. Fits(p)'
  BY <1>1, <1>2, <1>3 DEF RequestOK, Fits
<1>5. Drafted(p)'
  BY <1>1, <1>3 DEF Drafted, CreatePcs
<1>6. Made(p)'
  BY <1>1, <1>3 DEF Made, CreatePcs, StartPcs, CreatorPcs
<1>7. SlugFree(p)'
  BY <1>1, <1>3 DEF SlugFree
<1>8. RowOK(I(p))'
  <2>1. I(p) \in Ids /\ Listed(row[I(p)])
    BY <1>2, <1>3 DEF RequestOK, Fits
  <2>2. row[I(p)].status # "deleted" /\ ~(I(p) > drawn)
    BY <1>2, <2>1 DEF Listed, RowOK, NoRow
  <2> QED BY <1>1, <1>2, <2>1, <2>2 DEF RowOK
<1>9. \A q \in Requests \ {p} : Apart(p, q)' /\ Apart(q, p)'
  BY <1>1, <1>2, <1>3 DEF IInv, Apart, I
<1> QED BY <1>1, <1>2, <1>3, <1>4, <1>5, <1>6, <1>7, <1>8, <1>9, <1>2, GotoInv DEF RequestOK, Fits

\* A session that is closed without a commit, whatever it leaves in Docker.
LEMMA CloseInv ==
    ASSUME IInv, NEW p \in Requests, Close(p), DockerTypes',
           \/ UNCHANGED docker
           \/ req[p].pc \in CreatePcs /\ Only(I(p))
    PROVE  IInv'
<1>1. Idle \in RequestRecords /\ Idle.pc = "idle" /\ Idle.op = "none"
  BY DEF Idle, Begun, RequestRecords, NoRow, Rows, Statuses, Pcs
<1>2. /\ req' \in [Requests -> RequestRecords] /\ req'[p] = Idle
      /\ \A q \in Requests \ {p} : req'[q] = req[q]
      /\ drawn' = drawn /\ row' = row /\ drawn \in Nat
  BY <1>1 DEF IInv, TypeOK, Close
<1>3. TypeOK'
  BY <1>2 DEF IInv, TypeOK, DockerTypes
<1>4. RequestOK(p)' /\ SlugFree(p)'
  BY <1>1, <1>2 DEF RequestOK, SlugFree, Fits, Drafted, Made, Unmade, CreatorPcs, DeleterPcs,
     CreatePcs, DeletePcs, JobPcs, StartPcs, ProvisionPcs
<1>5. ASSUME NEW q \in Requests \ {p} PROVE RequestOK(q)' /\ SlugFree(q)'
  <2>1. RequestOK(q) /\ SlugFree(q) /\ req'[q] = req[q]
    BY <1>2 DEF IInv
  <2>2. SlugFree(q)'
    BY <1>2, <2>1 DEF SlugFree
  <2>3. CASE ~Holder(q)
    BY <2>1, <2>2, <2>3, IdleOK
  <2>4. CASE Holder(q)
    <3>1. I(q) \in Ids
      BY <2>1, <2>4 DEF RequestOK, Fits, Holder, DeleterPcs
    <3>2. CASE UNCHANGED docker
      BY <1>2, <2>1, <2>2, <3>1, <3>2, OtherOK DEF docker
    <3>3. CASE req[p].pc \in CreatePcs /\ Only(I(p))
      <4>1. I(q) # I(p)
        BY <2>4, <3>3, HoldersApart DEF Holder, CreatorPcs
      <4> QED BY <1>2, <2>1, <2>2, <3>1, <3>3, <4>1, OtherOK DEF Only
    <3> QED BY <3>2, <3>3
  <2> QED BY <2>3, <2>4
<1>6. ASSUME NEW i \in Ids PROVE RowOK(i)'
  <2>1. CASE UNCHANGED docker
    BY <1>2, <2>1 DEF IInv, RowOK, Gone, docker
  <2>2. CASE req[p].pc \in CreatePcs /\ Only(I(p))
    <3>1. /\ I(p) \in Ids /\ ~(I(p) > drawn) /\ row[I(p)] = NoRow
      BY <2>2 DEF IInv, TypeOK, RequestOK, Fits, CreatorPcs, Ids
    <3>2. ~Listed(NoRow) /\ NoRow.status # "deleted"
      BY DEF Listed, NoRow
    <3>3. CASE i = I(p)
      BY <1>2, <3>1, <3>2, <3>3 DEF RowOK
    <3>4. CASE i # I(p)
      BY <1>2, <2>2, <3>4 DEF IInv, RowOK, Only, Gone
    <3> QED BY <3>3, <3>4
  <2> QED BY <2>1, <2>2
<1>7. SlugUnique'
  BY <1>2 DEF IInv, SlugUnique
<1>8. ASSUME NEW q \in Requests, NEW r \in Requests, q # r PROVE Apart(q, r)'
  <2>1. CASE q # p /\ r # p
    BY <1>2, <1>8, <2>1 DEF IInv, Apart, I
  <2>2. CASE q = p \/ r = p
    <3>1. req'[q].pc = "idle" \/ req'[r].pc = "idle"
      BY <1>1, <1>2, <2>2
    <3> QED BY <3>1 DEF Apart, CreatorPcs, CreatePcs, DeletePcs
  <2> QED BY <2>1, <2>2
<1> QED BY <1>3, <1>4, <1>5, <1>6, <1>7, <1>8 DEF IInv

-----------------------------------------------------------------------------
(* Steps that commit, begin a handler or are the init job's. *)

\* A commit of the row of p.
LEMMA CommitInv ==
    ASSUME IInv, NEW p \in Requests, Holder(p), NEW r \in Rows, Commit(p, r),
           r.status # "provisioning",
           Listed(r) => /\ req[p].pc \in CreatePcs /\ r.slug = req[p].slug
                        /\ initJob[I(p)] = "none",
           r.status = "deleted" => Gone(I(p))
    PROVE  IInv'
<1>1. Idle \in RequestRecords /\ Idle.pc = "idle" /\ Idle.op = "none"
  BY DEF Idle, Begun, RequestRecords, NoRow, Rows, Statuses, Pcs
<1>2. RequestOK(p) /\ SlugFree(p) /\ I(p) \in Ids
  BY DEF IInv, RequestOK, Fits, Holder, DeleterPcs
<1>3. /\ req' \in [Requests -> RequestRecords] /\ req'[p] = Idle
      /\ \A q \in Requests \ {p} : req'[q] = req[q]
      /\ drawn' = drawn /\ drawn \in Nat
      /\ row' \in [Ids -> Rows] /\ row'[I(p)] = r
      /\ \A i \in Ids \ {I(p)} : row'[i] = row[i]
      /\ UNCHANGED docker
  BY <1>1, <1>2 DEF IInv, TypeOK, Commit
<1>4. TypeOK'
  BY <1>3 DEF IInv, TypeOK, docker
<1>5. RequestOK(p)' /\ SlugFree(p)'
  BY <1>1, <1>3 DEF RequestOK, SlugFree, Fits, Drafted, Made, Unmade, CreatorPcs, DeleterPcs,
     CreatePcs, DeletePcs, JobPcs, StartPcs, ProvisionPcs
<1>6. ASSUME NEW q \in Requests \ {p} PROVE RequestOK(q)' /\ SlugFree(q)'
  <2>1. RequestOK(q) /\ SlugFree(q) /\ req'[q] = req[q] /\ Apart(p, q)
    BY <1>3 DEF IInv
  <2>2. SlugFree(q)'
    <3>1. SUFFICES ASSUME req[q].pc \in CreatePcs, NEW i \in Ids, Listed(row'[i])
                   PROVE  row'[i].slug # req[q].slug
      BY <2>1 DEF SlugFree
    <3>2. CASE i = I(p)
      BY <1>3, <2>1, <3>1, <3>2 DEF Apart
    <3>3. CASE i # I(p)
      BY <1>3, <2>1, <3>1, <3>3 DEF SlugFree
    <3> QED BY <3>2, <3>3
  <2>3. CASE ~Holder(q)
    BY <2>1, <2>2, <2>3, IdleOK
  <2>4. CASE Holder(q)
    <3>1. I(q) \in Ids /\ I(q) # I(p)
      BY <2>4, HoldersApart
    <3> QED BY <1>3, <2>1, <2>2, <3>1, OtherOK DEF docker
  <2> QED BY <2>3, <2>4
<1>7. ASSUME NEW i \in Ids PROVE RowOK(i)'
  <2>1. CASE i # I(p)
    BY <1>3, <2>1 DEF IInv, RowOK, Gone, docker
  <2>2. CASE i = I(p)
    <3>1. ~(I(p) > drawn)
      <4>1. CASE req[p].pc \in CreatorPcs
        BY <1>2, <1>3, <4>1 DEF RequestOK, Fits, Ids
      <4>2. CASE req[p].pc \in DeletePcs
        BY <1>2, <4>2 DEF IInv, RequestOK, Fits, RowOK, Listed, NoRow
      <4> QED BY <4>1, <4>2 DEF Holder
    <3>2. Listed(r) => r.slug \in Slugs
      BY <1>2 DEF RequestOK, Fits, CreatorPcs
    <3> QED BY <1>3, <2>2, <3>1, <3>2 DEF RowOK, Gone, docker
  <2> QED BY <2>1, <2>2
<1>8. SlugUnique'
  <2>1. SUFFICES ASSUME NEW i \in Ids, NEW j \in Ids, Listed(row'[i]), Listed(row'[j]), i # j
                 PROVE  row'[i].slug # row'[j].slug
    BY DEF SlugUnique
  <2>2. CASE i # I(p) /\ j # I(p)
    BY <1>3, <2>1, <2>2 DEF IInv, SlugUnique
  <2>3. CASE i = I(p) \/ j = I(p)
    BY <1>2, <1>3, <2>1, <2>3 DEF SlugFree
  <2> QED BY <2>2, <2>3
<1>9. ASSUME NEW q \in Requests, NEW s \in Requests, q # s PROVE Apart(q, s)'
  <2>1. CASE q # p /\ s # p
    BY <1>3, <1>9, <2>1 DEF IInv, Apart, I
  <2>2. CASE q = p \/ s = p
    <3>1. req'[q].pc = "idle" \/ req'[s].pc = "idle"
      BY <1>1, <1>3, <2>2
    <3> QED BY <3>1 DEF Apart, CreatorPcs, CreatePcs, DeletePcs
  <2> QED BY <2>1, <2>2
<1> QED BY <1>4, <1>5, <1>6, <1>7, <1>8, <1>9 DEF IInv

\* A handler begins: with the next id, or with the id of whatever tenant.
LEMMA BeginInv ==
    ASSUME IInv, NEW p \in Requests, NEW r \in RequestRecords, Begin(p, r),
           r.draft \in Rows,
           \/ /\ r.pc \in {"select_slug", "insert"} /\ r.id = drawn + 1 /\ drawn' = drawn + 1
              /\ drawn < MaxTenants
              /\ r.slug \in Slugs /\ r.op \in {"provision", "create"}
              /\ r.op = "provision" => p \in ApiRequests
           \/ r.pc = "get" /\ r.op = "delete" /\ r.id \in Ids /\ drawn' = drawn
    PROVE  IInv'
<1>1. /\ req' \in [Requests -> RequestRecords] /\ req'[p] = r
      /\ \A q \in Requests \ {p} : req'[q] = req[q]
      /\ row' = row /\ UNCHANGED docker
      /\ drawn \in Nat /\ drawn' \in 0..MaxTenants /\ drawn <= drawn'
  BY MaxTenantsAssumption DEF IInv, TypeOK, Begin
<1>2. TypeOK'
  BY <1>1 DEF IInv, TypeOK, docker
<1>3. ASSUME NEW q \in Requests \ {p} PROVE RequestOK(q)' /\ SlugFree(q)'
  <2>1. RequestOK(q) /\ SlugFree(q) /\ req'[q] = req[q]
    BY <1>1 DEF IInv
  <2>2. SlugFree(q)'
    BY <1>1, <2>1 DEF SlugFree
  <2>3. CASE ~Holder(q)
    BY <2>1, <2>2, <2>3, IdleOK
  <2>4. CASE Holder(q)
    <3>1. I(q) \in Ids
      BY <2>1, <2>4 DEF RequestOK, Fits, Holder, DeleterPcs
    <3> QED BY <1>1, <2>1, <2>2, <3>1, MaxTenantsAssumption, OtherOK DEF docker
  <2> QED BY <2>3, <2>4
<1>4. RequestOK(p)' /\ SlugFree(p)'
  <2>1. r.pc \notin CreatePcs /\ r.pc \notin DeletePcs /\ r.pc \notin ProvisionPcs
    BY DEF CreatePcs, DeletePcs, ProvisionPcs, JobPcs, StartPcs
  <2>2. CASE r.pc = "get" /\ r.op = "delete" /\ r.id \in Ids
    <3>1. "get" \notin CreatorPcs /\ "get" \in DeleterPcs
      BY DEF CreatorPcs, CreatePcs, DeleterPcs
    <3>2. Fits(p)'
      BY <1>1, <2>1, <2>2, <3>1 DEF Fits, I
    <3>3. Drafted(p)' /\ Made(p)' /\ Unmade(p)' /\ SlugFree(p)'
      BY <1>1, <2>1, <2>2, <3>1 DEF Drafted, Made, Unmade, SlugFree, CreatePcs, StartPcs
    <3> QED BY <3>2, <3>3 DEF RequestOK
  <2>3. CASE /\ r.pc \in {"select_slug", "insert"} /\ r.id = drawn + 1 /\ drawn' = drawn + 1
             /\ drawn < MaxTenants
             /\ r.slug \in Slugs /\ r.op \in {"provision", "create"}
             /\ r.op = "provision" => p \in ApiRequests
    <3>1. r.id \in Ids /\ r.id > drawn /\ r.id <= drawn'
      BY <1>1, <2>3, MaxTenantsAssumption DEF Ids
    <3>2. row[r.id] = NoRow /\ initJob[r.id] = "none" /\ container[r.id] = "none"
      BY <3>1 DEF IInv, RowOK
    <3>3. r.pc \in CreatorPcs /\ r.pc \notin DeleterPcs /\ r.pc \notin JobPcs
      BY <2>3 DEF CreatorPcs, DeleterPcs, DeletePcs, JobPcs
    <3>4. Fits(p)'
      BY <1>1, <2>1, <2>3, <3>1, <3>2, <3>3 DEF Fits, I
    <3>5. Made(p)'
      BY <1>1, <2>1, <2>3, <3>1, <3>2, <3>3 DEF Made, I, docker, StartPcs
    <3>6. Drafted(p)' /\ Unmade(p)' /\ SlugFree(p)'
      BY <1>1, <2>1, <2>3 DEF Drafted, Unmade, SlugFree, CreatePcs
    <3> QED BY <3>4, <3>5, <3>6 DEF RequestOK
  <2> QED BY <2>2, <2>3
<1>5. ASSUME NEW i \in Ids PROVE RowOK(i)'
  BY <1>1, MaxTenantsAssumption DEF IInv, RowOK, Gone, docker, Ids
<1>6. SlugUnique'
  BY <1>1 DEF IInv, SlugUnique
<1>7. ASSUME NEW q \in Requests, NEW s \in Requests, q # s PROVE Apart(q, s)'
  <2>1. CASE q # p /\ s # p
    BY <1>1, <1>7, <2>1 DEF IInv, Apart, I
  <2>2. r.pc \notin CreatePcs /\ r.pc \notin DeletePcs
    BY DEF CreatePcs, DeletePcs
  <2>3. ASSUME NEW t \in Requests \ {p}, r.pc \in CreatorPcs, req[t].pc \in CreatorPcs
        PROVE  r.id # I(t)
    <3>1. r.id = drawn + 1
      BY <2>3 DEF CreatorPcs, CreatePcs
    <3>2. I(t) \in Ids /\ I(t) <= drawn
      BY <2>3 DEF IInv, RequestOK, Fits
    <3> QED BY <1>1, <3>1, <3>2 DEF Ids
  <2>4. CASE q = p
    BY <1>1, <1>7, <2>2, <2>3, <2>4 DEF Apart, I
  <2>5. CASE s = p
    BY <1>1, <1>7, <2>2, <2>3, <2>5 DEF Apart, I
  <2> QED BY <2>1, <2>4, <2>5
<1> QED BY <1>2, <1>3, <1>4, <1>5, <1>6, <1>7 DEF IInv

\* The init job of a tenant ends: its provision is waiting for it, or has given up.
LEMMA InitJobEndsInv ==
    ASSUME IInv, NEW i \in Ids, InitJobEnds(i)
    PROVE  IInv'
<1>0. home \in [Ids -> Homes] /\ initJob \in [Ids -> InitStates]
  BY DEF IInv, TypeOK
<1>1. /\ UNCHANGED <<drawn, row, network, container, req>>
      /\ \A j \in Ids \ {i} : initJob'[j] = initJob[j] /\ home'[j] = home[j]
      /\ home'[i] = home[i] \/ (home[i] = "empty" /\ home'[i] = "onboarded")
      /\ home' \in [Ids -> Homes] /\ initJob' \in [Ids -> InitStates]
      /\ initJob[i] = "running"
  <2>1. /\ initJob' \in [Ids -> InitStates] /\ initJob[i] = "running"
        /\ \A j \in Ids \ {i} : initJob'[j] = initJob[j]
    BY <1>0 DEF InitJobEnds, InitStates
  <2>2. /\ home' \in [Ids -> Homes]
        /\ \A j \in Ids \ {i} : home'[j] = home[j]
        /\ home'[i] = home[i] \/ (home[i] = "empty" /\ home'[i] = "onboarded")
    <3>1. CASE UNCHANGED home
      BY <1>0, <3>1
    <3>2. CASE home[i] = "empty" /\ home' = [home EXCEPT ![i] = "onboarded"]
      BY <1>0, <3>2 DEF Homes
    <3> QED BY <3>1, <3>2 DEF InitJobEnds
  <2> QED BY <2>1, <2>2 DEF InitJobEnds
<1>2. TypeOK'
  BY <1>1 DEF IInv, TypeOK
<1>3. ~Listed(row[i]) /\ row[i].status # "deleted" /\ ~(i > drawn)
  BY <1>1 DEF IInv, RowOK, Gone
<1>4. ASSUME NEW j \in Ids PROVE RowOK(j)'
  <2>1. CASE j = i
    BY <1>1, <1>3, <2>1 DEF RowOK
  <2>2. CASE j # i
    BY <1>1, <2>2 DEF IInv, RowOK, Gone
  <2> QED BY <2>1, <2>2
<1>5. SlugUnique' /\ \A p, q \in Requests : p # q => Apart(p, q)'
  BY <1>1 DEF IInv, SlugUnique, Apart, I
<1>6. ASSUME NEW p \in Requests PROVE RequestOK(p)' /\ SlugFree(p)'
  <2>1. RequestOK(p) /\ SlugFree(p)
    BY DEF IInv
  <2>2. SlugFree(p)' /\ Fits(p)' /\ Drafted(p)'
    BY <1>1, <2>1 DEF SlugFree, RequestOK, Fits, Drafted, I
  <2>3. CASE ~Holder(p)
    BY <1>1, <2>1, <2>2, <2>3, IdleOK
  <2>4. CASE req[p].pc \in DeletePcs
    <3>1. I(p) \in Ids /\ I(p) # i
      BY <1>3, <2>1, <2>4 DEF RequestOK, Fits, DeleterPcs
    <3>2. drawn \in Nat /\ drawn <= drawn /\ drawn' = drawn /\ req' = req
      BY <1>1 DEF IInv, TypeOK
    <3> QED BY <1>1, <2>1, <2>2, <3>1, <3>2, OtherOK
  <2>5. CASE req[p].pc \in CreatorPcs
    <3>1. I(p) \in Ids
      BY <2>1, <2>5 DEF RequestOK, Fits
    <3>2. I(p) = i => req[p].pc \in JobPcs
      BY <1>1, <2>1, <2>5 DEF RequestOK, Made
    <3>3. JobPcs \cap StartPcs = {}
      BY DEF JobPcs, StartPcs
    <3>4. req[p].pc \notin DeletePcs
      BY <2>5 DEF CreatorPcs, CreatePcs, DeletePcs
    <3>5. Made(p)'
      BY <1>1, <2>1, <3>1, <3>2, <3>3 DEF RequestOK, Made, I, StartPcs
    <3>6. Unmade(p)'
      BY <1>1, <3>4 DEF Unmade, DeletePcs
    <3> QED BY <2>2, <3>5, <3>6 DEF RequestOK
  <2> QED BY <2>3, <2>4, <2>5 DEF Holder
<1> QED BY <1>2, <1>4, <1>5, <1>6 DEF IInv

-----------------------------------------------------------------------------
(* The slug is taken. *)

LEMMA RequestFacts ==
    ASSUME IInv, NEW p \in Requests
    PROVE  /\ TypeOK /\ req[p] \in RequestRecords /\ req[p].draft \in Rows
           /\ RequestOK(p) /\ SlugFree(p)
           /\ req[p].pc \in CreatorPcs \cup DeleterPcs => I(p) \in Ids
           /\ DockerTypes
BY DEF IInv, TypeOK, RequestRecords, RequestOK, Fits, DockerTypes

LEMMA StatementDocker ==
    ASSUME IInv, NEW p, UNCHANGED docker
    PROVE  DockerTypes' /\ Only(I(p))
BY DEF IInv, TypeOK, docker, DockerTypes, Only

LEMMA AbortInv ==
    ASSUME IInv, NEW p \in Requests, Abort(p)
    PROVE  IInv'
BY StatementDocker, CloseInv DEF Abort

LEMMA SelectSlugInv ==
    ASSUME IInv, NEW p \in Requests, SelectSlug(p)
    PROVE  IInv'
<1>1. CASE Abort(p)
  BY <1>1, AbortInv
<1>2. CASE Statement(p, "insert", NoRow)
  <2>1. NoRow \in Rows /\ "insert" \in Pcs
    BY DEF NoRow, Rows, Statuses, Pcs
  <2>2. Goto(p, "insert", NoRow) /\ UNCHANGED docker
    BY <1>2 DEF Statement
  <2>3. /\ req'[p].pc = "insert" /\ req'[p].draft = NoRow /\ req'[p].id = req[p].id
        /\ req'[p].slug = req[p].slug /\ req'[p].op = req[p].op
        /\ drawn' = drawn /\ row' = row
        /\ \A q \in Requests \ {p} : req'[q] = req[q]
    BY <2>1, <2>2, RequestFacts, GotoFields
  <2>4. /\ req[p].pc = "select_slug" /\ "select_slug" \in CreatorPcs /\ "insert" \in CreatorPcs
        /\ "select_slug" \notin JobPcs
    BY DEF SelectSlug, At, CreatorPcs, JobPcs
  <2>5. /\ "insert" \notin CreatePcs /\ "insert" \notin DeletePcs /\ "insert" \notin DeleterPcs
        /\ "insert" \notin ProvisionPcs
    BY DEF CreatePcs, DeletePcs, DeleterPcs, ProvisionPcs, StartPcs, JobPcs
  <2>6. RequestOK(p) /\ I(p) \in Ids /\ I(p)' = I(p) /\ Holder(p)
    BY <2>3, <2>4, RequestFacts DEF I, Holder
  <2>7. Fits(p)'
    BY <2>3, <2>4, <2>5, <2>6 DEF RequestOK, Fits
  <2>8. Made(p)'
    BY <2>2, <2>3, <2>4, <2>5, <2>6 DEF RequestOK, Made, docker, JobPcs, StartPcs
  <2>9. Drafted(p)' /\ Unmade(p)' /\ SlugFree(p)'
    BY <2>3, <2>5 DEF Drafted, Unmade, SlugFree, CreatePcs
  <2>10. \A q \in Requests \ {p} : Apart(p, q)' /\ Apart(q, p)'
    BY <2>3, <2>4, <2>5 DEF IInv, Apart, I
  <2>11. RowOK(I(p))'
    BY <2>2, <2>3, <2>6 DEF IInv, RowOK, Gone, docker
  <2> QED BY <2>1, <2>2, <2>6, <2>7, <2>8, <2>9, <2>10, <2>11, StatementDocker, GotoInv
             DEF RequestOK
<1> QED BY <1>1, <1>2 DEF SelectSlug

LEMMA InsertTenantInv ==
    ASSUME IInv, NEW p \in Requests, InsertTenant(p)
    PROVE  IInv'
<1>1. CASE Abort(p)
  BY <1>1, AbortInv
<1>2. CASE /\ \A i \in Ids : Listed(row[i]) => row[i].slug # req[p].slug
           /\ Statement(p, "create_dirs", InsertedRow(p))
  <2>1. /\ req[p].pc = "insert" /\ "insert" \in CreatorPcs /\ "create_dirs" \in CreatorPcs
        /\ "insert" \notin JobPcs /\ "create_dirs" \in CreatePcs
        /\ "create_dirs" \notin JobPcs
    BY DEF InsertTenant, At, CreatorPcs, JobPcs, CreatePcs
  <2>2. RequestOK(p) /\ I(p) \in Ids /\ Holder(p) /\ req[p].slug \in Slugs
    BY <2>1, RequestFacts DEF Holder, RequestOK, Fits
  <2>3. InsertedRow(p) \in Rows /\ InsertedRow(p).slug = req[p].slug /\ ~InsertedRow(p).provider
        /\ "create_dirs" \in Pcs
    BY <2>2 DEF InsertedRow, NoRow, Rows, Statuses, Pcs, CreatePcs
  <2>4. Goto(p, "create_dirs", InsertedRow(p)) /\ UNCHANGED docker
    BY <1>2 DEF Statement
  <2>5. /\ req'[p].pc = "create_dirs" /\ req'[p].draft = InsertedRow(p)
        /\ req'[p].id = req[p].id
        /\ req'[p].slug = req[p].slug /\ req'[p].op = req[p].op
        /\ drawn' = drawn /\ row' = row
        /\ \A q \in Requests \ {p} : req'[q] = req[q]
    BY <2>3, <2>4, RequestFacts, GotoFields
  <2>6. /\ "create_dirs" \notin DeletePcs /\ "create_dirs" \notin DeleterPcs
        /\ "create_dirs" \notin ProvisionPcs /\ I(p)' = I(p)
    BY <2>5 DEF DeletePcs, DeleterPcs, ProvisionPcs, StartPcs, JobPcs, I
  <2>7. Fits(p)'
    BY <2>1, <2>2, <2>5, <2>6 DEF RequestOK, Fits
  <2>8. Made(p)'
    BY <2>1, <2>2, <2>4, <2>5, <2>6 DEF RequestOK, Made, docker, StartPcs
  <2>9. Drafted(p)' /\ Unmade(p)'
    BY <2>3, <2>5, <2>6 DEF Drafted, Unmade
  <2>10. SlugFree(p)'
    BY <1>2, <2>5 DEF SlugFree
  <2>11. ASSUME NEW q \in Requests \ {p} PROVE Apart(p, q)' /\ Apart(q, p)'
    <3>1. req[q].pc \in CreatePcs => req[q].slug # req[p].slug
      BY DEF InsertTenant, HoldsSlug
    <3> QED BY <2>1, <2>5, <2>6, <3>1 DEF IInv, Apart, I
  <2>12. RowOK(I(p))'
    BY <2>2, <2>4, <2>5, <2>6 DEF IInv, RowOK, Gone, docker
  <2> QED BY <2>2, <2>3, <2>4, <2>7, <2>8, <2>9, <2>10, <2>11, <2>12, StatementDocker, GotoInv
             DEF RequestOK
<1> QED BY <1>1, <1>2 DEF InsertTenant

-----------------------------------------------------------------------------
(* The rest of a creation and of a provision. *)

\* What a request knows that goes on in a creation.
LEMMA CreationGoto ==
    ASSUME IInv, NEW p \in Requests, req[p].pc \in CreatePcs, NEW pc \in CreatePcs,
           NEW d \in Rows, Goto(p, pc, d)
    PROVE  /\ req'[p].pc = pc /\ req'[p].draft = d /\ req'[p].slug = req[p].slug
           /\ I(p)' = I(p) /\ I(p) \in Ids /\ pc \in CreatorPcs /\ req[p].pc \in CreatorPcs
           /\ Drafted(p) /\ Made(p) /\ req[p].draft \in Rows /\ DockerTypes
<1>1. req'[p].pc = pc /\ req'[p].draft = d /\ req'[p].slug = req[p].slug /\ I(p)' = I(p)
  BY GotoFields, RequestFacts DEF Pcs, I
<1>2. pc \in CreatorPcs /\ req[p].pc \in CreatorPcs
  BY DEF CreatorPcs
<1> QED BY <1>1, <1>2, RequestFacts DEF RequestOK

LEMMA PcFacts ==
    /\ CreatePcs \subseteq CreatorPcs
    /\ ProvisionPcs = {"set_provider", "store_secrets", "create_job", "configure", "run_job",
                       "wait_job", "remove_job", "create_container", "run_container",
                       "set_running"}
    /\ ProvisionPcs \cup {"create_dirs", "create_network", "record"} = CreatePcs
BY DEF CreatePcs, CreatorPcs, ProvisionPcs, JobPcs, StartPcs

LEMMA CreateDirsInv ==
    ASSUME IInv, NEW p \in Requests, CreateDirs(p)
    PROVE  IInv'
<1> DEFINE d == req[p].draft
<1>1. req[p].pc = "create_dirs" /\ req[p].pc \in CreatePcs /\ "create_network" \in CreatePcs
  BY DEF CreateDirs, At, CreatePcs
<1>2. Goto(p, "create_network", d) /\ d \in Rows
  BY RequestFacts DEF CreateDirs, DockerCall
<1>3. /\ req'[p].pc = "create_network" /\ req'[p].draft = d /\ req'[p].slug = req[p].slug
      /\ I(p)' = I(p) /\ I(p) \in Ids /\ Drafted(p) /\ Made(p) /\ DockerTypes
      /\ req[p].pc \in CreatorPcs
  BY <1>1, <1>2, CreationGoto
<1>4. home' = [home EXCEPT ![I(p)] = "empty"] /\ UNCHANGED <<network, container, initJob>>
  BY DEF CreateDirs
<1>5. "empty" \in Homes /\ "empty" # "none"
  BY DEF Homes
<1>6. DockerTypes' /\ Only(I(p)) /\ home'[I(p)] = "empty"
  BY <1>3, <1>4, <1>5 DEF DockerTypes, Only
<1>7. Drafted(p)'
  BY <1>1, <1>3, PcFacts DEF Drafted
<1>8. Made(p)'
  BY <1>1, <1>3, <1>4, <1>5, <1>6, PcFacts DEF Made, JobPcs, StartPcs
<1>9. "create_network" \notin ProvisionPcs
  BY PcFacts
<1> QED BY <1>1, <1>2, <1>6, <1>7, <1>8, <1>9, CreationInv

LEMMA CreateNetworkInv ==
    ASSUME IInv, NEW p \in Requests, CreateNetwork(p)
    PROVE  IInv'
<1> DEFINE d == req[p].draft
<1>1. req[p].pc = "create_network" /\ req[p].pc \in CreatePcs /\ "record" \in CreatePcs
  BY DEF CreateNetwork, At, CreatePcs
<1>2. Goto(p, "record", d) /\ d \in Rows
  BY RequestFacts DEF CreateNetwork, DockerCall
<1>3. /\ req'[p].pc = "record" /\ req'[p].draft = d /\ req'[p].slug = req[p].slug
      /\ I(p)' = I(p) /\ I(p) \in Ids /\ Drafted(p) /\ Made(p) /\ DockerTypes
      /\ req[p].pc \in CreatorPcs
  BY <1>1, <1>2, CreationGoto
<1>4. network' = [network EXCEPT ![I(p)] = TRUE] /\ UNCHANGED <<home, container, initJob>>
  BY DEF CreateNetwork
<1>5. DockerTypes' /\ Only(I(p)) /\ network'[I(p)] = TRUE
  BY <1>3, <1>4 DEF DockerTypes, Only
<1>6. Drafted(p)'
  BY <1>1, <1>3, PcFacts DEF Drafted
<1>7. Made(p)'
  BY <1>1, <1>3, <1>4, <1>5, PcFacts DEF Made, JobPcs, StartPcs
<1>8. "record" \notin ProvisionPcs
  BY PcFacts
<1> QED BY <1>1, <1>2, <1>5, <1>6, <1>7, <1>8, CreationInv

\* What create_tenant adds to its row.
LEMMA RecordedFacts ==
    ASSUME IInv, NEW p \in Requests, req[p].pc = "record"
    PROVE  /\ Recorded(p) \in Rows /\ Recorded(p).slug = req[p].slug
           /\ Recorded(p).status = "stopped" /\ Recorded(p).network
           /\ Recorded(p).admin = (p \in ApiRequests) /\ ~Recorded(p).provider
           /\ I(p) \in Ids /\ Made(p) /\ "record" \in CreatePcs
<1>1. "record" \in CreatePcs /\ "record" \in CreatorPcs
  BY DEF CreatePcs, CreatorPcs
<1>2. /\ req[p].draft \in Rows /\ req[p].draft.slug = req[p].slug /\ ~req[p].draft.provider
      /\ I(p) \in Ids /\ Made(p)
  BY <1>1, RequestFacts DEF RequestOK, Drafted
<1>3. req[p].draft.provider = FALSE
  BY <1>2 DEF Rows
<1>4. ASSUME NEW r \in Rows, NEW b \in BOOLEAN
      PROVE  LET n == [r EXCEPT !.status = "stopped", !.network = TRUE, !.admin = b]
             IN  n \in Rows /\ n.slug = r.slug /\ n.status = "stopped" /\ n.network = TRUE
                 /\ n.admin = b /\ n.provider = r.provider
  BY DEF Rows, Statuses
<1>5. (p \in ApiRequests) \in BOOLEAN
  OBVIOUS
<1>6. /\ Recorded(p) \in Rows /\ Recorded(p).slug = req[p].slug
      /\ Recorded(p).status = "stopped" /\ Recorded(p).network = TRUE
      /\ Recorded(p).admin = (p \in ApiRequests) /\ Recorded(p).provider = FALSE
  BY <1>2, <1>3, <1>4, <1>5 DEF Recorded
<1> QED BY <1>1, <1>2, <1>6

LEMMA RecordInv ==
    ASSUME IInv, NEW p \in Requests, Record(p)
    PROVE  IInv'
<1> DEFINE d == Recorded(p)
<1>1. req[p].pc = "record" /\ "record" \in CreatePcs /\ "set_provider" \in CreatePcs
  BY DEF Record, At, CreatePcs
<1>2. /\ d \in Rows /\ d.slug = req[p].slug /\ d.status = "stopped" /\ d.network
      /\ d.admin = (p \in ApiRequests) /\ Made(p)
  BY <1>1, RecordedFacts
<1>3. "record" \in CreatorPcs /\ "record" \notin JobPcs
  BY DEF CreatorPcs, CreatePcs, JobPcs
<1>4. CASE Commit(p, d)
  <2>1. initJob[I(p)] = "none"
    BY <1>1, <1>2, <1>3 DEF Made
  <2>2. d.status # "provisioning" /\ d.status # "deleted" /\ Holder(p)
    BY <1>1, <1>2, <1>3 DEF Holder
  <2> HIDE DEF d
  <2> QED BY <1>1, <1>2, <1>4, <2>1, <2>2, CommitInv
<1>5. CASE req[p].op = "provision" /\ Statement(p, "set_provider", d)
  <2>1. Goto(p, "set_provider", d) /\ UNCHANGED docker
    BY <1>5 DEF Statement
  <2>2. /\ req'[p].pc = "set_provider" /\ req'[p].draft = d /\ req'[p].slug = req[p].slug
        /\ I(p)' = I(p)
    BY <1>1, <1>2, <2>1, CreationGoto
  <2>3. p \in ApiRequests
    BY <1>5, RequestFacts DEF RequestOK, Fits
  <2>4. Drafted(p)'
    BY <1>1, <1>2, <2>2, <2>3, PcFacts DEF Drafted
  <2>5. Made(p)'
    BY <1>1, <1>2, <1>3, <2>1, <2>2, PcFacts DEF Made, JobPcs, StartPcs, docker
  <2> HIDE DEF d
  <2> QED BY <1>1, <1>2, <1>5, <2>1, <2>4, <2>5, StatementDocker, CreationInv
<1> QED BY <1>4, <1>5 DEF Record

LEMMA SetProviderInv ==
    ASSUME IInv, NEW p \in Requests, SetProvider(p)
    PROVE  IInv'
<1> DEFINE d == [req[p].draft EXCEPT !.provider = TRUE]
<1>1. /\ req[p].pc = "set_provider" /\ "set_provider" \in CreatePcs
      /\ "store_secrets" \in CreatePcs
  BY DEF SetProvider, At, CreatePcs
<1>2. req[p].draft \in Rows /\ Drafted(p) /\ Made(p) /\ Fits(p)
  BY RequestFacts DEF RequestOK
<1>3. /\ d \in Rows /\ d.slug = req[p].draft.slug /\ d.status = req[p].draft.status
      /\ d.network = req[p].draft.network /\ d.admin = req[p].draft.admin
      /\ d.provider = TRUE
  BY <1>2 DEF Rows
<1>4. Goto(p, "store_secrets", d) /\ UNCHANGED docker
  BY DEF SetProvider, Statement
<1> HIDE DEF d
<1>5. /\ req'[p].pc = "store_secrets" /\ req'[p].draft = d /\ req'[p].slug = req[p].slug
      /\ I(p)' = I(p)
  BY <1>1, <1>3, <1>4, CreationGoto
<1>6. Drafted(p)'
  BY <1>1, <1>2, <1>3, <1>5, PcFacts DEF Drafted
<1>7. Made(p)'
  BY <1>1, <1>2, <1>4, <1>5, PcFacts DEF Made, JobPcs, StartPcs, docker
<1>8. req[p].op = "provision"
  BY <1>1, <1>2, PcFacts DEF Fits
<1> QED BY <1>1, <1>3, <1>4, <1>6, <1>7, <1>8, StatementDocker, CreationInv

LEMMA StoreSecretsInv ==
    ASSUME IInv, NEW p \in Requests, StoreSecrets(p)
    PROVE  IInv'
<1> DEFINE d == [req[p].draft EXCEPT !.dek = TRUE]
<1>1. /\ req[p].pc = "store_secrets" /\ "store_secrets" \in CreatePcs
      /\ "create_job" \in CreatePcs
  BY DEF StoreSecrets, At, CreatePcs
<1>2. req[p].draft \in Rows /\ Drafted(p) /\ Made(p) /\ Fits(p)
  BY RequestFacts DEF RequestOK
<1>3. /\ d \in Rows /\ d.slug = req[p].draft.slug /\ d.status = req[p].draft.status
      /\ d.network = req[p].draft.network /\ d.admin = req[p].draft.admin
      /\ d.provider = req[p].draft.provider /\ d.dek = TRUE
  BY <1>2 DEF Rows
<1>4. Goto(p, "create_job", d) /\ UNCHANGED docker
  BY DEF StoreSecrets, Statement
<1> HIDE DEF d
<1>5. /\ req'[p].pc = "create_job" /\ req'[p].draft = d /\ req'[p].slug = req[p].slug
      /\ I(p)' = I(p)
  BY <1>1, <1>3, <1>4, CreationGoto
<1>6. Drafted(p)'
  BY <1>1, <1>2, <1>3, <1>5, PcFacts DEF Drafted
<1>7. Made(p)'
  BY <1>1, <1>2, <1>4, <1>5, PcFacts DEF Made, JobPcs, StartPcs, docker
<1>8. req[p].op = "provision"
  BY <1>1, <1>2, PcFacts DEF Fits
<1> QED BY <1>1, <1>3, <1>4, <1>6, <1>7, <1>8, StatementDocker, CreationInv

\* The pcs of the calls to Docker that end a provision.
CallPcs == ProvisionPcs \ {"set_provider", "store_secrets"}

\* What a provision knows at each of them.
LEMMA CallFacts ==
    ASSUME IInv, NEW p \in Requests, req[p].pc \in CallPcs
    PROVE  /\ I(p) \in Ids /\ network[I(p)] /\ home[I(p)] # "none"
           /\ req[p].pc \notin JobPcs => initJob[I(p)] = "none"
           /\ req[p].pc \notin {"run_container", "set_running"} => container[I(p)] = "none"
           /\ req[p].pc \in StartPcs => home[I(p)] # "onboarded"
           /\ req[p].pc = "set_running" => container[I(p)] = "running"
           /\ req[p].op = "provision" /\ req[p].pc \in CreatePcs
           /\ req[p].draft \in Rows /\ DockerTypes
<1>1. req[p].pc \in CreatorPcs /\ req[p].pc \in ProvisionPcs /\ req[p].pc \in CreatePcs
  BY PcFacts DEF CallPcs
<1>2. Made(p) /\ Fits(p) /\ I(p) \in Ids /\ req[p].draft \in Rows /\ DockerTypes
  BY <1>1, RequestFacts DEF RequestOK
<1> QED BY <1>1, <1>2 DEF Made, Fits

LEMMA CallInv ==
    ASSUME IInv, NEW p \in Requests, req[p].pc \in CallPcs, NEW pc \in CallPcs,
           DockerCall(p, pc), DockerTypes', Only(I(p)),
           network'[I(p)], home'[I(p)] # "none",
           pc \notin JobPcs => initJob'[I(p)] = "none",
           pc \notin {"run_container", "set_running"} => container'[I(p)] = "none",
           pc \in StartPcs => home'[I(p)] # "onboarded",
           pc = "set_running" => container'[I(p)] = "running"
    PROVE  IInv'
<1>1. req[p].pc \in CreatePcs /\ pc \in CreatePcs /\ pc \in ProvisionPcs
  BY PcFacts DEF CallPcs
<1>2. Goto(p, pc, req[p].draft) /\ req[p].draft \in Rows
  BY RequestFacts DEF DockerCall
<1>3. /\ req'[p].pc = pc /\ req'[p].draft = req[p].draft /\ req'[p].slug = req[p].slug
      /\ I(p)' = I(p) /\ Drafted(p)
  BY <1>1, <1>2, CreationGoto
<1>4. Drafted(p)'
  BY <1>1, <1>3, PcFacts DEF Drafted, CallPcs
<1>5. Made(p)'
  BY <1>3 DEF Made
<1>6. req[p].op = "provision"
  BY CallFacts
<1> QED BY <1>1, <1>2, <1>4, <1>5, <1>6, CreationInv

LEMMA CreateInitJobInv ==
    ASSUME IInv, NEW p \in Requests, CreateInitJob(p)
    PROVE  IInv'
<1>1. /\ req[p].pc = "create_job" /\ "create_job" \in CallPcs /\ "run_job" \in CallPcs
      /\ "run_job" \in JobPcs /\ "run_job" \notin StartPcs
  BY PcFacts DEF CreateInitJob, At, CallPcs, JobPcs, StartPcs
<1>2. DockerTypes' /\ Only(I(p)) /\ UNCHANGED <<network, home, container>>
  BY <1>1, CallFacts DEF CreateInitJob, InitJobBecomes, DockerTypes, Only, InitStates
<1> QED BY <1>1, <1>2, CallFacts, CallInv DEF CreateInitJob

LEMMA RunInitJobInv ==
    ASSUME IInv, NEW p \in Requests, RunInitJob(p)
    PROVE  IInv'
<1>1. /\ req[p].pc = "run_job" /\ "wait_job" \in CallPcs /\ "run_job" \in CallPcs
      /\ "wait_job" \in JobPcs /\ "wait_job" \notin StartPcs
  BY PcFacts DEF RunInitJob, At, CallPcs, JobPcs, StartPcs
<1>2. DockerTypes' /\ Only(I(p)) /\ UNCHANGED <<network, home, container>>
  BY <1>1, CallFacts DEF RunInitJob, InitJobBecomes, DockerTypes, Only, InitStates
<1> QED BY <1>1, <1>2, CallFacts, CallInv DEF RunInitJob

LEMMA WaitInitJobInv ==
    ASSUME IInv, NEW p \in Requests, WaitInitJob(p)
    PROVE  IInv'
<1>1. CASE Abort(p)
  BY <1>1, AbortInv
<1>2. CASE Statement(p, "remove_job", req[p].draft)
  <2>1. /\ req[p].pc = "wait_job" /\ "wait_job" \in CallPcs /\ "remove_job" \in CallPcs
        /\ "remove_job" \in JobPcs /\ "remove_job" \notin StartPcs
    BY PcFacts DEF WaitInitJob, At, CallPcs, JobPcs, StartPcs
  <2>2. DockerCall(p, "remove_job") /\ UNCHANGED docker
    BY <1>2 DEF Statement, DockerCall
  <2> QED BY <2>1, <2>2, CallFacts, StatementDocker, CallInv DEF docker
<1> QED BY <1>1, <1>2 DEF WaitInitJob

LEMMA RemoveInitJobInv ==
    ASSUME IInv, NEW p \in Requests, RemoveInitJob(p)
    PROVE  IInv'
<1>1. /\ req[p].pc = "remove_job" /\ "remove_job" \in CallPcs /\ "configure" \in CallPcs
      /\ "configure" \notin StartPcs /\ "remove_job" \in CreatePcs
  BY PcFacts DEF RemoveInitJob, At, CallPcs, StartPcs
<1>2. /\ DockerTypes' /\ Only(I(p)) /\ UNCHANGED <<network, home, container>>
      /\ initJob'[I(p)] = "none"
  BY <1>1, CallFacts DEF RemoveInitJob, InitJobBecomes, DockerTypes, Only, InitStates
<1>3. CASE Close(p)
  BY <1>1, <1>2, <1>3, CloseInv
<1>4. CASE DockerCall(p, "configure")
  BY <1>1, <1>2, <1>4, CallFacts, CallInv
<1> QED BY <1>3, <1>4 DEF RemoveInitJob

LEMMA ConfigureTenantInv ==
    ASSUME IInv, NEW p \in Requests, ConfigureTenant(p)
    PROVE  IInv'
<1> DEFINE h == IF home[I(p)] = "onboarded" THEN "configured" ELSE home[I(p)]
<1>1. /\ req[p].pc = "configure" /\ "configure" \in CallPcs /\ "create_container" \in CallPcs
      /\ "configure" \notin JobPcs
  BY PcFacts DEF ConfigureTenant, At, CallPcs, JobPcs
<1>2. /\ I(p) \in Ids /\ DockerTypes /\ network[I(p)] /\ home[I(p)] # "none"
      /\ initJob[I(p)] = "none" /\ container[I(p)] = "none"
  BY <1>1, CallFacts
<1>3. h \in Homes /\ h # "none" /\ h # "onboarded"
  BY <1>2 DEF DockerTypes, Homes
<1>4. home' = [home EXCEPT ![I(p)] = h] /\ UNCHANGED <<network, container, initJob>>
  BY DEF ConfigureTenant
<1> HIDE DEF h
<1>5. DockerTypes' /\ Only(I(p)) /\ home'[I(p)] = h
  BY <1>2, <1>3, <1>4 DEF DockerTypes, Only
<1> QED BY <1>1, <1>2, <1>3, <1>4, <1>5, CallInv DEF ConfigureTenant

LEMMA CreateContainerInv ==
    ASSUME IInv, NEW p \in Requests, CreateContainer(p)
    PROVE  IInv'
<1>1. /\ req[p].pc = "create_container" /\ "create_container" \in CallPcs
      /\ "run_container" \in CallPcs /\ "create_container" \in StartPcs
      /\ "create_container" \notin JobPcs
  BY PcFacts DEF CreateContainer, At, CallPcs, JobPcs, StartPcs
<1>2. DockerTypes' /\ Only(I(p)) /\ UNCHANGED <<network, home, initJob>>
  BY <1>1, CallFacts DEF CreateContainer, ContainerBecomes, DockerTypes, Only, ContainerStates
<1> QED BY <1>1, <1>2, CallFacts, CallInv DEF CreateContainer

LEMMA RunContainerInv ==
    ASSUME IInv, NEW p \in Requests, RunContainer(p)
    PROVE  IInv'
<1>1. /\ req[p].pc = "run_container" /\ "run_container" \in CallPcs
      /\ "set_running" \in CallPcs /\ "run_container" \in StartPcs
      /\ "run_container" \notin JobPcs
  BY PcFacts DEF RunContainer, At, CallPcs, JobPcs, StartPcs
<1>2. /\ DockerTypes' /\ Only(I(p)) /\ UNCHANGED <<network, home, initJob>>
      /\ container'[I(p)] = "running"
  BY <1>1, CallFacts DEF RunContainer, ContainerBecomes, DockerTypes, Only, ContainerStates
<1> QED BY <1>1, <1>2, CallFacts, CallInv DEF RunContainer

\* What start_tenant adds to the row of a provision.
RunningRow(p) == [req[p].draft EXCEPT !.status = "running"]

LEMMA RunningFacts ==
    ASSUME IInv, NEW p \in Requests, req[p].pc = "set_running"
    PROVE  /\ RunningRow(p) \in Rows /\ RunningRow(p).slug = req[p].slug
           /\ RunningRow(p).status = "running" /\ RunningRow(p).network
           /\ RunningRow(p).admin /\ RunningRow(p).provider /\ RunningRow(p).dek
           /\ "set_running" \in CallPcs /\ "set_running" \in StartPcs
           /\ "set_running" \notin JobPcs
<1>1. /\ "set_running" \in CallPcs /\ "set_running" \in StartPcs /\ "set_running" \notin JobPcs
      /\ "set_running" \in CreatePcs /\ "set_running" \in ProvisionPcs
  BY PcFacts DEF CallPcs, JobPcs, StartPcs
<1>2. req[p].draft \in Rows /\ Drafted(p)
  BY RequestFacts DEF RequestOK
<1>3. ASSUME NEW r \in Rows
      PROVE  LET n == [r EXCEPT !.status = "running"]
             IN  n \in Rows /\ n.slug = r.slug /\ n.status = "running" /\ n.network = r.network
                 /\ n.admin = r.admin /\ n.provider = r.provider /\ n.dek = r.dek
  BY DEF Rows, Statuses
<1> QED BY <1>1, <1>2, <1>3 DEF RunningRow, Drafted

LEMMA SetRunningInv ==
    ASSUME IInv, NEW p \in Requests, SetRunning(p)
    PROVE  IInv'
<1>1. req[p].pc = "set_running" /\ Commit(p, RunningRow(p))
  BY DEF SetRunning, At, RunningRow
<1>2. req[p].pc \in CreatePcs /\ Holder(p) /\ initJob[I(p)] = "none"
  BY <1>1, RunningFacts, CallFacts DEF Holder, CreatorPcs
<1> QED BY <1>1, <1>2, RunningFacts, CommitInv

-----------------------------------------------------------------------------
(* A deletion. *)

\* A request's deletion is no provision.
LEMMA DeletionFacts ==
    ASSUME IInv, NEW p \in Requests, req[p].pc \in DeleterPcs
    PROVE  /\ I(p) \in Ids /\ DockerTypes /\ req[p].draft \in Rows
           /\ req[p].pc \in DeletePcs => Listed(row[I(p)]) /\ Holder(p) /\ Unmade(p)
           /\ req[p].op # "provision"
BY RequestFacts DEF RequestOK, Fits, Holder

LEMMA GetTenantInv ==
    ASSUME IInv, NEW p \in Requests, GetTenant(p)
    PROVE  IInv'
<1>1. CASE Abort(p)
  BY <1>1, AbortInv
<1>2. CASE Statement(p, "set_deleting", NoRow)
  <2>1. NoRow \in Rows /\ "set_deleting" \in Pcs
    BY DEF NoRow, Rows, Statuses, Pcs
  <2>2. Goto(p, "set_deleting", NoRow) /\ UNCHANGED docker
    BY <1>2 DEF Statement
  <2>3. /\ req'[p].pc = "set_deleting" /\ req'[p].id = req[p].id /\ req'[p].op = req[p].op
        /\ drawn' = drawn /\ row' = row
        /\ \A q \in Requests \ {p} : req'[q] = req[q]
    BY <2>1, <2>2, RequestFacts, GotoFields
  <2>4. /\ req[p].pc \in DeleterPcs /\ "set_deleting" \notin CreatePcs
        /\ "set_deleting" \notin CreatorPcs /\ "set_deleting" \notin DeletePcs
        /\ "set_deleting" \notin ProvisionPcs
    BY DEF GetTenant, At, CreatorPcs, CreatePcs, DeletePcs, DeleterPcs, ProvisionPcs,
           JobPcs, StartPcs
  <2>5. I(p) \in Ids /\ I(p)' = I(p) /\ RequestOK(p)
    BY <2>3, <2>4, RequestFacts DEF I
  <2>6. Fits(p)'
    BY <2>3, <2>4, <2>5 DEF RequestOK, Fits
  <2>7. Drafted(p)' /\ Made(p)' /\ Unmade(p)' /\ SlugFree(p)'
    BY <2>3, <2>4 DEF Drafted, Made, Unmade, SlugFree, StartPcs
  <2>8. \A q \in Requests \ {p} : Apart(p, q)' /\ Apart(q, p)'
    BY <2>3, <2>4 DEF Apart
  <2>9. RowOK(I(p))'
    BY <2>2, <2>3, <2>5 DEF IInv, RowOK, Gone, docker
  <2> QED BY <2>1, <2>2, <2>5, <2>6, <2>7, <2>8, <2>9, StatementDocker, GotoInv DEF RequestOK
<1> QED BY <1>1, <1>2 DEF GetTenant

LEMMA SetDeletingInv ==
    ASSUME IInv, NEW p \in Requests, SetDeleting(p)
    PROVE  IInv'
<1>1. CASE Abort(p)
  BY <1>1, AbortInv
<1>2. CASE Listed(row[I(p)]) /\ Statement(p, "stop_container", NoRow)
  <2>1. NoRow \in Rows /\ "stop_container" \in Pcs
    BY DEF NoRow, Rows, Statuses, Pcs, DeletePcs
  <2>2. Goto(p, "stop_container", NoRow) /\ UNCHANGED docker
    BY <1>2 DEF Statement
  <2>3. /\ req'[p].pc = "stop_container" /\ req'[p].id = req[p].id /\ req'[p].op = req[p].op
        /\ drawn' = drawn /\ row' = row
        /\ \A q \in Requests \ {p} : req'[q] = req[q]
    BY <2>1, <2>2, RequestFacts, GotoFields
  <2>4. /\ req[p].pc \in DeleterPcs /\ "stop_container" \notin CreatePcs
        /\ "stop_container" \notin CreatorPcs /\ "stop_container" \in DeletePcs
        /\ "stop_container" \notin ProvisionPcs /\ "stop_container" \in DeleterPcs
    BY DEF SetDeleting, At, CreatorPcs, CreatePcs, DeletePcs, DeleterPcs, ProvisionPcs,
           JobPcs, StartPcs
  <2>5. I(p) \in Ids /\ I(p)' = I(p) /\ RequestOK(p)
    BY <2>3, <2>4, RequestFacts DEF I
  <2>6. Fits(p)'
    BY <1>2, <2>3, <2>4, <2>5 DEF RequestOK, Fits
  <2>7. Drafted(p)' /\ Made(p)' /\ Unmade(p)' /\ SlugFree(p)'
    BY <2>3, <2>4 DEF Drafted, Made, Unmade, SlugFree, StartPcs
  <2>8. ASSUME NEW q \in Requests \ {p} PROVE Apart(p, q)' /\ Apart(q, p)'
    <3>1. req[q].pc \in DeletePcs => I(q) # I(p)
      BY DEF SetDeleting
    <3> QED BY <2>3, <2>4, <3>1 DEF Apart, I
  <2>9. RowOK(I(p))'
    BY <2>2, <2>3, <2>5 DEF IInv, RowOK, Gone, docker
  <2> QED BY <2>1, <2>2, <2>5, <2>6, <2>7, <2>8, <2>9, StatementDocker, GotoInv DEF RequestOK
<1> QED BY <1>1, <1>2 DEF SetDeleting

\* What a deletion knows after a call.
LEMMA DeletionGoto ==
    ASSUME IInv, NEW p \in Requests, req[p].pc \in DeletePcs, NEW pc \in DeletePcs,
           DockerCall(p, pc)
    PROVE  /\ req'[p].pc = pc /\ I(p)' = I(p) /\ I(p) \in Ids /\ DockerTypes /\ Unmade(p)
           /\ req[p].op # "provision" /\ Goto(p, pc, req[p].draft) /\ req[p].draft \in Rows
<1>1. pc \in Pcs /\ req[p].pc \in DeleterPcs
  BY DEF Pcs, DeleterPcs
<1> QED BY <1>1, RequestFacts, DeletionFacts, GotoFields DEF DockerCall, I

LEMMA DeletePcFacts == DeletePcs = {"stop_container", "remove_network", "remove_dirs", "delete_row"}
BY DEF DeletePcs

LEMMA StopContainerInv ==
    ASSUME IInv, NEW p \in Requests, StopContainer(p)
    PROVE  IInv'
<1>1. req[p].pc = "stop_container" /\ DockerCall(p, "remove_network")
  BY DEF StopContainer, At
<1>2. /\ req'[p].pc = "remove_network" /\ I(p)' = I(p) /\ I(p) \in Ids /\ DockerTypes
      /\ req[p].op # "provision" /\ Goto(p, "remove_network", req[p].draft)
      /\ req[p].draft \in Rows
  BY <1>1, DeletePcFacts, DeletionGoto
<1>3. /\ DockerTypes' /\ Only(I(p)) /\ UNCHANGED <<network, home, initJob>>
      /\ container'[I(p)] = "none"
  BY <1>2 DEF StopContainer, ContainerBecomes, DockerTypes, Only, ContainerStates
<1>4. Unmade(p)'
  BY <1>2, <1>3 DEF Unmade
<1> QED BY <1>1, <1>2, <1>3, <1>4, DeletePcFacts, DeletionInv

LEMMA RemoveNetworkInv ==
    ASSUME IInv, NEW p \in Requests, RemoveNetwork(p)
    PROVE  IInv'
<1>1. req[p].pc = "remove_network" /\ DockerCall(p, "remove_dirs")
  BY DEF RemoveNetwork, At
<1>2. /\ req'[p].pc = "remove_dirs" /\ I(p)' = I(p) /\ I(p) \in Ids /\ DockerTypes
      /\ req[p].op # "provision" /\ Goto(p, "remove_dirs", req[p].draft)
      /\ req[p].draft \in Rows /\ Unmade(p)
  BY <1>1, DeletePcFacts, DeletionGoto
<1>3. /\ DockerTypes' /\ Only(I(p)) /\ UNCHANGED <<home, container, initJob>>
      /\ network'[I(p)] = FALSE
  BY <1>2 DEF RemoveNetwork, DockerTypes, Only
<1>4. Unmade(p)'
  BY <1>1, <1>2, <1>3 DEF Unmade
<1> QED BY <1>1, <1>2, <1>3, <1>4, DeletePcFacts, DeletionInv

LEMMA RemoveTenantDirsInv ==
    ASSUME IInv, NEW p \in Requests, RemoveTenantDirs(p)
    PROVE  IInv'
<1>1. req[p].pc = "remove_dirs" /\ DockerCall(p, "delete_row")
  BY DEF RemoveTenantDirs, At
<1>2. /\ req'[p].pc = "delete_row" /\ I(p)' = I(p) /\ I(p) \in Ids /\ DockerTypes
      /\ req[p].op # "provision" /\ Goto(p, "delete_row", req[p].draft)
      /\ req[p].draft \in Rows /\ Unmade(p)
  BY <1>1, DeletePcFacts, DeletionGoto
<1>3. /\ DockerTypes' /\ Only(I(p)) /\ UNCHANGED <<network, container, initJob>>
      /\ home'[I(p)] = "none"
  BY <1>2 DEF RemoveTenantDirs, DockerTypes, Only, Homes
<1>4. Unmade(p)'
  BY <1>1, <1>2, <1>3 DEF Unmade
<1> QED BY <1>1, <1>2, <1>3, <1>4, DeletePcFacts, DeletionInv

LEMMA DeleteRowInv ==
    ASSUME IInv, NEW p \in Requests, DeleteRow(p)
    PROVE  IInv'
<1>1. /\ req[p].pc = "delete_row" /\ Commit(p, DeletedRow)
      /\ req[p].pc \in DeletePcs /\ req[p].pc \in DeleterPcs
  BY DeletePcFacts DEF DeleteRow, At, DeleterPcs
<1>2. DeletedRow \in Rows /\ DeletedRow.status = "deleted"
  BY DEF DeletedRow, NoRow, Rows, Statuses
<1>3. I(p) \in Ids /\ Listed(row[I(p)]) /\ Unmade(p) /\ Holder(p)
  BY <1>1, DeletionFacts
<1>4. Gone(I(p))
  BY <1>1, <1>3 DEF IInv, RowOK, Unmade, Gone
<1>5. ~Listed(DeletedRow)
  BY <1>2 DEF Listed
<1> QED BY <1>1, <1>2, <1>3, <1>4, <1>5, CommitInv

-----------------------------------------------------------------------------
(* Every step keeps the invariant. *)

LEMMA DrawInv ==
    ASSUME IInv, NEW p \in Requests, NEW op \in {"provision", "create"}, NEW s \in Slugs,
           NEW pc \in {"select_slug", "insert"}, Draw(p, op, s, pc),
           op = "provision" => p \in ApiRequests
    PROVE  IInv'
<1> DEFINE r == Begun(op, s, drawn + 1, pc)
<1>1. drawn + 1 \in Ids
  BY MaxTenantsAssumption DEF IInv, TypeOK, Draw, Ids
<1>2. NoRow \in Rows /\ pc \in Pcs /\ op \in Ops
  BY DEF NoRow, Rows, Statuses, Pcs, Ops
<1>3. /\ r \in RequestRecords /\ r.draft \in Rows /\ r.pc = pc /\ r.id = drawn + 1
      /\ r.slug = s /\ r.op = op
  BY <1>1, <1>2 DEF Begun, RequestRecords
<1>4. Begin(p, r) /\ drawn' = drawn + 1 /\ drawn < MaxTenants
  BY DEF Draw
<1> HIDE DEF r
<1> QED BY <1>3, <1>4, BeginInv

LEMMA DeleteTenantInv ==
    ASSUME IInv, NEW p \in Requests, NEW i \in Ids, DeleteTenant(p, i)
    PROVE  IInv'
<1> DEFINE r == Begun("delete", None, i, "get")
<1>1. NoRow \in Rows /\ "get" \in Pcs /\ "delete" \in Ops
  BY DEF NoRow, Rows, Statuses, Pcs, Ops
<1>2. /\ r \in RequestRecords /\ r.draft \in Rows /\ r.pc = "get" /\ r.id = i
      /\ r.op = "delete"
  BY <1>1 DEF Begun, RequestRecords
<1>3. Begin(p, r) /\ drawn' = drawn
  BY DEF DeleteTenant
<1> HIDE DEF r
<1> QED BY <1>2, <1>3, BeginInv

LEMMA HandlerInv ==
    ASSUME IInv, NEW p \in Requests, Handler(p)
    PROVE  IInv'
<1>1. ASSUME NEW s \in Slugs, Provision(p, s) PROVE IInv'
  BY <1>1, DrawInv DEF Provision
<1>2. ASSUME NEW s \in Slugs, CreateTenant(p, s) PROVE IInv'
  BY <1>2, DrawInv DEF CreateTenant
<1>3. ASSUME NEW i \in Ids, DeleteTenant(p, i) PROVE IInv'
  BY <1>3, DeleteTenantInv
<1> QED BY <1>1, <1>2, <1>3 DEF Handler

LEMMA StepInv ==
    ASSUME IInv, NEW p \in Requests, Step(p)
    PROVE  IInv'
<1>1. CASE CreateStep(p)
  BY <1>1, SelectSlugInv, InsertTenantInv, CreateDirsInv, CreateNetworkInv, RecordInv,
     SetProviderInv, StoreSecretsInv, CreateInitJobInv, RunInitJobInv, WaitInitJobInv,
     RemoveInitJobInv, ConfigureTenantInv, CreateContainerInv, RunContainerInv, SetRunningInv
     DEF CreateStep
<1>2. CASE DeleteStep(p)
  BY <1>2, GetTenantInv, SetDeletingInv, StopContainerInv, RemoveNetworkInv,
     RemoveTenantDirsInv, DeleteRowInv DEF DeleteStep
<1> QED BY <1>1, <1>2 DEF Step

LEMMA FailInv ==
    ASSUME IInv, NEW p \in Requests, Fail(p)
    PROVE  IInv'
BY AbortInv DEF Fail

LEMMA StutterInv ==
    ASSUME IInv, UNCHANGED vars
    PROVE  IInv'
<1> USE DEF vars, docker
<1>1. TypeOK'
  BY DEF IInv, TypeOK
<1>2. \A p \in Requests : RequestOK(p)' /\ SlugFree(p)'
  BY DEF IInv, RequestOK, Fits, Drafted, Made, Unmade, SlugFree, I
<1>3. \A p, q \in Requests : p # q => Apart(p, q)'
  BY DEF IInv, Apart, I
<1>4. \A i \in Ids : RowOK(i)'
  BY DEF IInv, RowOK, Gone
<1>5. SlugUnique'
  BY DEF IInv, SlugUnique
<1> QED BY <1>1, <1>2, <1>3, <1>4, <1>5 DEF IInv

LEMMA NextInv == IInv /\ [Next]_vars => IInv'
BY HandlerInv, StepInv, FailInv, InitJobEndsInv, StutterInv DEF Next

\* IInv is an invariant of every behaviour.
THEOREM Invariance == Spec => []IInv
BY InitInv, NextInv, PTL DEF Spec

\* Every variable has its type, and no "provisioning" row is ever committed.
THEOREM TypeCorrect == Spec => []TypeOK
<1>1. IInv => TypeOK
  BY DEF IInv
<1> QED BY <1>1, Invariance, PTL

\* delete_tenant leaves nothing of a tenant in Docker, on the disk or in an init job.
THEOREM DeletedGone == Spec => []DeletedLeavesNothing
<1>1. IInv => DeletedLeavesNothing
  BY DEF IInv, RowOK, Gone, DeletedLeavesNothing
<1> QED BY <1>1, Invariance, PTL

-----------------------------------------------------------------------------
(* What becomes of the rows. *)

\* A step changes no row, or it is one of the three commits.
LEMMA RowSteps ==
    ASSUME IInv, [Next]_vars
    PROVE  \/ row' = row
           \/ \E p \in Requests :
                 \/ At(p, "record") /\ req[p].op = "create" /\ Commit(p, Recorded(p))
                 \/ At(p, "set_running") /\ Commit(p, RunningRow(p))
                 \/ At(p, "delete_row") /\ Commit(p, DeletedRow)
<1>1. CASE UNCHANGED vars
  BY <1>1 DEF vars
<1>2. ASSUME NEW p \in Requests, Handler(p) PROVE row' = row
  BY <1>2 DEF Handler, Provision, CreateTenant, DeleteTenant, Draw, Begin
<1>3. ASSUME NEW i \in Ids, InitJobEnds(i) PROVE row' = row
  BY <1>3 DEF InitJobEnds
<1>4. ASSUME NEW p \in Requests, CreateStep(p)
      PROVE  \/ row' = row
             \/ At(p, "record") /\ req[p].op = "create" /\ Commit(p, Recorded(p))
             \/ At(p, "set_running") /\ Commit(p, RunningRow(p))
  BY <1>4 DEF CreateStep, SelectSlug, InsertTenant, CreateDirs, CreateNetwork, Record,
     SetProvider, StoreSecrets, CreateInitJob, RunInitJob, WaitInitJob, RemoveInitJob,
     ConfigureTenant, CreateContainer, RunContainer, SetRunning, RunningRow,
     Goto, Statement, DockerCall, Close, Abort
<1>5. ASSUME NEW p \in Requests, DeleteStep(p)
      PROVE  row' = row \/ (At(p, "delete_row") /\ Commit(p, DeletedRow))
  BY <1>5 DEF DeleteStep, GetTenant, SetDeleting, StopContainer, RemoveNetwork,
     RemoveTenantDirs, DeleteRow, Goto, Statement, DockerCall, Close, Abort
<1>6. ASSUME NEW p \in Requests, Fail(p) PROVE row' = row
  BY <1>6 DEF Fail, Abort, Close
<1> QED BY <1>1, <1>2, <1>3, <1>4, <1>5, <1>6 DEF Next, Step

LEMMA CommitRows ==
    ASSUME IInv, NEW p \in Requests, I(p) \in Ids, NEW r, Commit(p, r)
    PROVE  row'[I(p)] = r /\ (\A i \in Ids \ {I(p)} : row'[i] = row[i]) /\ UNCHANGED docker
BY DEF IInv, TypeOK, Commit

\* The row that create_tenant commits, and what Docker has by then.
LEMMA CreatedComplete ==
    ASSUME IInv, NEW p \in Requests, NEW i \in Ids, i = I(p), At(p, "record"),
           Commit(p, Recorded(p))
    PROVE  Complete(i)'
<1>1. /\ req[p].pc = "record" /\ req[p].pc \in CreatorPcs /\ req[p].pc \notin JobPcs
      /\ req[p].pc \notin {"run_container", "set_running"}
  BY DEF At, CreatorPcs, CreatePcs, JobPcs
<1>2. /\ Recorded(p).status = "stopped" /\ Recorded(p).network /\ ~Recorded(p).provider
      /\ Made(p)
  BY <1>1, RecordedFacts
<1>3. /\ network[i] /\ home[i] # "none" /\ initJob[i] = "none" /\ container[i] = "none"
  BY <1>1, <1>2 DEF Made
<1>4. row'[i] = Recorded(p) /\ UNCHANGED docker
  BY CommitRows
<1> QED BY <1>2, <1>3, <1>4 DEF Complete, docker

\* The row that a provision commits, likewise.
LEMMA ProvisionedComplete ==
    ASSUME IInv, NEW p \in Requests, NEW i \in Ids, i = I(p), At(p, "set_running"),
           Commit(p, RunningRow(p))
    PROVE  Complete(i)' /\ row'[i].provider
<1>1. /\ req[p].pc = "set_running" /\ req[p].pc \in CallPcs /\ req[p].pc \notin JobPcs
      /\ req[p].pc \in StartPcs
  BY RunningFacts DEF At
<1>2. /\ RunningRow(p).status = "running" /\ RunningRow(p).network /\ RunningRow(p).provider
      /\ RunningRow(p).admin /\ RunningRow(p).dek
  BY <1>1, RunningFacts
<1>3. /\ network[i] /\ home[i] # "none" /\ initJob[i] = "none" /\ container[i] = "running"
      /\ home[i] # "onboarded"
  BY <1>1, CallFacts
<1>4. row'[i] = RunningRow(p) /\ UNCHANGED docker
  BY CommitRows
<1> QED BY <1>2, <1>3, <1>4 DEF Complete, docker

\* A tenant is listed all at once, complete, and by a provision only once it runs.
THEOREM Published == Spec => PublishedComplete
<1>1. ASSUME IInv, [Next]_vars, NEW i \in Ids,
             row[i].status = "absent", row'[i].status # "absent"
      PROVE  /\ Complete(i)'
             /\ \A p \in Requests : I(p) = i /\ req[p].op = "provision" => row'[i].provider
  <2>1. PICK p \in Requests :
           \/ At(p, "record") /\ req[p].op = "create" /\ Commit(p, Recorded(p))
           \/ At(p, "set_running") /\ Commit(p, RunningRow(p))
           \/ At(p, "delete_row") /\ Commit(p, DeletedRow)
    BY <1>1, RowSteps
  <2>2. Holder(p) /\ I(p) \in Ids
    <3>1. req[p].pc \in CreatorPcs \cup DeletePcs /\ req[p].pc \in CreatorPcs \cup DeleterPcs
      BY <2>1 DEF At, CreatorPcs, CreatePcs, DeletePcs, DeleterPcs
    <3> QED BY <1>1, <3>1, RequestFacts DEF Holder
  <2>3. i = I(p)
    BY <1>1, <2>1, <2>2, CommitRows
  <2>4. CASE At(p, "record") /\ req[p].op = "create" /\ Commit(p, Recorded(p))
    <3>1. ASSUME NEW q \in Requests, I(q) = i, req[q].op = "provision" PROVE FALSE
      <4>1. q # p /\ Holder(q)
        BY <1>1, <2>4, <3>1, RequestFacts DEF RequestOK, Fits, Holder
      <4> QED BY <1>1, <2>2, <2>3, <3>1, <4>1, HoldersApart
    <3> QED BY <1>1, <2>3, <2>4, <3>1, CreatedComplete
  <2>5. CASE At(p, "set_running") /\ Commit(p, RunningRow(p))
    BY <1>1, <2>3, <2>5, ProvisionedComplete
  <2>6. CASE At(p, "delete_row") /\ Commit(p, DeletedRow)
    <3>1. Listed(row[i])
      BY <1>1, <2>3, <2>6, DeletionFacts DEF At, DeletePcs, DeleterPcs
    <3> QED BY <1>1, <3>1 DEF Listed
  <2> QED BY <2>1, <2>4, <2>5, <2>6
<1>2. IInv /\ [Next]_vars =>
        [\A i \in Ids : row[i].status = "absent" /\ row'[i].status # "absent" =>
           /\ Complete(i)'
           /\ \A p \in Requests : I(p) = i /\ req[p].op = "provision" => row'[i].provider]_vars
  BY <1>1
<1> QED BY <1>2, Invariance, PTL DEF Spec, PublishedComplete

-----------------------------------------------------------------------------
(* The tenants table implements the directory. *)

Entry(i) == [slug |-> row[i].slug, tenant |-> i]
Entries == {Entry(i) : i \in {j \in Ids : Listed(row[j])}}
Known == {i \in Ids : row[i].status # "absent"}

\* A tenant that is listed under its slug.
LEMMA PublishStep ==
    ASSUME IInv, NEW p \in Requests, NEW r \in Rows, Commit(p, r), req[p].pc \in CreatePcs,
           Listed(r), r.slug = req[p].slug
    PROVE  Dir!Next
<1> DEFINE e == [slug |-> r.slug, tenant |-> I(p)]
<1>1. req[p].pc \in CreatorPcs
  BY DEF CreatorPcs
<1>2. I(p) \in Ids /\ row[I(p)] = NoRow /\ req[p].slug \in Slugs /\ SlugFree(p)
  BY <1>1, RequestFacts DEF RequestOK, Fits
<1>3. row'[I(p)] = r /\ \A i \in Ids \ {I(p)} : row'[i] = row[i]
  BY <1>2, CommitRows
<1>4. NoRow.status = "absent" /\ ~Listed(NoRow)
  BY DEF NoRow, Listed
<1>5. e \in [slug : Slugs, tenant : Ids] /\ e.tenant = I(p) /\ e.slug = req[p].slug
  BY <1>2
<1>6. e.tenant \notin Known
  BY <1>2, <1>4, <1>5 DEF Known
<1>7. \A f \in Entries : f.slug # e.slug
  BY <1>2, <1>5 DEF Entries, Entry, SlugFree
<1>8. Entries' = Entries \cup {e}
  <2>1. ASSUME NEW f \in Entries' PROVE f \in Entries \cup {e}
    <3>1. PICK i \in Ids : Listed(row'[i]) /\ f = [slug |-> row'[i].slug, tenant |-> i]
      BY <2>1 DEF Entries, Entry
    <3>2. CASE i = I(p)
      BY <1>3, <3>1, <3>2
    <3>3. CASE i # I(p)
      BY <1>3, <3>1, <3>3 DEF Entries, Entry
    <3> QED BY <3>2, <3>3
  <2>2. e \in Entries'
    BY <1>2, <1>3 DEF Entries, Entry
  <2>3. ASSUME NEW f \in Entries PROVE f \in Entries'
    <3>1. PICK i \in Ids : Listed(row[i]) /\ f = [slug |-> row[i].slug, tenant |-> i]
      BY <2>3 DEF Entries, Entry
    <3>2. i # I(p)
      BY <1>2, <1>4, <3>1
    <3> QED BY <1>3, <3>1, <3>2 DEF Entries, Entry
  <2> QED BY <2>1, <2>2, <2>3
<1>9. Known' = Known \cup {I(p)}
  <2>1. r.status # "absent"
    BY DEF Listed
  <2> QED BY <1>2, <1>3, <2>1 DEF Known
<1> HIDE DEF e
<1> QED BY <1>5, <1>6, <1>7, <1>8, <1>9
        DEF Dir!Next, Dir!Publish, Dir!Entries, Entries, Known, Entry

\* A tenant that leaves.
LEMMA WithdrawStep ==
    ASSUME IInv, NEW p \in Requests, Commit(p, DeletedRow), I(p) \in Ids, Listed(row[I(p)])
    PROVE  Dir!Next
<1> DEFINE e == Entry(I(p))
<1>1. row'[I(p)] = DeletedRow /\ \A i \in Ids \ {I(p)} : row'[i] = row[i]
  BY CommitRows
<1>2. DeletedRow.status = "deleted" /\ ~Listed(DeletedRow)
  BY DEF DeletedRow, NoRow, Listed
<1>3. e \in [slug : Slugs, tenant : Ids] /\ e \in Entries
  BY DEF IInv, RowOK, Entry, Entries
<1>4. Entries' = Entries \ {e}
  <2>1. ASSUME NEW f \in Entries' PROVE f \in Entries /\ f # e
    <3>1. PICK i \in Ids : Listed(row'[i]) /\ f = [slug |-> row'[i].slug, tenant |-> i]
      BY <2>1 DEF Entries, Entry
    <3>2. i # I(p)
      BY <1>1, <1>2, <3>1
    <3>3. f.tenant = i /\ e.tenant = I(p)
      BY <3>1 DEF Entry
    <3> QED BY <1>1, <3>1, <3>2, <3>3 DEF Entries, Entry
  <2>2. ASSUME NEW f \in Entries, f # e PROVE f \in Entries'
    <3>1. PICK i \in Ids : Listed(row[i]) /\ f = [slug |-> row[i].slug, tenant |-> i]
      BY <2>2 DEF Entries, Entry
    <3>2. i # I(p)
      BY <2>2, <3>1 DEF Entry
    <3> QED BY <1>1, <3>1, <3>2 DEF Entries, Entry
  <2> QED BY <2>1, <2>2
<1>5. Known' = Known
  BY <1>1, <1>2 DEF Known, Listed
<1> HIDE DEF e
<1> QED BY <1>3, <1>4, <1>5 DEF Dir!Next, Dir!Withdraw, Dir!Entries, Entries, Known, Entry

LEMMA DirectoryInit == Init => Dir!Init
<1> SUFFICES ASSUME Init PROVE Dir!Init
  OBVIOUS
<1>1. \A i \in Ids : row[i].status = "absent" /\ ~Listed(row[i])
  BY DEF Init, NoRow, Listed
<1> QED BY <1>1 DEF Dir!Init

LEMMA DirectoryStep ==
    ASSUME IInv, [Next]_vars
    PROVE  Dir!Next \/ UNCHANGED Dir!vars
<1>1. CASE row' = row
  BY <1>1 DEF Dir!vars
<1>2. ASSUME NEW p \in Requests, At(p, "record"), Commit(p, Recorded(p)) PROVE Dir!Next
  <2>1. req[p].pc = "record"
    BY <1>2 DEF At
  <2>2. Listed(Recorded(p))
    BY <2>1, RecordedFacts DEF Listed
  <2> QED BY <1>2, <2>1, <2>2, RecordedFacts, PublishStep
<1>3. ASSUME NEW p \in Requests, At(p, "set_running"), Commit(p, RunningRow(p)) PROVE Dir!Next
  <2>1. req[p].pc = "set_running"
    BY <1>3 DEF At
  <2>2. Listed(RunningRow(p)) /\ req[p].pc \in CreatePcs
    BY <2>1, RunningFacts, CallFacts DEF Listed
  <2> QED BY <1>3, <2>1, <2>2, RunningFacts, PublishStep
<1>4. ASSUME NEW p \in Requests, At(p, "delete_row"), Commit(p, DeletedRow) PROVE Dir!Next
  BY <1>4, DeletionFacts, WithdrawStep DEF At, DeletePcs, DeleterPcs
<1> QED BY <1>1, <1>2, <1>3, <1>4, RowSteps

\* However provisions, creations and deletions of a slug race, what others read of the
\* table is the directory.
THEOREM Implements == Spec => ImplementsDirectory
<1>1. IInv /\ [Next]_vars => [Dir!Next]_Dir!vars
  BY DirectoryStep
<1> QED BY <1>1, DirectoryInit, Invariance, PTL DEF Spec, ImplementsDirectory, Dir!Spec

\* By the abstract specification alone: no slug is ever listed twice, and no tenant
\* under two slugs.
THEOREM SlugsOneToOne == Spec => []Dir!OneToOne
<1>1. Dir!Init => Dir!OneToOne
  BY DEF Dir!Init, Dir!OneToOne
<1>2. Dir!OneToOne /\ [Dir!Next]_Dir!vars => Dir!OneToOne'
  <2>1. CASE UNCHANGED Dir!vars
    BY <2>1 DEF Dir!OneToOne, Dir!vars
  <2>2. ASSUME NEW e \in Dir!Entries, Dir!OneToOne, Dir!Publish(e) PROVE Dir!OneToOne'
    BY <2>2 DEF Dir!OneToOne, Dir!Publish, Dir!Entries
  <2>3. ASSUME NEW e \in Dir!Entries, Dir!OneToOne, Dir!Withdraw(e) PROVE Dir!OneToOne'
    BY <2>3 DEF Dir!OneToOne, Dir!Withdraw, Dir!Entries
  <2> QED BY <2>1, <2>2, <2>3 DEF Dir!Next
<1> QED BY <1>1, <1>2, Implements, PTL DEF ImplementsDirectory, Dir!Spec

=============================================================================
