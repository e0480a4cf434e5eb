------------------------- MODULE TenantViewsProofs -------------------------
(***************************************************************************)
(* Proofs about TenantViews for any rows, organizations, requests, callers *)
(* and any viewsets: whatever combination of mixins and class attributes.  *)
(*                                                                         *)
(* Settled(q, row) is what the checks before the first save established of *)
(* the question q and the instance row that get_object read.  It speaks of *)
(* no other state, so it lasts.  Image(r, row) says that row is what one   *)
(* of r's saves may write.  The invariant then follows the images into the *)
(* open transactions and into the table; the lock on a row that an open    *)
(* transaction wrote is what makes an image still right when it commits.   *)
(***************************************************************************)
EXTENDS TenantViews, TLAPS

Started(r) == phase[r] \notin {"waiting", "refused"}

\* A view shows a retired row only if it keeps them or was asked to include them.
SeesDead(q) == include_deleted_requested(q) \/ View(q).keepsDead

Settled(q, row) ==
    /\ q \in Questions
    /\ TargetAllowed(q)
    /\ Creates(q) => row = NoRow
    /\ ~Creates(q) =>
        /\ row \in Row
        /\ ObjectOrgOwnership(q, row)
        /\ row.dead => SeesDead(q)

\* The organization a create or an update is for.
Home(q, org) ==
    /\ View(q).superOrg /\ q.param # NoOrg => org = q.param
    /\ PinnedTenant(q) => org = Caller(q).org

Image(r, row) ==
    /\ row \in Row
    /\ row.by = r
    /\ req[r].action # "destroy" => Home(req[r], row.org)
    /\ ~row.dead => ~seen[r].dead \/ (req[r].dead = "false" /\ SeesDead(req[r]))

\* Row x is what request r, whose transaction is open, will make of it.
Owed(r, x) ==
    /\ phase[r] \in {"admitted", "saved"}
    /\ InTransaction(req[r])
    /\ Image(r, pending[r][x])
    /\ Creates(req[r]) => rows[x] = NoRow
    /\ req[r].action = "destroy" => pending[r][x].org = rows[x].org /\ pending[r][x].text = rows[x].text

\* Row x was written last by request r.
Wrote(r, x) ==
    /\ Started(r)
    /\ Image(r, rows[x])
    /\ InTransaction(req[r]) => phase[r] = "ok"

RequestInv(r) == Started(r) =>
    /\ Settled(req[r], seen[r])
    /\ ~Creates(req[r]) => rows[req[r].row] # NoRow

IInv ==
    /\ TypeOK
    /\ req \in [Requests -> Questions \cup {NoQuestion}]
    /\ \A r \in Requests : RequestInv(r)
    /\ \A r \in Requests, x \in Rows : pending[r][x] # NoRow => Owed(r, x)
    /\ \A r, s \in Requests, x \in Rows : pending[r][x] # NoRow /\ pending[s][x] # NoRow => r = s
    /\ \A x \in Rows : rows[x].by # "nobody" => rows[x].by \in Requests /\ Wrote(rows[x].by, x)

-----------------------------------------------------------------------------

\* A free key is no row.
LEMMA NoRowFacts ==
    /\ NoRow \notin Row
    /\ NoRow.org = NoOrg /\ NoRow.dead = FALSE /\ NoRow.by = "nobody"
    /\ NoOrg \notin Owners
  BY ViewsAssumption DEF NoRow, Row, Owners, NoOrg

\* What a question's fields are, and that a delete has an instance.
LEMMA QuestionFacts ==
    ASSUME NEW q \in Questions
    PROVE  /\ q.action \in Actions /\ q.row \in Rows /\ q.list \in Nat /\ q.list <= MaxList
           /\ q.org \in Orgs \cup {NoOrg} /\ q.param \in Orgs \cup {NoOrg, "garbage"}
           /\ q.dead \in {"absent", "true", "false"}
           /\ Creates(q) => q.dead = "absent"
           /\ q.action = "destroy" => ~Creates(q) /\ q.dead = "absent"
  <1>1. q \in Question
    BY DEF Questions
  <1>2. /\ q.action \in Actions /\ q.row \in Rows /\ q.list \in 0..MaxList
        /\ q.org \in Orgs \cup {NoOrg} /\ q.param \in Orgs \cup {NoOrg, "garbage"}
        /\ q.dead \in {"absent", "true", "false"}
    BY <1>1 DEF Question
  <1>3. /\ q.list > 0 => q.action # "destroy"
        /\ Creates(q) => q.dead = "absent"
        /\ q.action = "destroy" => q.dead = "absent"
    BY DEF Questions
  <1> QED
    BY <1>2, <1>3, ViewsAssumption DEF Creates

\* What the checks guarantee when a request is admitted.
LEMMA AdmittedSettled ==
    ASSUME rows \in [Rows -> Row \cup {NoRow}], NEW q \in Questions, Admitted(q)
    PROVE  /\ Settled(q, IF Creates(q) THEN NoRow ELSE rows[q.row])
           /\ ~Creates(q) => rows[q.row] # NoRow
  <1>1. CASE Creates(q)
    BY <1>1 DEF Settled, Admitted
  <1>2. CASE ~Creates(q)
    <2>1. q.row \in Visible(q) /\ TargetAllowed(q) /\ ObjectOrgOwnership(q, rows[q.row])
      BY <1>2 DEF Admitted
    <2>2. q.row \in Rows /\ rows[q.row] # NoRow /\ (rows[q.row].dead => SeesDead(q))
      BY <2>1 DEF Visible, superuser_org_queryset, ScopedQueryset, EnvoyQueryFilter, SeesDead
    <2> QED
      BY <1>2, <2>1, <2>2 DEF Settled
  <1> QED
    BY <1>1, <1>2

\* The organization a write saves: an organization, and the one it is for.
LEMMA SavedHome ==
    ASSUME NEW q, NEW row, Settled(q, row), q.action # "destroy"
    PROVE  RowOrg(q, row) \in Owners /\ Home(q, RowOrg(q, row))
  <1>1. /\ q.org \in Orgs \cup {NoOrg} /\ q.param \in Orgs \cup {NoOrg, "garbage"}
        /\ TargetAllowed(q)
    BY QuestionFacts DEF Settled
  <1>2. row.org \in Owners \/ row = NoRow
    BY DEF Settled, Row
  <1>3. /\ TenantPin(q) \in Orgs \cup {NoOrg}
        /\ Target(q) # NoOrg => Target(q) = q.param /\ Target(q) \in Orgs /\ is_superuser(Caller(q))
        /\ View(q).superOrg /\ q.param # NoOrg => Target(q) # NoOrg
    BY <1>1 DEF TenantPin, tenant_organization_id, Target, TargetAllowed
  <1>4. NoOrg \notin Orgs
    BY ViewsAssumption
  <1>5. PinnedTenant(q) => TenantPin(q) = Caller(q).org /\ TenantPin(q) # NoOrg /\ ~is_superuser(Caller(q))
    BY <1>4 DEF PinnedTenant, TenantPin, ScopeApplies, tenant_organization_id
  <1>6. /\ SaveKwarg(q) \in Orgs \cup {NoOrg}
        /\ View(q).superOrg /\ q.param # NoOrg => SaveKwarg(q) = q.param /\ SaveKwarg(q) # NoOrg
        /\ PinnedTenant(q) => SaveKwarg(q) = Caller(q).org /\ SaveKwarg(q) # NoOrg
    BY <1>3, <1>5 DEF SaveKwarg, SyncHook
  <1>7. RowOrg(q, row) \in Owners
    BY <1>1, <1>2, <1>3, <1>6 DEF RowOrg, BodyOrg, Owners
  <1>8. SaveKwarg(q) # NoOrg => RowOrg(q, row) = SaveKwarg(q)
    BY DEF RowOrg
  <1> QED
    BY <1>6, <1>7, <1>8 DEF Home

\* What a create or an update writes is an image.
LEMMA SavedImage ==
    ASSUME NEW r \in Requests, Settled(req[r], seen[r]), req[r].action # "destroy"
    PROVE  Image(r, Saved(r))
  <1> DEFINE q == req[r]
             org == RowOrg(q, seen[r])
             dead == IF q.dead = "absent" THEN seen[r].dead ELSE q.dead = "true"
  <1>1. Saved(r) = [org |-> org, dead |-> dead, text |-> r, by |-> r]
    BY DEF Saved
  <1>2. org \in Owners /\ Home(q, org)
    BY SavedHome
  <1>3. seen[r].dead \in BOOLEAN
    BY NoRowFacts DEF Settled, Row
  <1>4. dead \in BOOLEAN
    BY <1>3
  <1>5. ~dead => ~seen[r].dead \/ (q.dead = "false" /\ SeesDead(q))
    <2>1. q \in Questions /\ q.dead \in {"absent", "true", "false"} /\ (Creates(q) => q.dead = "absent")
      BY QuestionFacts DEF Settled
    <2>2. ASSUME ~dead, seen[r].dead PROVE q.dead = "false" /\ SeesDead(q)
      BY <2>1, <2>2 DEF Settled
    <2> QED
      BY <2>2
  <1> HIDE DEF org, dead
  <1>6. /\ Saved(r) \in Row /\ Saved(r).org = org /\ Saved(r).by = r
        /\ Saved(r).dead = dead
    BY <1>1, <1>2, <1>4 DEF Row
  <1> QED
    BY <1>2, <1>5, <1>6 DEF Image

\* What a soft delete writes is an image, and keeps the other columns.
LEMMA DeletedImage ==
    ASSUME NEW r \in Requests, req[r].action = "destroy", NEW row \in Row
    PROVE  /\ Image(r, SoftDeleted(r, row))
           /\ SoftDeleted(r, row).org = row.org /\ SoftDeleted(r, row).text = row.text
  BY DEF Image, SoftDeleted, Row

-----------------------------------------------------------------------------

\* One save of r, in either kind of handler: which row, and what it becomes.
LEMMA SaveFacts ==
    ASSUME IInv, NEW r \in Requests, Save(r)
    PROVE  \E x \in Rows, image \in Row :
              /\ Unlocked(x)
              /\ Image(r, image)
              /\ Creates(req[r]) => rows[x] = NoRow
              /\ ~Creates(req[r]) => x = req[r].row /\ rows[x] # NoRow
              /\ req[r].action = "destroy" => image.org = rows[x].org /\ image.text = rows[x].text
              /\ \/ /\ InTransaction(req[r])
                    /\ pending' = [pending EXCEPT ![r][x] = image] /\ UNCHANGED rows
                 \/ /\ ~InTransaction(req[r])
                    /\ rows' = [rows EXCEPT ![x] = image] /\ UNCHANGED pending
  <1>1. Settled(req[r], seen[r]) /\ (~Creates(req[r]) => rows[req[r].row] # NoRow)
    BY DEF IInv, RequestInv, Started, Save
  <1> DEFINE q == req[r]
  <1> DEFINE Img(x) == IF q.action = "destroy" THEN SoftDeleted(r, rows[x]) ELSE Saved(r)
  <1>2. PICK x \in Rows :
           /\ IF Creates(q) THEN Fresh(x) ELSE x = q.row /\ Unlocked(x)
           /\ IF InTransaction(q)
              THEN pending' = [pending EXCEPT ![r][x] = Img(x)] /\ UNCHANGED rows
              ELSE rows' = [rows EXCEPT ![x] = Img(x)] /\ UNCHANGED pending
    BY DEF Save
  <1>3. q.action = "destroy" => ~Creates(q)
    BY <1>1, QuestionFacts DEF Settled
  <1>4. /\ Unlocked(x)
        /\ Creates(q) => rows[x] = NoRow
        /\ ~Creates(q) => x = q.row /\ rows[x] # NoRow
    BY <1>1, <1>2 DEF Fresh
  <1>5. CASE q.action = "destroy"
    <2>1. rows[x] \in Row
      BY <1>3, <1>4, <1>5 DEF IInv, TypeOK
    <2>2. Image(r, Img(x)) /\ Img(x).org = rows[x].org /\ Img(x).text = rows[x].text
      BY <1>5, <2>1, DeletedImage
    <2> HIDE DEF Img
    <2> QED
      BY <1>2, <1>4, <2>2 DEF Image
  <1>6. CASE q.action # "destroy"
    <2>1. Image(r, Img(x))
      BY <1>1, <1>6, SavedImage
    <2> HIDE DEF Img
    <2> QED
      BY <1>2, <1>4, <1>6, <2>1 DEF Image
  <1> QED
    BY <1>5, <1>6

-----------------------------------------------------------------------------

\* No request holds anything, and no row was written by one.
LEMMA InitInv == Init => IInv
  <1> SUFFICES ASSUME Init PROVE IInv
    OBVIOUS
  <1>1. rows \in [Rows -> Row \cup {NoRow}] /\ \A x \in Rows : rows[x].by = "nobody"
    BY TablesAssumption DEF Init
  <1>2. \A r \in Requests : phase[r] = "waiting" /\ \A x \in Rows : pending[r][x] = NoRow
    BY DEF Init
  <1>3. 0 \in 0..(IF MaxList > 1 THEN MaxList ELSE 1)
    BY ViewsAssumption
  <1>4. TypeOK
    BY <1>1, <1>2, <1>3 DEF Init, TypeOK
  <1>5. req \in [Requests -> Questions \cup {NoQuestion}]
    BY DEF Init
  <1> QED
    BY <1>1, <1>2, <1>4, <1>5 DEF IInv, RequestInv, Started

\* Until a request is admitted it has written nothing.
LEMMA RefuseInv ==
    ASSUME IInv, NEW r \in Requests, Refuse(r)
    PROVE  IInv'
  <1>1. phase[r] = "waiting" /\ phase' = [phase EXCEPT ![r] = "refused"] /\ UNCHANGED <<rows, req, seen, left, pending>>
    BY DEF Refuse
  <1>2. \A x \in Rows : pending[r][x] = NoRow
    BY <1>1 DEF IInv, Owed
  <1>3. \A s \in Requests : s # r => phase'[s] = phase[s]
    BY <1>1 DEF IInv, TypeOK
  <1>4. phase'[r] = "refused"
    BY <1>1 DEF IInv, TypeOK
  <1>5. TypeOK'
    BY <1>1, <1>2, <1>3, <1>4 DEF IInv, TypeOK
  <1>6. \A s \in Requests : RequestInv(s)'
    BY <1>1, <1>3, <1>4 DEF IInv, RequestInv, Started
  <1>7. ASSUME NEW s \in Requests, NEW x \in Rows, pending'[s][x] # NoRow PROVE Owed(s, x)'
    BY <1>1, <1>2, <1>3, <1>7 DEF IInv, Owed, Image
  <1>8. ASSUME NEW x \in Rows, rows'[x].by # "nobody" PROVE rows'[x].by \in Requests /\ Wrote(rows[x].by, x)'
    <2>1. rows[x].by \in Requests /\ Wrote(rows[x].by, x) /\ rows[x].by # r
      BY <1>1, <1>8 DEF IInv, Wrote, Started
    <2> QED
      BY <1>1, <1>3, <2>1 DEF Wrote, Started, Image
  <1> QED
    BY <1>1, <1>5, <1>6, <1>7, <1>8 DEF IInv

\* What it is admitted with is settled.
LEMMA AdmitInv ==
    ASSUME IInv, NEW r \in Requests, Admit(r)
    PROVE  IInv'
  <1>1. PICK q \in Questions :
           /\ Admitted(q)
           /\ req' = [req EXCEPT ![r] = q]
           /\ seen' = [seen EXCEPT ![r] = IF Creates(q) THEN NoRow ELSE rows[q.row]]
           /\ left' = [left EXCEPT ![r] = IF q.list > 0 THEN q.list ELSE 1]
    BY DEF Admit
  <1>2. phase[r] = "waiting" /\ phase' = [phase EXCEPT ![r] = "admitted"] /\ UNCHANGED <<rows, pending>>
    BY DEF Admit
  <1>3. /\ Settled(q, IF Creates(q) THEN NoRow ELSE rows[q.row])
        /\ ~Creates(q) => rows[q.row] # NoRow
    BY <1>1, AdmittedSettled DEF IInv, TypeOK
  <1>4. \A x \in Rows : pending[r][x] = NoRow /\ rows[x].by # r
    <2>1. ~Started(r) /\ phase[r] \notin {"admitted", "saved"} /\ r # "nobody"
      BY <1>2, ViewsAssumption DEF Started
    <2>2. ASSUME NEW x \in Rows PROVE pending[r][x] = NoRow
      BY <2>1 DEF IInv, Owed
    <2>3. ASSUME NEW x \in Rows PROVE rows[x].by # r
      BY <2>1 DEF IInv, Wrote
    <2> QED
      BY <2>2, <2>3
  <1>5. \A s \in Requests : s # r => phase'[s] = phase[s] /\ req'[s] = req[s] /\ seen'[s] = seen[s] /\ left'[s] = left[s]
    BY <1>1, <1>2 DEF IInv, TypeOK
  <1>6. /\ phase'[r] = "admitted" /\ req'[r] = q /\ seen'[r] = IF Creates(q) THEN NoRow ELSE rows[q.row]
        /\ left'[r] = IF q.list > 0 THEN q.list ELSE 1
    BY <1>1, <1>2 DEF IInv, TypeOK
  <1>7. /\ left'[r] \in 0..(IF MaxList > 1 THEN MaxList ELSE 1) /\ left'[r] > 0
        /\ seen'[r] \in Row \cup {NoRow}
    <2>1. q.list \in Nat /\ q.list <= MaxList /\ MaxList \in Nat
      BY QuestionFacts, ViewsAssumption
    <2> QED
      BY <1>3, <1>6, <2>1 DEF Settled
  <1>8. TypeOK'
    <2>1. left' \in [Requests -> 0..(IF MaxList > 1 THEN MaxList ELSE 1)]
      BY <1>1, <1>6, <1>7 DEF IInv, TypeOK
    <2>2. seen' \in [Requests -> Row \cup {NoRow}]
      BY <1>1, <1>6, <1>7 DEF IInv, TypeOK
    <2>3. phase' \in [Requests -> {"waiting", "refused", "admitted", "saved", "ok", "failed"}]
      BY <1>2 DEF IInv, TypeOK
    <2> QED
      BY <1>2, <1>4, <1>5, <1>6, <1>7, <2>1, <2>2, <2>3 DEF IInv, TypeOK
  <1>9. req' \in [Requests -> Questions \cup {NoQuestion}]
    BY <1>1 DEF IInv
  <1>10. \A s \in Requests : RequestInv(s)'
    BY <1>2, <1>3, <1>5, <1>6 DEF IInv, RequestInv, Started
  <1>11. ASSUME NEW s \in Requests, NEW x \in Rows, pending'[s][x] # NoRow PROVE Owed(s, x)'
    BY <1>2, <1>4, <1>5, <1>11 DEF IInv, Owed, Image
  <1>12. ASSUME NEW x \in Rows, rows'[x].by # "nobody" PROVE rows'[x].by \in Requests /\ Wrote(rows[x].by, x)'
    <2>1. rows[x].by \in Requests /\ Wrote(rows[x].by, x) /\ rows[x].by # r
      BY <1>2, <1>4, <1>12 DEF IInv
    <2> QED
      BY <1>2, <1>5, <2>1 DEF Wrote, Started, Image
  <1> QED
    BY <1>2, <1>8, <1>9, <1>10, <1>11, <1>12 DEF IInv

\* A save writes an image, of a row that nobody else has written and not committed.
LEMMA SaveInv ==
    ASSUME IInv, NEW r \in Requests, Save(r)
    PROVE  IInv'
  <1>1. PICK x \in Rows, image \in Row :
              /\ Unlocked(x)
              /\ Image(r, image)
              /\ Creates(req[r]) => rows[x] = NoRow
              /\ ~Creates(req[r]) => x = req[r].row /\ rows[x] # NoRow
              /\ req[r].action = "destroy" => image.org = rows[x].org /\ image.text = rows[x].text
              /\ \/ /\ InTransaction(req[r])
                    /\ pending' = [pending EXCEPT ![r][x] = image] /\ UNCHANGED rows
                 \/ /\ ~InTransaction(req[r])
                    /\ rows' = [rows EXCEPT ![x] = image] /\ UNCHANGED pending
    BY SaveFacts
  <1>2. /\ phase[r] = "admitted" /\ left' = [left EXCEPT ![r] = left[r] - 1]
        /\ phase' = [phase EXCEPT ![r] = IF left[r] = 1 THEN "saved" ELSE "admitted"]
        /\ UNCHANGED <<req, seen>>
    BY DEF Save
  <1>3. \A s \in Requests : s # r => phase'[s] = phase[s] /\ left'[s] = left[s]
    BY <1>2 DEF IInv, TypeOK
  <1>4. phase'[r] \in {"admitted", "saved"} /\ (phase'[r] = "admitted" <=> left'[r] > 0) /\ left'[r] = left[r] - 1 /\ left[r] > 0
    <2>1. left[r] \in Nat /\ left[r] > 0
      BY <1>2, ViewsAssumption DEF IInv, TypeOK
    <2> QED
      BY <1>2, <2>1 DEF IInv, TypeOK
  <1>5. \A s \in Requests : pending[s][x] = NoRow
    BY <1>1 DEF Unlocked
  <1>6. \A t : \A s \in Requests : Image(s, t) => Image(s, t)'
    BY <1>2 DEF Image
  <1>7. /\ rows' \in [Rows -> Row \cup {NoRow}] /\ pending' \in [Requests -> [Rows -> Row \cup {NoRow}]]
        /\ \A y \in Rows : y # x => rows'[y] = rows[y]
        /\ \A s \in Requests, y \in Rows : s # r \/ y # x => pending'[s][y] = pending[s][y]
        /\ \/ InTransaction(req[r]) /\ pending'[r][x] = image /\ rows'[x] = rows[x]
           \/ ~InTransaction(req[r]) /\ rows'[x] = image /\ pending'[r][x] = NoRow
    <2>1. rows \in [Rows -> Row \cup {NoRow}] /\ pending \in [Requests -> [Rows -> Row \cup {NoRow}]]
      BY DEF IInv, TypeOK
    <2> QED
      BY <1>1, <1>5, <2>1
  <1>8. TypeOK'
    <2>1. left' \in [Requests -> 0..(IF MaxList > 1 THEN MaxList ELSE 1)]
      <3>1. left[r] - 1 \in 0..(IF MaxList > 1 THEN MaxList ELSE 1)
        BY <1>4, ViewsAssumption DEF IInv, TypeOK
      <3> QED
        BY <1>2, <3>1 DEF IInv, TypeOK
    <2>2. phase' \in [Requests -> {"waiting", "refused", "admitted", "saved", "ok", "failed"}]
      BY <1>2 DEF IInv, TypeOK
    <2>3. ASSUME NEW s \in Requests
          PROVE  /\ phase'[s] \notin {"waiting", "refused"} => req'[s] \in Questions
                 /\ phase'[s] = "admitted" <=> left'[s] > 0 /\ phase'[s] # "failed"
                 /\ phase'[s] \in {"ok", "failed", "refused"} => \A y \in Rows : pending'[s][y] = NoRow
      <3>1. CASE s = r
        BY <1>2, <1>4, <3>1 DEF IInv, TypeOK
      <3>2. CASE s # r
        BY <1>2, <1>3, <1>7, <3>2 DEF IInv, TypeOK
      <3> QED
        BY <3>1, <3>2
    <2>4. seen' \in [Requests -> Row \cup {NoRow}]
      BY <1>2 DEF IInv, TypeOK
    <2> QED
      BY <1>7, <2>1, <2>2, <2>3, <2>4 DEF TypeOK
  <1>9. \A s \in Requests : Started(s)' <=> Started(s)
    BY <1>2, <1>3, <1>4 DEF Started
  <1>10. ASSUME NEW s \in Requests PROVE RequestInv(s)'
    <2>1. \A y \in Rows : rows[y] # NoRow => rows'[y] # NoRow
      BY <1>7, NoRowFacts
    <2>2. Started(s) => req[s].row \in Rows
      BY QuestionFacts DEF IInv, TypeOK, Started
    <2> QED
      BY <1>2, <1>9, <2>1, <2>2 DEF IInv, RequestInv
  <1>11. ASSUME NEW s \in Requests, NEW y \in Rows, pending'[s][y] # NoRow PROVE Owed(s, y)'
    <2>1. CASE s = r /\ y = x
      BY <1>1, <1>2, <1>4, <1>6, <1>7, <1>11, <2>1 DEF Owed
    <2>2. CASE s # r \/ y # x
      <3>1. Owed(s, y) /\ pending'[s][y] = pending[s][y] /\ y # x
        BY <1>5, <1>7, <1>11, <2>2 DEF IInv
      <3>2. phase'[s] \in {"admitted", "saved"}
        BY <1>3, <1>4, <3>1 DEF Owed
      <3> QED
        BY <1>2, <1>6, <1>7, <3>1, <3>2 DEF Owed
    <2> QED
      BY <2>1, <2>2
  <1>12. ASSUME NEW s \in Requests, NEW t \in Requests, NEW y \in Rows, pending'[s][y] # NoRow, pending'[t][y] # NoRow
         PROVE  s = t
    <2>1. CASE y = x
      BY <1>5, <1>7, <1>12, <2>1
    <2>2. CASE y # x
      BY <1>7, <1>12, <2>2 DEF IInv
    <2> QED
      BY <2>1, <2>2
  <1>13. ASSUME NEW y \in Rows, rows'[y].by # "nobody" PROVE rows'[y].by \in Requests /\ Wrote(rows[y].by, y)'
    <2>1. CASE rows'[y] = rows[y]
      <3> DEFINE w == rows[y].by
      <3>1. w \in Requests /\ Wrote(w, y)
        BY <1>13, <2>1 DEF IInv
      <3>2. InTransaction(req[w]) => phase'[w] = "ok"
        BY <1>2, <1>3, <3>1 DEF Wrote
      <3> HIDE DEF w
      <3>3. Wrote(w, y)' /\ rows'[y].by = rows[y].by
        BY <1>2, <1>6, <1>9, <2>1, <3>1, <3>2 DEF Wrote, w
      <3> QED
        BY <2>1, <3>1, <3>3 DEF w
    <2>2. CASE rows'[y] # rows[y]
      <3>1. y = x /\ ~InTransaction(req[r]) /\ rows'[y] = image
        BY <1>7, <2>2
      <3>2. rows'[y].by = r
        BY <1>1, <3>1 DEF Image
      <3> QED
        BY <1>1, <1>2, <1>4, <1>6, <3>1, <3>2 DEF Wrote, Started
    <2> QED
      BY <2>1, <2>2
  <1> QED
    BY <1>2, <1>8, <1>10, <1>11, <1>12, <1>13 DEF IInv

\* A commit makes the images of its rows the rows, and releases them.
LEMMA AnswerInv ==
    ASSUME IInv, NEW r \in Requests, Answer(r)
    PROVE  IInv'
  <1>1. /\ phase[r] = "saved" /\ phase' = [phase EXCEPT ![r] = "ok"]
        /\ rows' = [x \in Rows |-> IF pending[r][x] # NoRow THEN pending[r][x] ELSE rows[x]]
        /\ pending' = [pending EXCEPT ![r] = [x \in Rows |-> NoRow]]
        /\ UNCHANGED <<req, seen, left>>
    BY DEF Answer, NothingPending
  <1>2. /\ phase'[r] = "ok" /\ \A s \in Requests : s # r => phase'[s] = phase[s] /\ pending'[s] = pending[s]
        /\ \A x \in Rows : pending'[r][x] = NoRow
    BY <1>1 DEF IInv, TypeOK
  <1>3. \A t : \A s \in Requests : Image(s, t) => Image(s, t)'
    BY <1>1 DEF Image
  <1>4. /\ rows' \in [Rows -> Row \cup {NoRow}]
        /\ \A x \in Rows : rows[x] # NoRow => rows'[x] # NoRow
    BY <1>1 DEF IInv, TypeOK
  <1>5. TypeOK'
    <2>1. phase' \in [Requests -> {"waiting", "refused", "admitted", "saved", "ok", "failed"}]
      BY <1>1 DEF IInv, TypeOK
    <2>2. pending' \in [Requests -> [Rows -> Row \cup {NoRow}]]
      BY <1>1 DEF IInv, TypeOK
    <2>3. left' \in [Requests -> 0..(IF MaxList > 1 THEN MaxList ELSE 1)] /\ seen' \in [Requests -> Row \cup {NoRow}]
      BY <1>1 DEF IInv, TypeOK
    <2>4. ASSUME NEW s \in Requests
          PROVE  /\ phase'[s] \notin {"waiting", "refused"} => req'[s] \in Questions
                 /\ phase'[s] = "admitted" <=> left'[s] > 0 /\ phase'[s] # "failed"
                 /\ phase'[s] \in {"ok", "failed", "refused"} => \A y \in Rows : pending'[s][y] = NoRow
      BY <1>1, <1>2 DEF IInv, TypeOK
    <2> QED
      BY <1>4, <2>1, <2>2, <2>3, <2>4 DEF TypeOK
  <1>6. \A s \in Requests : Started(s)' <=> Started(s)
    BY <1>1, <1>2 DEF Started
  <1>7. ASSUME NEW s \in Requests PROVE RequestInv(s)'
    <2>1. Started(s) => req[s].row \in Rows
      BY QuestionFacts DEF IInv, TypeOK, Started
    <2> QED
      BY <1>1, <1>4, <1>6, <2>1 DEF IInv, RequestInv
  <1>8. ASSUME NEW s \in Requests, NEW x \in Rows, pending'[s][x] # NoRow PROVE Owed(s, x)'
    <2>1. s # r /\ pending'[s][x] = pending[s][x] /\ Owed(s, x) /\ phase'[s] = phase[s]
      BY <1>2, <1>8 DEF IInv
    <2>2. pending[r][x] = NoRow
      BY <1>8, <2>1 DEF IInv
    <2>3. rows'[x] = rows[x]
      BY <1>1, <2>2
    <2> QED
      BY <1>1, <1>3, <2>1, <2>3 DEF Owed
  <1>9. ASSUME NEW x \in Rows, rows'[x].by # "nobody" PROVE rows'[x].by \in Requests /\ Wrote(rows[x].by, x)'
    <2>1. CASE pending[r][x] = NoRow
      <3> DEFINE w == rows[x].by
      <3>1. rows'[x] = rows[x]
        BY <1>1, <2>1
      <3>2. w \in Requests /\ Wrote(w, x)
        BY <1>9, <3>1 DEF IInv
      <3>3. InTransaction(req[w]) => phase'[w] = "ok"
        BY <1>2, <3>2 DEF Wrote
      <3> HIDE DEF w
      <3>4. Wrote(w, x)'
        BY <1>1, <1>3, <1>6, <3>1, <3>2, <3>3 DEF Wrote, w
      <3> QED
        BY <3>1, <3>2, <3>4 DEF w
    <2>2. CASE pending[r][x] # NoRow
      <3>1. rows'[x] = pending[r][x] /\ Image(r, pending[r][x])
        BY <1>1, <2>2 DEF IInv, Owed
      <3>2. rows'[x].by = r
        BY <3>1 DEF Image
      <3> QED
        BY <1>2, <1>3, <3>1, <3>2 DEF Wrote, Started
    <2> QED
      BY <2>1, <2>2
  <1>10. \A s, t \in Requests, x \in Rows : pending'[s][x] # NoRow /\ pending'[t][x] # NoRow => s = t
    BY <1>2 DEF IInv
  <1> QED
    BY <1>1, <1>5, <1>7, <1>8, <1>9, <1>10 DEF IInv

\* A failure drops what was pending: only saves outside a transaction remain.
LEMMA FailInv ==
    ASSUME IInv, NEW r \in Requests, Fail(r)
    PROVE  IInv'
  <1>1. /\ phase[r] \in {"admitted", "saved"} /\ phase' = [phase EXCEPT ![r] = "failed"]
        /\ pending' = [pending EXCEPT ![r] = [x \in Rows |-> NoRow]]
        /\ UNCHANGED <<rows, req, seen, left>>
    BY DEF Fail, NothingPending
  <1>2. /\ phase'[r] = "failed" /\ \A s \in Requests : s # r => phase'[s] = phase[s] /\ pending'[s] = pending[s]
        /\ \A x \in Rows : pending'[r][x] = NoRow
    BY <1>1 DEF IInv, TypeOK
  <1>3. \A t : \A s \in Requests : Image(s, t) => Image(s, t)'
    BY <1>1 DEF Image
  <1>4. TypeOK'
    <2>1. phase' \in [Requests -> {"waiting", "refused", "admitted", "saved", "ok", "failed"}]
      BY <1>1 DEF IInv, TypeOK
    <2>2. pending' \in [Requests -> [Rows -> Row \cup {NoRow}]]
      BY <1>1 DEF IInv, TypeOK
    <2>3. /\ left' \in [Requests -> 0..(IF MaxList > 1 THEN MaxList ELSE 1)] /\ seen' \in [Requests -> Row \cup {NoRow}]
          /\ rows' \in [Rows -> Row \cup {NoRow}]
      BY <1>1 DEF IInv, TypeOK
    <2>4. ASSUME NEW s \in Requests
          PROVE  /\ phase'[s] \notin {"waiting", "refused"} => req'[s] \in Questions
                 /\ phase'[s] = "admitted" <=> left'[s] > 0 /\ phase'[s] # "failed"
                 /\ phase'[s] \in {"ok", "failed", "refused"} => \A y \in Rows : pending'[s][y] = NoRow
      BY <1>1, <1>2 DEF IInv, TypeOK
    <2> QED
      BY <2>1, <2>2, <2>3, <2>4 DEF TypeOK
  <1>5. \A s \in Requests : Started(s)' <=> Started(s)
    BY <1>1, <1>2 DEF Started
  <1>6. \A s \in Requests : RequestInv(s)'
    BY <1>1, <1>5 DEF IInv, RequestInv
  <1>7. ASSUME NEW s \in Requests, NEW x \in Rows, pending'[s][x] # NoRow PROVE Owed(s, x)'
    <2>1. s # r /\ pending'[s][x] = pending[s][x] /\ Owed(s, x) /\ phase'[s] = phase[s]
      BY <1>2, <1>7 DEF IInv
    <2> QED
      BY <1>1, <1>3, <2>1 DEF Owed
  <1>8. ASSUME NEW x \in Rows, rows'[x].by # "nobody" PROVE rows'[x].by \in Requests /\ Wrote(rows[x].by, x)'
    <2> DEFINE w == rows[x].by
    <2>1. w \in Requests /\ Wrote(w, x)
      BY <1>1, <1>8 DEF IInv
    <2>2. InTransaction(req[w]) => phase'[w] = "ok"
      BY <1>1, <1>2, <2>1 DEF Wrote
    <2> HIDE DEF w
    <2>3. Wrote(w, x)'
      BY <1>1, <1>3, <1>5, <2>1, <2>2 DEF Wrote, w
    <2> QED
      BY <1>1, <2>1, <2>3 DEF w
  <1>9. \A s, t \in Requests, x \in Rows : pending'[s][x] # NoRow /\ pending'[t][x] # NoRow => s = t
    BY <1>2 DEF IInv
  <1> QED
    BY <1>1, <1>4, <1>6, <1>7, <1>8, <1>9 DEF IInv

LEMMA NextInv == IInv /\ [Next]_vars => IInv'
  <1>1. ASSUME IInv, UNCHANGED vars PROVE IInv'
    BY <1>1 DEF vars, IInv, TypeOK, RequestInv, Started, Owed, Wrote, Image
  <1>2. ASSUME IInv, Next PROVE IInv'
    BY <1>2, RefuseInv, AdmitInv, SaveInv, AnswerInv, FailInv DEF Next
  <1> QED
    BY <1>1, <1>2

LEMMA Invariant == Spec => []IInv
  BY InitInv, NextInv, PTL DEF Spec

-----------------------------------------------------------------------------

\* Types; and a request holds pending rows only while its handler runs.
THEOREM TypeCorrect == Spec => []TypeOK
  <1>1. IInv => TypeOK
    BY DEF IInv
  <1> QED
    BY <1>1, Invariant, PTL

\* A row that a create or an update left behind belongs to the organization the
\* write was for, whatever the knobs of the viewset, sync or async, with a
\* single body or a list, and however the requests overlap.
THEOREM WritesLandHomeTheorem == Spec => []WritesLandHome
  <1>1. IInv => WritesLandHome
    <2> SUFFICES ASSUME IInv, NEW x \in Rows, rows[x].by \in Requests, req[rows[x].by].action # "destroy"
                 PROVE  Home(req[rows[x].by], rows[x].org)
      BY DEF WritesLandHome, Home
    <2>1. rows[x].by # "nobody"
      BY ViewsAssumption
    <2> QED
      BY <2>1 DEF IInv, Wrote, Image
  <1> QED
    BY <1>1, Invariant, PTL

\* AtomicWriteMixin: what a failed request of a sync viewset with atomic writes
\* saved is nowhere in the table.
THEOREM FailedSyncWriteLeavesNothingTheorem == Spec => []FailedSyncWriteLeavesNothing
  <1>1. IInv => FailedSyncWriteLeavesNothing
    <2> SUFFICES ASSUME IInv, NEW r \in Requests, phase[r] = "failed", ~View(req[r]).async, View(req[r]).atomic,
                        NEW x \in Rows, rows[x].by = r
                 PROVE  FALSE
      BY DEF FailedSyncWriteLeavesNothing
    <2>1. rows[x].by # "nobody"
      BY ViewsAssumption
    <2>2. Wrote(r, x)
      BY <2>1 DEF IInv
    <2> QED
      BY <2>2 DEF Wrote, InTransaction
  <1> QED
    BY <1>1, Invariant, PTL

\* A step changes a row only by an image of the request that now has written
\* it, of an instance that was there; a delete keeps the other columns.
LEMMA RowChange ==
    ASSUME IInv, Next, NEW x \in Rows, rows'[x] # rows[x]
    PROVE  LET r == rows'[x].by
           IN  /\ r \in Requests
               /\ Image(r, rows'[x])
               /\ Settled(req[r], seen[r])
               /\ Creates(req[r]) => rows[x] = NoRow
               /\ req[r].action = "destroy" => rows'[x].org = rows[x].org /\ rows'[x].text = rows[x].text
               /\ UNCHANGED <<req, seen>>
  <1>1. PICK r \in Requests : Save(r) \/ Answer(r)
    BY DEF Next, Refuse, Admit, Fail
  <1>2. Settled(req[r], seen[r]) /\ UNCHANGED <<req, seen>>
    BY <1>1 DEF IInv, RequestInv, Started, Save, Answer
  <1>3. /\ Image(r, rows'[x])
        /\ Creates(req[r]) => rows[x] = NoRow
        /\ req[r].action = "destroy" => rows'[x].org = rows[x].org /\ rows'[x].text = rows[x].text
    <2>1. CASE Save(r)
      <3>1. PICK y \in Rows, image \in Row :
              /\ Image(r, image)
              /\ Creates(req[r]) => rows[y] = NoRow
              /\ req[r].action = "destroy" => image.org = rows[y].org /\ image.text = rows[y].text
              /\ UNCHANGED rows \/ rows' = [rows EXCEPT ![y] = image]
        BY <2>1, SaveFacts
      <3>2. y = x /\ rows'[x] = image
        BY <3>1 DEF IInv, TypeOK
      <3> QED
        BY <3>1, <3>2
    <2>2. CASE Answer(r)
      <3>1. pending[r][x] # NoRow /\ rows'[x] = pending[r][x]
        BY <2>2 DEF Answer
      <3> QED
        BY <3>1 DEF IInv, Owed
    <2> QED
      BY <1>1, <2>1, <2>2
  <1>4. rows'[x].by = r
    BY <1>3 DEF Image
  <1> QED
    BY <1>2, <1>3, <1>4

\* Under the library's ownership check a tenant changes a row of another
\* organization only if it was its own when get_object read it.
THEOREM ForeignRowsUntouchedTheorem == Spec => ForeignRowsUntouched
  <1> DEFINE A == \A x \in Rows :
        LET r == rows'[x].by IN
            /\ rows'[x] # rows[x] /\ rows[x] # NoRow
            /\ Caller(req[r]).org \in Orgs /\ ~is_superuser(Caller(req[r]))
            /\ View(req[r]).ownership = "library" /\ req[r].action \notin View(req[r]).ownExempt
            => rows[x].org = Caller(req[r]).org \/ seen[r].org = Caller(req[r]).org
  <1>1. ASSUME IInv, Next PROVE A
    <2> SUFFICES ASSUME NEW x \in Rows, NEW r, r = rows'[x].by, rows'[x] # rows[x], rows[x] # NoRow,
                        Caller(req[r]).org \in Orgs, ~is_superuser(Caller(req[r])),
                        View(req[r]).ownership = "library", req[r].action \notin View(req[r]).ownExempt
                 PROVE  seen[r].org = Caller(req[r]).org
      OBVIOUS
    <2>1. Settled(req[r], seen[r]) /\ ~Creates(req[r])
      BY <1>1, RowChange
    <2>2. ObjectOrgOwnership(req[r], seen[r])
      BY <2>1 DEF Settled
    <2>3. EnvoyObjectOrgOwnership(Caller(req[r]), seen[r]) /\ Caller(req[r]).org # "platform"
      BY <2>2, ViewsAssumption DEF ObjectOrgOwnership
    <2> QED
      BY <2>3 DEF EnvoyObjectOrgOwnership
  <1> HIDE DEF A
  <1>2. Spec => [][A]_vars
    BY <1>1, Invariant, PTL DEF Spec
  <1> QED
    BY <1>2 DEF A, ForeignRowsUntouched

\* A retired row comes back only by an update that asked for retired rows and for
\* is_deleted=false, or by one that had read the row before it was retired.
THEOREM TombstonesStayTheorem == Spec => TombstonesStay
  <1> DEFINE A == \A x \in Rows :
        rows[x].dead /\ ~rows'[x].dead =>
            LET r == rows'[x].by IN
                \/ ~seen[r].dead
                \/ req[r].dead = "false" /\ (include_deleted_requested(req[r]) \/ View(req[r]).keepsDead)
  <1>1. ASSUME IInv, Next PROVE A
    <2> SUFFICES ASSUME NEW x \in Rows, rows[x].dead, ~rows'[x].dead, NEW r, r = rows'[x].by
                 PROVE  ~seen[r].dead \/ (req[r].dead = "false" /\ SeesDead(req[r]))
      BY DEF SeesDead
    <2>1. Image(r, rows'[x])
      BY <1>1, RowChange
    <2> QED
      BY <2>1 DEF Image
  <1> HIDE DEF A
  <1>2. Spec => [][A]_vars
    BY <1>1, Invariant, PTL DEF Spec
  <1> QED
    BY <1>2 DEF A, TombstonesStay

\* A delete that overlaps an update never takes the update's columns back.
THEOREM DeleteUndoesNoEditTheorem == Spec => DeleteUndoesNoEdit
  <1> DEFINE A == \A x \in Rows :
        rows'[x] # rows[x] /\ req[rows'[x].by].action = "destroy" =>
            rows'[x].org = rows[x].org /\ rows'[x].text = rows[x].text
  <1>1. ASSUME IInv, Next PROVE A
    BY <1>1, RowChange
  <1> HIDE DEF A
  <1>2. Spec => [][A]_vars
    BY <1>1, Invariant, PTL DEF Spec
  <1> QED
    BY <1>2 DEF A, DeleteUndoesNoEdit
=============================================================================
