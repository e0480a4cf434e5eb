---------------------------- MODULE TenantViews ----------------------------
(***************************************************************************)
(* netix_backend/django/views.py, views_aio.py, org_scope.py and the base  *)
(* model of models.py: writes to the rows of one table by requests of      *)
(* several organizations.                                                  *)
(*                                                                         *)
(* A request is admitted (permissions, get_object, validation), saves, and *)
(* answers or fails.  get_object reads without a lock; an atomic handler's *)
(* saves are visible to others when it has answered (read committed), and  *)
(* keep the rows they wrote locked until then.                             *)
(*                                                                         *)
(* Requests that only read change nothing; what they see is Visible.       *)
(***************************************************************************)
EXTENDS Naturals, FiniteSets

CONSTANTS
    Rows,        \* primary keys
    Orgs,        \* organizations of tenants; "platform" is organization 0
    Requests,    \* requests, each served once
    Callers,     \* who may call
    Claims,      \* what is known of each caller, see IdentityType
    Views,       \* the viewsets over the table
    Knobs,       \* the class attributes of each, see ViewType
    Tables,      \* initial contents of the table
    MaxList      \* longest list body

NoOrg == "absent"
Owners == Orgs \cup {"platform"}
Actions == {"create", "update", "destroy"}

\* request.envoy's organization ("none": no envoy; "unresolved": None, "" or
\* "bogus"; "invalid": not a number) and is_superuser flag, and whether
\* request.user is a Django superuser.
IdentityType ==
    [org : Owners \cup {"none", "unresolved", "invalid"}, flag : {"absent", "true", "false"}, user : BOOLEAN]

ViewType ==
    [async : BOOLEAN,          \* AsyncBaseViewSet
     scoped : BOOLEAN,         \* session_customer_filter
     scope : {"off", "pin", "pin_and_reject"},          \* tenant_write_scope
     exempt : SUBSET Actions,                           \* tenant_write_exempt_actions
     pinFirst : BOOLEAN,       \* tenant_write_pin_before_validation
     ownership : {"library", "legacy_open", "off"},     \* org_ownership
     ownExempt : SUBSET Actions,                        \* org_ownership_exempt_actions
     atomic : BOOLEAN,         \* the write actions are in atomic_actions
     repeat404 : BOOLEAN,      \* soft_delete_404_on_repeat
     keepsDead : BOOLEAN,      \* its own get_queryset passes delete_filter=False
     includes : BOOLEAN,       \* with IncludeDeletedMixin
     superOrg : BOOLEAN,       \* with SuperuserOrgScopeMixin
     lists : BOOLEAN]          \* with Create- and UpdateListModelMixin

ASSUME ViewsAssumption ==
    /\ Claims \in [Callers -> IdentityType]
    /\ Knobs \in [Views -> ViewType]
    /\ MaxList \in Nat \ {0} /\ Rows \subseteq Nat
    /\ "nobody" \notin Requests
    /\ Orgs \cap {NoOrg, "platform", "none", "unresolved", "invalid", "garbage"} = {}

VARIABLES
    rows,     \* the committed table
    phase,    \* where a request is
    req,      \* what it asks for
    seen,     \* the instance get_object read
    left,     \* rows it has still to save
    pending   \* what it saved in a transaction that has not ended

vars == <<rows, phase, req, seen, left, pending>>

\* text stands for the other columns: who wrote them last.  by is the last
\* writer of the row.
Row == [org : Owners, dead : BOOLEAN, text : Requests \cup {"nobody"}, by : Requests \cup {"nobody"}]
NoRow == [org |-> NoOrg, dead |-> FALSE, text |-> "nobody", by |-> "nobody"]

\* No request has written yet.
ASSUME TablesAssumption == \A t \in Tables :
    /\ t \in [Rows -> Row \cup {NoRow}]
    /\ \A x \in Rows : t[x].by = "nobody"

\* A body, or the rows of a list, name an organization or not, and is_deleted
\* or not; list is the length of a list body, 0 for a single one.  include is
\* a truthy ?include_deleted, param ?organization ("garbage": not a number).
Question ==
    [view : Views, who : Callers, action : Actions, row : Rows, list : 0..MaxList,
     org : Orgs \cup {NoOrg}, dead : {"absent", "true", "false"}, include : BOOLEAN,
     param : Orgs \cup {NoOrg, "garbage"}]

NoQuestion == [action |-> "none"]
View(q) == Knobs[q.view]
Caller(q) == Claims[q.who]

\* An update whose body is a list has no instance: its serializer creates.
Creates(q) == q.action = "create" \/ q.list > 0

\* What the viewset does not look at is left at its default.
Questions == {q \in Question :
    /\ q.list > 0 => View(q).lists /\ q.action # "destroy"
    /\ q.include => View(q).includes /\ ~Creates(q)
    /\ q.param # NoOrg => View(q).superOrg
    /\ Creates(q) => q.dead = "absent" /\ q.row = CHOOSE x \in Rows : TRUE
    /\ q.action = "destroy" => q.dead = "absent" /\ q.org = NoOrg}

Init ==
    /\ rows \in Tables
    /\ phase = [r \in Requests |-> "waiting"]
    /\ req = [r \in Requests |-> NoQuestion]
    /\ seen = [r \in Requests |-> NoRow]
    /\ left = [r \in Requests |-> 0]
    /\ pending = [r \in Requests |-> [x \in Rows |-> NoRow]]

-----------------------------------------------------------------------------
(* Who calls, and what they may see. *)

\* The envoy flag first, request.user second.
is_superuser(i) == IF i.org # "none" /\ i.flag # "absent" THEN i.flag = "true" ELSE i.user

\* The organization a caller must write into.  An organization that is not a
\* number raises PermissionDenied: see PinResolves.
tenant_organization_id(i) == IF i.org \in Orgs /\ ~is_superuser(i) THEN i.org ELSE NoOrg

\* TenantWriteScopeMixin: the organization forced onto this write.
ScopeApplies(q) == View(q).scope # "off" /\ q.action \notin View(q).exempt
TenantPin(q) == IF ScopeApplies(q) THEN tenant_organization_id(Caller(q)) ELSE NoOrg
PinResolves(q) == ScopeApplies(q) /\ Caller(q).org = "invalid" => is_superuser(Caller(q))

\* SuperuserOrgScopeMixin: the organization ?organization= asks for.  Anything
\* but a superuser with a number is refused: see TargetAllowed.
Target(q) == IF View(q).superOrg THEN q.param ELSE NoOrg
TargetAllowed(q) == Target(q) # NoOrg => Target(q) # "garbage" /\ is_superuser(Caller(q))

\* Only reads and updates honour ?include_deleted; a delete never does.
include_deleted_requested(q) == View(q).includes /\ q.action # "destroy" /\ q.include

\* envoy_pyauth's EnvoyQueryFilter: organization 0 sees all rows, an identity
\* without an organization none.
EnvoyQueryFilter(i, scoped, deleteFilter) == {x \in Rows :
    /\ rows[x] # NoRow
    /\ deleteFilter => ~rows[x].dead
    /\ scoped => i.org = "platform" \/ rows[x].org = i.org}

\* EnvoyScopedQuerysetMixin under IncludeDeletedMixin.
ScopedQueryset(q) ==
    EnvoyQueryFilter(Caller(q), View(q).scoped, ~View(q).keepsDead /\ ~include_deleted_requested(q))

\* The cross-organization branch: the target's live rows.
superuser_org_queryset(q) == {x \in Rows : rows[x] # NoRow /\ rows[x].org = q.param /\ ~rows[x].dead}

\* get_queryset of the whole viewset.  Without the filter on is_deleted:
Visible_KeepsDead(q) ==
    IF Target(q) # NoOrg THEN superuser_org_queryset(q) ELSE EnvoyQueryFilter(Caller(q), View(q).scoped, FALSE)
Visible(q) == IF Target(q) # NoOrg THEN superuser_org_queryset(q) ELSE ScopedQueryset(q)

\* envoy_pyauth's EnvoyObjectOrgOwnership, for a method that writes.
EnvoyObjectOrgOwnership(i, row) == i.org = "platform" \/ is_superuser(i) \/ row.org = i.org

\* envoy-pyauth 1.6: no identity allows.
LegacyOwnership(i, row) ==
    \/ i.org \in {"none", "platform"}
    \/ i.flag = "true"
    \/ row.org = i.org

\* Fails open: an exempt action exempts all.
ObjectOrgOwnership_AnyExempt(q, row) ==
    \/ View(q).ownership = "off" \/ View(q).ownExempt # {}
    \/ View(q).ownership = "legacy_open" /\ LegacyOwnership(Caller(q), row)
    \/ View(q).ownership = "library" /\ EnvoyObjectOrgOwnership(Caller(q), row)
ObjectOrgOwnership(q, row) ==
    \/ View(q).ownership = "off"
    \/ q.action \in View(q).ownExempt
    \/ View(q).ownership = "legacy_open" /\ LegacyOwnership(Caller(q), row)
    \/ View(q).ownership = "library" /\ EnvoyObjectOrgOwnership(Caller(q), row)

-----------------------------------------------------------------------------
(* What a write saves. *)

\* The body's organization, overwritten before validation where the view pins
\* that early; a list is left alone.
BodyOrg(q) == IF View(q).pinFirst /\ q.list = 0 /\ TenantPin(q) # NoOrg THEN TenantPin(q) ELSE q.org

\* pin_and_reject refuses a body or an instance of another organization.
RejectsForeign(q, row) ==
    /\ View(q).scope = "pin_and_reject" /\ Target(q) = NoOrg /\ TenantPin(q) # NoOrg
    /\ \/ BodyOrg(q) \notin {NoOrg, TenantPin(q)}
       \/ row.org \notin {NoOrg, TenantPin(q)}

\* The organization serializer.save() is given: the targeted one, which is
\* meant to win over the body, else the caller's.  AsyncBaseViewSet saves
\* natively, without it, when no hook is overridden and nothing is pinned;
\* SuperuserOrgScopeMixin's hooks count as overrides.
SyncHook(q) == View(q).async => View(q).superOrg \/ TenantPin(q) # NoOrg
SaveKwarg_PinOnly(q) == IF View(q).async /\ TenantPin(q) = NoOrg THEN NoOrg
                        ELSE IF Target(q) # NoOrg THEN Target(q) ELSE TenantPin(q)
SaveKwarg(q) ==
    IF ~SyncHook(q) THEN NoOrg
    ELSE IF Target(q) # NoOrg THEN Target(q)
    ELSE TenantPin(q)

\* The first that is named: keyword, body, and what the row has or, when it is
\* created, the column's default.
RowOrg_NoDefault(q, row) == IF SaveKwarg(q) # NoOrg THEN SaveKwarg(q)
                            ELSE IF BodyOrg(q) # NoOrg THEN BodyOrg(q) ELSE row.org
RowOrg(q, row) ==
    IF SaveKwarg(q) # NoOrg THEN SaveKwarg(q)
    ELSE IF BodyOrg(q) # NoOrg THEN BodyOrg(q)
    ELSE IF row = NoRow THEN "platform"
    ELSE row.org

\* serializer.save() of a new or of a loaded instance writes every column,
\* those of the body from the body, all others from what was loaded.
Saved(r) == LET q == req[r] IN
    [org |-> RowOrg(q, seen[r]),
     dead |-> IF q.dead = "absent" THEN seen[r].dead ELSE q.dead = "true",
     text |-> r, by |-> r]

\* soft_delete() writes is_deleted (and updated_on) alone.
SoftDeleted_AllColumns(r, row) == [seen[r] EXCEPT !.dead = TRUE, !.by = r]
SoftDeleted(r, row) == [row EXCEPT !.dead = TRUE, !.by = r]

\* Whether the handler's saves are one transaction.  destroy always is, in
\* either kind of view; other async handlers never are.
InTransaction_OnlyDestroy(q) == q.action = "destroy"
InTransaction(q) == q.action = "destroy" \/ (~View(q).async /\ View(q).atomic)

-----------------------------------------------------------------------------

\* The checks that precede the first save; get_object's where there is one.
Admitted(q) ==
    /\ TargetAllowed(q)
    /\ q.action # "destroy" => PinResolves(q)
    /\ Creates(q) => ~RejectsForeign(q, NoRow)
    /\ ~Creates(q) =>
        /\ q.row \in Visible(q)
        /\ ObjectOrgOwnership(q, rows[q.row])
        /\ q.action = "update" => ~RejectsForeign(q, rows[q.row])
        /\ q.action = "destroy" => ~(View(q).repeat404 /\ rows[q.row].dead)

\* 4xx before anything is saved.
Refuse(r) ==
    /\ phase[r] = "waiting"
    /\ ~ \A q \in Questions : Admitted(q)
    /\ phase' = [phase EXCEPT ![r] = "refused"]
    /\ UNCHANGED <<rows, req, seen, left, pending>>

\* The request passes every check and holds its instance.
Admit(r) ==
    /\ phase[r] = "waiting"
    /\ \E q \in Questions :
        /\ Admitted(q)
        /\ req' = [req EXCEPT ![r] = q]
        /\ seen' = [seen EXCEPT ![r] = IF Creates(q) THEN NoRow ELSE rows[q.row]]
        /\ left' = [left EXCEPT ![r] = IF q.list > 0 THEN q.list ELSE 1]
    /\ phase' = [phase EXCEPT ![r] = "admitted"]
    /\ UNCHANGED <<rows, pending>>

\* Nobody has written x in a transaction that is still open.
Unlocked(x) == \A s \in Requests : pending[s][x] = NoRow

\* The key is free.
Fresh(x) == rows[x] = NoRow /\ Unlocked(x)

\* One save(): an INSERT under the next key, an UPDATE of all columns, or a soft delete.  Outside
\* a transaction it is visible at once.
Save(r) == LET q == req[r] IN
    /\ phase[r] = "admitted"
    /\ \E x \in Rows :
        /\ IF Creates(q) THEN Fresh(x) /\ (\A y \in Rows : Fresh(y) => x <= y) ELSE x = q.row /\ Unlocked(x)
        /\ LET image == IF q.action = "destroy" THEN SoftDeleted(r, rows[x]) ELSE Saved(r) IN
            IF InTransaction(q)
            THEN pending' = [pending EXCEPT ![r][x] = image] /\ UNCHANGED rows
            ELSE rows' = [rows EXCEPT ![x] = image] /\ UNCHANGED pending
    /\ left' = [left EXCEPT ![r] = @ - 1]
    /\ phase' = [phase EXCEPT ![r] = IF left[r] = 1 THEN "saved" ELSE "admitted"]
    /\ UNCHANGED <<req, seen>>

NothingPending(r) == pending' = [pending EXCEPT ![r] = [x \in Rows |-> NoRow]]

\* The handler returns; its transaction, if there is one, commits.
Answer(r) ==
    /\ phase[r] = "saved"
    /\ phase' = [phase EXCEPT ![r] = "ok"]
    /\ rows' = [x \in Rows |-> IF pending[r][x] # NoRow THEN pending[r][x] ELSE rows[x]]
    /\ NothingPending(r)
    /\ UNCHANGED <<req, seen, left>>

\* The database refuses a save (IntegrityError, a 400), or a hook before or
\* after one raises (validate_soft_delete, a post_save receiver, the
\* serializer of the answer): a transaction is rolled back.
Fail(r) ==
    /\ phase[r] \in {"admitted", "saved"}
    /\ phase' = [phase EXCEPT ![r] = "failed"]
    /\ NothingPending(r)
    /\ UNCHANGED <<rows, req, seen, left>>

Next == \E r \in Requests : Refuse(r) \/ Admit(r) \/ Save(r) \/ Answer(r) \/ Fail(r)

Spec == Init /\ [][Next]_vars

-----------------------------------------------------------------------------
(* Properties. *)

\* Types; and a request that is still to save has rows left, one that was
\* answered has none and has nothing pending.
TypeOK ==
    /\ rows \in [Rows -> Row \cup {NoRow}]
    /\ phase \in [Requests -> {"waiting", "refused", "admitted", "saved", "ok", "failed"}]
    /\ seen \in [Requests -> Row \cup {NoRow}]
    /\ pending \in [Requests -> [Rows -> Row \cup {NoRow}]]
    /\ left \in [Requests -> 0..(IF MaxList > 1 THEN MaxList ELSE 1)]
    /\ \A r \in Requests :
        /\ phase[r] \notin {"waiting", "refused"} => req[r] \in Questions
        /\ phase[r] = "admitted" <=> left[r] > 0 /\ phase[r] # "failed"
        /\ phase[r] \in {"ok", "failed", "refused"} => \A x \in Rows : pending[r][x] = NoRow

\* The caller is a tenant on a view whose writes are scoped.
PinnedTenant(q) == Caller(q).org \in Orgs /\ ~is_superuser(Caller(q)) /\ View(q).scope # "off" /\ q.action \notin View(q).exempt

\* A row that a create or an update left behind belongs to the organization
\* the write was for: the one a superuser targeted, else the tenant's own,
\* whatever the body named, however late the save came and by whichever of the
\* sync and async paths (perform_create, perform_update, perform_acreate,
\* perform_aupdate).
WritesLandHome == \A x \in Rows : LET r == rows[x].by IN
    r \in Requests /\ req[r].action # "destroy" =>
        /\ View(req[r]).superOrg /\ req[r].param # NoOrg => rows[x].org = req[r].param
        /\ PinnedTenant(req[r]) => rows[x].org = Caller(req[r]).org

\* Object ownership: a tenant on a view with the library's ownership check
\* changes a row of another organization only if it was its own when
\* get_object read it, that is if the row was moved while the request ran.
ForeignRowsUntouched == [][\A x \in Rows :
    LET r == rows'[x].by IN
        /\ rows'[x] # rows[x] /\ rows[x] # NoRow
        /\ Caller(req[r]).org \in Orgs /\ ~is_superuser(Caller(req[r]))
        /\ View(req[r]).ownership = "library" /\ req[r].action \notin View(req[r]).ownExempt
        => rows[x].org = Caller(req[r]).org \/ seen[r].org = Caller(req[r]).org]_vars

\* A retired row comes back to life only by an update that asked for retired
\* rows and for is_deleted=false, or by one that had read the row before it was
\* retired and writes its old copy over it.
TombstonesStay == [][\A x \in Rows :
    rows[x].dead /\ ~rows'[x].dead =>
        LET r == rows'[x].by IN
            \/ ~seen[r].dead
            \/ req[r].dead = "false" /\ (include_deleted_requested(req[r]) \/ View(req[r]).keepsDead)]_vars

\* A delete that overlaps an update never takes the update's columns back:
\* soft_delete's update_fields.
DeleteUndoesNoEdit == [][\A x \in Rows :
    rows'[x] # rows[x] /\ req[rows'[x].by].action = "destroy" =>
        rows'[x].org = rows[x].org /\ rows'[x].text = rows[x].text]_vars

\* What a failed request saved is nowhere in the table, with one row or with a
\* list, if its view is a BaseViewSet whose write actions are atomic
\* (AtomicWriteMixin).
FailedSyncWriteLeavesNothing == \A r \in Requests :
    phase[r] = "failed" /\ ~View(req[r]).async /\ View(req[r]).atomic => \A x \in Rows : rows[x].by # r

\* The comment in AtomicWriteMixin.dispatch: async handlers are wrapped by the
\* aio module, so the same holds of every view that asks for atomic writes.
FailedWriteLeavesNothing == \A r \in Requests :
    phase[r] = "failed" /\ View(req[r]).atomic => \A x \in Rows : rows[x].by # r
=============================================================================
