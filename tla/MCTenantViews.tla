--------------------------- MODULE MCTenantViews ---------------------------
(* Small instances of TenantViews: a handful of viewsets over one table. *)
EXTENDS TenantViews, TLC

\* BaseViewSet as it is.
Base == [async |-> FALSE, scoped |-> TRUE, scope |-> "pin", exempt |-> {}, pinFirst |-> FALSE,
         ownership |-> "library", ownExempt |-> {}, atomic |-> TRUE, repeat404 |-> TRUE,
         keepsDead |-> FALSE, includes |-> FALSE, superOrg |-> FALSE, lists |-> FALSE]
Restoring == [Base EXCEPT !.includes = TRUE, !.scope = "pin_and_reject", !.ownership = "legacy_open"]
Listing == [Base EXCEPT !.lists = TRUE, !.pinFirst = TRUE, !.scope = "pin_and_reject"]
Async == [Base EXCEPT !.async = TRUE]
AsyncTargeted == [Async EXCEPT !.superOrg = TRUE]
\* Nothing is pinned, everybody sees every row and ownership decides, except
\* for deletes.
Gated == [Base EXCEPT !.scoped = FALSE, !.keepsDead = TRUE, !.ownExempt = {"destroy"}, !.scope = "off",
                      !.exempt = {"create"}, !.atomic = FALSE]

Tenant == [org |-> "a", flag |-> "absent", user |-> FALSE]
Other == [org |-> "b", flag |-> "false", user |-> TRUE]
Superuser == [org |-> "platform", flag |-> "true", user |-> FALSE]
Broken == [org |-> "invalid", flag |-> "absent", user |-> FALSE]

MCKnobs == [restoring |-> Restoring, listing |-> Listing, targeted |-> AsyncTargeted, gated |-> Gated]
AsyncKnobs == [async |-> Async]
MCClaims == [tenant |-> Tenant, other |-> Other, super |-> Superuser, broken |-> Broken]
TenantClaims == [tenant |-> Tenant]

\* Row 1 exists, live or retired; the others are free.
MCTables == {[x \in Rows |-> IF x = 1 THEN [org |-> o, dead |-> d, text |-> "nobody", by |-> "nobody"] ELSE NoRow] :
                o \in {"a"}, d \in BOOLEAN}

RequestSymmetry == Permutations(Requests)
=============================================================================
