--------------------------- MODULE MCSentryFilters ---------------------------
(* The chain of README.md with a service's drop list, and faults of three     *)
(* exceptions: plain chains, a suppressed context, a cause beside a context,   *)
(* and cycles.                                                                 *)
EXTENDS SentryFilters, TLC

CONSTANTS e1, e2, e3

MCExceptions == {e1, e2, e3}
MCFilters == <<"drop_cancelled", "drop_client", "drop_matching", "readonly", "connect",
               "teardown", "group_by_template">>

Links(a, b, c) == e1 :> a @@ e2 :> b @@ e3 :> c
Nowhere == Links(NoExc, NoExc, NoExc)
Graph(ca, co, su) == [cause |-> ca, context |-> co, suppressed |-> su]

Graphs == {
    Graph(Nowhere, Links(e2, e3, NoExc), Links(FALSE, FALSE, FALSE)),
    Graph(Nowhere, Links(e2, NoExc, NoExc), Links(TRUE, FALSE, FALSE)),
    Graph(Links(e2, NoExc, NoExc), Links(e3, e3, NoExc), Links(TRUE, FALSE, FALSE)),
    Graph(Links(e3, NoExc, NoExc), Links(e2, NoExc, NoExc), Links(TRUE, FALSE, FALSE)),
    Graph(Nowhere, Links(e2, e3, e2), Links(FALSE, FALSE, FALSE)),
    Graph(Nowhere, Links(e1, NoExc, NoExc), Links(FALSE, FALSE, FALSE)) }

\* One exception carries a signature, or the raised one and another do.
Carriers(s) == {e \in MCExceptions : s[e] # "none"}
Says == {s \in [MCExceptions -> {"none", "local", "readonly", "connect", "teardown"}] :
            \/ Cardinality(Carriers(s)) < 2
            \/ Cardinality(Carriers(s)) = 2 /\ s[e1] = "connect" /\ "local" \notin {s[e2], s[e3]}}
Kinds == {Links("other", "other", "other"), Links("cancelled", "other", "other"),
          Links("client", "other", "other"), Links("other", "cancelled", "other")}

MCFaults == {[cause |-> g.cause, context |-> g.context, suppressed |-> g.suppressed, says |-> s, kind |-> k] :
                g \in Graphs, s \in Says, k \in Kinds}

Django == [hint |-> "exc_info", template |-> FALSE, message |-> "none", preset |-> FALSE]
Server == [hint |-> "original", template |-> TRUE, message |-> "none", preset |-> FALSE]
Logged == [hint |-> "none", template |-> TRUE, message |-> "connect", preset |-> FALSE]
Broken == [hint |-> "broken", template |-> FALSE, message |-> "none", preset |-> TRUE]

MCReports == {<<Django, Server>>, <<Logged>>, <<Broken>>}
=============================================================================
