---------------------------- MODULE SentryFilters ----------------------------
(***************************************************************************)
(* netix_backend/observability/sentry_filters.py: the before_send chain a  *)
(* service gives to Sentry.  One fault reaches Sentry as several reports:  *)
(* Django's capture, the server's log record, a log whose hint has no       *)
(* exception (the event still carries the serialized ones).                *)
(* Each is sent through the chain, filter by filter; a filter that reads   *)
(* the event's text walks the exception chain first, and any filter may    *)
(* raise.  Reports share no state, so they are handled one by one.         *)
(***************************************************************************)
EXTENDS Naturals, FiniteSets, Sequences

CONSTANTS
    Exceptions,  \* exception objects of a fault
    Raised,      \* the one that was raised
    NoExc,       \* None
    Faults,      \* the faults that may happen
    Reports,     \* the sequences of reports a fault may give rise to
    Filters,     \* the arguments of chain(), in order
    MaxRaises    \* bound on filters that raise on one report

\* What drop_matching_signatures drops is the service's own list, "local"; the
\* other signatures are those of the ready-made fingerprints, named alike.
Signatures == {"local", "readonly", "connect", "statement", "teardown"}
FingerprintFilters == Signatures \ {"local"}
DropFilters == {"drop_cancelled", "drop_client", "drop_matching"}
FilterNames == DropFilters \cup FingerprintFilters \cup {"group_by_template"}

\* A fault: the links between its exceptions (suppressed is set by "raise X from
\* Y"), what each one's message says and what it is an instance of.
FaultRecords == [cause : [Exceptions -> Exceptions \cup {NoExc}],
                 context : [Exceptions -> Exceptions \cup {NoExc}],
                 suppressed : [Exceptions -> BOOLEAN],
                 says : [Exceptions -> Signatures \cup {"none"}],
                 kind : [Exceptions -> {"cancelled", "client", "other"}]]

\* A report: where the hint has the exception ("broken": an exc_info without
\* one), whether it has a log record with a template, what the event's own
\* message says, and whether the service has set a fingerprint.
ReportRecords == [hint : {"exc_info", "original", "broken", "none"}, template : BOOLEAN,
                  message : Signatures \cup {"none"}, preset : BOOLEAN]

ASSUME SentryAssumption ==
    /\ Raised \in Exceptions /\ NoExc \notin Exceptions
    /\ Faults \subseteq FaultRecords
    /\ Reports \subseteq Seq(ReportRecords)
    /\ Filters \in Seq(FilterNames)
    /\ MaxRaises \in Nat

VARIABLES
    fault,        \* what happened
    reports,      \* the reports of it still to be sent, the current one first
    at,           \* the filter the current report has reached
    fingerprint,  \* the current event's fingerprint, "unset" if it has none
    walking,      \* exception_chain_text runs
    cursor,       \* its current exception
    seen,         \* its seen set
    read,         \* what it has collected
    skipped,      \* filters that raised on the current report
    sent          \* the outcome of the reports before

event == <<at, fingerprint, skipped>>
walk == <<walking, cursor, seen, read>>
vars == <<fault, reports, event, walk, sent>>

-----------------------------------------------------------------------------

Report == Head(reports)
Filter == Filters[at]
Running == reports # <<>> /\ at <= Len(Filters)

hint_exception(h) == IF h \in {"exc_info", "original"} THEN Raised ELSE NoExc

Link_CauseOnly(f, e) == f.cause[e]

\* __cause__ or __context__
Link(f, e) == IF f.cause[e] # NoExc THEN f.cause[e] ELSE f.context[e]

\* The SDK's own walk (external) heeds __suppress_context__.
SdkLink(f, e) == IF f.suppressed[e] THEN f.cause[e] ELSE f.context[e]

\* The exceptions that following next from the raised one comes by: those in
\* every set that has it and is closed under next.
Closed(next, S) == Raised \in S /\ \A e \in S : next[e] \in S \cup {NoExc}
Along(next) == {e \in Exceptions : \A S \in SUBSET Exceptions : Closed(next, S) => e \in S}

\* _exception_values: what the SDK has serialized on the event.
Serialized(f) == Along([e \in Exceptions |-> SdkLink(f, e)])

EventText_LogEntryOnly(f, r, chain) ==
    (IF r.template THEN {r.message} ELSE chain \cup {f.says[e] : e \in Serialized(f)} \cup {r.message}) \ {"none"}

\* event_text_candidates, given what the chain says.
EventText(f, r, chain) ==
    (chain \cup {f.says[e] : e \in Serialized(f)} \cup {r.message}) \ {"none"}

Cancelled(f, r) ==
    \/ hint_exception(r.hint) = Raised /\ f.kind[Raised] = "cancelled"
    \/ \E e \in Serialized(f) : f.kind[e] = "cancelled"

ClientError(f, r) == hint_exception(r.hint) = Raised /\ f.kind[Raised] = "client"

\* Filters whose decision reads the event's text; a fingerprint filter looks for
\* a fingerprint first.
ReadsText(fl, fp) == fl = "drop_matching" \/ (fl \in FingerprintFilters /\ fp = "unset")

\* Does filter fl drop an event with this text?
Drops(fl, f, r, text) ==
    \/ fl = "drop_cancelled" /\ Cancelled(f, r)
    \/ fl = "drop_client" /\ ClientError(f, r)
    \/ fl = "drop_matching" /\ "local" \in text

\* The fingerprint filter fl leaves on an event that has fp: one that is set
\* always wins.
Pinned(fl, fp, r, text) ==
    IF fp # "unset" THEN fp
    ELSE IF fl \in FingerprintFilters /\ fl \in text THEN fl
    ELSE IF fl = "group_by_template" /\ r.template THEN fl ELSE fp

-----------------------------------------------------------------------------

Preset(rs) == IF rs # <<>> /\ Head(rs).preset THEN "preset" ELSE "unset"

Init ==
    /\ fault \in Faults
    /\ reports \in Reports
    /\ at = 1
    /\ fingerprint = Preset(reports)
    /\ skipped = {}
    /\ walking = FALSE
    /\ cursor = NoExc
    /\ seen = {}
    /\ read = {}
    /\ sent = <<>>

\* The next filter, or the next report once this one came to its end as o.
Advance ==
    /\ at' = at + 1
    /\ UNCHANGED <<reports, sent>>

Send(o) ==
    /\ sent' = Append(sent, [report |-> Report, skipped |-> skipped, event |-> o])
    /\ reports' = Tail(reports)
    /\ at' = 1
    /\ fingerprint' = Preset(Tail(reports))
    /\ skipped' = {}

StopWalk == walking' = FALSE /\ cursor' = NoExc /\ seen' = {} /\ read' = {}

\* exception_chain_text begins.
StartWalk ==
    /\ Running /\ ~walking
    /\ ReadsText(Filter, fingerprint)
    /\ walking' = TRUE
    /\ cursor' = hint_exception(Report.hint)
    /\ UNCHANGED <<fault, reports, event, seen, read, sent>>

Unseen_Forgets(e) == e # NoExc

\* The loop's condition.
Unseen(e) == e # NoExc /\ e \notin seen

WalkStep ==
    /\ walking
    /\ Unseen(cursor)
    /\ seen' = seen \cup {cursor}
    /\ read' = read \cup {fault.says[cursor]}
    /\ cursor' = Link(fault, cursor)
    /\ UNCHANGED <<fault, reports, event, walking, sent>>

\* The filter has read what it needs and returns: None ends the chain.
Apply ==
    /\ Running
    /\ IF ReadsText(Filter, fingerprint) THEN walking /\ ~Unseen(cursor) ELSE ~walking
    /\ LET text == EventText(fault, Report, read)
       IN  \/ /\ Drops(Filter, fault, Report, text)
              /\ Send("dropped")
           \/ /\ ~Drops(Filter, fault, Report, text)
              /\ fingerprint' = Pinned(Filter, fingerprint, Report, text)
              /\ Advance
              /\ UNCHANGED skipped
    /\ StopWalk
    /\ UNCHANGED fault

\* The filter raises, before or while it reads: it is skipped.
Raise ==
    /\ Running
    /\ Cardinality(skipped) < MaxRaises
    /\ skipped' = skipped \cup {at}
    /\ Advance
    /\ StopWalk
    /\ UNCHANGED <<fault, fingerprint>>

\* The chain is through and the event goes out.
Finish ==
    /\ reports # <<>>
    /\ at > Len(Filters)
    /\ Send(fingerprint)
    /\ UNCHANGED <<fault, walk>>

Next == StartWalk \/ WalkStep \/ Apply \/ Raise \/ Finish

Spec == Init /\ [][Next]_vars

\* before_send is a call: once begun it runs on.
FairSpec == Spec /\ WF_vars(Next)

-----------------------------------------------------------------------------

\* What a fault's exceptions say, suppressed contexts included, and a report of it.
Causes(f) == [e \in Exceptions |-> IF f.cause[e] # NoExc THEN f.cause[e] ELSE f.context[e]]
FaultText(f) == {f.says[e] : e \in Along(Causes(f))}
WholeText(f, r) == EventText(f, r, IF hint_exception(r.hint) = NoExc THEN {} ELSE FaultText(f))

\* chain() is what its documentation says: an event is dropped exactly if some
\* filter that did not raise drops it, and otherwise goes out with the
\* service's own fingerprint or that of the first filter in order that matches,
\* wherever in the cause and context links the matching text is.
FirstMatchDecides == \A i \in DOMAIN sent :
    LET r == sent[i].report
        text == WholeText(fault, r)
        ran == DOMAIN Filters \ sent[i].skipped
        pins == {j \in ran : \/ Filters[j] \in FingerprintFilters \cap text
                             \/ Filters[j] = "group_by_template" /\ r.template}
        drops == \E j \in ran : Drops(Filters[j], fault, r, text)
    IN  /\ drops <=> sent[i].event = "dropped"
        /\ ~drops /\ r.preset => sent[i].event = "preset"
        /\ ~drops /\ ~r.preset /\ pins = {} => sent[i].event = "unset"
        /\ ~drops /\ ~r.preset => \A j \in pins : (\A k \in pins : j <= k) => sent[i].event = Filters[j]

\* "pins both shapes": however a fault with a known signature reaches Sentry, as
\* Django's capture or as the server's log record, it lands in one issue.
OneIssuePerFault == \A i, j \in DOMAIN sent :
    /\ \E n \in DOMAIN Filters : Filters[n] \in FingerprintFilters \cap FaultText(fault)
    /\ \A k \in {i, j} : /\ sent[k].skipped = {} /\ ~sent[k].report.preset
                        /\ hint_exception(sent[k].report.hint) = Raised /\ sent[k].report.message = "none"
    => sent[i].event = sent[j].event

\* Every report is answered, also when the links between exceptions form a
\* cycle, which __context__ can.
EveryReportIsSent == <>(reports = <<>>)
=============================================================================
