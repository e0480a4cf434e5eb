------------------------- MODULE SentryFiltersProofs -------------------------
(***************************************************************************)
(* Proofs about SentryFilters for any exceptions with any links between    *)
(* them, any reports and any chain of filters, of which any may raise.     *)
(*                                                                         *)
(* The walk is right because its seen set stays within every closed set    *)
(* and, once the loop ends, is closed itself (Reaching): the filters that  *)
(* read text decide on the whole of it.  The chain is right because after  *)
(* each filter the event has what the filters so far decide (Progress).    *)
(***************************************************************************)
EXTENDS SentryFilters, SequenceTheorems, TLAPS

Fingerprints == {"unset", "preset"} \cup FilterNames
Outcomes == [report : ReportRecords, skipped : SUBSET DOMAIN Filters, event : {"dropped"} \cup Fingerprints]

Typed ==
    /\ fault \in FaultRecords
    /\ reports \in Seq(ReportRecords)
    /\ at \in 1..(Len(Filters) + 1)
    /\ fingerprint \in Fingerprints
    /\ walking \in BOOLEAN
    /\ cursor \in Exceptions \cup {NoExc}
    /\ seen \in SUBSET Exceptions
    /\ read = {fault.says[e] : e \in seen}
    /\ skipped \in SUBSET (1..(at - 1))
    /\ sent \in Seq(Outcomes)

\* What following next has seen and the exception it is at are on every path; what
\* is missing from the one is the other.
Reaching(next, S, c) ==
    /\ Raised \in S \cup {c}
    /\ \A e \in S : next[e] \in S \cup {c, NoExc}
    /\ \A T \in SUBSET Exceptions : Closed(next, T) => S \subseteq T /\ c \in T \cup {NoExc}

WalkInv ==
    /\ ~walking => seen = {} /\ cursor = NoExc
    /\ walking =>
        /\ Running
        /\ hint_exception(Report.hint) = NoExc => seen = {} /\ cursor = NoExc
        /\ hint_exception(Report.hint) # NoExc => Reaching(Causes(fault), seen, cursor)

\* The filters of ran that pin the report, and the fingerprint of the first.
Pins(r, text, ran) == {j \in ran : \/ Filters[j] \in FingerprintFilters \cap text
                                   \/ Filters[j] = "group_by_template" /\ r.template}

FirstPin(fp, r, text, ran) ==
    /\ r.preset => fp = "preset"
    /\ ~r.preset /\ Pins(r, text, ran) = {} => fp = "unset"
    /\ ~r.preset /\ Pins(r, text, ran) # {} =>
         \E j \in Pins(r, text, ran) : (\A k \in Pins(r, text, ran) : j <= k) /\ fp = Filters[j]

\* The current event is as the filters so far left it.
Progress == reports # <<>> =>
    /\ \A j \in 1..(at - 1) \ skipped : ~Drops(Filters[j], fault, Report, WholeText(fault, Report))
    /\ FirstPin(fingerprint, Report, WholeText(fault, Report), 1..(at - 1) \ skipped)

\* A report was dropped, or went out, as the filters that ran decide.
Decided(f, o) ==
    LET text == WholeText(f, o.report)
        ran == DOMAIN Filters \ o.skipped
        drops == \E j \in ran : Drops(Filters[j], f, o.report, text)
    IN  /\ drops <=> o.event = "dropped"
        /\ ~drops => FirstPin(o.event, o.report, text, ran)

IInv == Typed /\ WalkInv /\ Progress /\ \A i \in DOMAIN sent : Decided(fault, sent[i])

-----------------------------------------------------------------------------

LEMMA FilterFacts ==
    /\ Filters \in Seq(FilterNames) /\ Len(Filters) \in Nat /\ DOMAIN Filters = 1..Len(Filters)
    /\ \A j \in 1..Len(Filters) : Filters[j] \in FilterNames
    /\ {"dropped", "unset", "preset"} \cap FilterNames = {}
  <1>1. Filters \in Seq(FilterNames)
    BY SentryAssumption
  <1>2. {"dropped", "unset", "preset"} \cap FilterNames = {}
    BY DEF FilterNames, DropFilters, FingerprintFilters, Signatures
  <1> QED
    BY <1>1, <1>2, LenProperties

\* Links lead to exceptions or nowhere.
LEMMA CausesType ==
    ASSUME NEW f \in FaultRecords
    PROVE  /\ Causes(f) \in [Exceptions -> Exceptions \cup {NoExc}]
           /\ \A e \in Exceptions : Causes(f)[e] = Link(f, e)
  BY DEF FaultRecords, Causes, Link

\* A walk that ends has come by what every path comes by, and nothing else.
LEMMA WalkEnds ==
    ASSUME NEW next, NEW S \in SUBSET Exceptions, NEW c, Reaching(next, S, c), c = NoExc \/ c \in S
    PROVE  S = Along(next)
  <1>1. Raised # NoExc
    BY SentryAssumption
  <1>2. Closed(next, S)
    BY <1>1 DEF Reaching, Closed
  <1>3. Along(next) \subseteq S
    BY <1>2 DEF Along
  <1>4. S \subseteq Along(next)
    BY DEF Along, Reaching
  <1> QED
    BY <1>3, <1>4

\* One more link.
LEMMA WalkGoesOn ==
    ASSUME NEW next, NEW S \in SUBSET Exceptions, NEW c \in Exceptions, Reaching(next, S, c)
    PROVE  Reaching(next, S \cup {c}, next[c])
  <1>1. \A T \in SUBSET Exceptions : Closed(next, T) => S \cup {c} \subseteq T /\ next[c] \in T \cup {NoExc}
    BY SentryAssumption DEF Reaching, Closed
  <1>2. /\ Raised \in (S \cup {c}) \cup {next[c]}
        /\ \A e \in S \cup {c} : next[e] \in (S \cup {c}) \cup {next[c], NoExc}
    BY DEF Reaching
  <1> QED
    BY <1>1, <1>2 DEF Reaching

\* When the loop is over, a filter that reads text sees all of it.
LEMMA ReadsAll ==
    ASSUME Typed, WalkInv, walking, ~Unseen(cursor)
    PROVE  EventText(fault, Report, read) = WholeText(fault, Report)
  <1>1. CASE hint_exception(Report.hint) = NoExc
    <2>1. read = {}
      BY <1>1 DEF WalkInv, Typed
    <2> QED
      BY <1>1, <2>1 DEF WholeText
  <1>2. CASE hint_exception(Report.hint) # NoExc
    <2>1. seen = Along(Causes(fault))
      BY <1>2, WalkEnds DEF WalkInv, Typed, Unseen
    <2>2. read = FaultText(fault)
      BY <2>1 DEF Typed, FaultText
    <2> QED
      BY <1>2, <2>2 DEF WholeText
  <1> QED
    BY <1>1, <1>2

\* A filter that reads no text decides the same whatever the text is.
LEMMA TextMatters ==
    ASSUME NEW fl, NEW fp, NEW f, NEW r, NEW s, NEW t, ~ReadsText(fl, fp)
    PROVE  (Drops(fl, f, r, s) <=> Drops(fl, f, r, t)) /\ Pinned(fl, fp, r, s) = Pinned(fl, fp, r, t)
  BY DEF ReadsText, Drops, Pinned

\* What filter number n leaves is what the first that pins among it and those
\* before it left.
LEMMA PinnedIsFirst ==
    ASSUME NEW n \in 1..Len(Filters), NEW ran \in SUBSET (1..(n - 1)), NEW r, NEW text, NEW fp,
           FirstPin(fp, r, text, ran)
    PROVE  FirstPin(Pinned(Filters[n], fp, r, text), r, text, ran \cup {n})
  <1> DEFINE P == Pins(r, text, ran)
             Q == Pins(r, text, ran \cup {n})
             pins == \/ Filters[n] \in FingerprintFilters \cap text
                     \/ Filters[n] = "group_by_template" /\ r.template
             fq == Pinned(Filters[n], fp, r, text)
  <1>1. /\ n \in Nat /\ ran \subseteq Nat /\ \A k \in ran : k < n
        /\ \A j \in ran : Filters[j] \in FilterNames
    BY FilterFacts
  <1>2. Q = P \cup (IF pins THEN {n} ELSE {})
    BY DEF Pins
  <1>3. P \subseteq ran
    BY DEF Pins
  <1>4. fp # "unset" => fq = fp
    BY DEF Pinned
  <1>5. fp = "unset" => fq = IF pins THEN Filters[n] ELSE fp
    BY DEF Pinned
  <1>6. CASE r.preset
    BY <1>4, <1>6 DEF FirstPin
  <1>7. CASE ~r.preset /\ P # {}
    <2>1. PICK j \in P : (\A k \in P : j <= k) /\ fp = Filters[j]
      BY <1>7 DEF FirstPin
    <2>2. fq = Filters[j]
      BY <1>1, <1>3, <1>4, <2>1, FilterFacts
    <2>3. j \in Q /\ \A k \in Q : j <= k
      <3>1. j \in Q /\ j \in Nat /\ j < n
        BY <1>1, <1>2, <1>3
      <3>2. ASSUME NEW k \in Q PROVE j <= k
        <4>1. k \in P \/ k = n
          BY <1>2
        <4> QED
          BY <1>1, <2>1, <3>1, <4>1
      <3> QED
        BY <3>1, <3>2
    <2> QED
      BY <1>7, <2>2, <2>3 DEF FirstPin
  <1>8. CASE ~r.preset /\ P = {}
    <2>1. fp = "unset"
      BY <1>8 DEF FirstPin
    <2>2. CASE pins
      <3>1. Q = {n} /\ fq = Filters[n] /\ n <= n
        BY <1>1, <1>2, <1>5, <1>8, <2>1, <2>2
      <3> QED
        BY <1>8, <3>1 DEF FirstPin
    <2>3. CASE ~pins
      <3>1. Q = {} /\ fq = "unset"
        BY <1>2, <1>5, <1>8, <2>1, <2>3
      <3> QED
        BY <1>8, <3>1 DEF FirstPin
    <2> QED
      BY <2>2, <2>3
  <1> QED
    BY <1>6, <1>7, <1>8

-----------------------------------------------------------------------------

LEMMA InitInv == Init => IInv
  <1> SUFFICES ASSUME Init PROVE IInv
    OBVIOUS
  <1>1. reports \in Seq(ReportRecords) /\ fault \in FaultRecords
    BY SentryAssumption DEF Init
  <1>2. 1 \in 1..(Len(Filters) + 1) /\ 1..(1 - 1) = {}
    BY FilterFacts
  <1>3. Preset(reports) \in Fingerprints
    BY DEF Preset, Fingerprints
  <1>4. <<>> \in Seq(Outcomes) /\ DOMAIN <<>> = {}
    BY EmptySeq
  <1>5. Typed
    BY <1>1, <1>2, <1>3, <1>4 DEF Init, Typed
  <1>6. WalkInv
    BY DEF Init, WalkInv
  <1>7. Progress
    BY <1>2 DEF Init, Progress, FirstPin, Pins, Preset, Report
  <1>8. \A i \in DOMAIN sent : Decided(fault, sent[i])
    BY <1>4 DEF Init
  <1> QED
    BY <1>5, <1>6, <1>7, <1>8 DEF IInv

LEMMA ReportTyped ==
    ASSUME Typed, reports # <<>>
    PROVE  Report \in ReportRecords /\ Tail(reports) \in Seq(ReportRecords)
  BY HeadTailProperties DEF Typed, Report

LEMMA StartWalkStep == ASSUME IInv, StartWalk PROVE IInv'
  <1>1. /\ fault' = fault /\ reports' = reports /\ at' = at /\ fingerprint' = fingerprint
        /\ skipped' = skipped /\ seen' = seen /\ read' = read /\ sent' = sent
        /\ walking' = TRUE /\ cursor' = hint_exception(Report.hint)
    BY DEF StartWalk, event
  <1>2. seen = {} /\ Running /\ ReadsText(Filter, fingerprint)
    BY DEF StartWalk, IInv, WalkInv
  <1>3. hint_exception(Report.hint) \in {Raised, NoExc} /\ Raised \in Exceptions /\ Raised # NoExc
    BY SentryAssumption DEF hint_exception
  <1>4. Typed'
    BY <1>1, <1>3 DEF IInv, Typed
  <1>5. Report' = Report /\ Filter' = Filter /\ Running' = Running
    BY <1>1 DEF Report, Filter, Running
  <1>6. Reaching(Causes(fault), {}, Raised)
    BY DEF Reaching, Closed
  <1>7. WalkInv'
    BY <1>1, <1>2, <1>3, <1>5, <1>6 DEF WalkInv
  <1>8. Progress'
    BY <1>1, <1>5 DEF IInv, Progress
  <1> QED
    BY <1>1, <1>4, <1>7, <1>8 DEF IInv

LEMMA WalkStepStep == ASSUME IInv, WalkStep PROVE IInv'
  <1>1. /\ fault' = fault /\ reports' = reports /\ at' = at /\ fingerprint' = fingerprint
        /\ skipped' = skipped /\ walking' = walking /\ sent' = sent
        /\ seen' = seen \cup {cursor} /\ read' = read \cup {fault.says[cursor]}
        /\ cursor' = Link(fault, cursor)
    BY DEF WalkStep, event
  <1>2. walking /\ cursor \in Exceptions /\ fault \in FaultRecords
    BY DEF WalkStep, Unseen, IInv, Typed
  <1>3. cursor' \in Exceptions \cup {NoExc} /\ cursor' = Causes(fault)[cursor]
    BY <1>1, <1>2, CausesType
  <1>4. read' = {fault.says[e] : e \in seen'}
    BY <1>1 DEF IInv, Typed
  <1>5. Typed'
    BY <1>1, <1>2, <1>3, <1>4 DEF IInv, Typed
  <1>6. Report' = Report /\ Filter' = Filter /\ Running' = Running
    BY <1>1 DEF Report, Filter, Running
  <1>7. hint_exception(Report.hint) # NoExc
    BY <1>2, SentryAssumption DEF IInv, WalkInv
  <1>8. Reaching(Causes(fault), seen', cursor')
    <2>1. Reaching(Causes(fault), seen, cursor) /\ seen \in SUBSET Exceptions
      BY <1>2, <1>7 DEF IInv, WalkInv, Typed
    <2> QED
      BY <1>1, <1>2, <1>3, <2>1, WalkGoesOn
  <1>9. WalkInv'
    BY <1>1, <1>2, <1>6, <1>7, <1>8 DEF IInv, WalkInv
  <1>10. Progress'
    BY <1>1, <1>6 DEF IInv, Progress
  <1> QED
    BY <1>1, <1>5, <1>9, <1>10 DEF IInv

\* The walk is over: nothing of it is left for the next filter.
LEMMA StoppedWalk ==
    ASSUME StopWalk
    PROVE  WalkInv' /\ seen' = {} /\ read' = {} /\ cursor' = NoExc /\ walking' = FALSE
  BY DEF StopWalk, WalkInv

\* A report is sent on its way with what the filters decided.
LEMMA SendStep ==
    ASSUME IInv, reports # <<>>, NEW o \in {"dropped"} \cup Fingerprints, Send(o), fault' = fault,
           Decided(fault, [report |-> Report, skipped |-> skipped, event |-> o]),
           WalkInv', seen' = {} /\ read' = {} /\ cursor' = NoExc /\ walking' = FALSE
    PROVE  IInv'
  <1> DEFINE out == [report |-> Report, skipped |-> skipped, event |-> o]
  <1>1. /\ sent' = Append(sent, out) /\ reports' = Tail(reports) /\ at' = 1
        /\ fingerprint' = Preset(reports') /\ skipped' = {}
    BY DEF Send
  <1>2. Report \in ReportRecords /\ reports' \in Seq(ReportRecords)
    BY <1>1, ReportTyped DEF IInv
  <1>3. 1 \in 1..(Len(Filters) + 1) /\ 1..(1 - 1) = {}
    BY FilterFacts
  <1>4. skipped \subseteq DOMAIN Filters
    BY FilterFacts DEF IInv, Typed
  <1>5. out \in Outcomes
    BY <1>2, <1>4 DEF Outcomes
  <1> HIDE DEF out
  <1>6. /\ sent' \in Seq(Outcomes) /\ DOMAIN sent' = 1..(Len(sent) + 1) /\ Len(sent) \in Nat
        /\ DOMAIN sent = 1..Len(sent)
        /\ sent'[Len(sent) + 1] = out /\ \A i \in 1..Len(sent) : sent'[i] = sent[i]
    BY <1>1, <1>5, AppendProperties, LenProperties DEF IInv, Typed
  <1>7. Preset(reports') \in Fingerprints
    BY DEF Preset, Fingerprints
  <1>8. Typed'
    BY <1>1, <1>2, <1>3, <1>6, <1>7 DEF IInv, Typed
  <1>9. Progress'
    BY <1>1, <1>3 DEF Progress, FirstPin, Pins, Preset, Report
  <1>10. ASSUME NEW i \in DOMAIN sent' PROVE Decided(fault', sent'[i])
    <2>1. CASE i = Len(sent) + 1
      BY <1>6, <2>1 DEF out
    <2>2. CASE i # Len(sent) + 1
      <3>1. i \in 1..Len(sent)
        BY <1>6, <2>2
      <3> QED
        BY <1>6, <3>1 DEF IInv
    <2> QED
      BY <2>1, <2>2
  <1> QED
    BY <1>8, <1>9, <1>10 DEF IInv

\* A filter is passed: what the ones before it decided and it keeps.
LEMMA AdvanceStep ==
    ASSUME IInv, Running, Advance, fault' = fault, StopWalk, fingerprint' \in Fingerprints,
           NEW ran, ran = 1..(at' - 1) \ skipped', skipped' \in SUBSET (1..at),
           \A j \in ran : ~Drops(Filters[j], fault, Report, WholeText(fault, Report)),
           FirstPin(fingerprint', Report, WholeText(fault, Report), ran)
    PROVE  IInv'
  <1>1. at' = at + 1 /\ reports' = reports /\ sent' = sent
    BY DEF Advance
  <1>2. at \in Nat /\ at \in 1..Len(Filters) /\ at' \in 1..(Len(Filters) + 1) /\ at' - 1 = at
    BY <1>1, FilterFacts DEF Running, IInv, Typed
  <1>3. WalkInv' /\ seen' = {} /\ read' = {} /\ cursor' = NoExc /\ walking' = FALSE
    BY StoppedWalk
  <1>4. Typed'
    BY <1>1, <1>2, <1>3 DEF IInv, Typed
  <1>5. Report' = Report
    BY <1>1 DEF Report
  <1>6. Progress'
    BY <1>5 DEF Progress
  <1> QED
    BY <1>1, <1>3, <1>4, <1>6 DEF IInv

LEMMA AtFacts ==
    ASSUME IInv, Running
    PROVE  /\ at \in 1..Len(Filters) /\ at \in Nat /\ Filter = Filters[at] /\ Filter \in FilterNames
           /\ reports # <<>>
           /\ 1..(at - 1) \subseteq 1..at /\ at \in 1..at /\ 1..at = 1..(at - 1) \cup {at}
           /\ at \notin 1..(at - 1) /\ (at + 1) - 1 = at
           /\ skipped \in SUBSET (1..(at - 1))
  BY FilterFacts DEF IInv, Typed, Running, Filter

LEMMA ApplyStep == ASSUME IInv, Apply PROVE IInv'
  <1> DEFINE text == EventText(fault, Report, read)
             whole == WholeText(fault, Report)
             ran == 1..(at - 1) \ skipped
  <1>1. Running /\ StopWalk /\ fault' = fault
    BY DEF Apply
  <1>2. /\ at \in 1..Len(Filters) /\ at \in Nat /\ Filter = Filters[at] /\ Filter \in FilterNames
        /\ reports # <<>>
        /\ 1..at = 1..(at - 1) \cup {at} /\ at \notin 1..(at - 1) /\ (at + 1) - 1 = at
        /\ skipped \in SUBSET (1..(at - 1))
    BY <1>1, AtFacts
  <1>3. /\ Drops(Filter, fault, Report, text) <=> Drops(Filter, fault, Report, whole)
        /\ Pinned(Filter, fingerprint, Report, text) = Pinned(Filter, fingerprint, Report, whole)
    <2>1. CASE ReadsText(Filter, fingerprint)
      BY <2>1, ReadsAll DEF Apply, IInv
    <2>2. CASE ~ReadsText(Filter, fingerprint)
      BY <2>2, TextMatters
    <2> QED
      BY <2>1, <2>2
  <1>4. /\ \A j \in ran : ~Drops(Filters[j], fault, Report, whole)
        /\ FirstPin(fingerprint, Report, whole, ran)
    BY <1>2 DEF IInv, Progress
  <1> HIDE DEF text, whole
  <1>5. CASE Drops(Filter, fault, Report, text)
    <2>1. Send("dropped")
      BY <1>5 DEF Apply, text
    <2>2. at \in DOMAIN Filters \ skipped
      BY <1>2, FilterFacts
    <2>3. Decided(fault, [report |-> Report, skipped |-> skipped, event |-> "dropped"])
      BY <1>2, <1>3, <1>5, <2>2 DEF Decided, whole
    <2>4. WalkInv' /\ seen' = {} /\ read' = {} /\ cursor' = NoExc /\ walking' = FALSE
      BY <1>1, StoppedWalk
    <2> QED
      BY <1>1, <1>2, <2>1, <2>3, <2>4, SendStep
  <1>6. CASE ~Drops(Filter, fault, Report, text)
    <2>1. /\ fingerprint' = Pinned(Filter, fingerprint, Report, text)
          /\ Advance /\ skipped' = skipped
      BY <1>6 DEF Apply, text
    <2>2. fingerprint' = Pinned(Filters[at], fingerprint, Report, whole)
      BY <1>2, <1>3, <2>1
    <2>3. FirstPin(fingerprint', Report, whole, ran \cup {at})
      BY <1>2, <1>4, <2>2, PinnedIsFirst
    <2>4. \A j \in ran \cup {at} : ~Drops(Filters[j], fault, Report, whole)
      BY <1>2, <1>3, <1>4, <1>6
    <2>5. fingerprint' \in Fingerprints
      BY <1>2, <2>2 DEF Pinned, Fingerprints, IInv, Typed
    <2>6. ran \cup {at} = 1..(at' - 1) \ skipped' /\ skipped' \in SUBSET (1..at)
      <3>1. at' - 1 = at
        BY <1>2, <2>1 DEF Advance
      <3> QED
        BY <1>2, <2>1, <3>1
    <2> DEFINE ranNow == ran \cup {at}
    <2> HIDE DEF ranNow
    <2> QED
      BY <1>1, <2>1, <2>3, <2>4, <2>5, <2>6, AdvanceStep DEF ranNow, whole
  <1> QED
    BY <1>5, <1>6

LEMMA RaiseStep == ASSUME IInv, Raise PROVE IInv'
  <1> DEFINE ran == 1..(at - 1) \ skipped
  <1>1. /\ Running /\ StopWalk /\ fault' = fault /\ fingerprint' = fingerprint
        /\ Advance /\ skipped' = skipped \cup {at}
    BY DEF Raise
  <1>2. /\ at \in Nat /\ reports # <<>>
        /\ 1..at = 1..(at - 1) \cup {at} /\ at \notin 1..(at - 1) /\ (at + 1) - 1 = at
        /\ skipped \in SUBSET (1..(at - 1))
    BY <1>1, AtFacts
  <1>3. at' - 1 = at
    BY <1>1, <1>2 DEF Advance
  <1>4. ran = 1..(at' - 1) \ skipped' /\ skipped' \in SUBSET (1..at)
    BY <1>1, <1>2, <1>3
  <1>5. /\ \A j \in ran : ~Drops(Filters[j], fault, Report, WholeText(fault, Report))
        /\ FirstPin(fingerprint', Report, WholeText(fault, Report), ran)
    BY <1>1, <1>2 DEF IInv, Progress
  <1>6. fingerprint' \in Fingerprints
    BY <1>1 DEF IInv, Typed
  <1> HIDE DEF ran
  <1> QED
    BY <1>1, <1>4, <1>5, <1>6, AdvanceStep

LEMMA FinishStep == ASSUME IInv, Finish PROVE IInv'
  <1>1. /\ reports # <<>> /\ at > Len(Filters) /\ Send(fingerprint) /\ fault' = fault
        /\ walking' = walking /\ cursor' = cursor /\ seen' = seen /\ read' = read
    BY DEF Finish, walk
  <1>2. at - 1 = Len(Filters) /\ 1..(at - 1) = DOMAIN Filters
    BY <1>1, FilterFacts DEF IInv, Typed
  <1>3. ~walking /\ walking = FALSE /\ seen = {} /\ read = {} /\ cursor = NoExc
    BY <1>1, FilterFacts DEF IInv, Typed, WalkInv, Running
  <1>4. fingerprint \in Fingerprints /\ fingerprint # "dropped"
    BY FilterFacts DEF IInv, Typed, Fingerprints
  <1>5. Decided(fault, [report |-> Report, skipped |-> skipped, event |-> fingerprint])
    BY <1>1, <1>2, <1>4 DEF IInv, Progress, Decided
  <1> QED
    BY <1>1, <1>3, <1>4, <1>5, SendStep DEF WalkInv

LEMMA NextInv == IInv /\ [Next]_vars => IInv'
  <1> SUFFICES ASSUME IInv, [Next]_vars PROVE IInv'
    OBVIOUS
  <1>1. CASE UNCHANGED vars
    <2>1. /\ fault' = fault /\ reports' = reports /\ at' = at /\ fingerprint' = fingerprint
          /\ skipped' = skipped /\ walking' = walking /\ cursor' = cursor /\ seen' = seen
          /\ read' = read /\ sent' = sent
      BY <1>1 DEF vars, event, walk
    <2>2. Report' = Report /\ Running' = Running
      BY <2>1 DEF Report, Running
    <2> QED
      BY <2>1, <2>2 DEF IInv, Typed, WalkInv, Progress
  <1>2. CASE Next
    BY <1>2, StartWalkStep, WalkStepStep, ApplyStep, RaiseStep, FinishStep DEF Next
  <1> QED
    BY <1>1, <1>2

LEMMA Inductive == Spec => []IInv
  BY InitInv, NextInv, PTL DEF Spec

-----------------------------------------------------------------------------

\* An event is dropped exactly if some filter that did not raise drops it, and
\* otherwise goes out with the fingerprint of the first filter that matches,
\* wherever in the links the text is and however often filters raise (chain,
\* exception_chain_text).
THEOREM FirstMatchDecidesTheorem == Spec => []FirstMatchDecides
  <1>1. ASSUME IInv, NEW i \in DOMAIN sent
        PROVE  LET r == sent[i].report
                   text == WholeText(fault, r)
                   ran == DOMAIN Filters \ sent[i].skipped
                   pins == {j \in ran : \/ Filters[j] \in FingerprintFilters \cap text
                                        \/ Filters[j] = "group_by_template" /\ r.template}
                   drops == \E j \in ran : Drops(Filters[j], fault, r, text)
               IN  /\ drops <=> sent[i].event = "dropped"
                   /\ ~drops /\ r.preset => sent[i].event = "preset"
                   /\ ~drops /\ ~r.preset /\ pins = {} => sent[i].event = "unset"
                   /\ ~drops /\ ~r.preset => \A j \in pins : (\A k \in pins : j <= k) => sent[i].event = Filters[j]
    <2> DEFINE r == sent[i].report
               text == WholeText(fault, r)
               ran == DOMAIN Filters \ sent[i].skipped
               pins == Pins(r, text, ran)
               drops == \E j \in ran : Drops(Filters[j], fault, r, text)
    <2>1. /\ drops <=> sent[i].event = "dropped"
          /\ ~drops => FirstPin(sent[i].event, r, text, ran)
      BY <1>1 DEF IInv, Decided
    <2>2. pins \subseteq Nat
      BY FilterFacts DEF Pins
    <2>3. ASSUME ~drops, ~r.preset, NEW j \in pins, \A k \in pins : j <= k PROVE sent[i].event = Filters[j]
      <3>1. PICK m \in pins : (\A k \in pins : m <= k) /\ sent[i].event = Filters[m]
        BY <2>1, <2>3 DEF FirstPin
      <3>2. m = j
        BY <2>2, <2>3, <3>1
      <3> QED
        BY <3>1, <3>2
    <2> QED
      BY <2>1, <2>3 DEF FirstPin, Pins
  <1>2. IInv => FirstMatchDecides
    BY <1>1 DEF FirstMatchDecides
  <1> QED
    BY <1>2, Inductive, PTL

\* "Chain it before group_log_events_by_template": with the generic grouping behind
\* the filters that pin, the two shapes in which one fault is reported land in
\* one issue, or are dropped alike.
THEOREM OneIssuePerFaultTheorem ==
    ASSUME \A m, n \in DOMAIN Filters :
             Filters[m] = "group_by_template" /\ Filters[n] \in FingerprintFilters => n < m
    PROVE  Spec => []OneIssuePerFault
  <1>1. ASSUME IInv, NEW i \in DOMAIN sent, NEW j \in DOMAIN sent,
               NEW n \in DOMAIN Filters, Filters[n] \in FingerprintFilters \cap FaultText(fault),
               \A k \in {i, j} : /\ sent[k].skipped = {} /\ ~sent[k].report.preset
                                 /\ hint_exception(sent[k].report.hint) = Raised
                                 /\ sent[k].report.message = "none"
        PROVE  sent[i].event = sent[j].event
    <2> DEFINE ran == DOMAIN Filters
               text == (FaultText(fault) \cup {fault.says[e] : e \in Serialized(fault)}) \ {"none"}
               P(k) == Pins(sent[k].report, text, ran)
               drops(k) == \E m \in ran : Drops(Filters[m], fault, sent[k].report, text)
    <2>1. \A k \in {i, j} : WholeText(fault, sent[k].report) = text
      BY <1>1, SentryAssumption DEF WholeText, EventText
    <2>2. ASSUME NEW k \in {i, j}
          PROVE  /\ drops(k) <=> sent[k].event = "dropped"
                 /\ ~drops(k) => FirstPin(sent[k].event, sent[k].report, text, ran)
      <3>1. Decided(fault, sent[k]) /\ ran \ sent[k].skipped = ran
        BY <1>1 DEF IInv
      <3> HIDE DEF text
      <3> QED
        BY <2>1, <3>1 DEF Decided
    <2>3. drops(i) <=> drops(j)
      BY <1>1 DEF Drops, Cancelled, ClientError
    <2>4. "none" \notin FingerprintFilters /\ "group_by_template" \notin FingerprintFilters
      BY DEF FingerprintFilters, Signatures
    <2>5. Filters[n] \in FingerprintFilters \cap text
      BY <1>1, <2>4
    <2> HIDE DEF text
    <2>6. ASSUME NEW k \in {i, j}, ~drops(i)
          PROVE  \E m \in ran : /\ Filters[m] \in FingerprintFilters \cap text
                                /\ \A q \in P(k) : m <= q
                                /\ sent[k].event = Filters[m]
      <3>1. n \in P(k) /\ P(k) \subseteq ran /\ ran \subseteq Nat
        BY <2>5, FilterFacts DEF Pins
      <3>2. ~drops(k)
        BY <2>3, <2>6
      <3>3. PICK m \in P(k) : (\A q \in P(k) : m <= q) /\ sent[k].event = Filters[m]
        BY <1>1, <2>2, <3>1, <3>2 DEF FirstPin
      <3>4. m <= n /\ m \in ran
        BY <3>1, <3>3
      <3>5. Filters[m] # "group_by_template"
        BY <2>5, <3>1, <3>4
      <3>6. Filters[m] \in FingerprintFilters \cap text
        BY <3>3, <3>5 DEF Pins
      <3> QED
        BY <3>3, <3>4, <3>6
    <2>7. CASE drops(i)
      BY <2>2, <2>3, <2>7
    <2>8. CASE ~drops(i)
      <3>1. PICK a \in ran : Filters[a] \in FingerprintFilters \cap text /\ (\A q \in P(i) : a <= q) /\ sent[i].event = Filters[a]
        BY <2>6, <2>8
      <3>2. PICK b \in ran : Filters[b] \in FingerprintFilters \cap text /\ (\A q \in P(j) : b <= q) /\ sent[j].event = Filters[b]
        BY <2>6, <2>8
      <3>3. a \in P(j) /\ b \in P(i)
        BY <3>1, <3>2 DEF Pins
      <3>4. a \in Nat /\ b \in Nat /\ a <= b /\ b <= a
        BY <3>1, <3>2, <3>3, FilterFacts
      <3> QED
        BY <3>1, <3>2, <3>4
    <2> QED
      BY <2>7, <2>8
  <1>2. IInv => OneIssuePerFault
    BY <1>1 DEF OneIssuePerFault
  <1> QED
    BY <1>2, Inductive, PTL
=============================================================================
