------------------------- MODULE ClientFactoryProofs -------------------------
(***************************************************************************)
(* Proofs about Discovery and ClientFactory for any number of callers,     *)
(* background threads, identities and registry versions.                   *)
(*                                                                         *)
(* The snapshot comes first.  Its invariant has four layers, each resting  *)
(* on those before it: who holds _lock (LockInv), what the first window    *)
(* excludes (FirstInv), why one fetch at a time is enough (SingleInv), and *)
(* how the versions of the snapshot, of the answer in flight and of the    *)
(* registry are ordered (OrderInv).  The last three speak of the time      *)
(* before the first reset_discovery_cache: a reset forgets the window      *)
(* while a background fetch may still be running.                          *)
(*                                                                         *)
(* Every behaviour of the factory is one of the snapshot, so all that      *)
(* carries over.  The rest rests on CallInv: a call in progress has handed *)
(* out nothing yet; on PoolInv: a client handed out with an id stays in    *)
(* the cache; and on Timely, which follows the version a call began with   *)
(* through its lookup and its URL to the client it gets.                   *)
(***************************************************************************)
EXTENDS ClientFactory, TLAPS

\* Only the lookup that holds the lock fetches on its own thread.
LockInv == \A c \in Callers :
    /\ lookup[c] = "fetching" <=> lock = c
    /\ Fetching(c) => lookup[c] = "fetching"

\* The window opens with the first fetch, and while that one runs no lookup has
\* got past _current.
FirstInv ==
    /\ \A c \in Callers : lookup[c] = "fetching" =>
          ~served /\ \A d \in Callers : lookup[d] # "reading"
    /\ window = "unset" =>
          /\ ~served /\ lock = "free"
          /\ \A c \in Callers : lookup[c] # "reading"
          /\ \A f \in Fetchers : ~Fetching(f)

\* A fetch in flight was started by the window that is still open.
SingleInv ==
    /\ \A f \in Fetchers : Fetching(f) => window = "fresh"
    /\ OneRefreshPerWindow

\* An answer about to be stored is no older than what it replaces.
OrderInv ==
    /\ origins <= urls /\ urls <= registry
    /\ \A f \in Fetchers :
          /\ fetch[f] = "answered" /\ answer[f] # Failed =>
                urls <= answer[f] /\ answer[f] <= registry
          /\ fetch[f] = "halfStored" => answer[f] = urls

IInv ==
    /\ TypeOK
    /\ LockInv
    /\ resets = 0 => FirstInv
    /\ resets = 0 /\ ~SlowFetch => SingleInv /\ OrderInv

-----------------------------------------------------------------------------

\* A caller is not a background thread and not the free lock.
LEMMA FetchersApart ==
    /\ \A c \in Callers : c \in Fetchers /\ c \notin Refreshers /\ c # "free"
    /\ \A f \in Refreshers : f \in Fetchers /\ f \notin Callers
  BY DiscoveryAssumption DEF Fetchers

\* The types hold initially ...
LEMMA InitTypeOK == Init => TypeOK
  <1>1. 0 \in Versions /\ 1 \in 1..MaxVersion /\ 0 \in 0..MaxResets
    BY DiscoveryAssumption DEF Versions
  <1> QED
    BY ZenonT(30), <1>1, FetchersApart DEF Init, TypeOK, Empty, Failed

\* ... and are preserved by the steps of a fetch ...
LEMMA FetchTypeStep ==
    ASSUME TypeOK, NEW f \in Fetchers, FetchStep(f)
    PROVE  TypeOK'
  <1> USE DiscoveryAssumption DEF TypeOK, Versions, Failed, surroundings, snapshot, lookups, fetches
  <1>1. CASE Respond(f)
    BY <1>1 DEF Respond
  <1>2. CASE StoreUrls(f)
    BY <1>2 DEF StoreUrls
  <1>3. CASE StoreOrigins(f)
    BY <1>3 DEF StoreOrigins
  <1> QED
    BY <1>1, <1>2, <1>3 DEF FetchStep

\* ... of a lookup ...
LEMMA LookupTypeStep ==
    ASSUME TypeOK, NEW c \in Callers, LookupStep(c) \/ Leave(c)
    PROVE  TypeOK'
  <1> USE DEF TypeOK, Versions, Failed, surroundings, snapshot, lookups, fetches
  <1>1. CASE Look(c)
    BY <1>1 DEF Look
  <1>2. CASE Current(c)
    BY <1>2 DEF Current
  <1>3. CASE CurrentFirst(c)
    BY <1>3, FetchersApart, DiscoveryAssumption DEF CurrentFirst, StartFetch
  <1>4. CASE CurrentFirstDone(c)
    BY <1>4 DEF CurrentFirstDone
  <1>5. CASE CurrentExpired(c)
    <2>1. PICK f \in Refreshers : StartFetch(f)
      BY <1>5 DEF CurrentExpired
    <2> QED
      BY <1>5, <2>1, FetchersApart, DiscoveryAssumption DEF CurrentExpired, StartFetch
  <1>6. CASE Read(c)
    BY <1>6 DEF Read
  <1>7. CASE Leave(c)
    BY <1>7, DiscoveryAssumption DEF Leave
  <1> QED
    BY <1>1, <1>2, <1>3, <1>4, <1>5, <1>6, <1>7 DEF LookupStep, CurrentStep

\* ... and of everything else.
LEMMA OtherTypeStep ==
    ASSUME TypeOK, Reset \/ Expire \/ Move \/ Outage
    PROVE  TypeOK'
  <1> USE DiscoveryAssumption DEF TypeOK, Versions, Empty, surroundings, snapshot, lookups, fetches
  <1>1. CASE Reset
    <2>1. resets' \in 0..MaxResets
      BY <1>1 DEF Reset
    <2>2. urls' \in Versions /\ origins' \in Versions
      BY <1>1 DEF Reset
    <2> HIDE DEF Versions
    <2> QED
      BY <1>1, <2>1, <2>2 DEF Reset
  <1>2. CASE Expire
    BY <1>2 DEF Expire
  <1>3. CASE Move
    BY <1>3 DEF Move
  <1>4. CASE Outage
    BY <1>4 DEF Outage
  <1> QED
    BY <1>1, <1>2, <1>3, <1>4
-----------------------------------------------------------------------------

\* What a lookup's step may do to the fetches.
NoFetchStarts == UNCHANGED <<fetch, answer>>
Starts(f) ==
    /\ ~Fetching(f) /\ Fetching(f)' /\ fetch'[f] = "asking"
    /\ \A g \in Fetchers \ {f} : fetch'[g] = fetch[g] /\ answer'[g] = answer[g]

\* Starting a fetch touches that fetch alone.
LEMMA StartFetchStarts ==
    ASSUME TypeOK, NEW f \in Fetchers, ~Fetching(f), StartFetch(f)
    PROVE  Starts(f)
  BY DEF TypeOK, StartFetch, Starts, Fetching

\* A step of a fetch neither starts one nor moves a lookup.
LEMMA FetchStepIsQuiet ==
    ASSUME TypeOK, NEW f \in Fetchers, FetchStep(f)
    PROVE  /\ UNCHANGED <<registry, window, lock, lookup, resets, served>>
           /\ \A g \in Fetchers : Fetching(g)' => Fetching(g)
           /\ \A g \in Fetchers \ {f} : fetch'[g] = fetch[g] /\ answer'[g] = answer[g]
           /\ Fetching(f)
  <1> USE DEF TypeOK, Fetching, surroundings, snapshot, lookups, fetches
  <1>1. CASE Respond(f)
    BY <1>1 DEF Respond
  <1>2. CASE StoreUrls(f)
    BY <1>2 DEF StoreUrls
  <1>3. CASE StoreOrigins(f)
    BY <1>3 DEF StoreOrigins
  <1> QED
    BY <1>1, <1>2, <1>3 DEF FetchStep

\* A background refresh starts and everything else of the lookup is as listed.
LEMMA CurrentExpiredStarts ==
    ASSUME TypeOK, NEW c \in Callers, CurrentExpired(c)
    PROVE  \E f \in Refreshers : Starts(f)
  BY StartFetchStarts, FetchersApart DEF CurrentExpired

-----------------------------------------------------------------------------

\* The lock's bookkeeping survives every step.
LEMMA LockStep ==
    ASSUME TypeOK, LockInv, [Next]_vars
    PROVE  LockInv'
  <1> USE DEF surroundings, snapshot, lookups, fetches
  <1>1. ASSUME NEW f \in Fetchers, FetchStep(f) PROVE LockInv'
    BY <1>1, FetchStepIsQuiet, FetchersApart DEF LockInv
  <1>2. ASSUME NEW c \in Callers, LookupStep(c) \/ Leave(c) PROVE LockInv'
    <2> USE DEF TypeOK
    <2>1. CASE Look(c)
      BY <2>1 DEF Look, LockInv, Fetching
    <2>2. CASE Current(c)
      BY <2>2 DEF Current, LockInv, Fetching
    <2>3. CASE CurrentFirst(c)
      <3>1. \A d \in Callers : lookup[d] # "fetching" /\ ~Fetching(d)
        BY <2>3, FetchersApart DEF CurrentFirst, LockInv
      <3>2. Starts(c)
        BY <2>3, <3>1, StartFetchStarts, FetchersApart DEF CurrentFirst
      <3> QED
        BY <2>3, <3>1, <3>2, FetchersApart DEF CurrentFirst, LockInv, Starts, Fetching
    <2>4. CASE CurrentFirstDone(c)
      BY <2>4, FetchersApart DEF CurrentFirstDone, LockInv, Fetching
    <2>5. CASE CurrentExpired(c)
      <3>1. PICK f \in Refreshers : Starts(f)
        BY <2>5, CurrentExpiredStarts
      <3> QED
        BY <2>5, <3>1, FetchersApart DEF CurrentExpired, LockInv, Starts, Fetching
    <2>6. CASE Read(c)
      BY <2>6 DEF Read, LockInv, Fetching
    <2>7. CASE Leave(c)
      BY <2>7 DEF Leave, LockInv, Fetching
    <2> QED
      BY <1>2, <2>1, <2>2, <2>3, <2>4, <2>5, <2>6, <2>7 DEF LookupStep, CurrentStep
  <1>3. CASE Reset \/ Expire \/ Move \/ Outage
    BY <1>3 DEF Reset, Expire, Move, Outage, LockInv, Fetching
  <1>4. CASE UNCHANGED vars
    BY <1>4 DEF vars, LockInv, Fetching
  <1> QED
    BY <1>1, <1>2, <1>3, <1>4 DEF Next

\* Only a reset counts as one, and each is counted.
LEMMA BeforeReset ==
    ASSUME TypeOK, [Next]_vars
    PROVE  /\ ~Reset => resets' = resets
           /\ Reset => resets' = resets + 1
           /\ resets' = 0 => resets = 0 /\ ~Reset
  <1>1. ~Reset => resets' = resets
    BY DEF Next, vars, LookupStep, CurrentStep, Look, Current, CurrentFirst,
           CurrentFirstDone, CurrentExpired, Read, Leave, FetchStep, Respond, StoreUrls,
           StoreOrigins, Expire, Move, Outage
  <1>2. Reset => resets' = resets + 1
    BY DEF Reset
  <1> QED
    BY <1>1, <1>2 DEF TypeOK

\* Before the first reset the window is opened once, by the first lookup.
LEMMA FirstStep ==
    ASSUME TypeOK, LockInv, resets = 0 => FirstInv, [Next]_vars, resets' = 0
    PROVE  FirstInv'
  <1> USE DEF surroundings, snapshot, lookups, fetches
  <1>0. resets = 0 /\ FirstInv /\ ~Reset
    BY BeforeReset
  <1>1. ASSUME NEW f \in Fetchers, FetchStep(f) PROVE FirstInv'
    BY <1>0, <1>1, FetchStepIsQuiet DEF FirstInv
  <1>2. ASSUME NEW c \in Callers, LookupStep(c) \/ Leave(c) PROVE FirstInv'
    <2> USE <1>0, FetchersApart DEF TypeOK
    <2>1. CASE Look(c)
      BY <2>1 DEF Look, FirstInv, Fetching
    <2>2. CASE Current(c)
      BY <2>2 DEF Current, FirstInv, Fetching, LockInv
    <2>3. CASE CurrentFirst(c)
      BY <2>3 DEF CurrentFirst, FirstInv
    <2>4. CASE CurrentFirstDone(c)
      BY <2>4 DEF CurrentFirstDone, FirstInv, Fetching, LockInv
    <2>5. CASE CurrentExpired(c)
      BY <2>5 DEF CurrentExpired, FirstInv, LockInv
    <2>6. CASE Read(c)
      BY <2>6 DEF Read, FirstInv, Fetching
    <2>7. CASE Leave(c)
      BY <2>7 DEF Leave, FirstInv, Fetching
    <2> QED
      BY <1>2, <2>1, <2>2, <2>3, <2>4, <2>5, <2>6, <2>7 DEF LookupStep, CurrentStep
  <1>3. CASE Expire \/ Move \/ Outage
    BY <1>0, <1>3 DEF Expire, Move, Outage, FirstInv, Fetching
  <1>4. CASE UNCHANGED vars
    BY <1>0, <1>4 DEF vars, FirstInv, Fetching
  <1> QED
    BY <1>0, <1>1, <1>2, <1>3, <1>4 DEF Next

\* A window that outlasts its fetch admits no second one.
LEMMA SingleStep ==
    ASSUME TypeOK, LockInv, FirstInv, SingleInv, ~SlowFetch, [Next]_vars, ~Reset
    PROVE  SingleInv'
  <1> USE DEF surroundings, snapshot, lookups, fetches
  <1>1. ASSUME NEW f \in Fetchers, FetchStep(f) PROVE SingleInv'
    BY <1>1, FetchStepIsQuiet DEF SingleInv, OneRefreshPerWindow
  <1>2. ASSUME NEW c \in Callers, LookupStep(c) \/ Leave(c) PROVE SingleInv'
    <2>1. CASE CurrentFirst(c)
      <3>1. \A f \in Fetchers : ~Fetching(f)
        BY <2>1 DEF CurrentFirst, FirstInv
      <3>2. Starts(c)
        BY <2>1, <3>1, StartFetchStarts, FetchersApart DEF CurrentFirst
      <3> QED
        BY <2>1, <3>1, <3>2 DEF CurrentFirst, SingleInv, OneRefreshPerWindow, Starts, Fetching
    <2>2. CASE CurrentExpired(c)
      <3>1. \A f \in Fetchers : ~Fetching(f)
        BY <2>2 DEF CurrentExpired, SingleInv
      <3>2. PICK f \in Refreshers : Starts(f)
        BY <2>2, CurrentExpiredStarts
      <3> QED
        BY <2>2, <3>1, <3>2 DEF CurrentExpired, SingleInv, OneRefreshPerWindow, Starts, Fetching
    <2>3. CASE UNCHANGED <<window, fetch>>
      BY <2>3 DEF SingleInv, OneRefreshPerWindow, Fetching
    <2> QED
      BY <1>2, <2>1, <2>2, <2>3
      DEF LookupStep, CurrentStep, Look, Current, CurrentFirstDone, Read, Leave
  <1>3. CASE Expire
    BY <1>3 DEF Expire, SingleInv, OneRefreshPerWindow, Fetching
  <1>4. CASE UNCHANGED <<window, fetch>>
    BY <1>4 DEF SingleInv, OneRefreshPerWindow, Fetching
  <1> QED
    BY <1>1, <1>2, <1>3, <1>4 DEF Next, vars, Move, Outage

\* What a step of the one fetch does to the versions.
LEMMA OrderFetchStep ==
    ASSUME TypeOK, OneRefreshPerWindow, OrderInv, NEW f \in Fetchers, FetchStep(f)
    PROVE  OrderInv' /\ urls' >= urls /\ origins' >= origins
  <1>0. /\ UNCHANGED registry
        /\ \A g \in Fetchers \ {f} : fetch[g] = "none" /\ fetch'[g] = "none"
        /\ urls \in Nat /\ origins \in Nat /\ registry \in Nat /\ answer[f] \in Nat
        /\ f \in DOMAIN fetch /\ f \in DOMAIN answer
    BY FetchStepIsQuiet, DiscoveryAssumption DEF OneRefreshPerWindow, Fetching, TypeOK, Versions
  <1> USE <1>0 DEF OrderInv, Failed, surroundings, snapshot, lookups, fetches
  <1>1. CASE Respond(f)
    BY <1>1 DEF Respond
  <1>2. CASE StoreUrls(f)
    BY <1>2 DEF StoreUrls
  <1>3. CASE StoreOrigins(f)
    BY <1>3 DEF StoreOrigins
  <1> QED
    BY <1>1, <1>2, <1>3 DEF FetchStep

\* The same for a step of anything else.
LEMMA OrderOtherStep ==
    ASSUME TypeOK, OrderInv, [Next]_vars, ~Reset,
           \A f \in Fetchers : ~FetchStep(f)
    PROVE  OrderInv' /\ urls' >= urls /\ origins' >= origins
  <1>0. urls \in Nat /\ origins \in Nat /\ registry \in Nat
    BY DiscoveryAssumption DEF TypeOK, Versions
  <1>1. UNCHANGED <<urls, origins>> /\ registry' \in {registry, registry + 1}
    BY DEF Next, vars, LookupStep, CurrentStep, Look, Current, CurrentFirst, CurrentFirstDone,
           CurrentExpired, Read, Leave, Expire, Move, Outage, surroundings, snapshot, fetches, lookups
  <1>2. ASSUME NEW f \in Fetchers
        PROVE  \/ fetch'[f] = "asking"
               \/ fetch'[f] = fetch[f] /\ answer'[f] = answer[f]
    <2>1. CASE \E c \in Callers : CurrentFirst(c)
      BY <2>1 DEF CurrentFirst, StartFetch, TypeOK
    <2>2. CASE \E c \in Callers : CurrentExpired(c)
      BY <2>2, CurrentExpiredStarts DEF Starts
    <2>3. CASE UNCHANGED fetches
      BY <2>3 DEF fetches
    <2> QED
      BY <2>1, <2>2, <2>3
      DEF Next, vars, LookupStep, CurrentStep, Look, Current, CurrentFirstDone, Read, Leave,
          Expire, Move, Outage, fetches
  <1>3. ASSUME NEW f \in Fetchers PROVE answer[f] \in Nat
    BY DEF TypeOK, Versions
  <1> QED
    BY <1>0, <1>1, <1>2, <1>3 DEF OrderInv, Failed

-----------------------------------------------------------------------------

LEMMA Inductive == Spec => []IInv
  <1>1. Init => IInv
    <2> SUFFICES ASSUME Init PROVE IInv
      OBVIOUS
    <2> USE DiscoveryAssumption, FetchersApart DEF Init, Fetching, Empty, Failed
    <2>1. TypeOK
      BY InitTypeOK
    <2>2. LockInv /\ FirstInv /\ SingleInv /\ OrderInv
      BY DEF LockInv, FirstInv, SingleInv, OneRefreshPerWindow, OrderInv
    <2> QED
      BY <2>1, <2>2 DEF IInv
  <1>2. IInv /\ [Next]_vars => IInv'
    <2> SUFFICES ASSUME IInv, [Next]_vars PROVE IInv'
      OBVIOUS
    <2>1. TypeOK'
      <3>1. CASE UNCHANGED vars
        BY <3>1 DEF IInv, TypeOK, vars, surroundings, snapshot, lookups, fetches
      <3> QED
        BY <3>1, FetchTypeStep, LookupTypeStep, OtherTypeStep DEF Next, IInv
    <2>2. LockInv'
      BY LockStep DEF IInv
    <2>3. resets' = 0 => FirstInv' /\ resets = 0 /\ ~Reset
      <3>1. resets' = 0 => resets = 0 /\ ~Reset
        BY BeforeReset DEF IInv
      <3> QED
        BY <3>1, FirstStep DEF IInv
    <2>4. resets' = 0 /\ ~SlowFetch => SingleInv'
      BY <2>3, SingleStep DEF IInv
    <2>5. resets' = 0 /\ ~SlowFetch => OrderInv'
      BY <2>3, OrderFetchStep, OrderOtherStep DEF IInv, SingleInv
    <2> QED
      BY <2>1, <2>2, <2>3, <2>4, <2>5 DEF IInv
  <1> QED
    BY <1>1, <1>2, PTL DEF Spec

\* Every variable of the snapshot keeps its type.
THEOREM TypeCorrect == Spec => []TypeOK
  BY Inductive, PTL DEF IInv

\* No two lookups are ever in the locked part of _current at once, and a lookup
\* fetches on its own thread only there.
THEOREM LockTheorem == Spec => []LockInv
  BY Inductive, PTL DEF IInv

\* Until reset_discovery_cache is called, the only fetch that can hold _lock is
\* the one of the very first lookup: every later lookup returns what is known.
THEOREM BlocksOnlyBeforeFirstAnswerTheorem ==
    Spec => [](resets = 0 => BlocksOnlyBeforeFirstAnswer)
  <1>1. IInv => (resets = 0 => BlocksOnlyBeforeFirstAnswer)
    BY DEF IInv, LockInv, FirstInv, BlocksOnlyBeforeFirstAnswer
  <1> QED
    BY <1>1, Inductive, PTL

\* While a fetch is shorter than CACHE_SECONDS, and until a reset, at most one
\* refresh is in flight, however many lookups meet the expired window.
THEOREM OneRefreshPerWindowTheorem ==
    ASSUME ~SlowFetch
    PROVE  Spec => [](resets = 0 => OneRefreshPerWindow)
  <1>1. IInv => (resets = 0 => OneRefreshPerWindow)
    BY DEF IInv, SingleInv
  <1> QED
    BY <1>1, Inductive, PTL

\* Under the same conditions neither field of the snapshot is ever replaced by
\* that of an older registry, nor emptied by an outage.
THEOREM NeverGoesBackBeforeReset ==
    ASSUME ~SlowFetch
    PROVE  Spec => [][resets' = 0 => urls' >= urls /\ origins' >= origins]_vars
  <1>1. IInv /\ [Next]_vars => [resets' = 0 => urls' >= urls /\ origins' >= origins]_vars
    BY BeforeReset, OrderFetchStep, OrderOtherStep DEF IInv, SingleInv
  <1> QED
    BY <1>1, Inductive, PTL DEF Spec

\* In particular in a process that never resets the cache, and in this
\* repository only the tests do.
THEOREM NeverGoesBackTheorem ==
    ASSUME ~SlowFetch, MaxResets = 0
    PROVE  Spec => NeverGoesBack
  <1>1. TypeOK => resets = 0
    BY DEF TypeOK
  <1>2. IInv /\ IInv' /\ [resets' = 0 => urls' >= urls /\ origins' >= origins]_vars
          => [resets' = resets => urls' >= urls /\ origins' >= origins]_vars
    BY <1>1 DEF IInv, TypeOK
  <1> QED
    BY <1>2, Inductive, NeverGoesBackBeforeReset, PTL DEF NeverGoesBack

-----------------------------------------------------------------------------
\* The factory.

CallInv == \A c \in Callers :
    build[c] # "none" => identity[c] \in Identities /\ options[c] \in Options /\ got[c] = NoClient

PoolInv ==
    /\ \A k, l \in cache : k.identity = l.identity /\ k.url = l.url => k = l
    /\ clientResets = 0 => \A c \in Callers : got[c].id # 0 => got[c] \in cache

\* The URL u was the peer's, as the snapshot or the registry has it, since the last
\* call of c began.
Since(c, u) == \E v \in known[c]..registry : u = Resolved(v)

Timely(c) ==
    /\ known[c] <= urls
    /\ lookup[c] = "done" => known[c] <= result[c] /\ result[c] <= registry
    /\ build[c] = "resolved" => Since(c, baseUrl[c])
    /\ got[c] # NoClient => Since(c, got[c].url)

\* As long as the snapshot's versions are in order.
TimelyInv == resets = 0 /\ ~SlowFetch => \A c \in Callers : Timely(c)

FInv == FTypeOK /\ CallInv /\ PoolInv /\ TimelyInv

-----------------------------------------------------------------------------

\* Each step of the factory is a step of the snapshot it uses, or leaves it alone.
LEMMA FactoryStep ==
    ASSUME [FNext]_allVars
    PROVE  [Next]_vars
  <1>1. CASE \E c \in Callers : Begin(c)
    BY <1>1 DEF Begin, Next, LookupStep
  <1>2. CASE \E c \in Callers : Resolve(c)
    BY <1>2 DEF Resolve, Next
  <1>3. CASE \E c \in Callers : Reuse(c) \/ Construct(c) \/ ConstructUncached(c) \/ ConstructRaises(c)
    BY <1>3 DEF Reuse, Construct, ConstructUncached, ConstructRaises, Return
  <1>4. CASE SnapshotStep
    BY <1>4 DEF SnapshotStep, Next, LookupStep
  <1>5. CASE ResetClients \/ UNCHANGED allVars
    BY <1>5 DEF ResetClients, allVars
  <1> QED
    BY <1>1, <1>2, <1>3, <1>4, <1>5 DEF FNext, BuildStep

\* The factory uses the snapshot only as Discovery allows: a caller begins a
\* lookup with discovered_urls and leaves it with the answer, in that order.
THEOREM FactoryUsesDiscovery == FSpec => Spec
  <1>1. FInit => Init
    BY DEF FInit
  <1> QED
    BY <1>1, FactoryStep, PTL DEF FSpec, Spec

-----------------------------------------------------------------------------

\* service_url yields a URL that is known to the model, or none.
LEMMA ResolvedIsUrl == \A v \in Versions : Resolved(v) \in Urls
  BY DEF Versions, Resolved, Urls

\* A freshly made client is a client, for the call's own key.
LEMMA NewClient ==
    ASSUME FTypeOK, CallInv, NEW c \in Callers, build[c] = "resolved", NEW n \in Nat
    PROVE  /\ Made(c, n) \in Clients /\ Made(c, n).id = n
           /\ SameKey(Made(c, n), identity[c], baseUrl[c])
  BY DEF FTypeOK, CallInv, Clients, Made, SameKey

\* The clients a call may be handed: for its own key, and made if not cached.
HandedOut(c, k) ==
    /\ k \in Clients /\ SameKey(k, identity[c], baseUrl[c]) /\ Return(c, k)
    /\ \/ k \in cache /\ UNCHANGED <<cache, built>>
       \/ Hits(c) = {} /\ cache' = cache \cup {k} /\ built' = built + 1
       \/ k.id = 0 /\ UNCHANGED <<cache, built>>

LEMMA CallsAreHandedClients ==
    ASSUME FTypeOK, CallInv, NEW c \in Callers, Reuse(c) \/ Construct(c) \/ ConstructUncached(c)
    PROVE  build[c] = "resolved" /\ \E k \in Clients : HandedOut(c, k)
  <1>1. CASE Reuse(c)
    <2>1. PICK k \in Hits(c) : Return(c, k)
      BY <1>1 DEF Reuse
    <2>2. k \in cache /\ k \in Clients /\ SameKey(k, identity[c], baseUrl[c])
      BY <2>1 DEF Hits, FTypeOK
    <2> QED
      BY <1>1, <2>1, <2>2 DEF Reuse, HandedOut
  <1>2. CASE Construct(c)
    <2>1. /\ build[c] = "resolved" /\ Hits(c) = {} /\ built + 1 \in Nat
          /\ cache' = cache \cup {Made(c, built + 1)} /\ built' = built + 1
          /\ Return(c, Made(c, built + 1))
      BY <1>2 DEF Construct, FTypeOK
    <2> QED
      BY <2>1, NewClient DEF HandedOut
  <1>3. CASE ConstructUncached(c)
    <2>1. build[c] = "resolved" /\ Return(c, Made(c, 0)) /\ UNCHANGED <<cache, built>>
      BY <1>3 DEF ConstructUncached
    <2> QED
      BY <2>1, NewClient DEF HandedOut
  <1> QED
    BY <1>1, <1>2, <1>3

-----------------------------------------------------------------------------
\* Types, calls and pools.

\* A call's own steps.
LEMMA CallStep ==
    ASSUME FTypeOK, CallInv, PoolInv, TypeOK', NEW c \in Callers, Begin(c) \/ BuildStep(c)
    PROVE  FTypeOK' /\ CallInv' /\ PoolInv'
  <1>1. CASE Begin(c)
    <2>1. PICK i \in Identities, o \in Options :
             identity' = [identity EXCEPT ![c] = i] /\ options' = [options EXCEPT ![c] = o]
      BY <1>1 DEF Begin
    <2>2. FTypeOK'
      BY <1>1, <2>1 DEF Begin, FTypeOK, TypeOK
    <2>3. CallInv'
      BY <1>1, <2>1 DEF Begin, FTypeOK, CallInv
    <2>4. PoolInv'
      BY <1>1 DEF Begin, FTypeOK, PoolInv, NoClient
    <2> QED
      BY <2>2, <2>3, <2>4
  <1>2. CASE Resolve(c)
    <2>1. Resolved(result[c]) \in Urls
      BY ResolvedIsUrl DEF FTypeOK, TypeOK
    <2>2. FTypeOK' /\ CallInv'
      BY <1>2, <2>1 DEF Resolve, Over, FTypeOK, CallInv, Urls
    <2>3. PoolInv'
      BY <1>2 DEF Resolve, PoolInv
    <2> QED
      BY <2>2, <2>3
  <1>3. CASE Reuse(c) \/ Construct(c) \/ ConstructUncached(c)
    <2>1. PICK k \in Clients : HandedOut(c, k)
      BY <1>3, CallsAreHandedClients
    <2>2. /\ UNCHANGED <<known, clientResets>> /\ got' = [got EXCEPT ![c] = k]
          /\ cache \subseteq cache' /\ cache' \subseteq cache \cup {k} /\ built' \in Nat
      BY <2>1 DEF HandedOut, Return, FTypeOK
    <2>3. FTypeOK' /\ CallInv'
      BY <2>1, <2>2 DEF HandedOut, Return, Over, FTypeOK, CallInv, Urls
    <2>4. \A l, m \in cache' : l.identity = m.identity /\ l.url = m.url => l = m
      BY <2>1, <2>2 DEF HandedOut, Hits, SameKey, PoolInv
    <2>5. k.id # 0 => k \in cache'
      BY <2>1 DEF HandedOut
    <2>6. PoolInv'
      BY <2>2, <2>4, <2>5 DEF PoolInv, FTypeOK
    <2> QED
      BY <2>3, <2>6
  <1>4. CASE ConstructRaises(c)
    BY <1>4 DEF ConstructRaises, Over, FTypeOK, CallInv, PoolInv, Urls
  <1> QED
    BY <1>1, <1>2, <1>3, <1>4 DEF BuildStep

\* Forgetting the cache ends what PoolInv says of the clients handed out.
LEMMA ResetStep ==
    ASSUME FTypeOK, CallInv, TypeOK', ResetClients
    PROVE  FTypeOK' /\ CallInv' /\ PoolInv'
  <1>1. clientResets' \in 0..MaxClientResets /\ clientResets' # 0
    BY FactoryAssumption DEF ResetClients, FTypeOK
  <1> QED
    BY <1>1 DEF ResetClients, locals, FTypeOK, CallInv, PoolInv

\* The snapshot's own steps hand out, forget and build nothing.
LEMMA IdleStep ==
    ASSUME FTypeOK, CallInv, PoolInv, TypeOK', UNCHANGED factory
    PROVE  FTypeOK' /\ CallInv' /\ PoolInv'
  BY DEF FTypeOK, CallInv, PoolInv, factory, locals

-----------------------------------------------------------------------------
\* Currency.

\* While the versions are in order, they only grow ...
LEMMA VersionsGrow ==
    ASSUME IInv, IInv', [Next]_vars, resets' = 0, ~SlowFetch
    PROVE  /\ resets = 0
           /\ urls \in Nat /\ urls' \in Nat /\ registry \in Nat /\ registry' \in Nat
           /\ urls <= urls' /\ registry <= registry' /\ urls <= registry
  <1>1. resets = 0 /\ ~Reset
    BY BeforeReset DEF IInv
  <1>2. urls' >= urls
    BY <1>1, OrderFetchStep, OrderOtherStep DEF IInv, SingleInv
  <1>3. registry' \in {registry, registry + 1}
    <2>1. CASE Move
      BY <2>1 DEF Move
    <2>2. CASE ~Move
      BY <1>1, <2>2
      DEF Next, vars, LookupStep, CurrentStep, Look, Current, CurrentFirst, CurrentFirstDone,
          CurrentExpired, Read, Leave, FetchStep, Respond, StoreUrls, StoreOrigins, Expire,
          Outage, surroundings
    <2> QED
      BY <2>1, <2>2
  <1>4. urls \in Nat /\ urls' \in Nat /\ registry \in Nat
    BY DiscoveryAssumption DEF IInv, TypeOK, Versions
  <1>5. urls <= registry
    BY <1>1 DEF IInv, OrderInv
  <1> QED
    BY <1>1, <1>2, <1>3, <1>4, <1>5

\* ... and a lookup returns what the snapshot holds when it is read.
LEMMA LookupReads ==
    ASSUME TypeOK, [Next]_vars, NEW d \in Callers, lookup'[d] = "done"
    PROVE  \/ lookup[d] = "done" /\ result'[d] = result[d]
           \/ result'[d] = urls
  <1> USE DEF TypeOK, surroundings, snapshot, lookups, fetches
  <1>1. ASSUME NEW c \in Callers, Read(c)
        PROVE  \/ lookup[d] = "done" /\ result'[d] = result[d]
               \/ result'[d] = urls
    BY <1>1 DEF Read
  <1>2. ASSUME NEW c \in Callers, Leave(c)
        PROVE  lookup[d] = "done" /\ result'[d] = result[d]
    BY <1>2 DEF Leave
  <1>3. ASSUME NEW c \in Callers, Look(c) \/ CurrentStep(c)
        PROVE  lookup[d] = "done" /\ result'[d] = result[d]
    BY <1>3 DEF Look, CurrentStep, Current, CurrentFirst, CurrentFirstDone, CurrentExpired
  <1>4. ASSUME NEW f \in Fetchers, FetchStep(f)
        PROVE  lookup[d] = "done" /\ result'[d] = result[d]
    BY <1>4 DEF FetchStep, Respond, StoreUrls, StoreOrigins
  <1>5. CASE Reset \/ Expire \/ Move \/ Outage \/ UNCHANGED vars
    BY <1>5 DEF Reset, Expire, Move, Outage, vars
  <1> QED
    BY <1>1, <1>2, <1>3, <1>4, <1>5 DEF Next, LookupStep

\* What a version covers, every later registry covers.
LEMMA SinceLasts ==
    ASSUME FTypeOK, registry' \in Nat, registry <= registry', NEW c \in Callers,
           known'[c] = known[c], NEW u, Since(c, u)
    PROVE  \E v \in known'[c]..registry' : u = Resolved(v)
  <1>1. known[c] \in Nat /\ registry \in Nat
    BY DiscoveryAssumption DEF FTypeOK, TypeOK, Versions
  <1> QED
    BY <1>1 DEF Since

\* What a step has to do to a call for it to stay current: its lookup stays within
\* the versions, and its URL and its client are its own, or the one it resolved.
LEMMA TimelyKept ==
    ASSUME FTypeOK, IInv, IInv', FTypeOK', [Next]_vars, resets' = 0, ~SlowFetch,
           NEW c \in Callers, Timely(c), known'[c] = known[c],
           build'[c] = "resolved" => build[c] = "resolved" /\ baseUrl'[c] = baseUrl[c],
           \/ got'[c] = got[c]
           \/ build[c] = "resolved" /\ got'[c].url = baseUrl[c]
    PROVE  Timely(c)'
  <1>1. /\ urls \in Nat /\ urls' \in Nat /\ registry \in Nat /\ registry' \in Nat
        /\ urls <= urls' /\ registry <= registry' /\ urls <= registry
    BY VersionsGrow
  <1>2. known[c] \in Nat /\ result[c] \in Nat
    BY DiscoveryAssumption DEF FTypeOK, TypeOK, Versions
  <1>3. lookup'[c] = "done" => known'[c] <= result'[c] /\ result'[c] <= registry'
    BY <1>1, <1>2, LookupReads DEF Timely, IInv
  <1>4. build'[c] = "resolved" => Since(c, baseUrl[c])
    BY DEF Timely
  <1>5. got'[c] # NoClient => Since(c, got'[c].url)
    BY DEF Timely
  <1> QED
    BY <1>1, <1>2, <1>3, <1>4, <1>5, SinceLasts DEF Timely, Since

\* A call stays current by its own steps ...
LEMMA TimelyCallStep ==
    ASSUME FInv, FTypeOK', IInv, IInv', [Next]_vars, resets' = 0, ~SlowFetch,
           NEW c \in Callers, Begin(c) \/ BuildStep(c), NEW d \in Callers
    PROVE  Timely(d)'
  <1> USE DEF FInv, FTypeOK
  <1>0. /\ Timely(d)
        /\ urls \in Nat /\ urls' \in Nat /\ registry \in Nat /\ registry' \in Nat
        /\ urls <= urls' /\ registry <= registry' /\ urls <= registry
    BY VersionsGrow DEF TimelyInv
  <1>1. CASE Begin(c)
    <2>1. CASE d # c
      BY <1>0, <1>1, <2>1, TimelyKept DEF Begin
    <2>2. CASE d = c
      <3>1. known'[c] = urls /\ lookup'[c] = "blocked" /\ build'[c] = "looking" /\ got'[c] = NoClient
        BY <1>1 DEF Begin, Look, TypeOK
      <3> QED
        BY <1>0, <2>2, <3>1 DEF Timely
    <2> QED
      BY <2>1, <2>2
  <1>2. CASE Resolve(c)
    <2>1. CASE d # c \/ build'[c] = "none"
      BY <1>0, <1>2, <2>1, TimelyKept DEF Resolve, Over
    <2>2. CASE d = c /\ build'[c] # "none"
      <3>1. /\ lookup[c] = "done" /\ lookup'[c] = "idle" /\ build[c] = "looking"
            /\ baseUrl'[c] = Resolved(result[c])
            /\ known'[c] = known[c] /\ got'[c] = got[c] /\ got[c] = NoClient
        BY <1>2, <2>2 DEF Resolve, Over, Leave, TypeOK, CallInv
      <3>2. known[c] \in Nat /\ result[c] \in Nat
        BY DiscoveryAssumption DEF TypeOK, Versions
      <3>3. result[c] \in known'[c]..registry'
        BY <1>0, <2>2, <3>1, <3>2 DEF Timely
      <3> QED
        BY <1>0, <2>2, <3>1, <3>2, <3>3 DEF Timely, Since
    <2> QED
      BY <2>1, <2>2
  <1>3. CASE Reuse(c) \/ Construct(c) \/ ConstructUncached(c)
    <2>1. PICK k \in Clients : HandedOut(c, k)
      BY <1>3, CallsAreHandedClients
    <2>2. /\ known' = known /\ got' = [got EXCEPT ![c] = k] /\ k.url = baseUrl[c]
          /\ build' = [build EXCEPT ![c] = "none"] /\ build[c] = "resolved"
          /\ baseUrl' = [baseUrl EXCEPT ![c] = NoUrl]
      BY <1>3, <2>1, CallsAreHandedClients DEF HandedOut, Return, Over, SameKey
    <2> QED
      BY <1>0, <2>2, TimelyKept
  <1>4. CASE ConstructRaises(c)
    BY <1>0, <1>4, TimelyKept DEF ConstructRaises, Over
  <1> QED
    BY <1>1, <1>2, <1>3, <1>4 DEF BuildStep

\* ... and by those of the snapshot, or when the cache is emptied.
LEMMA TimelyOtherStep ==
    ASSUME FInv, FTypeOK', IInv, IInv', [Next]_vars, resets' = 0, ~SlowFetch,
           UNCHANGED factory \/ ResetClients, NEW d \in Callers
    PROVE  Timely(d)'
  <1>1. UNCHANGED <<known, build, baseUrl, got>>
    BY DEF factory, locals, ResetClients
  <1>2. Timely(d)
    BY VersionsGrow DEF FInv, TimelyInv
  <1> QED
    BY <1>1, <1>2, TimelyKept DEF FInv

LEMMA FInductive == FSpec => []FInv
  <1>1. FInit => FInv
    <2> SUFFICES ASSUME FInit, TypeOK PROVE FInv
      BY InitTypeOK DEF FInit
    <2> USE DEF FInit
    <2>0. Empty \in Versions /\ Empty \in 0..MaxVersion
      BY DiscoveryAssumption DEF Versions, Empty
    <2>1. FTypeOK
      BY <2>0, FactoryAssumption DEF FTypeOK, Urls
    <2>2. CallInv
      BY DEF CallInv
    <2>3. PoolInv
      BY DEF PoolInv, NoClient
    <2>4. TimelyInv
      BY DEF TimelyInv, Timely, Init, Empty
    <2> QED
      BY <2>1, <2>2, <2>3, <2>4 DEF FInv
  <1>2. FInv /\ IInv /\ IInv' /\ [FNext]_allVars => FInv'
    <2> SUFFICES ASSUME FInv, IInv, IInv', [FNext]_allVars PROVE FInv'
      OBVIOUS
    <2>0. TypeOK' /\ [Next]_vars
      BY FactoryStep DEF IInv
    <2>1. CASE \E c \in Callers : Begin(c) \/ BuildStep(c)
      <3>1. FTypeOK' /\ CallInv' /\ PoolInv'
        BY <2>0, <2>1, CallStep DEF FInv
      <3>2. TimelyInv'
        BY <2>0, <2>1, <3>1, TimelyCallStep DEF TimelyInv
      <3> QED
        BY <3>1, <3>2 DEF FInv
    <2>2. CASE UNCHANGED factory \/ ResetClients
      <3>1. FTypeOK' /\ CallInv' /\ PoolInv'
        BY <2>0, <2>2, IdleStep, ResetStep DEF FInv
      <3>2. TimelyInv'
        BY <2>0, <2>2, <3>1, TimelyOtherStep DEF TimelyInv
      <3> QED
        BY <3>1, <3>2 DEF FInv
    <2> QED
      BY <2>1, <2>2 DEF FNext, SnapshotStep, allVars
  <1> QED
    BY <1>1, <1>2, FactoryUsesDiscovery, Inductive, PTL DEF FSpec

-----------------------------------------------------------------------------

\* Every variable of the snapshot and of the factory keeps its type.
THEOREM FTypeCorrect == FSpec => []FTypeOK
  BY FInductive, PTL DEF FInv

\* While a fetch is shorter than CACHE_SECONDS, and until the snapshot is reset, no
\* call is handed a client for an address that the snapshot had given up before the
\* call began, however many moves the cached clients have outlived (build_client).
THEOREM ClientIsCurrentTheorem ==
    ASSUME ~SlowFetch
    PROVE  FSpec => [](resets = 0 => ClientIsCurrent)
  <1>1. FInv => (resets = 0 => ClientIsCurrent)
    BY DEF FInv, TimelyInv, Timely, Since, ClientIsCurrent
  <1> QED
    BY <1>1, FInductive, PTL

\* Until reset_client_cache is called, racing calls for one cache key all get
\* the same client, whatever their options, hence one connection pool.
THEOREM OnePoolPerKeyTheorem == FSpec => []OnePoolPerKey
  <1>1. FInv => OnePoolPerKey
    BY DEF FInv, PoolInv, OnePoolPerKey
  <1> QED
    BY <1>1, FInductive, PTL

\* The snapshot's guarantees, for the factory's own behaviours: only the first
\* lookup waits for update-service with the lock held ...
THEOREM FactoryBlocksOnlyOnce ==
    FSpec => [](resets = 0 => BlocksOnlyBeforeFirstAnswer)
  BY FactoryUsesDiscovery, BlocksOnlyBeforeFirstAnswerTheorem

\* ... an expired window starts one refresh ...
THEOREM FactoryRefreshesOnce ==
    ASSUME ~SlowFetch
    PROVE  FSpec => [](resets = 0 => OneRefreshPerWindow)
  BY FactoryUsesDiscovery, OneRefreshPerWindowTheorem

\* ... and known URLs are never lost nor replaced by older ones.
THEOREM FactoryNeverGoesBack ==
    ASSUME ~SlowFetch, MaxResets = 0
    PROVE  FSpec => NeverGoesBack
  BY FactoryUsesDiscovery, NeverGoesBackTheorem
=============================================================================
