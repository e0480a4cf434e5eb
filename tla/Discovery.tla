----------------------------- MODULE Discovery -----------------------------
(***************************************************************************)
(* netix_backend/discovery.py: the process-wide snapshot of the service    *)
(* registry.  Lookups run on request threads and on the event loop; the    *)
(* first one fetches while it holds _lock, later ones start a background   *)
(* thread when the snapshot has expired.                                   *)
(*                                                                         *)
(* The registry's content is a version number; urls and origins hold the   *)
(* version they were taken from, 0 for empty.                              *)
(***************************************************************************)
EXTENDS Naturals, FiniteSets

CONSTANTS
    Callers,     \* threads that look something up
    Refreshers,  \* background threads that may exist at the same time
    MaxVersion,  \* bound on registry changes
    MaxResets,   \* bound on reset_discovery_cache calls
    SlowFetch    \* whether a fetch may outlast CACHE_SECONDS

ASSUME DiscoveryAssumption ==
    /\ MaxVersion \in Nat \ {0}
    /\ MaxResets \in Nat
    /\ SlowFetch \in BOOLEAN
    /\ Callers \cap Refreshers = {}
    /\ "free" \notin Callers

VARIABLES
    registry,   \* the registry's current version (external)
    reachable,  \* whether update-service answers, configuration included (external)
    window,     \* _snapshot.expires: "unset", "fresh" (now < expires) or "stale"
    urls,       \* _snapshot.urls
    origins,    \* _snapshot.origins
    lock,       \* the holder of _lock, or "free"
    lookup,     \* lookup[c]: where a lookup of c is
    result,     \* result[c]: the version of the urls the lookup of c returned
    fetch,      \* fetch[f]: where the _refresh of f is
    answer,     \* answer[f]: what _fetch of f is about to return
    resets,     \* resets so far
    served      \* whether a lookup completed since the last reset

surroundings == <<registry, reachable>>
snapshot == <<window, urls, origins>>
lookups == <<lock, lookup, result, served>>
fetches == <<fetch, answer>>
vars == <<surroundings, snapshot, lookups, fetches, resets>>

-----------------------------------------------------------------------------

Versions == 0..MaxVersion
Empty == 0
Failed == 0     \* _fetch returned None

Fetchers == Callers \cup Refreshers
Fetching(f) == fetch[f] # "none"

Init ==
    /\ registry = 1
    /\ reachable \in BOOLEAN
    /\ window = "unset"
    /\ urls = Empty
    /\ origins = Empty
    /\ lock = "free"
    /\ lookup = [c \in Callers |-> "idle"]
    /\ result = [c \in Callers |-> 0]
    /\ fetch = [f \in Fetchers |-> "none"]
    /\ answer = [f \in Fetchers |-> Failed]
    /\ resets = 0
    /\ served = FALSE

-----------------------------------------------------------------------------
\* _fetch and _refresh, on a lookup's own thread or on a background thread.

\* The registry answers, or the fetch fails (no configuration, an exception).
Respond(f) ==
    /\ fetch[f] = "asking"
    /\ fetch' = [fetch EXCEPT ![f] = "answered"]
    /\ answer' = [answer EXCEPT ![f] = IF reachable THEN registry ELSE Failed]
    /\ UNCHANGED <<surroundings, snapshot, lookups, resets>>

StoreUrls_EvenFailed(f) ==
    /\ fetch[f] = "answered"
    /\ urls' = answer[f]
    /\ fetch' = [fetch EXCEPT ![f] = "halfStored"]
    /\ UNCHANGED <<surroundings, window, origins, lookups, answer, resets>>

\* The tuple assignment stores urls first; a failed fetch stores nothing.
StoreUrls(f) ==
    /\ fetch[f] = "answered"
    /\ IF answer[f] = Failed
       THEN /\ fetch' = [fetch EXCEPT ![f] = "none"]
            /\ UNCHANGED urls
       ELSE /\ fetch' = [fetch EXCEPT ![f] = "halfStored"]
            /\ urls' = answer[f]
    /\ UNCHANGED <<surroundings, window, origins, lookups, answer, resets>>

\* ... and origins second, without the lock when f is a background thread.
StoreOrigins(f) ==
    /\ fetch[f] = "halfStored"
    /\ origins' = answer[f]
    /\ fetch' = [fetch EXCEPT ![f] = "none"]
    /\ answer' = [answer EXCEPT ![f] = Failed]
    /\ UNCHANGED <<surroundings, window, urls, lookups, resets>>

StartFetch_Spawned(f) ==
    /\ fetch' = [fetch EXCEPT ![f] = "spawned"]
    /\ answer' = [answer EXCEPT ![f] = Failed]

\* Begin _refresh on thread f.
StartFetch(f) ==
    /\ fetch' = [fetch EXCEPT ![f] = "asking"]
    /\ answer' = [answer EXCEPT ![f] = Failed]

-----------------------------------------------------------------------------
\* _current and discovered_urls.

Look(c) ==
    /\ lookup[c] = "idle"
    /\ lookup' = [lookup EXCEPT ![c] = "blocked"]
    /\ UNCHANGED <<surroundings, snapshot, lock, result, served, fetches, resets>>

\* With the lock free and a fresh snapshot: take and release the lock.
Current(c) ==
    /\ lookup[c] = "blocked"
    /\ lock = "free"
    /\ window = "fresh"
    /\ lookup' = [lookup EXCEPT ![c] = "reading"]
    /\ UNCHANGED <<surroundings, snapshot, lock, result, served, fetches, resets>>

\* The first lookup stamps the window and refreshes with the lock held.
CurrentFirst(c) ==
    /\ lookup[c] = "blocked"
    /\ lock = "free"
    /\ window = "unset"
    /\ window' = "fresh"
    /\ lock' = c
    /\ lookup' = [lookup EXCEPT ![c] = "fetching"]
    /\ StartFetch(c)
    /\ UNCHANGED <<surroundings, urls, origins, result, served, resets>>

\* Its own refresh is over, failed or not: release the lock.
CurrentFirstDone(c) ==
    /\ lookup[c] = "fetching"
    /\ ~Fetching(c)
    /\ lock' = "free"
    /\ lookup' = [lookup EXCEPT ![c] = "reading"]
    /\ UNCHANGED <<surroundings, snapshot, result, served, fetches, resets>>

CurrentExpired_Inline(c) ==
    /\ lookup[c] = "blocked"
    /\ lock = "free"
    /\ window = "stale"
    /\ window' = "fresh"
    /\ lock' = c
    /\ lookup' = [lookup EXCEPT ![c] = "fetching"]
    /\ StartFetch(c)
    /\ UNCHANGED <<surroundings, urls, origins, result, served, resets>>

CurrentExpired_NoBump(c) ==
    /\ lookup[c] = "blocked"
    /\ lock = "free"
    /\ window = "stale"
    /\ lookup' = [lookup EXCEPT ![c] = "reading"]
    /\ \E f \in Refreshers : ~Fetching(f) /\ StartFetch(f)
    /\ UNCHANGED <<surroundings, snapshot, lock, result, served, resets>>

\* A later lookup that finds the window over opens the next one before it
\* starts the background refresh, and does not wait for it.
CurrentExpired(c) ==
    /\ lookup[c] = "blocked"
    /\ lock = "free"
    /\ window = "stale"
    /\ window' = "fresh"
    /\ lookup' = [lookup EXCEPT ![c] = "reading"]
    /\ \E f \in Refreshers : ~Fetching(f) /\ StartFetch(f)
    /\ UNCHANGED <<surroundings, urls, origins, lock, result, served, resets>>

\* _current() has returned: .urls is read outside the lock.
Read(c) ==
    /\ lookup[c] = "reading"
    /\ result' = [result EXCEPT ![c] = urls]
    /\ lookup' = [lookup EXCEPT ![c] = "done"]
    /\ served' = TRUE
    /\ UNCHANGED <<surroundings, snapshot, lock, fetches, resets>>

Leave(c) ==
    /\ lookup[c] = "done"
    /\ lookup' = [lookup EXCEPT ![c] = "idle"]
    /\ result' = [result EXCEPT ![c] = 0]
    /\ UNCHANGED <<surroundings, snapshot, lock, served, fetches, resets>>

\* reset_discovery_cache
Reset ==
    /\ resets < MaxResets
    /\ lock = "free"
    /\ resets' = resets + 1
    /\ window' = "unset"
    /\ urls' = Empty
    /\ origins' = Empty
    /\ served' = FALSE
    /\ UNCHANGED <<surroundings, lock, lookup, result, fetches>>

-----------------------------------------------------------------------------
\* Time and update-service.

\* CACHE_SECONDS pass.  Without SlowFetch no fetch lasts that long.
Expire ==
    /\ window = "fresh"
    /\ SlowFetch \/ \A f \in Fetchers : ~Fetching(f)
    /\ window' = "stale"
    /\ UNCHANGED <<surroundings, urls, origins, lookups, fetches, resets>>

Move ==
    /\ registry < MaxVersion
    /\ registry' = registry + 1
    /\ UNCHANGED <<reachable, snapshot, lookups, fetches, resets>>

Outage ==
    /\ reachable' = ~reachable
    /\ UNCHANGED <<registry, snapshot, lookups, fetches, resets>>

-----------------------------------------------------------------------------

FetchStep(f) == Respond(f) \/ StoreUrls(f) \/ StoreOrigins(f)

CurrentStep(c) == Current(c) \/ CurrentFirst(c) \/ CurrentFirstDone(c) \/ CurrentExpired(c)

LookupStep(c) == Look(c) \/ CurrentStep(c) \/ Read(c)

Next ==
    \/ \E c \in Callers : LookupStep(c) \/ Leave(c)
    \/ \E f \in Fetchers : FetchStep(f)
    \/ Reset \/ Expire \/ Move \/ Outage

Spec == Init /\ [][Next]_vars

\* Threads run and time passes; a released lock is handed to a waiting lookup.
ThreadFairness ==
    /\ \A f \in Fetchers : WF_vars(FetchStep(f))
    /\ \A c \in Callers : SF_vars(CurrentStep(c)) /\ WF_vars(Read(c))
    /\ WF_vars(Expire)

\* In addition lookups keep coming, as CORS checks do while there is traffic.
FairSpec == Spec /\ ThreadFairness /\ \A c \in Callers : WF_vars(Look(c)) /\ WF_vars(Leave(c))

-----------------------------------------------------------------------------

TypeOK ==
    /\ registry \in 1..MaxVersion
    /\ reachable \in BOOLEAN
    /\ window \in {"unset", "fresh", "stale"}
    /\ urls \in Versions
    /\ origins \in Versions
    /\ lock \in Callers \cup {"free"}
    /\ lookup \in [Callers -> {"idle", "blocked", "fetching", "reading", "done"}]
    /\ result \in [Callers -> Versions]
    /\ fetch \in [Fetchers -> {"none", "asking", "answered", "halfStored"}]
    /\ answer \in [Fetchers -> Versions]
    /\ resets \in 0..MaxResets
    /\ served \in BOOLEAN

\* Once a lookup has returned, no lookup waits for update-service again: a fetch
\* that holds the lock is that of the very first lookup (after a reset).
BlocksOnlyBeforeFirstAnswer == \A c \in Callers : Fetching(c) => lock = c /\ ~served

\* An expiry starts one refresh however many lookups notice it, so as long as a
\* fetch is shorter than the window there is never a second fetch in flight.
OneRefreshPerWindow == \A f, g \in Fetchers : Fetching(f) /\ Fetching(g) => f = g

\* "kept through outages": between resets known URLs are never lost and never
\* replaced by those of an older registry, in either field of the snapshot.
NeverGoesBack ==
    [][resets' = resets => /\ urls' >= urls
                           /\ origins' >= origins]_vars
=============================================================================
