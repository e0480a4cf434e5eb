--------------------------- MODULE ClientFactory ---------------------------
(***************************************************************************)
(* netix_backend/http/clients.py on top of Discovery: build_client         *)
(* resolves a peer's base URL through the registry snapshot and returns    *)
(* the process-wide client for it.                                         *)
(*                                                                         *)
(* What a caller asks for falls into an identity, which is part of the     *)
(* cache key (client class, service, authorization, env keys), and options *)
(* which are not (extra headers, limits, pool timeout, retries).           *)
(***************************************************************************)
EXTENDS Discovery

CONSTANTS
    Identities,       \* what callers ask clients for, within the cache key ...
    Options,          \* ... and outside it
    PeerUrl,          \* PeerUrl[v]: the peer's URL in registry version v, or NoUrl
    EnvUrl,           \* the <SVC>_SVC_URL variable, or NoUrl
    NoUrl,            \* absent
    MaxClientResets   \* bound on reset_client_cache calls

ASSUME FactoryAssumption ==
    /\ DOMAIN PeerUrl = 1..MaxVersion
    /\ MaxClientResets \in Nat

VARIABLES
    build,         \* build[c]: where build_client of c is
    identity,      \* identity[c]: what c asks for
    options,       \* options[c]: the rest of it
    baseUrl,       \* baseUrl[c]: the URL resolved before the cache lock is taken
    got,           \* got[c]: the client the last finished call of c returned
    known,         \* known[c]: the version the snapshot held when the last call of
                   \* c began; not in the code
    cache,         \* _client_cache: a set of clients, at most one per key
    built,         \* clients constructed so far; numbers the cached ones
    clientResets

locals == <<build, identity, options, baseUrl>>
factory == <<locals, got, known, cache, built, clientResets>>
allVars == <<vars, factory>>

-----------------------------------------------------------------------------

Urls == {PeerUrl[v] : v \in 1..MaxVersion} \cup {EnvUrl, NoUrl}
Unset == "unset"

\* id 0 is a client that is not in the cache (cache=False).
Clients == [identity : Identities, options : Options, url : Urls, id : Nat]
NoClient == [identity |-> Unset, options |-> Unset, url |-> NoUrl, id |-> 0]

FInit ==
    /\ Init
    /\ build = [c \in Callers |-> "none"]
    /\ identity = [c \in Callers |-> Unset]
    /\ options = [c \in Callers |-> Unset]
    /\ baseUrl = [c \in Callers |-> NoUrl]
    /\ got = [c \in Callers |-> NoClient]
    /\ known = [c \in Callers |-> Empty]
    /\ cache = {}
    /\ built = 0
    /\ clientResets = 0

-----------------------------------------------------------------------------

\* build_client(..., registry_name=...) starts with a registry lookup.
Begin(c) ==
    /\ build[c] = "none"
    /\ Look(c)
    /\ build' = [build EXCEPT ![c] = "looking"]
    /\ \E i \in Identities : identity' = [identity EXCEPT ![c] = i]
    /\ \E o \in Options : options' = [options EXCEPT ![c] = o]
    /\ got' = [got EXCEPT ![c] = NoClient]
    /\ known' = [known EXCEPT ![c] = urls]
    /\ UNCHANGED <<baseUrl, cache, built, clientResets>>

\* service_url: the discovered URL, else the environment's.
Resolved(v) == IF v # 0 /\ PeerUrl[v] # NoUrl THEN PeerUrl[v] ELSE EnvUrl

\* The call is over, and its locals with it.
Over(c) ==
    /\ build' = [build EXCEPT ![c] = "none"]
    /\ identity' = [identity EXCEPT ![c] = Unset]
    /\ options' = [options EXCEPT ![c] = Unset]
    /\ baseUrl' = [baseUrl EXCEPT ![c] = NoUrl]

\* With neither, env_first raises ConfigurationError.
Resolve(c) ==
    /\ build[c] = "looking"
    /\ Leave(c)
    /\ LET url == Resolved(result[c]) IN
          \/ /\ url = NoUrl
             /\ Over(c)
          \/ /\ url # NoUrl
             /\ baseUrl' = [baseUrl EXCEPT ![c] = url]
             /\ build' = [build EXCEPT ![c] = "resolved"]
             /\ UNCHANGED <<identity, options>>
    /\ UNCHANGED <<got, known, cache, built, clientResets>>

SameKey_NoUrl(k, i, u) == k.identity = i

\* cache_key: a cached client serves the calls of its identity and base URL,
\* with the options of the call that constructed it.
SameKey(k, i, u) == k.identity = i /\ k.url = u

Hits(c) == {k \in cache : SameKey(k, identity[c], baseUrl[c])}

\* The client _construct_client makes for c.
Made(c, id) == [identity |-> identity[c], options |-> options[c], url |-> baseUrl[c], id |-> id]

Return(c, k) ==
    /\ got' = [got EXCEPT ![c] = k]
    /\ Over(c)
    /\ UNCHANGED <<vars, known, clientResets>>

\* Under the cache lock: the cached client ...
Reuse(c) ==
    /\ build[c] = "resolved"
    /\ \E k \in Hits(c) : Return(c, k)
    /\ UNCHANGED <<cache, built>>

Construct_Unchecked(c) ==
    /\ build[c] = "resolved"
    /\ LET k == Made(c, built + 1) IN
          /\ cache' = (cache \ Hits(c)) \cup {k}
          /\ Return(c, k)
    /\ built < 2 * Cardinality(Identities) * MaxVersion
    /\ built' = built + 1

\* ... or one constructed while the lock is held.
Construct(c) ==
    /\ build[c] = "resolved"
    /\ Hits(c) = {}
    /\ LET k == Made(c, built + 1) IN
          /\ cache' = cache \cup {k}
          /\ Return(c, k)
    /\ built' = built + 1

\* cache=False: constructed without the lock, not remembered.
ConstructUncached(c) ==
    /\ build[c] = "resolved"
    /\ Return(c, Made(c, 0))
    /\ UNCHANGED <<cache, built>>

\* _construct_client raises ConfigurationError (no usable timeout): nothing is
\* cached and the lock is released.
ConstructRaises(c) ==
    /\ build[c] = "resolved"
    /\ Hits(c) = {}
    /\ Over(c)
    /\ UNCHANGED <<vars, got, known, cache, built, clientResets>>

\* reset_client_cache
ResetClients ==
    /\ clientResets < MaxClientResets
    /\ clientResets' = clientResets + 1
    /\ cache' = {}
    /\ UNCHANGED <<vars, locals, got, known, built>>

-----------------------------------------------------------------------------

BuildStep(c) == Resolve(c) \/ Reuse(c) \/ Construct(c) \/ ConstructUncached(c) \/ ConstructRaises(c)

\* The snapshot's own steps leave the factory alone.
SnapshotStep ==
    /\ \/ \E c \in Callers : build[c] = "looking" /\ (CurrentStep(c) \/ Read(c))
       \/ \E f \in Fetchers : FetchStep(f)
       \/ Reset \/ Expire \/ Move \/ Outage
    /\ UNCHANGED factory

FNext ==
    \/ \E c \in Callers : Begin(c) \/ BuildStep(c)
    \/ SnapshotStep
    \/ ResetClients

FSpec == FInit /\ [][FNext]_allVars

\* Threads run, time passes, and clients keep being asked for.
FFairSpec ==
    /\ FSpec
    /\ \A f \in Fetchers : WF_allVars(FetchStep(f) /\ UNCHANGED factory)
    /\ \A c \in Callers :
          /\ WF_allVars(Begin(c))
          /\ SF_allVars(CurrentStep(c) /\ UNCHANGED factory)
          /\ WF_allVars(Read(c) /\ UNCHANGED factory)
          /\ WF_allVars(BuildStep(c))
    /\ WF_allVars(Expire /\ UNCHANGED factory)

-----------------------------------------------------------------------------

FTypeOK ==
    /\ TypeOK
    /\ build \in [Callers -> {"none", "looking", "resolved"}]
    /\ identity \in [Callers -> Identities \cup {Unset}]
    /\ options \in [Callers -> Options \cup {Unset}]
    /\ baseUrl \in [Callers -> Urls]
    /\ got \in [Callers -> Clients \cup {NoClient}]
    /\ known \in [Callers -> Versions]
    /\ cache \subseteq Clients
    /\ built \in Nat
    /\ clientResets \in 0..MaxClientResets

\* A call never gets a client for an address the snapshot had already given up
\* when the call began, although clients are shared, outlive every move of the peer
\* and are looked up by an address resolved before the cache lock was taken.
ClientIsCurrent == \A c \in Callers :
    got[c] # NoClient => \E v \in known[c]..registry : got[c].url = Resolved(v)

\* Racing calls for one key share one connection pool, whatever their options: two
\* cached clients of one key are the same object unless the cache was reset in between.
OnePoolPerKey == \A c, d \in Callers :
    (clientResets = 0 /\ got[c].id # 0 /\ got[d].id # 0
        /\ got[c].identity = got[d].identity /\ got[c].url = got[d].url)
    => got[c] = got[d]

\* "an operator override reaches a running process without a restart": after the
\* registry settles, every client handed out is for the address it names.
OverrideReachesClients == \A v \in 1..MaxVersion :
    (<>[](registry = v /\ reachable))
        => <>[](\A c \in Callers : got[c] # NoClient => got[c].url = Resolved(v))
=============================================================================
