------------------------------- MODULE Tracing -------------------------------
(***************************************************************************)
(* netix_backend/observability/otel.py: configure() in a worker that       *)
(* boots.  manage.py and asgi.py both call it, the environment may be      *)
(* loaded in between, and an instrumentor may raise half way through.      *)
(***************************************************************************)
EXTENDS Naturals, FiniteSets

VARIABLES
    booting,      \* before the first request: middleware can still be changed
    configured,   \* _configured
    asked,        \* asked[i]: how often instrumentor i was set to work
    middleware    \* OTel's entry in settings.MIDDLEWARE: "absent", "upstream" or "async"

tracing == <<booting, configured, asked, middleware>>

-----------------------------------------------------------------------------

\* "sdk" stands for the tracer provider and its export thread, "optional" for
\* the instrumentors of psycopg, redis and httpx, which _instrument_optional lets
\* fail quietly.
Instrumentors == {"sdk", "django", "optional", "logging"}

\* What configure() finds: its switches, the packages, another's tracer
\* provider, and whether Django's settings can be read.
Environments == [enabled : BOOLEAN, exporter : {"otlp", "none"}, endpoint : BOOLEAN,
                 packages : BOOLEAN, foreign : BOOLEAN, django : BOOLEAN]

TracingInit ==
    /\ booting = TRUE
    /\ configured = FALSE
    /\ asked = [i \in Instrumentors |-> 0]
    /\ middleware = "absent"

\* The early returns.
StaysOff(e) == ~e.enabled \/ (e.exporter = "otlp" /\ ~e.endpoint) \/ ~e.packages

\* _init_sdk: never replaces a provider, and installs none for exporter "none".
InstallsSdk(e) == ~e.foreign /\ asked["sdk"] = 0 /\ e.exporter # "none"

\* DjangoInstrumentor().instrument() (external) adds the upstream middleware,
\* unless it is switched off or finds no settings.
DjangoInstrumented(e) == IF e.django THEN "upstream" ELSE middleware

UseAsync_Missing(m) == m

\* use_async_middleware: swaps upstream's entry.
UseAsync(m) == IF m = "upstream" THEN "async" ELSE m

\* What a configure() sets to work before stage s raises; "end" is no stage.
Reached(e, s) ==
    IF s = "sdk" THEN {}
    ELSE (IF InstallsSdk(e) THEN {"sdk"} ELSE {}) \cup (IF s = "django" THEN {"django"} ELSE Instrumentors \ {"sdk"})

Latch_AtTheEnd(s) == s = "end"

\* _configured is set before anything that may raise.
Latch(s) == TRUE

Asked(e, s) == [i \in Instrumentors |-> asked[i] + IF i \in Reached(e, s) THEN 1 ELSE 0]

\* One call that installs, up to the stage that raises.  A call that finds the
\* latch set or returns early changes nothing.
Configure ==
    /\ booting = TRUE
    /\ configured = FALSE
    /\ \E e \in Environments, s \in {"sdk", "django", "logging", "end"} :
          /\ ~StaysOff(e)
          /\ configured' = Latch(s)
          /\ asked' = Asked(e, s)
          /\ middleware' = IF s \in {"sdk", "django"} THEN middleware ELSE UseAsync(DjangoInstrumented(e))
    /\ UNCHANGED booting

\* The handler loads MIDDLEWARE, once, for the first request.
Boot ==
    /\ booting = TRUE
    /\ booting' = FALSE
    /\ UNCHANGED <<configured, asked, middleware>>

TracingNext == Configure \/ Boot

-----------------------------------------------------------------------------

TracingTypeOK ==
    /\ booting \in BOOLEAN
    /\ configured \in BOOLEAN
    /\ asked \in [Instrumentors -> Nat]
    /\ middleware \in {"absent", "upstream", "async"}

\* "a raising instrumentor cannot cause a double-instrument on retry": however
\* often configure() is called and wherever a call raised, no instrumentor is
\* set to work twice.
InstrumentedOnce == \A i \in Instrumentors : asked[i] <= 1
=============================================================================
