--------------------------- MODULE RequestTimeout ---------------------------
(***************************************************************************)
(* netix_backend/asgi/timeout.py: the wall-clock ceiling on requests.      *)
(*                                                                         *)
(* Each element of Requests is a slot that serves one request after the    *)
(* other.  A slot has two coroutines on one event loop: the middleware's   *)
(* __call__ (handler) and the wrapped application (app).  Code between two *)
(* awaits is atomic, so an action is what runs from one await to the next. *)
(***************************************************************************)
EXTENDS Naturals, Sequences, FiniteSets

CONSTANTS
    Requests,        \* request slots of the worker
    Methods,         \* HTTP methods clients use
    SafeMethods,     \* safe_methods: the methods under the ceiling
    CapEveryMethod,  \* safe_methods=None: every method is under the ceiling
    NeverShed,       \* never_shed: methods admitted whatever the load
    MaxAbandoned     \* max_abandoned

ASSUME TimeoutAssumption ==
    /\ SafeMethods \subseteq Methods
    /\ NeverShed \subseteq Methods
    /\ CapEveryMethod \in BOOLEAN
    /\ MaxAbandoned \in Nat
    /\ "none" \notin Methods

VARIABLES
    scope,      \* scope[r]: type and method of the request in slot r
    handler,    \* handler[r]: where __call__ is suspended
    app,        \* app[r]: where the wrapped application is
    started,    \* channel.started
    abandoned,  \* channel.abandoned
    pool,       \* self._abandoned, the tasks nobody awaits
    wire        \* wire[r]: the messages that reached the server, in order

vars == <<scope, handler, app, started, abandoned, pool, wire>>

-----------------------------------------------------------------------------

\* A websocket or lifespan scope carries no method.
Scopes == {[type |-> "http", method |-> m] : m \in Methods}
             \cup {[type |-> "websocket", method |-> "none"]}

Authors == {"app", "timeout", "overloaded", "server"}

Start(a) == [type |-> "start", by |-> a]
Body(a)  == [type |-> "body", by |-> a]
Messages == {Start(a) : a \in Authors} \cup {Body(a) : a \in Authors}

HandlerStates == {"idle", "direct", "waiting", "streaming", "shedHead",
                  "shedBody", "timeoutHead", "timeoutBody", "returned", "raised"}
AppStates == {"absent", "computing", "sendingHead", "headSent", "sendingBody",
              "sent", "done", "failed"}

HandlerOver(r) == handler[r] \in {"returned", "raised"}
AppOver(r)     == app[r] \in {"done", "failed"}
AppLive(r)     == app[r] \notin {"absent", "done", "failed"}

Init ==
    /\ scope \in [Requests -> Scopes]
    /\ handler = [r \in Requests |-> "idle"]
    /\ app = [r \in Requests |-> "absent"]
    /\ started = [r \in Requests |-> FALSE]
    /\ abandoned = [r \in Requests |-> FALSE]
    /\ pool = {}
    /\ wire = [r \in Requests |-> <<>>]

-----------------------------------------------------------------------------
\* The middleware's __call__.

\* is_capped(method), for the scope types the ceiling looks at.
IsCapped(s) == CapEveryMethod \/ s.method \in SafeMethods

Watches(r) == scope[r].type = "http" /\ IsCapped(scope[r])

Overloaded == Cardinality(pool) >= MaxAbandoned

\* Not capped: the application runs inside __call__ on the server's own send.
PassThrough(r) ==
    /\ handler[r] = "idle"
    /\ ~Watches(r)
    /\ handler' = [handler EXCEPT ![r] = "direct"]
    /\ app' = [app EXCEPT ![r] = "computing"]
    /\ UNCHANGED <<scope, started, abandoned, pool, wire>>

Shed_WithRoom(r) ==
    /\ handler[r] = "idle"
    /\ Watches(r)
    /\ scope[r].method \notin NeverShed
    /\ Cardinality(pool) + 1 >= MaxAbandoned
    /\ handler' = [handler EXCEPT ![r] = "shedHead"]
    /\ UNCHANGED <<scope, app, started, abandoned, pool, wire>>

\* Too much abandoned work: answer 503 without running the application.
Shed(r) ==
    /\ handler[r] = "idle"
    /\ Watches(r)
    /\ scope[r].method \notin NeverShed
    /\ Overloaded
    /\ handler' = [handler EXCEPT ![r] = "shedHead"]
    /\ UNCHANGED <<scope, app, started, abandoned, pool, wire>>

\* Run the application as a task behind a _ResponseChannel and wait for it.
Watch(r) ==
    /\ handler[r] = "idle"
    /\ Watches(r)
    /\ scope[r].method \in NeverShed \/ ~Overloaded
    /\ handler' = [handler EXCEPT ![r] = "waiting"]
    /\ app' = [app EXCEPT ![r] = "computing"]
    /\ UNCHANGED <<scope, started, abandoned, pool, wire>>

Collect_TaskOutcome(r) ==
    /\ handler[r] \in {"direct", "waiting", "streaming"}
    /\ AppOver(r)
    /\ handler' = [handler EXCEPT ![r] = app[r]]
    /\ UNCHANGED <<scope, app, started, abandoned, pool, wire>>

\* The awaited application is over: return its result or re-raise its error.
Collect(r) ==
    /\ handler[r] \in {"direct", "waiting", "streaming"}
    /\ AppOver(r)
    /\ handler' = [handler EXCEPT ![r] = IF app[r] = "done" THEN "returned" ELSE "raised"]
    /\ UNCHANGED <<scope, app, started, abandoned, pool, wire>>

\* asyncio.wait gave up.  Nothing is read between the timer and this step, so the
\* application may have started its answer, or ended (then Collect applies), since.
TimeoutStarted(r) ==
    /\ handler[r] = "waiting"
    /\ ~AppOver(r)
    /\ started[r]
    /\ handler' = [handler EXCEPT ![r] = "streaming"]
    /\ UNCHANGED <<scope, app, started, abandoned, pool, wire>>

TimeoutAbandon_NotCounted(r) ==
    /\ handler[r] = "waiting"
    /\ ~AppOver(r)
    /\ ~started[r]
    /\ abandoned' = [abandoned EXCEPT ![r] = TRUE]
    /\ handler' = [handler EXCEPT ![r] = "timeoutHead"]
    /\ UNCHANGED <<scope, app, started, pool, wire>>

TimeoutAbandon_NoTimer(r) ==
    /\ handler[r] = "waiting"
    /\ AppOver(r)
    /\ ~started[r]
    /\ handler' = [handler EXCEPT ![r] = "timeoutHead"]
    /\ UNCHANGED <<scope, app, started, abandoned, pool, wire>>

\* Mute the channel, count the task as abandoned (_abandon) and answer 504.
TimeoutAbandon(r) ==
    /\ handler[r] = "waiting"
    /\ ~AppOver(r)
    /\ ~started[r]
    /\ abandoned' = [abandoned EXCEPT ![r] = TRUE]
    /\ pool' = pool \cup {r}
    /\ handler' = [handler EXCEPT ![r] = "timeoutHead"]
    /\ UNCHANGED <<scope, app, started, wire>>

\* _reply: two awaited sends, straight to the server.
Reply(r) ==
    /\ \/ /\ handler[r] = "shedHead"
          /\ handler' = [handler EXCEPT ![r] = "shedBody"]
          /\ wire' = [wire EXCEPT ![r] = Append(@, Start("overloaded"))]
       \/ /\ handler[r] = "shedBody"
          /\ handler' = [handler EXCEPT ![r] = "returned"]
          /\ wire' = [wire EXCEPT ![r] = Append(@, Body("overloaded"))]
       \/ /\ handler[r] = "timeoutHead"
          /\ handler' = [handler EXCEPT ![r] = "timeoutBody"]
          /\ wire' = [wire EXCEPT ![r] = Append(@, Start("timeout"))]
       \/ /\ handler[r] = "timeoutBody"
          /\ handler' = [handler EXCEPT ![r] = "returned"]
          /\ wire' = [wire EXCEPT ![r] = Append(@, Body("timeout"))]
    /\ UNCHANGED <<scope, app, started, abandoned, pool>>

LateFinish_OnlySuccess(r) ==
    /\ r \in pool
    /\ app[r] = "done"
    /\ pool' = pool \ {r}
    /\ UNCHANGED <<scope, handler, app, started, abandoned, wire>>

\* log_late_finish, the done callback of an abandoned task; the loop calls it
\* some time after the task is over.
LateFinish(r) ==
    /\ r \in pool
    /\ AppOver(r)
    /\ pool' = pool \ {r}
    /\ UNCHANGED <<scope, handler, app, started, abandoned, wire>>

-----------------------------------------------------------------------------
\* The wrapped application, seen through the send it was given.

AppSend_StartedByBody(r) ==
    /\ \/ /\ app[r] = "computing"
          /\ app' = [app EXCEPT ![r] = IF abandoned[r] THEN "headSent" ELSE "sendingHead"]
          /\ UNCHANGED started
       \/ /\ app[r] = "headSent"
          /\ app' = [app EXCEPT ![r] = IF abandoned[r] THEN "sent" ELSE "sendingBody"]
          /\ started' = [started EXCEPT ![r] = @ \/ (~abandoned[r] /\ handler[r] # "direct")]
    /\ UNCHANGED <<scope, handler, abandoned, pool, wire>>

\* channel.send up to its await: a muted channel drops the message, and the
\* head marks the channel started before the server's send is awaited.  A
\* direct request has no channel; its started flag is never read.
AppSend(r) ==
    /\ \/ /\ app[r] = "computing"
          /\ app' = [app EXCEPT ![r] = IF abandoned[r] THEN "headSent" ELSE "sendingHead"]
          /\ started' = [started EXCEPT ![r] = @ \/ (~abandoned[r] /\ handler[r] # "direct")]
       \/ /\ app[r] = "headSent"
          /\ app' = [app EXCEPT ![r] = IF abandoned[r] THEN "sent" ELSE "sendingBody"]
          /\ UNCHANGED started
    /\ UNCHANGED <<scope, handler, abandoned, pool, wire>>

\* The server's send gets past its flow control and writes the message.
AppWrite(r) ==
    /\ \/ /\ app[r] = "sendingHead"
          /\ app' = [app EXCEPT ![r] = "headSent"]
          /\ wire' = [wire EXCEPT ![r] = Append(@, Start("app"))]
       \/ /\ app[r] = "sendingBody"
          /\ app' = [app EXCEPT ![r] = "sent"]
          /\ wire' = [wire EXCEPT ![r] = Append(@, Body("app"))]
    /\ UNCHANGED <<scope, handler, started, abandoned, pool>>

\* The application returns (even unanswered, as Django does on a disconnect) ...
AppReturn(r) ==
    /\ app[r] \in {"computing", "headSent", "sent"}
    /\ app' = [app EXCEPT ![r] = "done"]
    /\ UNCHANGED <<scope, handler, started, abandoned, pool, wire>>

\* ... or raises or is cancelled, suspended in a send or not.
AppFail(r) ==
    /\ AppLive(r)
    /\ app' = [app EXCEPT ![r] = "failed"]
    /\ UNCHANGED <<scope, handler, started, abandoned, pool, wire>>

-----------------------------------------------------------------------------
\* The ASGI server around the middleware.

\* A handler that ended without a response head: the server answers 500.
ServerError(r) ==
    /\ HandlerOver(r)
    /\ wire[r] = <<>>
    /\ wire' = [wire EXCEPT ![r] = <<Start("server"), Body("server")>>]
    /\ UNCHANGED <<scope, handler, app, started, abandoned, pool>>

\* The slot takes the next request, any one, once nothing of the last is left.
NextRequest(r) ==
    /\ HandlerOver(r)
    /\ wire[r] # <<>>
    /\ ~AppLive(r)
    /\ r \notin pool
    /\ \E s \in Scopes : scope' = [scope EXCEPT ![r] = s]
    /\ handler' = [handler EXCEPT ![r] = "idle"]
    /\ app' = [app EXCEPT ![r] = "absent"]
    /\ started' = [started EXCEPT ![r] = FALSE]
    /\ abandoned' = [abandoned EXCEPT ![r] = FALSE]
    /\ wire' = [wire EXCEPT ![r] = <<>>]
    /\ UNCHANGED pool

-----------------------------------------------------------------------------

Call(r) == PassThrough(r) \/ Shed(r) \/ Watch(r)

HandlerStep(r) == Collect(r) \/ TimeoutStarted(r) \/ TimeoutAbandon(r) \/ Reply(r)

AppStep(r) == AppSend(r) \/ AppReturn(r) \/ AppFail(r)

Next == \E r \in Requests :
    \/ Call(r) \/ HandlerStep(r) \/ LateFinish(r)
    \/ AppStep(r) \/ AppWrite(r)
    \/ ServerError(r) \/ NextRequest(r)

Spec == Init /\ [][Next]_vars

\* The event loop runs ready callbacks and timers, and the server's send ends;
\* the application is free to hang.
LoopFairness == \A r \in Requests :
    /\ WF_vars(HandlerStep(r))
    /\ WF_vars(LateFinish(r))
    /\ WF_vars(AppWrite(r))
    /\ WF_vars(ServerError(r))

FairSpec == Spec /\ LoopFairness

-----------------------------------------------------------------------------

TypeOK ==
    /\ scope \in [Requests -> Scopes]
    /\ handler \in [Requests -> HandlerStates]
    /\ app \in [Requests -> AppStates]
    /\ started \in [Requests -> BOOLEAN]
    /\ abandoned \in [Requests -> BOOLEAN]
    /\ pool \in SUBSET Requests
    /\ wire \in [Requests -> Seq(Messages)]

\* A client never sees two answers mixed: whatever reached the server for one
\* request is a prefix of one head and one body by the same author, although
\* application, 504, 503 and server errors all write to the same send.
OneResponse == \A r \in Requests :
    \/ wire[r] = <<>>
    \/ \E a \in Authors : wire[r] \in {<<Start(a)>>, <<Start(a), Body(a)>>}

\* No application task runs on after its request has been answered and its
\* handler has returned without being counted in _abandoned, the number the
\* shedding decision reads; and what is counted there has been muted.
UnwatchedIsCounted == \A r \in Requests :
    /\ HandlerOver(r) /\ AppLive(r) => r \in pool
    /\ r \in pool => abandoned[r] /\ ~started[r]

\* A 504 or 503 is retryable, so a request that may write is never answered one
\* and never loses its watcher: retrying it would turn one write into two.
WritesNeverTimedOut == \A r \in Requests :
    (scope[r].type # "http" \/ (~CapEveryMethod /\ scope[r].method \notin SafeMethods))
        => /\ \A i \in 1..Len(wire[r]) : wire[r][i].by \in {"app", "server"}
           /\ AppLive(r) => handler[r] = "direct"

\* Every watched request gets an answer, whatever the application does: it is
\* enough that the loop and the server run.
WatchedIsAnswered == \A r \in Requests : handler[r] = "waiting" ~> wire[r] # <<>>

\* Application tasks end some day (asgiref waits out their threads), and requests
\* that are exempt from shedding never hang: preflights reach no view.
AppsEnd == \A r \in Requests : []<>~AppLive(r)
ExemptNeverHang == [](\A r \in Requests : scope[r].method \in NeverShed => ~abandoned[r])

\* Shedding ends: once the worker refuses requests, abandoned work drains, also
\* when it failed or was cancelled, and the worker accepts again.
SheddingEnds == AppsEnd /\ ExemptNeverHang => (Overloaded ~> ~Overloaded)

\* Who answers r: settled for the middleware's own answers when it stops waiting
\* or refuses, for the others when the first message is written.
AnsweredBy(r) ==
    IF wire[r] # <<>> THEN wire[r][1].by
    ELSE IF handler[r] = "shedHead" THEN "overloaded"
    ELSE IF abandoned[r] THEN "timeout" ELSE "nobody"

KindOf(r) == IF ~Watches(r) THEN "open" ELSE IF scope[r].method \in NeverShed THEN "exempt" ELSE "capped"

Contract == INSTANCE AnswerContract WITH
    Limit <- MaxAbandoned,
    kind <- [r \in Requests |-> KindOf(r)],
    author <- [r \in Requests |-> AnsweredBy(r)],
    sent <- [r \in Requests |-> Len(wire[r])],
    orphans <- pool

\* The middleware implements AnswerContract: the author of an answer is settled
\* once, a 503 is only decided at the limit, a 504 always counts its orphan, and
\* a slot is never reused while its application runs on.
ImplementsContract == Contract!Spec
=============================================================================
