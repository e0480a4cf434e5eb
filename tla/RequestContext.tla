--------------------------- MODULE RequestContext ---------------------------
(***************************************************************************)
(* Who a change is attributed to, and which span a request runs in: the    *)
(* actor context of netix_backend/django/change_history.py, its use by     *)
(* django/serializers.py, and the tracing middleware of                    *)
(* observability/otel_middleware.py, in a worker booted by Tracing.        *)
(*                                                                         *)
(* A context is a thread, which serves one request or job after the other  *)
(* in the same Context object, or a task of the event loop, which has a    *)
(* copy of its own.  stack[x] holds the blocks (with statements and        *)
(* middleware calls) that x is inside; they are left innermost first, by   *)
(* returning, by an exception or by cancellation.                          *)
(***************************************************************************)
EXTENDS Tracing, Sequences, SequencesExt

CONSTANTS
    Threads,     \* threads that outlive what they serve
    Tasks,       \* slots for tasks of the event loop
    Users,       \* who requests and jobs act for
    RawReasons,  \* what callers state as change_reason
    BlankReason, \* what normalize_reason makes of nothing and of white space
    MaxDepth,    \* bound on nested bindings
    MaxCopies,   \* bound on sync_to_async calls of one request
    MaxLost      \* bound on failures of OTel's own hooks

ASSUME ContextAssumption ==
    /\ Threads \cap Tasks = {}
    /\ {"nobody", "system"} \cap Users = {}
    /\ IsFiniteSet(Threads) /\ IsFiniteSet(Tasks)
    /\ MaxDepth \in Nat \ {0} /\ MaxCopies \in Nat /\ MaxLost \in Nat

Contexts == Threads \cup Tasks

VARIABLES
    current,    \* current[x]: _current_actor in x
    stack,      \* stack[x]: the open blocks of x
    home,       \* home[x]: the Context object x's code runs in: 1, or 1 more than a copy's number
    copies,     \* copies[x]: copies asgiref has made for x so far
    kept,       \* kept[x]: the token a view kept of its set_actor
    unwinding,  \* unwinding[x]: x was cancelled
    loop,       \* "running", or "wedged": the event loop waits for a thread that waits for it
    gauge,      \* OTel's active-request counter (external)
    lost        \* spans whose hooks raised and that were given up

context == <<current, stack, home, copies, kept, unwinding>>
spans == <<loop, gauge, lost>>
vars == <<tracing, context, spans>>

-----------------------------------------------------------------------------

normalize_reason_AsGiven(r) == r

\* "absent" and "spaces" collapse to the empty string.
normalize_reason(r) == IF r \in {"absent", "spaces"} THEN BlankReason ELSE r

\* A ChangeActor; Nobody is None.
Actor(who, r) == [who |-> who, reason |-> normalize_reason(r)]
Nobody == [who |-> "nobody", reason |-> BlankReason]
System == [who |-> "system", reason |-> BlankReason]

OrSystem(a) == IF a = Nobody THEN System ELSE a

\* get_actor(): what a save in context x is attributed to.
get_actor(x) == OrSystem(current[x])

Token(x) == [value |-> current[x], home |-> home[x]]
NoToken == [value |-> Nobody, home |-> 0]

ResetTo_Stale(t, x) == IF t.home = home[x] THEN t.value ELSE current[x]

\* reset_actor(t): restores what t remembers; a token of another Context object
\* raises ValueError and the actor is cleared instead.
ResetTo(t, x) == IF t.home = home[x] THEN t.value ELSE Nobody

\* A block remembers its token and, for the properties only, the actor that the
\* code inside it is meant to act for.
Block(k, t, a) == [kind |-> k, token |-> t, meant |-> a]

Top(x) == Last(stack[x])
Idle(x) == stack[x] = <<>>
Bindings(x) == {i \in DOMAIN stack[x] : stack[x][i].token # NoToken}
Inside(x, k) == \E i \in DOMAIN stack[x] : stack[x][i].kind = k

\* x executes code: it is not being unwound, nor a task of a loop that is stuck.
Runs(x) == ~booting /\ ~unwinding[x] /\ (x \in Tasks => loop = "running")

Meant(x) == IF Idle(x) THEN Nobody ELSE Top(x).meant

Init ==
    /\ TracingInit
    /\ current = [x \in Contexts |-> Nobody]
    /\ stack = [x \in Contexts |-> <<>>]
    /\ home = [x \in Contexts |-> 1]
    /\ copies = [x \in Contexts |-> 0]
    /\ kept = [x \in Contexts |-> NoToken]
    /\ unwinding = [x \in Contexts |-> FALSE]
    /\ loop = "running"
    /\ gauge = 0
    /\ lost = 0

-----------------------------------------------------------------------------

\* Enter a block that binds a, whose code is meant to act for m.
Bind(x, k, a, m) ==
    /\ Runs(x)
    /\ Cardinality(Bindings(x)) < MaxDepth
    /\ stack' = [stack EXCEPT ![x] = Append(@, Block(k, Token(x), m))]
    /\ current' = [current EXCEPT ![x] = a]
    /\ UNCHANGED <<tracing, home, copies, kept, unwinding, spans>>

\* A request passes the tracing middleware's process_request, if it is mounted,
\* and then ChangeHistoryActorMiddleware, which binds what resolve_actor finds:
\* nobody unless a service overrides it.
Request(x) ==
    /\ Idle(x)
    /\ Runs(x)
    /\ \E a \in {Nobody} \cup {Actor(u, "absent") : u \in Users} :
          LET traced == IF middleware = "absent" THEN <<>> ELSE <<Block("trace", NoToken, Nobody)>>
          IN  /\ stack' = [stack EXCEPT ![x] = Append(traced, Block("middleware", Token(x), a))]
              /\ current' = [current EXCEPT ![x] = a]
    /\ gauge' = IF middleware = "absent" THEN gauge ELSE gauge + 1
    /\ UNCHANGED <<tracing, home, copies, kept, unwinding, loop, lost>>

\* The hooks of a view run inside the middleware, perhaps in asgiref's copy.
InHook(x) == Runs(x) /\ ~Idle(x) /\ Top(x).kind \in {"middleware", "copy"} /\ Inside(x, "middleware")

Means(x, a) == [stack EXCEPT ![x][Len(stack[x])].meant = a]

\* A viewset's initial() binds the user, with the reason of a DELETE's query
\* (reason_from_query), and may keep the token.
SetActor(x) ==
    /\ InHook(x)
    /\ kept[x] = NoToken
    /\ \E u \in Users, r \in RawReasons :
          /\ current' = [current EXCEPT ![x] = Actor(u, r)]
          /\ stack' = Means(x, Actor(u, r))
    /\ kept' = [kept EXCEPT ![x] = Token(x)]
    /\ UNCHANGED <<tracing, home, copies, unwinding, spans>>

\* A later hook gives the token back, in the same Context object or another.
ResetActor(x) ==
    /\ InHook(x)
    /\ kept[x] # NoToken
    /\ current' = [current EXCEPT ![x] = ResetTo(kept[x], x)]
    /\ stack' = Means(x, kept[x].value)
    /\ kept' = [kept EXCEPT ![x] = NoToken]
    /\ UNCHANGED <<tracing, home, copies, unwinding, spans>>

\* actor_context, on a job's thread or inside a request; without a user it binds
\* a system actor with a reason.
actor_context(x) == \E who \in Users \cup {"system"}, r \in RawReasons :
    Bind(x, "actor", Actor(who, r), Actor(who, r))

\* The bound actor with another reason: whoever is acting stays.
WithReason(a, r) == [OrSystem(a) EXCEPT !.reason = normalize_reason(r)]

\* reason_context, entered by a job or a view itself ...
reason_context(x) == \E r \in RawReasons :
    ~Idle(x) /\ Bind(x, "reason", WithReason(current[x], r), [OrSystem(Meant(x)) EXCEPT !.reason = normalize_reason(r)])

\* ... or by ChangeHistorySerializerMixin.save() when validate() popped a
\* change_reason; without one it saves as the bound actor, which is no block.
SerializerSave(x) == \E r \in RawReasons :
    /\ InHook(x)
    /\ normalize_reason(r) # BlankReason
    /\ Bind(x, "save", WithReason(current[x], r), [OrSystem(Meant(x)) EXCEPT !.reason = r])

\* sync_to_async (external): the code goes on in a fresh copy of the context, in
\* a thread, and the task waits for it.
EnterCopy(x) ==
    /\ x \in Tasks
    /\ Runs(x)
    /\ ~Idle(x)
    /\ Top(x).kind = "middleware"
    /\ copies[x] < MaxCopies
    /\ copies' = [copies EXCEPT ![x] = @ + 1]
    /\ home' = [home EXCEPT ![x] = copies[x] + 2]
    /\ stack' = [stack EXCEPT ![x] = Append(@, Block("copy", NoToken, Meant(x)))]
    /\ UNCHANGED <<tracing, current, kept, unwinding, spans>>

\* A task started from x inherits a copy of x's context and may outlive x.
SpawnTask(x, y) ==
    /\ Runs(x) /\ ~Idle(x)
    /\ y \in Tasks /\ Idle(y) /\ Runs(y)
    /\ current' = [current EXCEPT ![y] = current[x]]
    /\ stack' = [stack EXCEPT ![y] = <<Block("spawned", NoToken, Meant(x))>>]
    /\ copies' = [copies EXCEPT ![y] = copies[x]]
    /\ UNCHANGED <<tracing, home, kept, unwinding, spans>>

\* A client hangs up or a probe times out: Django cancels the request's task at
\* its await; asgiref waits out a thread first.  Below upstream's sync-only
\* middleware the loop joins the thread that waits for the loop: so asgiref before
\* 3.12, the worst case, which the exchange of middlewares was made for.
Cancel(x) ==
    /\ x \in Tasks
    /\ Runs(x)
    /\ ~Idle(x) /\ ~Inside(x, "copy")
    /\ unwinding' = [unwinding EXCEPT ![x] = TRUE]
    /\ loop' = IF middleware = "upstream" /\ Inside(x, "trace") THEN "wedged" ELSE loop
    /\ UNCHANGED <<tracing, current, stack, home, copies, kept, gauge, lost>>

-----------------------------------------------------------------------------
\* Leaving the innermost block, by returning or by an exception: every block
\* gives its token back in a finally clause.

\* The context once the last block is left: a task's context is gone.
Pop(x, a) ==
    LET left == Front(stack[x])
        over == left = <<>>
    IN  /\ stack' = [stack EXCEPT ![x] = left]
        /\ current' = [current EXCEPT ![x] = IF over /\ x \in Tasks THEN Nobody ELSE a]
        /\ copies' = [copies EXCEPT ![x] = IF over THEN 0 ELSE @]
        /\ kept' = [kept EXCEPT ![x] = IF over THEN NoToken ELSE @]
        /\ unwinding' = [unwinding EXCEPT ![x] = @ /\ ~over]

MayLeave(x) == ~Idle(x) /\ (x \in Tasks => loop = "running")

LeaveBinding(x) ==
    /\ MayLeave(x)
    /\ Top(x).kind \in {"middleware", "actor", "reason", "save"}
    /\ Pop(x, ResetTo(Top(x).token, x))
    /\ UNCHANGED <<tracing, home, spans>>

LeaveSpawned(x) ==
    /\ MayLeave(x)
    /\ Top(x).kind = "spawned"
    /\ Pop(x, current[x])
    /\ UNCHANGED <<tracing, home, spans>>

\* Back in the task's own context: asgiref copies the values back.
LeaveCopy(x) ==
    /\ MayLeave(x)
    /\ Top(x).kind = "copy"
    /\ home' = [home EXCEPT ![x] = 1]
    /\ stack' = [stack EXCEPT ![x] = [Front(@) EXCEPT ![Len(stack[x]) - 1].meant = Meant(x)]]
    /\ UNCHANGED <<tracing, current, copies, kept, unwinding, spans>>

CloseSpan_NotOnCancel(x) ==
    /\ MayLeave(x)
    /\ Top(x).kind = "trace"
    /\ Pop(x, current[x])
    /\ gauge' = IF unwinding[x] THEN gauge ELSE gauge - 1
    /\ UNCHANGED <<tracing, home, loop, lost>>

\* process_response ends the span: with the view's status, or with 499 when the
\* request was cancelled.
CloseSpan(x) ==
    /\ MayLeave(x)
    /\ Top(x).kind = "trace"
    /\ Pop(x, current[x])
    /\ gauge' = gauge - 1
    /\ UNCHANGED <<tracing, home, loop, lost>>

\* process_exception raises before a cancelled request's span is closed: logged,
\* and the cancellation goes on.
LoseSpan(x) ==
    /\ MayLeave(x)
    /\ Top(x).kind = "trace"
    /\ unwinding[x]
    /\ lost < MaxLost
    /\ lost' = lost + 1
    /\ Pop(x, current[x])
    /\ UNCHANGED <<tracing, home, loop, gauge>>

-----------------------------------------------------------------------------

LeaveStep(x) == LeaveBinding(x) \/ LeaveSpawned(x) \/ LeaveCopy(x) \/ CloseSpan(x) \/ LoseSpan(x)

ContextStep(x) ==
    \/ Request(x) \/ SetActor(x) \/ ResetActor(x)
    \/ actor_context(x) \/ reason_context(x) \/ SerializerSave(x)
    \/ EnterCopy(x) \/ Cancel(x) \/ LeaveStep(x)
    \/ \E y \in Tasks : SpawnTask(x, y)

Next ==
    \/ TracingNext /\ UNCHANGED <<context, spans>>
    \/ \E x \in Contexts : ContextStep(x)

Spec == Init /\ [][Next]_vars

\* The event loop and the threads run: what is being unwound goes on.
FairSpec == Spec /\ \A x \in Contexts : WF_vars(unwinding[x] /\ LeaveStep(x))

-----------------------------------------------------------------------------

Actors == [who : Users \cup {"nobody", "system"}, reason : RawReasons \cup {BlankReason}]
Tokens == [value : Actors, home : 0..(MaxCopies + 1)]
Blocks == [kind : {"trace", "middleware", "actor", "reason", "save", "copy", "spawned"},
           token : Tokens, meant : Actors]

TypeOK ==
    /\ TracingTypeOK
    /\ current \in [Contexts -> Actors]
    /\ stack \in [Contexts -> Seq(Blocks)]
    /\ \A x \in Contexts : Len(stack[x]) <= MaxDepth + 2
    /\ home \in [Contexts -> 1..(MaxCopies + 1)]
    /\ copies \in [Contexts -> 0..MaxCopies]
    /\ kept \in [Contexts -> Tokens]
    /\ unwinding \in [Contexts -> BOOLEAN]
    /\ loop \in {"running", "wedged"}
    /\ gauge \in Nat
    /\ lost \in 0..MaxLost

\* A save is attributed to the actor, and carries the reason, that the blocks
\* around it ask for, however requests, jobs, nested blocks and spawned tasks
\* follow one another in a context.  Where a token crossed a thread boundary
\* ("clearing is the safe floor") it may be the system's, never another user's.
\* Between two requests or jobs a thread holds nobody's identity, also when a
\* view bound a user and never unbound it.
SavesAreAttributed == \A x \in Contexts :
    /\ Idle(x) => current[x] = Nobody
    /\ ~Idle(x) /\ Top(x).kind # "trace" =>
         \/ get_actor(x) = OrSystem(Meant(x))
         \/ /\ copies[x] > 0
            /\ get_actor(x).who = "system"
            /\ get_actor(x).reason \in {BlankReason, OrSystem(Meant(x)).reason}

\* The active-request gauge counts the requests that are inside the tracing
\* middleware, hang-ups included, apart from those whose own hooks failed.
GaugeCountsRequests == gauge = Cardinality({x \in Contexts : Inside(x, "trace")}) + lost

\* A hang-up never wedges the worker: wherever configure() stopped, a cancelled
\* request is unwound to its end.
CancelledEnds == \A x \in Contexts : unwinding[x] ~> Idle(x)
=============================================================================
