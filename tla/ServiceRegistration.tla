------------------------ MODULE ServiceRegistration ------------------------
(***************************************************************************)
(* netix_backend/asgi/registration.py: a process announces itself to       *)
(* update-service once, from a background thread, and then keeps the       *)
(* entry alive with a heartbeat thread.                                    *)
(*                                                                         *)
(* Callers are request threads in trigger_service_registration.  A member  *)
(* of Threads is one registration thread followed by the heartbeat thread  *)
(* it starts.  Generation g is the time between two resets of the latch;   *)
(* the stop event of generation g is set exactly when g < generation.      *)
(***************************************************************************)
EXTENDS Naturals, FiniteSets

CONSTANTS
    Callers,        \* request threads
    Threads,        \* registration threads the run may start, 1..n
    Attempts,       \* len(retry_delays)
    InitialEnv,     \* environments the process may boot with
    MaxEnvChanges,  \* bound on changes of os.environ
    MaxResets       \* bound on reset_registration_state calls

ASSUME RegistrationAssumption ==
    /\ Attempts \in Nat \ {0}
    /\ MaxEnvChanges \in Nat
    /\ MaxResets \in Nat

VARIABLES
    env,         \* what the environment variables say, see Envs
    changes,     \* environment changes so far
    started,     \* _registration_state["started"]
    generation,  \* resets so far; names the current _heartbeat_stop["event"]
    caller,      \* caller[c]: where trigger_service_registration is
    latched,     \* latched[c]: the generation whose latch c took
    thread,      \* thread[t]: where the registration or heartbeat thread is
    born,        \* born[t]: the generation whose latch started t
    attempt,     \* attempt[t]: 1-based attempt of register()
    stop,        \* stop[t]: the event the heartbeat of t waits on
    up,          \* whether update-service accepts a PUT (external)
    live         \* whether update-service lists this service (external)

vars == <<env, changes, started, generation, caller, latched, thread, born,
          attempt, stop, up, live>>

-----------------------------------------------------------------------------

\* enabled: SERVICE_REGISTRATION_ENABLED; complete: no variable is missing;
\* beat: the heartbeat interval is above zero.
Envs == [enabled : BOOLEAN, complete : BOOLEAN, beat : BOOLEAN]

ASSUME EnvAssumption == InitialEnv \subseteq Envs

Generations == 0..MaxResets

\* registration_payload() is not None
Payload == env.enabled /\ env.complete

CallerStates == {"idle", "enabled", "latched"}
ThreadStates == {"absent", "begin", "register", "attempt", "startHeartbeat",
                 "waiting", "beating", "ended"}

Init ==
    /\ env \in InitialEnv
    /\ changes = 0
    /\ started = FALSE
    /\ generation = 0
    /\ caller = [c \in Callers |-> "idle"]
    /\ latched = [c \in Callers |-> 0]
    /\ thread = [t \in Threads |-> "absent"]
    /\ born = [t \in Threads |-> 0]
    /\ attempt = [t \in Threads |-> 1]
    /\ stop = [t \in Threads |-> 0]
    /\ up \in BOOLEAN
    /\ live = FALSE

registry == <<up, live>>
process == <<started, generation>>
callers == <<caller, latched>>
threads == <<thread, born, attempt, stop>>

-----------------------------------------------------------------------------
\* trigger_service_registration, from any number of request threads.

\* The cheap check before the lock.
Trigger(c) ==
    /\ caller[c] = "idle"
    /\ env.enabled
    /\ caller' = [caller EXCEPT ![c] = "enabled"]
    /\ UNCHANGED <<env, changes, process, latched, threads, registry>>

Latch_Unchecked(c) ==
    /\ caller[c] = "enabled"
    /\ started' = TRUE
    /\ latched' = [latched EXCEPT ![c] = generation]
    /\ caller' = [caller EXCEPT ![c] = "latched"]
    /\ UNCHANGED <<env, changes, generation, threads, registry>>

\* The locked section: only the caller that finds the latch open goes on.
Latch(c) ==
    /\ caller[c] = "enabled"
    /\ started' = TRUE
    /\ IF started
       THEN /\ caller' = [caller EXCEPT ![c] = "idle"]
            /\ UNCHANGED latched
       ELSE /\ caller' = [caller EXCEPT ![c] = "latched"]
            /\ latched' = [latched EXCEPT ![c] = generation]
    /\ UNCHANGED <<env, changes, generation, threads, registry>>

\* The thread is started after the lock was released.
Spawn(c) ==
    /\ caller[c] = "latched"
    /\ \E t \in Threads :
          /\ thread[t] = "absent"
          /\ \A u \in Threads : u < t => thread[u] # "absent"
          /\ thread' = [thread EXCEPT ![t] = "begin"]
          /\ born' = [born EXCEPT ![t] = latched[c]]
    /\ caller' = [caller EXCEPT ![c] = "idle"]
    /\ UNCHANGED <<env, changes, process, latched, attempt, stop, registry>>

\* reset_registration_state: open the latch, set the event, make a new one.
Reset ==
    /\ generation < MaxResets
    /\ started' = FALSE
    /\ generation' = generation + 1
    /\ UNCHANGED <<env, changes, callers, threads, registry>>

-----------------------------------------------------------------------------
\* _register_and_heartbeat, on its own thread.

\* The outer payload check: an under-configured service starts no heartbeat.
Begin(t) ==
    /\ thread[t] = "begin"
    /\ thread' = [thread EXCEPT ![t] = IF Payload THEN "register" ELSE "ended"]
    /\ UNCHANGED <<env, changes, process, callers, born, attempt, stop, registry>>

\* register() reads the payload again and gives up without it.
Register(t) ==
    /\ thread[t] = "register"
    /\ thread' = [thread EXCEPT ![t] = IF Payload THEN "attempt" ELSE "startHeartbeat"]
    /\ UNCHANGED <<env, changes, process, callers, born, attempt, stop, registry>>

AttemptFails_NoHeartbeat(t) ==
    /\ thread[t] = "attempt"
    /\ ~up
    /\ IF attempt[t] = Attempts
       THEN /\ thread' = [thread EXCEPT ![t] = "ended"]
            /\ UNCHANGED attempt
       ELSE /\ attempt' = [attempt EXCEPT ![t] = @ + 1]
            /\ UNCHANGED thread
    /\ live' \in {live, TRUE}
    /\ UNCHANGED <<env, changes, process, callers, born, stop, up>>

AttemptFails_OneMore(t) ==
    /\ thread[t] = "attempt"
    /\ ~up
    /\ IF attempt[t] > Attempts
       THEN /\ thread' = [thread EXCEPT ![t] = "startHeartbeat"]
            /\ UNCHANGED attempt
       ELSE /\ attempt' = [attempt EXCEPT ![t] = @ + 1]
            /\ UNCHANGED thread
    /\ live' \in {live, TRUE}
    /\ UNCHANGED <<env, changes, process, callers, born, stop, up>>

\* A failed PUT may still have been recorded (a late or a non-2xx answer);
\* register() tries again until the delays are used up, then returns False.
AttemptFails(t) ==
    /\ thread[t] = "attempt"
    /\ ~up
    /\ IF attempt[t] = Attempts
       THEN /\ thread' = [thread EXCEPT ![t] = "startHeartbeat"]
            /\ UNCHANGED attempt
       ELSE /\ attempt' = [attempt EXCEPT ![t] = @ + 1]
            /\ UNCHANGED thread
    /\ live' \in {live, TRUE}
    /\ UNCHANGED <<env, changes, process, callers, born, stop, up>>

AttemptSucceeds(t) ==
    /\ thread[t] = "attempt"
    /\ up
    /\ live' = TRUE
    /\ thread' = [thread EXCEPT ![t] = "startHeartbeat"]
    /\ UNCHANGED <<env, changes, process, callers, born, attempt, stop, up>>

\* start_heartbeat, whatever register() returned: the heartbeat thread is given
\* the event that is current NOW.
StartHeartbeat(t) ==
    /\ thread[t] = "startHeartbeat"
    /\ IF env.beat
       THEN /\ thread' = [thread EXCEPT ![t] = "waiting"]
            /\ stop' = [stop EXCEPT ![t] = generation]
       ELSE /\ thread' = [thread EXCEPT ![t] = "ended"]
            /\ UNCHANGED stop
    /\ UNCHANGED <<env, changes, process, callers, born, attempt, registry>>

-----------------------------------------------------------------------------
\* _heartbeat, on the thread start_heartbeat made.

\* Mutant of IsSet: always asks the event of the day, which is never set.
IsSet_Latest(t) == generation < generation

\* The event this heartbeat was given has been set.
IsSet(t) == stop[t] < generation

\* stop.wait(seconds) returns, with the event set or after the interval; without
\* a payload the heartbeat ends.
Wake(t) ==
    /\ thread[t] = "waiting"
    /\ thread' = [thread EXCEPT ![t] = IF IsSet(t) \/ ~Payload THEN "ended" ELSE "beating"]
    /\ UNCHANGED <<env, changes, process, callers, born, attempt, stop, registry>>

\* _put: a failure is only logged.
Beat(t) ==
    /\ thread[t] = "beating"
    /\ live' \in IF up THEN {TRUE} ELSE {live, TRUE}
    /\ thread' = [thread EXCEPT ![t] = "waiting"]
    /\ UNCHANGED <<env, changes, process, callers, born, attempt, stop, up>>

-----------------------------------------------------------------------------
\* The surroundings: update-service, its liveness TTL, and os.environ.

Outage ==
    /\ up' = ~up
    /\ UNCHANGED <<env, changes, process, callers, threads, live>>

\* No PUT arrived within the TTL.
Expire ==
    /\ live
    /\ live' = FALSE
    /\ UNCHANGED <<env, changes, process, callers, threads, up>>

ChangeEnv ==
    /\ changes < MaxEnvChanges
    /\ changes' = changes + 1
    /\ env' \in Envs \ {env}
    /\ UNCHANGED <<process, callers, threads, registry>>

-----------------------------------------------------------------------------

CallerStep(c) == Trigger(c) \/ Latch(c) \/ Spawn(c)

ThreadStep(t) == Begin(t) \/ Register(t) \/ AttemptFails(t) \/ AttemptSucceeds(t)
                    \/ StartHeartbeat(t) \/ Wake(t) \/ Beat(t)

Next ==
    \/ \E c \in Callers : CallerStep(c)
    \/ \E t \in Threads : ThreadStep(t)
    \/ Reset \/ Outage \/ Expire \/ ChangeEnv

Spec == Init /\ [][Next]_vars

\* A thread that can run does run: calls in progress finish, delays, PUT
\* timeouts and waits end.  Nothing is assumed of new requests or of the service.
FairSpec ==
    /\ Spec
    /\ \A c \in Callers : WF_vars(Latch(c)) /\ WF_vars(Spawn(c))
    /\ \A t \in Threads : WF_vars(ThreadStep(t))

-----------------------------------------------------------------------------

TypeOK ==
    /\ env \in Envs
    /\ changes \in 0..MaxEnvChanges
    /\ started \in BOOLEAN
    /\ generation \in Generations
    /\ caller \in [Callers -> CallerStates]
    /\ latched \in [Callers -> Generations]
    /\ thread \in [Threads -> ThreadStates]
    /\ born \in [Threads -> Generations]
    /\ attempt \in [Threads -> 1..Attempts]
    /\ stop \in [Threads -> Generations]
    /\ up \in BOOLEAN
    /\ live \in BOOLEAN

Exists(t) == thread[t] # "absent"

\* However many requests race through trigger_service_registration, and however
\* often the latch is reset meanwhile, one setting of the latch starts at most
\* one registration thread.
OncePerLatch ==
    /\ \A t, u \in Threads : Exists(t) /\ Exists(u) /\ born[t] = born[u] => t = u
    /\ \A c \in Callers, t \in Threads :
          caller[c] = "latched" /\ Exists(t) => born[t] # latched[c]

\* A set stop event ends the heartbeat that waits on it.
SetEventEndsHeartbeat == \A t \in Threads :
    (thread[t] \in {"waiting", "beating"} /\ stop[t] < generation) ~> thread[t] = "ended"

\* Once triggered, a configured service is listed again and again after the last
\* outage ends, unless the latch is reset, even when the outage outlasted every
\* registration attempt and update-service forgot the service meanwhile.
KeptAlive ==
    (<>[]up /\ [](Payload /\ env.beat)) => [](started => <>(live \/ ~started))
=============================================================================
