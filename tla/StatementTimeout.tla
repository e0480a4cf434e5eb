--------------------------- MODULE StatementTimeout ---------------------------
(***************************************************************************)
(* netix_backend/django/db_timeout.py: the ceiling on a statement's time   *)
(* that each process SETs when it connects, through a PgBouncer (external) *)
(* that pools server connections per transaction and resets nothing.       *)
(***************************************************************************)
EXTENDS Naturals

CONSTANTS
    Processes,   \* processes of the services that share the pool
    Migrating,   \* those started with a command of MIGRATION_COMMANDS
    Servers,     \* PgBouncer's server connections
    NoServer,
    Default,     \* DB_STATEMENT_TIMEOUT_MS
    Overrides    \* ceilings an environment or a caller of install() may set

VARIABLES
    env,        \* env[p]: what env_int finds in p, Default if nothing is set
    receiver,   \* receiver[p]: "none", "resolving", or the ceiling pinned by install()
    connected,  \* connected[p]: p has a connection to PgBouncer ...
    bounded,    \* bounded[p]: ... which the receiver ran for
    ceiling,    \* ceiling[s]: statement_timeout of the session behind s
    runsOn      \* runsOn[p]: the server connection p's transaction holds

vars == <<env, receiver, connected, bounded, ceiling, runsOn>>

None == [is |-> "none"]
Resolving == [is |-> "resolving"]
Pinned(t) == [is |-> "pinned", ms |-> t]

Init ==
    /\ env = [p \in Processes |-> Default]
    /\ receiver = [p \in Processes |-> None]
    /\ connected = [p \in Processes |-> FALSE]
    /\ bounded = [p \in Processes |-> FALSE]
    /\ ceiling = [s \in Servers |-> 0]
    /\ runsOn = [p \in Processes |-> NoServer]

is_migration_process(p) == p \in Migrating

statement_timeout_ms(p) == IF is_migration_process(p) THEN 0 ELSE env[p]

\* What _apply_statement_timeout SETs; every connection here is to PostgreSQL.
CeilingOf(p) == IF receiver[p].is = "pinned" THEN receiver[p].ms ELSE statement_timeout_ms(p)

\* The service loads its environment, before or after install().
LoadEnv(p) ==
    /\ \E t \in Overrides : env' = [env EXCEPT ![p] = t]
    /\ UNCHANGED <<receiver, connected, bounded, ceiling, runsOn>>

\* A repeat under the same dispatch_uid is a no-op.
install(p) ==
    /\ receiver[p] = None
    /\ \E r \in {Resolving} \cup {Pinned(t) : t \in Overrides} : receiver' = [receiver EXCEPT ![p] = r]
    /\ UNCHANGED <<env, connected, bounded, ceiling, runsOn>>

uninstall(p) ==
    /\ receiver' = [receiver EXCEPT ![p] = None]
    /\ UNCHANGED <<env, connected, bounded, ceiling, runsOn>>

Free(s) == \A q \in Processes : runsOn[q] # s

\* connection_created: the receiver's SET is a transaction of its own, which
\* PgBouncer gives to any server connection that is free.
Connect(p) ==
    /\ ~connected[p]
    /\ connected' = [connected EXCEPT ![p] = TRUE]
    /\ bounded' = [bounded EXCEPT ![p] = receiver[p] # None]
    /\ IF receiver[p] = None THEN UNCHANGED ceiling
       ELSE \E s \in Servers : Free(s) /\ ceiling' = [ceiling EXCEPT ![s] = CeilingOf(p)]
    /\ UNCHANGED <<env, receiver, runsOn>>

\* So is every later transaction.
Begin(p) ==
    /\ connected[p]
    /\ runsOn[p] = NoServer
    /\ \E s \in Servers : Free(s) /\ runsOn' = [runsOn EXCEPT ![p] = s]
    /\ UNCHANGED <<env, receiver, connected, bounded, ceiling>>

Commit(p) ==
    /\ runsOn[p] # NoServer
    /\ runsOn' = [runsOn EXCEPT ![p] = NoServer]
    /\ UNCHANGED <<env, receiver, connected, bounded, ceiling>>

Disconnect(p) ==
    /\ connected[p] /\ runsOn[p] = NoServer
    /\ connected' = [connected EXCEPT ![p] = FALSE]
    /\ bounded' = [bounded EXCEPT ![p] = FALSE]
    /\ UNCHANGED <<env, receiver, ceiling, runsOn>>

Next == \E p \in Processes :
    \/ LoadEnv(p) \/ install(p) \/ uninstall(p)
    \/ Connect(p) \/ Begin(p) \/ Commit(p) \/ Disconnect(p)

Spec == Init /\ [][Next]_vars

-----------------------------------------------------------------------------

\* "a migration command, which must run unbounded": a migration whose connection
\* the resolving receiver has SET to 0 never runs a statement under another
\* process's ceiling.
MigrationsRunUnbounded == \A p \in Migrating :
    bounded[p] /\ receiver[p] = Resolving /\ runsOn[p] # NoServer => ceiling[runsOn[p]] = 0
=============================================================================
