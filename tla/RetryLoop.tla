----------------------------- MODULE RetryLoop -----------------------------
(***************************************************************************)
(* netix_backend/http/retry.py and static.py: the retry loops around an    *)
(* httpx request.  A call is one of                                        *)
(*   "transport"  _send_with_retries, _asend_with_retries                  *)
(*   "deadline"   _request_within_deadline                                 *)
(*   "upload"     static_upload                                            *)
(*   "download"   _fetch, behind static_fetch and static_fetch_text        *)
(* Calls share a connection pool.  Time is counted, in ticks since the     *)
(* call began, where the code reads the clock: under a deadline.           *)
(***************************************************************************)
EXTENDS Integers, FiniteSets

CONSTANTS
    Callers,    \* concurrent calls
    Modes,      \* the kinds of call that are made
    Retries,    \* retries: an initial attempt and so many more
    PoolSize,   \* connections of the pool
    Timeout,    \* timeout of each wait of an attempt, in ticks
    Waits,      \* most waits of an attempt: httpx times out the pool, the
                \* connection, the write and every chunk it reads separately
    Deadlines,  \* deadlines of deadline calls, in ticks
    MaxBackoff  \* longest jittered backoff, in ticks

ASSUME RetryAssumption ==
    /\ Modes \subseteq {"transport", "deadline", "upload", "download"}
    /\ Retries \in Nat /\ PoolSize \in Nat \ {0}
    /\ Timeout \in Nat \ {0} /\ MaxBackoff \in Nat
    /\ Waits \in Nat /\ Waits >= 4
    /\ Deadlines \subseteq Nat

VARIABLES
    pc,        \* where the call is
    call,      \* its arguments
    attempt,   \* 0-based attempt
    held,      \* whether it holds a pooled connection
    reply,     \* how the current attempt ended
    seen,      \* "response" once a retryable response came (last_response), else
               \* "exception" once an attempt raised (last_exc), else "nothing"
    outcome,   \* how the call ended
    elapsed,   \* ticks since the call began
    processed, \* times the peer carried the request out
    dropped    \* attempts that raised although the peer carried them out

vars == <<pc, call, attempt, held, reply, seen, outcome, elapsed, processed, dropped>>

-----------------------------------------------------------------------------

\* IDEMPOTENT_METHODS stand behind "GET"; uploads POST and downloads GET.
Calls == {k \in [mode : Modes, method : {"GET", "POST"}, optIn : BOOLEAN, deadline : Deadlines] :
            /\ k.mode = "upload" => k.method = "POST" /\ ~k.optIn
            /\ k.mode = "download" => k.method = "GET" /\ ~k.optIn
            /\ k.mode # "deadline" => \A d \in Deadlines : k.deadline <= d}

\* Accepted, accepted without the link an upload needs, 408/429/5xx, another
\* status, 404, or an exception: one of RETRYABLE_EXC, or another of httpx's
\* (UnsupportedProtocol, ProxyError, DecodingError), which no loop catches.
Statuses == {"accepted", "linkless", "retryable", "refused", "notFound"}
Exceptions == {"exception", "fatal"}
Replies == Statuses \cup Exceptions

Idle == [mode |-> "none", method |-> "GET", optIn |-> FALSE, deadline |-> 0]

Init ==
    /\ pc = [c \in Callers |-> "idle"]
    /\ call = [c \in Callers |-> Idle]
    /\ attempt = [c \in Callers |-> 0]
    /\ held = [c \in Callers |-> FALSE]
    /\ reply = [c \in Callers |-> "none"]
    /\ seen = [c \in Callers |-> "nothing"]
    /\ outcome = [c \in Callers |-> "none"]
    /\ elapsed = [c \in Callers |-> 0]
    /\ processed = [c \in Callers |-> 0]
    /\ dropped = [c \in Callers |-> 0]

Timed(c) == call[c].mode = "deadline"
Remaining(c) == call[c].deadline - elapsed[c]

\* The caller goes to p, and the call's end, if it ends, is o.
Goto(c, p) == pc' = [pc EXCEPT ![c] = p]
End(c, o) == Goto(c, "done") /\ outcome' = [outcome EXCEPT ![c] = o]

-----------------------------------------------------------------------------

Begin(c) ==
    /\ pc[c] = "idle"
    /\ \E k \in Calls : call' = [call EXCEPT ![c] = k]
    /\ Goto(c, "top")
    /\ UNCHANGED <<attempt, held, reply, seen, outcome, elapsed, processed, dropped>>

\* After the deadline loop: a response if there was one, else the exception.
LastResult_ExceptionFirst(c) == IF reply[c] = "exception" THEN "raised" ELSE "returned"

LastResult(c) == IF seen[c] = "response" THEN "returned" ELSE "raised"

\* The deadline loop's head: give up when nothing is left of the budget.
Overdue(c) ==
    /\ pc[c] = "top"
    /\ Timed(c) /\ Remaining(c) <= 0
    /\ End(c, LastResult(c))
    /\ UNCHANGED <<call, attempt, held, reply, seen, elapsed, processed, dropped>>

Cap_Uncapped(c) == Timeout

\* _attempt_timeout: each wait of an attempt is capped by the remaining budget.
Cap(c) == IF Remaining(c) < Timeout THEN Remaining(c) ELSE Timeout

\* Up to n waits pass, each within the cap fixed when the attempt began.
Spend(c, n) == \E d \in (IF Timed(c) THEN 0..(n * Cap(c)) ELSE {0}) :
                  elapsed' = [elapsed EXCEPT ![c] = @ + d]

InUse == {c \in Callers : held[c]}

WithinBudget(c) == Timed(c) => Remaining(c) > 0

\* An attempt begins: httpx takes a connection of the pool ...
Acquire(c) ==
    /\ pc[c] = "top"
    /\ WithinBudget(c)
    /\ Cardinality(InUse) < PoolSize
    /\ held' = [held EXCEPT ![c] = TRUE]
    /\ Goto(c, "exchanging")
    /\ UNCHANGED <<call, attempt, reply, seen, outcome, elapsed, processed, dropped>>

Note(c, r) ==
    /\ reply' = [reply EXCEPT ![c] = r]
    /\ seen' = [seen EXCEPT ![c] = IF r = "retryable" \/ @ = "response" THEN "response"
                                   ELSE IF r = "exception" THEN "exception" ELSE @]

\* ... or none is free or none can be opened in time.
NoConnection(c) ==
    /\ pc[c] = "top"
    /\ WithinBudget(c)
    /\ \E r \in Exceptions : Note(c, r)
    /\ Spend(c, 2)
    /\ Goto(c, "decide")
    /\ UNCHANGED <<call, attempt, held, outcome, processed, dropped>>

\* The peer carries the request out or not, and answers or not.  A transport
\* hands out the response with its connection; the other loops call
\* client.request, which reads the body, or raises over it, and gives the
\* connection back.
Exchange(c) ==
    /\ pc[c] = "exchanging"
    /\ \E r \in Replies, done \in BOOLEAN :
          /\ r \in {"accepted", "linkless"} => done
          /\ r = "linkless" => call[c].mode = "upload"
          /\ Note(c, r)
          /\ held' = [held EXCEPT ![c] = call[c].mode = "transport" /\ r \in Statuses]
          /\ processed' = [processed EXCEPT ![c] = @ + (IF done THEN 1 ELSE 0)]
          /\ dropped' = [dropped EXCEPT ![c] = @ + (IF done /\ r = "exception" THEN 1 ELSE 0)]
    /\ Spend(c, Waits)
    /\ Goto(c, "decide")
    /\ UNCHANGED <<call, attempt, outcome>>

-----------------------------------------------------------------------------
\* What the loop makes of an attempt.

Static(c) == call[c].mode \in {"upload", "download"}

ShouldRetryStatus_AnyMethod(c) == TRUE

\* should_retry_status: idempotent or opted in; the static-service loops retry
\* a retryable status whatever the method.
ShouldRetryStatus(c) == Static(c) \/ call[c].optIn \/ call[c].method = "GET"

WorthRetrying(c) == reply[c] = "exception" \/ (reply[c] = "retryable" /\ ShouldRetryStatus(c))

LastAttempt_OneMore(c) == attempt[c] > Retries

LastAttempt(c) == attempt[c] >= Retries

\* What the loops return, the exceptions the static-service ones make of a status,
\* and the exceptions that pass through every loop, whatever it saw before.
Verdict(c) == IF reply[c] # "fatal" /\ (~Static(c) \/ reply[c] = "accepted") THEN "returned"
              ELSE IF call[c].mode = "download" /\ reply[c] = "notFound" THEN "expired"
              ELSE "raised"

\* A response or an exception that is not retried ends the call at once.
Settle(c) ==
    /\ pc[c] = "decide"
    /\ ~WorthRetrying(c)
    /\ End(c, Verdict(c))
    /\ UNCHANGED <<call, attempt, held, reply, seen, elapsed, processed, dropped>>

\* What each loop reports when it is exhausted.
LastWord(c) == IF Timed(c) THEN LastResult(c)
               ELSE IF call[c].mode = "transport" /\ reply[c] = "retryable" THEN "returned"
               ELSE "raised"

\* So does the last attempt, or one that used up the budget.
Exhaust(c) ==
    /\ pc[c] = "decide"
    /\ WorthRetrying(c)
    /\ LastAttempt(c) \/ ~WithinBudget(c)
    /\ End(c, LastWord(c))
    /\ UNCHANGED <<call, attempt, held, reply, seen, elapsed, processed, dropped>>

Retry_StillOpen(c) ==
    /\ pc[c] = "decide"
    /\ WorthRetrying(c)
    /\ ~LastAttempt(c) /\ WithinBudget(c)
    /\ Goto(c, "sleeping")
    /\ UNCHANGED <<call, attempt, held, reply, seen, outcome, elapsed, processed, dropped>>

\* Otherwise the response is closed, before the loop sleeps.
Retry(c) ==
    /\ pc[c] = "decide"
    /\ WorthRetrying(c)
    /\ ~LastAttempt(c) /\ WithinBudget(c)
    /\ held' = [held EXCEPT ![c] = FALSE]
    /\ Goto(c, "sleeping")
    /\ UNCHANGED <<call, attempt, reply, seen, outcome, elapsed, processed, dropped>>

Wake_SameAttempt(c) ==
    /\ pc[c] = "sleeping"
    /\ \E b \in (IF Timed(c) THEN 0..MaxBackoff ELSE {0}) :
          elapsed' = [elapsed EXCEPT ![c] = @ + (IF b < Remaining(c) THEN b ELSE Remaining(c))]
    /\ Goto(c, "top")
    /\ UNCHANGED <<call, attempt, held, reply, seen, outcome, processed, dropped>>

\* jittered_backoff or Retry-After passes; under a deadline never beyond it.
Wake(c) ==
    /\ pc[c] = "sleeping"
    /\ \E b \in (IF Timed(c) THEN 0..MaxBackoff ELSE {0}) :
          elapsed' = [elapsed EXCEPT ![c] = @ + (IF b < Remaining(c) THEN b ELSE Remaining(c))]
    /\ attempt' = [attempt EXCEPT ![c] = @ + 1]
    /\ Goto(c, "top")
    /\ UNCHANGED <<call, held, reply, seen, outcome, processed, dropped>>

\* The caller has read what it got; the slot makes another call.
Leave(c) ==
    /\ pc[c] = "done"
    /\ Goto(c, "idle")
    /\ call' = [call EXCEPT ![c] = Idle]
    /\ attempt' = [attempt EXCEPT ![c] = 0]
    /\ held' = [held EXCEPT ![c] = FALSE]
    /\ reply' = [reply EXCEPT ![c] = "none"]
    /\ seen' = [seen EXCEPT ![c] = "nothing"]
    /\ outcome' = [outcome EXCEPT ![c] = "none"]
    /\ elapsed' = [elapsed EXCEPT ![c] = 0]
    /\ processed' = [processed EXCEPT ![c] = 0]
    /\ dropped' = [dropped EXCEPT ![c] = 0]

-----------------------------------------------------------------------------

AttemptStep(c) == Acquire(c) \/ NoConnection(c) \/ Exchange(c)

LoopStep(c) == Overdue(c) \/ Settle(c) \/ Exhaust(c) \/ Retry(c) \/ Wake(c)

Next == \E c \in Callers : Begin(c) \/ AttemptStep(c) \/ LoopStep(c) \/ Leave(c)

Spec == Init /\ [][Next]_vars

\* Attempts end, by an answer or by their timeouts, and sleeps end.
FairSpec == Spec /\ \A c \in Callers : WF_vars(AttemptStep(c) \/ LoopStep(c))

-----------------------------------------------------------------------------

TypeOK ==
    /\ pc \in [Callers -> {"idle", "top", "exchanging", "decide", "sleeping", "done"}]
    /\ call \in [Callers -> Calls \cup {Idle}]
    /\ attempt \in [Callers -> 0..Retries]
    /\ held \in [Callers -> BOOLEAN]
    /\ reply \in [Callers -> Replies \cup {"none"}]
    /\ seen \in [Callers -> {"nothing", "exception", "response"}]
    /\ outcome \in [Callers -> {"none", "returned", "raised", "expired"}]
    /\ elapsed \in [Callers -> Nat]
    /\ processed \in [Callers -> 0..(Retries + 1)]
    /\ dropped \in [Callers -> 0..(Retries + 1)]

\* A write that was not opted in is carried out twice only when the answer to an
\* earlier attempt was lost: a status alone never replays it.
NoStatusReplay == \A c \in Callers :
    call[c].mode \in {"transport", "deadline"} /\ call[c].method = "POST" /\ ~call[c].optIn
        => processed[c] <= dropped[c] + 1

\* A sleeping call leaves its connection to the others, so that a peer that
\* answers 503 to everyone does not also exhaust everyone's pool.
SleepersHoldNothing == \A c \in Callers : pc[c] \in {"sleeping", "top"} => ~held[c]

\* A deadline call that saw a response returns one, however many attempts after
\* it timed out or lost the connection, and also when the budget is gone; it
\* raises only where its last attempt raised what is not retryable.
LastResponseWins == \A c \in Callers :
    pc[c] = "done" /\ Timed(c) /\ seen[c] = "response"
        => (outcome[c] = "raised" <=> reply[c] = "fatal")

\* A deadline is overrun by at most the waits of one attempt, all but
\* the first of which the remaining budget no longer covers.
OverrunBounded == \A c \in Callers :
    Timed(c) => elapsed[c] <= call[c].deadline + (Waits - 1) * Timeout

\* Every call ends.
CallEnds == \A c \in Callers : pc[c] = "top" ~> pc[c] = "done"
=============================================================================
