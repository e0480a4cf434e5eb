--------------------------- MODULE RetryLoopProofs ---------------------------
(***************************************************************************)
(* Proofs about RetryLoop for any number of calls, retries, connections    *)
(* and deadlines.  Calls meet only in the connection pool, so the          *)
(* invariant is stated call by call: CallInv(c) says what the loop of c    *)
(* has counted, holds and has spent at each place of the loop.             *)
(***************************************************************************)
EXTENDS RetryLoop, TLAPS

\* One round trip at most for each attempt made, and each lost answer is one of them.
CountsAttempts(c) ==
    /\ dropped[c] <= processed[c]
    /\ processed[c] <= attempt[c] + 1
    /\ pc[c] \in {"idle", "top", "exchanging"} => processed[c] <= attempt[c]
    /\ pc[c] = "sleeping" => attempt[c] < Retries
    /\ pc[c] = "idle" => call[c] = Idle /\ processed[c] = 0

\* A plain write of a loop that retries by status only where it may.
Guarded(c) == call[c].mode \in {"transport", "deadline"} /\ call[c].method = "POST" /\ ~call[c].optIn

\* Such a write is only ever sent again after an answer was lost.
ReplaysLostOnly(c) == Guarded(c) =>
    /\ processed[c] <= dropped[c] + 1
    /\ pc[c] \in {"idle", "top", "exchanging", "sleeping"} => processed[c] <= dropped[c]
    /\ pc[c] = "decide" /\ reply[c] = "exception" => processed[c] <= dropped[c]

\* Nothing is held between two attempts.
HoldsNothing(c) == pc[c] \in {"idle", "top", "sleeping"} => ~held[c]

\* An exception that is not retryable ends the call; another one, once a response
\* was seen, does not decide it.
ReturnsResponse(c) ==
    /\ pc[c] \in {"idle", "top", "exchanging", "sleeping"} => reply[c] # "fatal"
    /\ pc[c] = "done" /\ Timed(c) /\ seen[c] = "response" => (outcome[c] = "raised" <=> reply[c] = "fatal")

\* An attempt and a sleep begin within the budget; only an attempt exceeds it.
KeepsBudget(c) ==
    /\ ~Timed(c) => elapsed[c] = 0
    /\ Timed(c) => elapsed[c] <= call[c].deadline + (Waits - 1) * Timeout
    /\ Timed(c) /\ pc[c] = "top" => Remaining(c) >= 0
    /\ Timed(c) /\ pc[c] \in {"exchanging", "sleeping"} => Remaining(c) > 0

CallInv(c) ==
    /\ CountsAttempts(c)
    /\ ReplaysLostOnly(c)
    /\ HoldsNothing(c)
    /\ ReturnsResponse(c)
    /\ KeepsBudget(c)

IInv == TypeOK /\ \A c \in Callers : CallInv(c)

-----------------------------------------------------------------------------

Step(c) == Begin(c) \/ AttemptStep(c) \/ LoopStep(c) \/ Leave(c)

\* A step of call c leaves every other call alone.
Elsewhere(c) == \A d \in Callers \ {c} :
    /\ pc'[d] = pc[d] /\ call'[d] = call[d] /\ attempt'[d] = attempt[d] /\ held'[d] = held[d]
    /\ reply'[d] = reply[d] /\ seen'[d] = seen[d] /\ outcome'[d] = outcome[d]
    /\ elapsed'[d] = elapsed[d] /\ processed'[d] = processed[d] /\ dropped'[d] = dropped[d]

\* The fields of a call's arguments.
LEMMA CallFacts ==
    ASSUME TypeOK, NEW c \in Callers
    PROVE  /\ call[c].deadline \in Nat
           /\ call[c].mode \in {"none", "transport", "deadline", "upload", "download"}
           /\ call[c].method \in {"GET", "POST"}
           /\ call[c].optIn \in BOOLEAN
           /\ Remaining(c) \in Int
           /\ Remaining(c) = call[c].deadline - elapsed[c]
  <1>1. call[c] \in Calls \cup {Idle} /\ elapsed[c] \in Nat
    BY DEF TypeOK
  <1>2. CASE call[c] \in Calls
    <2>1. call[c] \in [mode : Modes, method : {"GET", "POST"}, optIn : BOOLEAN, deadline : Deadlines]
      BY <1>2 DEF Calls
    <2>2. /\ call[c].mode \in Modes /\ call[c].method \in {"GET", "POST"}
          /\ call[c].optIn \in BOOLEAN /\ call[c].deadline \in Deadlines
      BY <2>1
    <2>3. call[c].mode \in {"none", "transport", "deadline", "upload", "download"}
      BY <2>2, RetryAssumption
    <2>4. call[c].deadline \in Nat
      BY <2>2, RetryAssumption
    <2> QED
      BY <1>1, <2>2, <2>3, <2>4 DEF Remaining
  <1>3. CASE call[c] = Idle
    BY <1>1, <1>3 DEF Idle, Remaining
  <1> QED
    BY <1>1, <1>2, <1>3

\* Time spent in up to n waits is a natural number of ticks, none without a deadline.
LEMMA SpendFacts ==
    ASSUME TypeOK, NEW c \in Callers, NEW n \in Nat, Spend(c, n)
    PROVE  \E d \in Nat :
              /\ elapsed' = [elapsed EXCEPT ![c] = @ + d]
              /\ Timed(c) => d <= n * Cap(c)
              /\ ~Timed(c) => d = 0
  <1>1. Cap(c) \in Int
    BY CallFacts, RetryAssumption DEF Cap
  <1>2. n * Cap(c) \in Int
    BY <1>1
  <1>3. CASE Timed(c)
    <2>1. PICK d \in 0..(n * Cap(c)) : elapsed' = [elapsed EXCEPT ![c] = @ + d]
      BY <1>3 DEF Spend
    <2>2. d \in Nat /\ d <= n * Cap(c)
      BY <2>1, <1>2
    <2> QED
      BY <1>3, <2>1, <2>2
  <1>4. CASE ~Timed(c)
    BY <1>4 DEF Spend
  <1> QED
    BY <1>3, <1>4

\* The waits of one attempt that began within the budget exceed it by those
\* after the first, whether the budget or the timeout caps them.
LEMMA WaitsOverrun ==
    ASSUME NEW n \in Nat, n <= Waits, n >= 1, NEW rest \in Nat \ {0}, NEW cap \in Nat,
           cap = IF rest < Timeout THEN rest ELSE Timeout
    PROVE  n * cap <= rest + (Waits - 1) * Timeout
  <1>1. cap <= rest /\ cap <= Timeout
    BY RetryAssumption
  <1>2. \A k \in Nat : k * cap <= k * Timeout
    BY <1>1, RetryAssumption
  <1>3. n * cap = cap + (n - 1) * cap
    OBVIOUS
  <1>4. (n - 1) * cap <= (n - 1) * Timeout
    BY <1>2
  <1>5. (n - 1) * Timeout <= (Waits - 1) * Timeout
    BY RetryAssumption
  <1> QED
    BY <1>1, <1>3, <1>4, <1>5, RetryAssumption

-----------------------------------------------------------------------------

\* Type correctness is preserved by every step.
LEMMA TypeStep ==
    ASSUME TypeOK, NEW c \in Callers, CallInv(c), Step(c)
    PROVE  TypeOK'
  <1> USE DEF TypeOK, Goto
  <1>1. CASE Begin(c)
    <2>1. PICK k \in Calls : call' = [call EXCEPT ![c] = k]
      BY <1>1 DEF Begin
    <2> QED
      BY <1>1, <2>1 DEF Begin
  <1>2. CASE Acquire(c)
    BY <1>2 DEF Acquire
  <1>3. CASE NoConnection(c)
    <2>1. PICK d \in Nat : elapsed' = [elapsed EXCEPT ![c] = @ + d]
      BY <1>3, SpendFacts DEF NoConnection
    <2>2. PICK r \in Exceptions : Note(c, r)
      BY <1>3 DEF NoConnection
    <2> QED
      BY <1>3, <2>1, <2>2 DEF NoConnection, Note, Replies
  <1>4. CASE Exchange(c)
    <2>1. PICK d \in Nat : elapsed' = [elapsed EXCEPT ![c] = @ + d]
      BY <1>4, SpendFacts, RetryAssumption DEF Exchange
    <2>2. PICK r \in Replies, done \in BOOLEAN :
              /\ Note(c, r)
              /\ held' = [held EXCEPT ![c] = call[c].mode = "transport" /\ r \in Statuses]
              /\ processed' = [processed EXCEPT ![c] = @ + (IF done THEN 1 ELSE 0)]
              /\ dropped' = [dropped EXCEPT ![c] = @ + (IF done /\ r = "exception" THEN 1 ELSE 0)]
      BY <1>4 DEF Exchange
    <2>3. processed[c] < Retries + 1 /\ dropped[c] < Retries + 1
      BY <1>4, RetryAssumption DEF Exchange, CallInv, CountsAttempts
    <2>4. processed' \in [Callers -> 0..(Retries + 1)] /\ dropped' \in [Callers -> 0..(Retries + 1)]
      BY <2>2, <2>3, RetryAssumption
    <2>5. reply' \in [Callers -> Replies \cup {"none"}]
          /\ seen' \in [Callers -> {"nothing", "exception", "response"}]
      BY <2>2 DEF Note
    <2> QED
      BY <1>4, <2>1, <2>2, <2>4, <2>5 DEF Exchange
  <1>5. CASE Overdue(c)
    BY <1>5 DEF Overdue, End, LastResult
  <1>6. CASE Settle(c)
    BY <1>6 DEF Settle, End, Verdict
  <1>7. CASE Exhaust(c)
    BY <1>7 DEF Exhaust, End, LastWord, LastResult
  <1>8. CASE Retry(c)
    BY <1>8 DEF Retry
  <1>9. CASE Wake(c)
    <2>1. attempt' \in [Callers -> 0..Retries]
      BY <1>9, RetryAssumption DEF Wake, CallInv, CountsAttempts
    <2>2. elapsed' \in [Callers -> Nat]
      BY <1>9, CallFacts, RetryAssumption DEF Wake, CallInv, KeepsBudget
    <2> QED
      BY <1>9, <2>1, <2>2 DEF Wake
  <1>10. CASE Leave(c)
    BY <1>10, RetryAssumption DEF Leave
  <1> QED
    BY <1>1, <1>2, <1>3, <1>4, <1>5, <1>6, <1>7, <1>8, <1>9, <1>10 DEF Step, AttemptStep, LoopStep

\* A step touches no other call.
LEMMA StepIsLocal ==
    ASSUME TypeOK, NEW c \in Callers, Step(c)
    PROVE  Elsewhere(c)
  <1> USE DEF TypeOK, Elsewhere, Goto
  <1>1. CASE Begin(c)
    BY <1>1 DEF Begin
  <1>2. CASE Acquire(c)
    BY <1>2 DEF Acquire
  <1>3. CASE NoConnection(c)
    BY <1>3 DEF NoConnection, Note, Spend
  <1>4. CASE Exchange(c)
    BY <1>4 DEF Exchange, Note, Spend
  <1>5. CASE Overdue(c) \/ Settle(c) \/ Exhaust(c)
    BY <1>5 DEF Overdue, Settle, Exhaust, End
  <1>6. CASE Retry(c)
    BY <1>6 DEF Retry
  <1>7. CASE Wake(c)
    BY <1>7 DEF Wake
  <1>8. CASE Leave(c)
    BY <1>8 DEF Leave
  <1> QED
    BY <1>1, <1>2, <1>3, <1>4, <1>5, <1>6, <1>7, <1>8 DEF Step, AttemptStep, LoopStep

\* A call that a step leaves alone keeps its invariant.
LEMMA CallInvElsewhere ==
    ASSUME TypeOK, NEW c \in Callers, Elsewhere(c), NEW d \in Callers \ {c}, CallInv(d)
    PROVE  CallInv(d)'
  BY DEF Elsewhere, CallInv, CountsAttempts, ReplaysLostOnly, Guarded, HoldsNothing,
         ReturnsResponse, KeepsBudget, Timed, Remaining
-----------------------------------------------------------------------------

\* What the arguments, the slot and the clock of the stepping call look like.
LEMMA StepFacts ==
    ASSUME TypeOK, NEW c \in Callers
    PROVE  /\ c \in DOMAIN pc /\ c \in DOMAIN call /\ c \in DOMAIN attempt /\ c \in DOMAIN held
           /\ c \in DOMAIN reply /\ c \in DOMAIN seen /\ c \in DOMAIN outcome
           /\ c \in DOMAIN elapsed /\ c \in DOMAIN processed /\ c \in DOMAIN dropped
           /\ attempt[c] \in Nat /\ elapsed[c] \in Nat
           /\ processed[c] \in Nat /\ dropped[c] \in Nat
           /\ Retries \in Nat /\ Timeout \in Nat \ {0} /\ Waits \in Nat
           /\ (Waits - 1) * Timeout \in Nat
           /\ seen[c] \in {"nothing", "exception", "response"}
  <1>1. Waits - 1 \in Nat /\ Timeout \in Nat
    BY RetryAssumption
  <1>2. (Waits - 1) * Timeout \in Nat
    BY <1>1
  <1> QED
    BY <1>2, RetryAssumption DEF TypeOK

\* An attempt counts what the peer did and gives the connection back, ...
LEMMA CountsStep ==
    ASSUME TypeOK, NEW c \in Callers, CallInv(c), Step(c)
    PROVE  CountsAttempts(c)'
  <1> USE StepFacts, CallFacts DEF CallInv, CountsAttempts, Goto, End
  <1>1. CASE Begin(c)
    BY <1>1 DEF Begin
  <1>2. CASE Acquire(c)
    BY <1>2 DEF Acquire
  <1>3. CASE NoConnection(c)
    BY <1>3 DEF NoConnection
  <1>4. CASE Exchange(c)
    <2>1. PICK r \in Replies, done \in BOOLEAN :
              /\ processed' = [processed EXCEPT ![c] = @ + (IF done THEN 1 ELSE 0)]
              /\ dropped' = [dropped EXCEPT ![c] = @ + (IF done /\ r = "exception" THEN 1 ELSE 0)]
      BY <1>4 DEF Exchange
    <2>2. pc[c] = "exchanging" /\ pc'[c] = "decide" /\ UNCHANGED <<call, attempt>>
      BY <1>4 DEF Exchange
    <2>3. /\ processed'[c] = processed[c] + (IF done THEN 1 ELSE 0)
          /\ dropped'[c] = dropped[c] + (IF done /\ r = "exception" THEN 1 ELSE 0)
      BY <2>1
    <2>4. processed'[c] <= attempt[c] + 1 /\ dropped'[c] <= processed'[c]
      BY <2>2, <2>3
    <2> QED
      BY <2>2, <2>4
  <1>5. CASE Overdue(c)
    BY <1>5 DEF Overdue
  <1>6. CASE Settle(c)
    BY <1>6 DEF Settle
  <1>7. CASE Exhaust(c)
    BY <1>7 DEF Exhaust
  <1>8. CASE Retry(c)
    BY <1>8 DEF Retry, LastAttempt
  <1>9. CASE Wake(c)
    BY <1>9 DEF Wake
  <1>10. CASE Leave(c)
    BY <1>10 DEF Leave
  <1> QED
    BY <1>1, <1>2, <1>3, <1>4, <1>5, <1>6, <1>7, <1>8, <1>9, <1>10 DEF Step, AttemptStep, LoopStep

\* ... a plain write goes round again only after an exception, ...
LEMMA ReplayStep ==
    ASSUME TypeOK, NEW c \in Callers, CallInv(c), Step(c)
    PROVE  ReplaysLostOnly(c)'
  <1> USE StepFacts, CallFacts DEF CallInv, CountsAttempts, ReplaysLostOnly, Guarded, Goto, End
  <1>1. CASE Begin(c)
    <2>1. dropped[c] = 0 /\ processed[c] = 0
      BY <1>1 DEF Begin
    <2>2. UNCHANGED <<dropped, processed>> /\ pc'[c] = "top"
      BY <1>1 DEF Begin
    <2> QED
      BY <2>1, <2>2
  <1>2. CASE Acquire(c)
    BY <1>2 DEF Acquire
  <1>3. CASE NoConnection(c)
    BY <1>3 DEF NoConnection
  <1>4. CASE Exchange(c)
    <2>1. PICK r \in Replies, done \in BOOLEAN :
              /\ reply' = [reply EXCEPT ![c] = r]
              /\ processed' = [processed EXCEPT ![c] = @ + (IF done THEN 1 ELSE 0)]
              /\ dropped' = [dropped EXCEPT ![c] = @ + (IF done /\ r = "exception" THEN 1 ELSE 0)]
      BY <1>4 DEF Exchange, Note
    <2>2. pc[c] = "exchanging" /\ pc'[c] = "decide" /\ UNCHANGED call
      BY <1>4 DEF Exchange
    <2>3. /\ processed'[c] = processed[c] + (IF done THEN 1 ELSE 0)
          /\ dropped'[c] = dropped[c] + (IF done /\ r = "exception" THEN 1 ELSE 0)
          /\ reply'[c] = r
      BY <2>1
    <2>4. Guarded(c) => processed'[c] <= dropped'[c] + 1
                        /\ (reply'[c] = "exception" => processed'[c] <= dropped'[c])
      BY <2>2, <2>3
    <2> QED
      BY <2>2, <2>4
  <1>5. CASE Overdue(c)
    BY <1>5 DEF Overdue
  <1>6. CASE Settle(c)
    BY <1>6 DEF Settle
  <1>7. CASE Exhaust(c)
    BY <1>7 DEF Exhaust
  <1>8. CASE Retry(c)
    BY <1>8 DEF Retry, WorthRetrying, ShouldRetryStatus, Static
  <1>9. CASE Wake(c)
    BY <1>9 DEF Wake
  <1>10. CASE Leave(c)
    BY <1>10 DEF Leave
  <1> QED
    BY <1>1, <1>2, <1>3, <1>4, <1>5, <1>6, <1>7, <1>8, <1>9, <1>10 DEF Step, AttemptStep, LoopStep

\* ... the response is closed before the loop sleeps, ...
LEMMA HoldsStep ==
    ASSUME TypeOK, NEW c \in Callers, CallInv(c), Step(c)
    PROVE  HoldsNothing(c)'
  BY StepFacts DEF CallInv, HoldsNothing, Step, AttemptStep, LoopStep, Begin, Acquire, NoConnection,
     Exchange, Overdue, Settle, Exhaust, Retry, Wake, Leave, Goto, End, TypeOK

\* ... an attempt that cannot be retried ends the call, and any other end of a
\* deadline call returns the last response there was.
LEMMA ReturnsStep ==
    ASSUME TypeOK, NEW c \in Callers, CallInv(c), Step(c)
    PROVE  ReturnsResponse(c)'
  <1> USE StepFacts, CallFacts DEF CallInv, ReturnsResponse, Timed, Goto, End
  <1>1. CASE Overdue(c)
    BY <1>1 DEF Overdue, LastResult
  <1>2. CASE Settle(c)
    <2>1. /\ pc'[c] = "done" /\ outcome'[c] = Verdict(c)
          /\ UNCHANGED <<call, reply, seen>>
      BY <1>2 DEF Settle
    <2>2. Timed(c) => (Verdict(c) = "raised" <=> reply[c] = "fatal")
      BY DEF Verdict, Static
    <2> QED
      BY <2>1, <2>2
  <1>3. CASE Exhaust(c)
    <2>1. reply[c] # "fatal"
      BY <1>3 DEF Exhaust, WorthRetrying
    <2> QED
      BY <1>3, <2>1 DEF Exhaust, LastWord, LastResult
  <1>4. CASE NoConnection(c) \/ Exchange(c)
    <2>1. pc'[c] = "decide"
      BY <1>4 DEF NoConnection, Exchange
    <2> QED
      BY <2>1
  <1>5. CASE Retry(c)
    <2>1. /\ reply[c] # "fatal" /\ reply' = reply
          /\ pc'[c] = "sleeping"
      BY <1>5 DEF Retry, WorthRetrying
    <2> QED
      BY <2>1
  <1>6. CASE Begin(c) \/ Acquire(c) \/ Wake(c)
    <2>1. /\ pc[c] \in {"idle", "top", "sleeping"} /\ reply' = reply
          /\ pc'[c] \in {"top", "exchanging"}
      BY <1>6 DEF Begin, Acquire, Wake
    <2> QED
      BY <2>1
  <1>7. CASE Leave(c)
    BY <1>7 DEF Leave
  <1> QED
    BY <1>1, <1>2, <1>3, <1>4, <1>5, <1>6, <1>7 DEF Step, AttemptStep, LoopStep

\* ... and the waits of one attempt are all that can exceed the budget.
LEMMA AttemptOverrun ==
    ASSUME TypeOK, NEW c \in Callers, NEW n \in Nat, n >= 1, n <= Waits,
           Spend(c, n), Timed(c) => Remaining(c) > 0, ~Timed(c) => elapsed[c] = 0
    PROVE  /\ Timed(c) => elapsed'[c] <= call[c].deadline + (Waits - 1) * Timeout
           /\ ~Timed(c) => elapsed'[c] = 0
  <1>1. PICK d \in Nat : /\ elapsed' = [elapsed EXCEPT ![c] = @ + d]
                         /\ Timed(c) => d <= n * Cap(c)
                         /\ ~Timed(c) => d = 0
    BY SpendFacts
  <1>2. elapsed'[c] = elapsed[c] + d
    BY <1>1, StepFacts
  <1>3. CASE Timed(c)
    <2>1. Remaining(c) \in Nat \ {0} /\ Cap(c) \in Nat
      BY <1>3, CallFacts, RetryAssumption DEF Cap
    <2>2. n * Cap(c) <= Remaining(c) + (Waits - 1) * Timeout
      BY <2>1, WaitsOverrun DEF Cap
    <2>3. n * Cap(c) \in Nat
      BY <2>1
    <2> QED
      BY <1>1, <1>2, <1>3, <2>2, <2>3, StepFacts, CallFacts
  <1>4. CASE ~Timed(c)
    BY <1>1, <1>2, <1>4
  <1> QED
    BY <1>3, <1>4

LEMMA BudgetStep ==
    ASSUME TypeOK, NEW c \in Callers, CallInv(c), Step(c)
    PROVE  KeepsBudget(c)'
  <1> USE StepFacts, CallFacts DEF CallInv, KeepsBudget, Goto, End
  <1>1. CASE Begin(c)
    <2>1. PICK k \in Calls : call' = [call EXCEPT ![c] = k]
      BY <1>1 DEF Begin
    <2>2. call'[c] = k /\ k.deadline \in Nat
      <3>1. k \in [mode : Modes, method : {"GET", "POST"}, optIn : BOOLEAN, deadline : Deadlines]
        BY DEF Calls
      <3>2. k.deadline \in Deadlines
        BY <3>1
      <3> QED
        BY <2>1, <3>2, RetryAssumption
    <2>3. elapsed[c] = 0 /\ elapsed' = elapsed /\ pc'[c] = "top"
      BY <1>1 DEF Begin, CountsAttempts, Timed, Idle
    <2> QED
      BY <2>2, <2>3 DEF Timed, Remaining
  <1>2. CASE Acquire(c)
    BY <1>2 DEF Acquire, WithinBudget, Timed, Remaining
  <1>3. CASE NoConnection(c)
    <2>1. /\ Timed(c) => elapsed'[c] <= call[c].deadline + (Waits - 1) * Timeout
          /\ ~Timed(c) => elapsed'[c] = 0
      BY <1>3, AttemptOverrun, RetryAssumption DEF NoConnection, WithinBudget
    <2>2. UNCHANGED call /\ pc'[c] = "decide"
      BY <1>3 DEF NoConnection
    <2> QED
      BY <2>1, <2>2 DEF Timed
  <1>4. CASE Exchange(c)
    <2>1. /\ Timed(c) => elapsed'[c] <= call[c].deadline + (Waits - 1) * Timeout
          /\ ~Timed(c) => elapsed'[c] = 0
      BY <1>4, AttemptOverrun, RetryAssumption DEF Exchange
    <2>2. UNCHANGED call /\ pc'[c] = "decide"
      BY <1>4 DEF Exchange
    <2> QED
      BY <2>1, <2>2 DEF Timed
  <1>5. CASE Overdue(c)
    BY <1>5 DEF Overdue, Timed
  <1>6. CASE Settle(c)
    BY <1>6 DEF Settle, Timed
  <1>7. CASE Exhaust(c)
    BY <1>7 DEF Exhaust, Timed
  <1>8. CASE Retry(c)
    BY <1>8 DEF Retry, WithinBudget, Timed, Remaining
  <1>9. CASE Wake(c)
    <2>1. PICK b \in (IF Timed(c) THEN 0..MaxBackoff ELSE {0}) :
             elapsed' = [elapsed EXCEPT ![c] = @ + (IF b < Remaining(c) THEN b ELSE Remaining(c))]
      BY <1>9 DEF Wake
    <2>2. /\ b \in Nat
          /\ elapsed'[c] = elapsed[c] + (IF b < Remaining(c) THEN b ELSE Remaining(c))
          /\ UNCHANGED call /\ pc[c] = "sleeping" /\ pc'[c] = "top"
      BY <1>9, <2>1, RetryAssumption DEF Wake
    <2>3. CASE Timed(c)
      BY <2>2, <2>3 DEF Timed, Remaining
    <2>4. CASE ~Timed(c)
      <3>1. b = 0
        BY <2>1, <2>4
      <3> QED
        BY <2>2, <2>4, <3>1 DEF Timed, Remaining
    <2> QED
      BY <2>3, <2>4
  <1>10. CASE Leave(c)
    BY <1>10 DEF Leave, Timed, Remaining, Idle
  <1> QED
    BY <1>1, <1>2, <1>3, <1>4, <1>5, <1>6, <1>7, <1>8, <1>9, <1>10 DEF Step, AttemptStep, LoopStep

-----------------------------------------------------------------------------

LEMMA Inductive == Spec => []IInv
  <1>1. Init => IInv
    <2> SUFFICES ASSUME Init PROVE IInv
      OBVIOUS
    <2>1. TypeOK
      BY RetryAssumption DEF Init, TypeOK
    <2>2. \A c \in Callers : CallInv(c)
      BY RetryAssumption
      DEF Init, CallInv, CountsAttempts, ReplaysLostOnly, Guarded, HoldsNothing, ReturnsResponse,
          KeepsBudget, Timed, Idle
    <2> QED
      BY <2>1, <2>2 DEF IInv
  <1>2. IInv /\ [Next]_vars => IInv'
    <2> SUFFICES ASSUME IInv, [Next]_vars PROVE IInv'
      OBVIOUS
    <2>1. CASE Next
      <3>1. PICK c \in Callers : Step(c)
        BY <2>1 DEF Next, Step
      <3>2. TypeOK' /\ Elsewhere(c)
        BY <3>1, TypeStep, StepIsLocal DEF IInv
      <3>3. CallInv(c)'
        BY <3>1, CountsStep, ReplayStep, HoldsStep, ReturnsStep, BudgetStep DEF IInv, CallInv
      <3>4. ASSUME NEW d \in Callers \ {c} PROVE CallInv(d)'
        BY <3>2, CallInvElsewhere DEF IInv
      <3> QED
        BY <3>2, <3>3, <3>4 DEF IInv
    <2>2. CASE UNCHANGED vars
      BY <2>2 DEF vars, IInv, TypeOK, CallInv, CountsAttempts, ReplaysLostOnly, Guarded,
                  HoldsNothing, ReturnsResponse, KeepsBudget, Timed, Remaining
    <2> QED
      BY <2>1, <2>2
  <1> QED
    BY <1>1, <1>2, PTL DEF Spec

\* Every variable keeps its type: no loop makes an attempt, or has the peer carry
\* the request out, more often than once and once per retry.
THEOREM TypeCorrect == Spec => []TypeOK
  BY Inductive, PTL DEF IInv

\* A POST that was not opted in is carried out again only after as many answers
\* were lost, for any number of retries (should_retry_status, RETRYABLE_EXC).
THEOREM NoStatusReplayTheorem == Spec => []NoStatusReplay
  <1>1. IInv => NoStatusReplay
    BY DEF IInv, CallInv, ReplaysLostOnly, Guarded, NoStatusReplay
  <1> QED
    BY <1>1, Inductive, PTL

\* No call sleeps, or waits for a connection, while it holds one
\* (response.close() before time.sleep).
THEOREM SleepersHoldNothingTheorem == Spec => []SleepersHoldNothing
  <1>1. IInv => SleepersHoldNothing
    BY DEF IInv, CallInv, HoldsNothing, SleepersHoldNothing
  <1> QED
    BY <1>1, Inductive, PTL

\* A deadline call that got a response returns it, also when the budget ran out in
\* a sleep or later attempts raised what is retried; only an exception outside
\* RETRYABLE_EXC, which the loop does not catch, is raised (_request_within_deadline).
THEOREM LastResponseWinsTheorem == Spec => []LastResponseWins
  <1>1. IInv => LastResponseWins
    BY DEF IInv, CallInv, ReturnsResponse, LastResponseWins
  <1> QED
    BY <1>1, Inductive, PTL

\* However the waits, the sleeps and the caps fall, a deadline call ends within
\* Waits - 1 timeouts of its deadline (_attempt_timeout).
THEOREM OverrunBoundedTheorem == Spec => []OverrunBounded
  <1>1. IInv => OverrunBounded
    BY DEF IInv, CallInv, KeepsBudget, OverrunBounded
  <1> QED
    BY <1>1, Inductive, PTL
=============================================================================
