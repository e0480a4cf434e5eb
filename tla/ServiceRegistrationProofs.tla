---------------------- MODULE ServiceRegistrationProofs ----------------------
(***************************************************************************)
(* Proofs about ServiceRegistration for any number of request threads and  *)
(* registration threads, any number of retries and any number of resets.   *)
(*                                                                         *)
(* A generation's latch is a token: while it is open nobody holds it, once *)
(* taken one caller holds it, and that caller turns it into one thread.    *)
(* LatchInv says so for the current generation and for all earlier ones.   *)
(***************************************************************************)
EXTENDS ServiceRegistration, TLAPS

Holds(c) == caller[c] = "latched"

\* Nothing belongs to a generation that is still to come, nor to the current
\* one while its latch is open.
NothingEarly ==
    /\ \A c \in Callers : Holds(c) => latched[c] <= generation
    /\ \A t \in Threads : Exists(t) => born[t] <= generation
    /\ ~started => /\ \A c \in Callers : Holds(c) => latched[c] # generation
                   /\ \A t \in Threads : Exists(t) => born[t] # generation

\* Two callers never hold the latch of the same generation.
OneHolder == \A c, d \in Callers : Holds(c) /\ Holds(d) /\ latched[c] = latched[d] => c = d

LatchInv == NothingEarly /\ OneHolder /\ OncePerLatch

IInv == TypeOK /\ LatchInv

-----------------------------------------------------------------------------

\* The steps that can neither take, hand on nor reopen the latch.
Aside ==
    /\ UNCHANGED <<started, generation, latched, born>>
    /\ \A c \in Callers : Holds(c)' => Holds(c)
    /\ \A t \in Threads : Exists(t)' => Exists(t)

LEMMA AsideKeepsLatchInv ==
    ASSUME LatchInv, Aside
    PROVE  LatchInv'
  BY DEF Aside, LatchInv, NothingEarly, OneHolder, OncePerLatch, Holds, Exists

\* Type correctness is preserved by the steps of a caller ...
LEMMA CallerTypeStep ==
    ASSUME TypeOK, NEW c \in Callers, CallerStep(c)
    PROVE  TypeOK'
  <1> USE DEF TypeOK, CallerStates, ThreadStates, process, callers, threads, registry
  <1>1. CASE Trigger(c)
    BY <1>1 DEF Trigger
  <1>2. CASE Latch(c)
    BY <1>2 DEF Latch
  <1>3. CASE Spawn(c)
    BY <1>3 DEF Spawn
  <1> QED
    BY <1>1, <1>2, <1>3 DEF CallerStep

\* ... of a thread ...
LEMMA ThreadTypeStep ==
    ASSUME TypeOK, NEW t \in Threads, ThreadStep(t)
    PROVE  TypeOK'
  <1> USE RegistrationAssumption DEF TypeOK, ThreadStates, process, callers, threads, registry
  <1>1. CASE Begin(t)
    BY <1>1 DEF Begin
  <1>2. CASE Register(t)
    BY <1>2 DEF Register
  <1>3. CASE AttemptFails(t)
    <2>1. live' \in BOOLEAN
      BY <1>3 DEF AttemptFails
    <2>2. attempt' \in [Threads -> 1..Attempts]
      BY <1>3 DEF AttemptFails
    <2>3. thread' \in [Threads -> ThreadStates]
      BY <1>3 DEF AttemptFails
    <2> QED
      BY <1>3, <2>1, <2>2, <2>3 DEF AttemptFails
  <1>4. CASE AttemptSucceeds(t)
    BY <1>4 DEF AttemptSucceeds
  <1>5. CASE StartHeartbeat(t)
    BY <1>5 DEF StartHeartbeat
  <1>6. CASE Wake(t)
    BY <1>6 DEF Wake
  <1>7. CASE Beat(t)
    BY <1>7 DEF Beat
  <1> QED
    BY <1>1, <1>2, <1>3, <1>4, <1>5, <1>6, <1>7 DEF ThreadStep

\* ... and of the surroundings.
LEMMA OtherTypeStep ==
    ASSUME TypeOK, Reset \/ Outage \/ Expire \/ ChangeEnv
    PROVE  TypeOK'
  <1> USE RegistrationAssumption DEF TypeOK, process, callers, threads, registry
  <1>1. CASE Reset
    <2>1. generation' \in Generations
      BY <1>1 DEF Reset, Generations
    <2> QED
      BY <1>1, <2>1 DEF Reset
  <1>2. CASE Outage
    BY <1>2 DEF Outage
  <1>3. CASE Expire
    BY <1>3 DEF Expire
  <1>4. CASE ChangeEnv
    BY <1>4 DEF ChangeEnv
  <1> QED
    BY <1>1, <1>2, <1>3, <1>4

-----------------------------------------------------------------------------

\* The latch is taken, handed to a thread, or passed by.
LEMMA CallerKeepsLatchInv ==
    ASSUME IInv, NEW c \in Callers, CallerStep(c)
    PROVE  LatchInv'
  <1> USE DEF IInv, TypeOK, process, callers, threads, registry
  <1>1. CASE Trigger(c)
    <2>1. Aside
      BY <1>1 DEF Trigger, Aside, Holds, Exists
    <2> QED
      BY <2>1, AsideKeepsLatchInv
  <1>2. CASE Latch(c)
    <2>1. CASE started
      <3>1. Aside
        BY <1>2, <2>1 DEF Latch, Aside, Holds, Exists
      <3> QED
        BY <3>1, AsideKeepsLatchInv
    <2>2. CASE ~started
      <3>1. NothingEarly'
        BY <1>2, <2>2 DEF Latch, LatchInv, NothingEarly, Holds, Exists, Generations
      <3>2. OneHolder'
        BY <1>2, <2>2 DEF Latch, LatchInv, NothingEarly, OneHolder, Holds
      <3>3. OncePerLatch'
        BY <1>2, <2>2 DEF Latch, LatchInv, NothingEarly, OncePerLatch, Exists
      <3> QED
        BY <3>1, <3>2, <3>3 DEF LatchInv
    <2> QED
      BY <2>1, <2>2
  <1>3. CASE Spawn(c)
    <2>1. PICK t \in Threads :
              /\ ~Exists(t)
              /\ thread' = [thread EXCEPT ![t] = "begin"]
              /\ born' = [born EXCEPT ![t] = latched[c]]
      BY <1>3 DEF Spawn, Exists
    <2>2. /\ Holds(c) /\ ~Holds(c)'
          /\ \A d \in Callers : Holds(d)' => Holds(d) /\ d # c
          /\ UNCHANGED <<started, generation, latched>>
      BY <1>3 DEF Spawn, Holds
    <2>3. /\ born'[t] = latched[c]
          /\ \A u \in Threads : u # t => born'[u] = born[u] /\ (Exists(u)' <=> Exists(u))
      BY <2>1 DEF Exists
    <2>4. NothingEarly'
      BY <2>1, <2>2, <2>3 DEF LatchInv, NothingEarly
    <2>5. OneHolder'
      BY <2>2 DEF LatchInv, OneHolder
    <2>6. OncePerLatch'
      BY <2>1, <2>2, <2>3 DEF LatchInv, OneHolder, OncePerLatch, Holds
    <2> QED
      BY <2>4, <2>5, <2>6 DEF LatchInv
  <1> QED
    BY <1>1, <1>2, <1>3 DEF CallerStep

\* A thread that exists goes on existing and keeps its generation.
LEMMA ThreadKeepsLatchInv ==
    ASSUME IInv, NEW t \in Threads, ThreadStep(t)
    PROVE  LatchInv'
  <1>1. Aside
    <2> USE DEF IInv, TypeOK, Aside, Holds, Exists, process, callers, threads, registry
    <2>1. CASE Begin(t)
      BY <2>1 DEF Begin
    <2>2. CASE Register(t)
      BY <2>2 DEF Register
    <2>3. CASE AttemptFails(t)
      BY <2>3 DEF AttemptFails
    <2>4. CASE AttemptSucceeds(t)
      BY <2>4 DEF AttemptSucceeds
    <2>5. CASE StartHeartbeat(t)
      BY <2>5 DEF StartHeartbeat
    <2>6. CASE Wake(t)
      BY <2>6 DEF Wake
    <2>7. CASE Beat(t)
      BY <2>7 DEF Beat
    <2> QED
      BY <2>1, <2>2, <2>3, <2>4, <2>5, <2>6, <2>7 DEF ThreadStep
  <1> QED
    BY <1>1, AsideKeepsLatchInv DEF IInv

\* A reset opens the latch of a generation nobody has seen yet.
LEMMA OtherKeepsLatchInv ==
    ASSUME IInv, Reset \/ Outage \/ Expire \/ ChangeEnv
    PROVE  LatchInv'
  <1> USE DEF process, callers, threads, registry
  <1>1. CASE Reset
    <2>1. /\ generation \in Nat /\ generation' = generation + 1 /\ started' = FALSE
          /\ \A c \in Callers : latched[c] \in Nat
          /\ \A t \in Threads : born[t] \in Nat
          /\ UNCHANGED <<caller, latched, thread, born>>
      BY <1>1 DEF Reset, IInv, TypeOK, Generations
    <2>2. NothingEarly'
      BY <2>1 DEF IInv, LatchInv, NothingEarly, Holds, Exists
    <2>3. OneHolder' /\ OncePerLatch'
      BY <2>1 DEF IInv, LatchInv, OneHolder, OncePerLatch, Holds, Exists
    <2> QED
      BY <2>2, <2>3 DEF LatchInv
  <1>2. CASE Outage \/ Expire \/ ChangeEnv
    <2>1. Aside
      BY <1>2 DEF Outage, Expire, ChangeEnv, Aside, Holds, Exists
    <2> QED
      BY <2>1, AsideKeepsLatchInv DEF IInv
  <1> QED
    BY <1>1, <1>2

-----------------------------------------------------------------------------

LEMMA Inductive == Spec => []IInv
  <1>1. Init => IInv
    <2> SUFFICES ASSUME Init PROVE IInv
      OBVIOUS
    <2>1. TypeOK
      <3>1. 0 \in Generations /\ 0 \in 0..MaxEnvChanges /\ 1 \in 1..Attempts
        BY RegistrationAssumption DEF Generations
      <3> QED
        BY <3>1, EnvAssumption DEF Init, TypeOK, CallerStates, ThreadStates
    <2>2. LatchInv
      BY DEF Init, LatchInv, NothingEarly, OneHolder, OncePerLatch, Holds, Exists
    <2> QED
      BY <2>1, <2>2 DEF IInv
  <1>2. IInv /\ [Next]_vars => IInv'
    <2> SUFFICES ASSUME IInv, [Next]_vars PROVE IInv'
      OBVIOUS
    <2>1. CASE \E c \in Callers : CallerStep(c)
      BY <2>1, CallerTypeStep, CallerKeepsLatchInv DEF IInv
    <2>2. CASE \E t \in Threads : ThreadStep(t)
      BY <2>2, ThreadTypeStep, ThreadKeepsLatchInv DEF IInv
    <2>3. CASE Reset \/ Outage \/ Expire \/ ChangeEnv
      BY <2>3, OtherTypeStep, OtherKeepsLatchInv DEF IInv
    <2>4. CASE UNCHANGED vars
      BY <2>4 DEF vars, IInv, TypeOK, LatchInv, NothingEarly, OneHolder, OncePerLatch,
                  Holds, Exists
    <2> QED
      BY <2>1, <2>2, <2>3, <2>4 DEF Next
  <1> QED
    BY <1>1, <1>2, PTL DEF Spec

\* Every variable of the registration keeps its type; in particular a thread
\* never counts an attempt beyond the delays it was given (register).
THEOREM TypeCorrect == Spec => []TypeOK
  BY Inductive, PTL DEF IInv

\* However many requests race through trigger_service_registration, and however
\* often reset_registration_state reopens the latch between one caller's locked
\* section and its Thread.start, one setting of the latch starts at most one
\* registration thread.
THEOREM OncePerLatchTheorem == Spec => []OncePerLatch
  BY Inductive, PTL DEF IInv, LatchInv
=============================================================================
