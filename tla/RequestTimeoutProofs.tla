------------------------ MODULE RequestTimeoutProofs ------------------------
(***************************************************************************)
(* Proofs about RequestTimeout for any number of slots, methods and any    *)
(* pool limit.  SlotInv says, for one slot, what is on the wire in each    *)
(* pair of positions of the two coroutines; it is inductive, and the       *)
(* safety properties follow from it.                                       *)
(*                                                                         *)
(* The second half shows that RequestTimeout implements AnswerContract.    *)
(* The mapping is slot by slot, so the proof says what a step does to its  *)
(* own slot's image (SlotMapped) and lifts that to the functions of the    *)
(* contract (Lifted).                                                      *)
(***************************************************************************)
EXTENDS RequestTimeout, SequenceTheorems, TLAPS

Head1(a) == <<Start(a)>>
Full(a)  == <<Start(a), Body(a)>>

\* What the application has put on the wire when nobody answers for it.
AppWire(r) ==
    /\ app[r] \in {"computing", "sendingHead"} => wire[r] = <<>>
    /\ app[r] \in {"headSent", "sendingBody"} => wire[r] = Head1("app")
    /\ app[r] = "sent" => wire[r] = Full("app")
    /\ AppOver(r) => wire[r] \in {<<>>, Head1("app"), Full("app")}

\* The application is awaited by the handler, on the server's send or a channel.
Attended(r) ==
    /\ handler[r] \in {"direct", "waiting", "streaming"}
    /\ ~abandoned[r]
    /\ app[r] # "absent"
    /\ AppWire(r)
    /\ handler[r] = "waiting" /\ ~started[r] => app[r] \in {"computing", "done", "failed"}
    /\ handler[r] = "direct" => ~Watches(r)
    /\ handler[r] # "direct" => Watches(r)

\* The handler answers, or has answered, 503 without an application.
Refused(r) ==
    /\ ~abandoned[r] /\ ~started[r]
    /\ Watches(r)
    /\ app[r] = "absent"
    /\ handler[r] = "shedHead" => wire[r] = <<>>
    /\ handler[r] = "shedBody" => wire[r] = Head1("overloaded")
    /\ handler[r] = "returned" => wire[r] = Full("overloaded")
    /\ handler[r] \in {"shedHead", "shedBody", "returned"}

\* The handler answers, or has answered, 504 and the application is muted.
Abandoned(r) ==
    /\ abandoned[r] /\ ~started[r]
    /\ Watches(r)
    /\ app[r] \notin {"absent", "sendingHead", "sendingBody"}
    /\ AppLive(r) => r \in pool
    /\ handler[r] = "timeoutHead" => wire[r] = <<>>
    /\ handler[r] = "timeoutBody" => wire[r] = Head1("timeout")
    /\ handler[r] = "returned" => wire[r] = Full("timeout")
    /\ handler[r] \in {"timeoutHead", "timeoutBody", "returned"}

\* The application ended while it was awaited.
Collected(r) ==
    /\ ~abandoned[r]
    /\ AppOver(r)
    /\ HandlerOver(r)
    /\ wire[r] \in {<<>>, Head1("app"), Full("app"), Full("server")}

Fresh(r) ==
    /\ handler[r] = "idle"
    /\ app[r] = "absent"
    /\ ~started[r] /\ ~abandoned[r]
    /\ wire[r] = <<>>

SlotInv(r) ==
    /\ r \in pool => abandoned[r]
    /\ \/ Fresh(r)
       \/ Attended(r)
       \/ Refused(r)
       \/ Abandoned(r)
       \/ Collected(r)

IInv == TypeOK /\ \A r \in Requests : SlotInv(r)
-----------------------------------------------------------------------------

\* Appending to a one-message answer gives the two-message one.
LEMMA AppendSecond ==
    ASSUME NEW S, NEW m \in S, NEW n \in S
    PROVE  Append(<<m>>, n) = <<m, n>>
  <1> DEFINE s == Append(<<m>>, n)
             t == <<m, n>>
  <1>1. s \in Seq(S) /\ Len(s) = 2 /\ s[1] = m /\ s[2] = n
    BY AppendProperties
  <1>2. t \in Seq(S) /\ Len(t) = 2 /\ t[1] = m /\ t[2] = n
    OBVIOUS
  <1> HIDE DEF s, t
  <1>3. \A i \in 1..Len(s) : s[i] = t[i]
    BY <1>1, <1>2
  <1>4. s = t
    BY <1>1, <1>2, <1>3, SeqEqual
  <1> QED
    BY <1>4 DEF s, t

\* Writing the first message, and the second, of one author's answer.
LEMMA AppendAnswer ==
    \A a \in Authors :
        /\ Append(<<>>, Start(a)) = Head1(a)
        /\ Append(Head1(a), Body(a)) = Full(a)
        /\ Full(a) \in Seq(Messages)
        /\ \A w \in Seq(Messages) :
               Append(w, Start(a)) \in Seq(Messages) /\ Append(w, Body(a)) \in Seq(Messages)
  <1>1. ASSUME NEW a \in Authors
        PROVE  Start(a) \in Messages /\ Body(a) \in Messages
    BY DEF Messages
  <1>2. ASSUME NEW S, NEW m \in S, NEW n \in S
        PROVE  /\ Append(<<>>, m) = <<m>>
               /\ <<m, n>> \in Seq(S)
               /\ \A w \in Seq(S) : Append(w, m) \in Seq(S)
    OBVIOUS
  <1> QED
    BY <1>1, <1>2, AppendSecond DEF Head1, Full

\* Everything but its slot is left alone by a step of slot r.
Elsewhere(r) == \A q \in Requests \ {r} :
    /\ scope'[q] = scope[q] /\ handler'[q] = handler[q] /\ app'[q] = app[q]
    /\ started'[q] = started[q] /\ abandoned'[q] = abandoned[q] /\ wire'[q] = wire[q]
    /\ q \in pool' <=> q \in pool

\* One step of slot r, by any of the actors.
SlotStep(r) ==
    \/ Call(r) \/ HandlerStep(r) \/ LateFinish(r)
    \/ AppStep(r) \/ AppWrite(r)
    \/ ServerError(r) \/ NextRequest(r)

\* Type correctness is preserved by every step.
LEMMA TypeStep ==
    ASSUME TypeOK, NEW r \in Requests, SlotStep(r)
    PROVE  TypeOK'
  <1>0. /\ wire[r] \in Seq(Messages)
        /\ \A a \in Authors : Append(wire[r], Start(a)) \in Seq(Messages) /\ Append(wire[r], Body(a)) \in Seq(Messages)
    BY AppendAnswer DEF TypeOK
  <1>1. CASE PassThrough(r)
    BY <1>1 DEF TypeOK, PassThrough, HandlerStates, AppStates
  <1>2. CASE Shed(r)
    BY <1>2 DEF TypeOK, Shed, HandlerStates, AppStates
  <1>3. CASE Watch(r)
    BY <1>3 DEF TypeOK, Watch, HandlerStates, AppStates
  <1>4. CASE Collect(r)
    BY <1>4 DEF TypeOK, Collect, HandlerStates, AppStates
  <1>5. CASE TimeoutStarted(r)
    BY <1>5 DEF TypeOK, TimeoutStarted, HandlerStates, AppStates
  <1>6. CASE TimeoutAbandon(r)
    BY <1>6 DEF TypeOK, TimeoutAbandon, HandlerStates, AppStates
  <1>7. CASE Reply(r)
    <2>1. handler' \in [Requests -> HandlerStates]
      BY <1>7 DEF TypeOK, Reply, HandlerStates
    <2>2. \E a \in Authors, w \in Seq(Messages) :
              /\ wire' = [wire EXCEPT ![r] = w]
              /\ w \in {Append(wire[r], Start(a)), Append(wire[r], Body(a))}
      BY <1>7, <1>0 DEF Reply, Authors
    <2> QED
      BY <1>7, <2>1, <2>2 DEF TypeOK, Reply
  <1>8. CASE LateFinish(r)
    BY <1>8 DEF TypeOK, LateFinish, HandlerStates, AppStates
  <1>9. CASE AppSend(r)
    BY <1>9 DEF TypeOK, AppSend, HandlerStates, AppStates
  <1>10. CASE AppReturn(r)
    BY <1>10 DEF TypeOK, AppReturn, HandlerStates, AppStates
  <1>11. CASE AppFail(r)
    BY <1>11 DEF TypeOK, AppFail, HandlerStates, AppStates
  <1>12. CASE AppWrite(r)
    BY ZenonT(30), <1>12, <1>0 DEF TypeOK, AppWrite, HandlerStates, AppStates, Authors
  <1>13. CASE ServerError(r)
    BY <1>13, AppendAnswer DEF TypeOK, ServerError, HandlerStates, AppStates, Authors, Full
  <1>14. CASE NextRequest(r)
    BY <1>14 DEF TypeOK, NextRequest, HandlerStates, AppStates
  <1> QED
    BY <1>1, <1>2, <1>3, <1>4, <1>5, <1>6, <1>7, <1>8, <1>9, <1>10, <1>11, <1>12, <1>13, <1>14 DEF SlotStep, Call, HandlerStep, AppStep

\* A step of slot r touches no other slot.
LEMMA StepIsLocal ==
    ASSUME TypeOK, NEW r \in Requests, SlotStep(r)
    PROVE  Elsewhere(r)
  <1>1. CASE PassThrough(r)
    BY <1>1 DEF TypeOK, PassThrough, Elsewhere
  <1>2. CASE Shed(r)
    BY <1>2 DEF TypeOK, Shed, Elsewhere
  <1>3. CASE Watch(r)
    BY <1>3 DEF TypeOK, Watch, Elsewhere
  <1>4. CASE Collect(r)
    BY <1>4 DEF TypeOK, Collect, Elsewhere
  <1>5. CASE TimeoutStarted(r)
    BY <1>5 DEF TypeOK, TimeoutStarted, Elsewhere
  <1>6. CASE TimeoutAbandon(r)
    BY <1>6 DEF TypeOK, TimeoutAbandon, Elsewhere
  <1>7. CASE Reply(r)
    BY <1>7 DEF TypeOK, Reply, Elsewhere
  <1>8. CASE LateFinish(r)
    BY <1>8 DEF TypeOK, LateFinish, Elsewhere
  <1>9. CASE AppSend(r)
    BY <1>9 DEF TypeOK, AppSend, Elsewhere
  <1>10. CASE AppReturn(r)
    BY <1>10 DEF TypeOK, AppReturn, Elsewhere
  <1>11. CASE AppFail(r)
    BY <1>11 DEF TypeOK, AppFail, Elsewhere
  <1>12. CASE AppWrite(r)
    BY <1>12 DEF TypeOK, AppWrite, Elsewhere
  <1>13. CASE ServerError(r)
    BY <1>13 DEF TypeOK, ServerError, Elsewhere
  <1>14. CASE NextRequest(r)
    BY <1>14 DEF TypeOK, NextRequest, Elsewhere
  <1> QED
    BY <1>1, <1>2, <1>3, <1>4, <1>5, <1>6, <1>7, <1>8, <1>9, <1>10, <1>11, <1>12, <1>13, <1>14 DEF SlotStep, Call, HandlerStep, AppStep

\* A slot that a step leaves alone keeps its invariant.
LEMMA SlotInvElsewhere ==
    ASSUME TypeOK, NEW r \in Requests, Elsewhere(r),
           NEW q \in Requests \ {r}, SlotInv(q)
    PROVE  SlotInv(q)'
  BY DEF Elsewhere, SlotInv, Fresh, Attended, Refused, Abandoned, Collected, AppWire,
         AppOver, AppLive, HandlerOver, Watches, IsCapped, Head1, Full, Start, Body

\* The stepping slot keeps its invariant: one step per action.
LEMMA SlotInvStep ==
    ASSUME TypeOK, NEW r \in Requests, SlotInv(r), SlotStep(r)
    PROVE  SlotInv(r)'
  <1> USE DEF TypeOK, SlotInv, Fresh, Attended, Refused, Abandoned, Collected, AppWire,
              AppOver, AppLive, HandlerOver
  <1>1. CASE PassThrough(r)
    BY <1>1 DEF PassThrough, Watches
  <1>2. CASE Shed(r)
    BY <1>2 DEF Shed, Watches
  <1>3. CASE Watch(r)
    BY <1>3 DEF Watch, Watches
  <1>4. CASE Collect(r)
    BY <1>4 DEF Collect, Watches
  <1>5. CASE TimeoutStarted(r)
    BY <1>5 DEF TimeoutStarted, Watches
  <1>6. CASE TimeoutAbandon(r)
    BY <1>6 DEF TimeoutAbandon, Watches
  <1>7. CASE Reply(r)
    BY ZenonT(30), <1>7, AppendAnswer DEF Reply, Watches, Authors
  <1>8. CASE LateFinish(r)
    BY <1>8 DEF LateFinish, Watches
  <1>9. CASE AppSend(r)
    BY <1>9 DEF AppSend, Watches
  <1>10. CASE AppReturn(r)
    BY <1>10 DEF AppReturn, Watches
  <1>11. CASE AppFail(r)
    BY <1>11 DEF AppFail, Watches, AppStates
  <1>12. CASE AppWrite(r)
    BY ZenonT(30), <1>12, AppendAnswer DEF AppWrite, Watches, Authors
  <1>13. CASE ServerError(r)
    BY <1>13 DEF ServerError, Watches, Full
  <1>14. CASE NextRequest(r)
    BY <1>14 DEF NextRequest, Watches
  <1> QED
    BY <1>1, <1>2, <1>3, <1>4, <1>5, <1>6, <1>7, <1>8, <1>9, <1>10, <1>11, <1>12, <1>13, <1>14 DEF SlotStep, Call, HandlerStep, AppStep

\* The inductive invariant holds throughout.
LEMMA Inductive == Spec => []IInv
  <1>1. Init => IInv
    <2> SUFFICES ASSUME Init PROVE IInv
      OBVIOUS
    <2>1. TypeOK
      BY DEF Init, TypeOK, HandlerStates, AppStates
    <2>2. \A r \in Requests : SlotInv(r)
      BY DEF Init, SlotInv, Fresh
    <2> QED
      BY <2>1, <2>2 DEF IInv
  <1>2. IInv /\ [Next]_vars => IInv'
    <2> SUFFICES ASSUME IInv, [Next]_vars PROVE IInv'
      OBVIOUS
    <2>1. CASE Next
      <3>1. PICK r \in Requests : SlotStep(r)
        BY <2>1 DEF Next, SlotStep
      <3>2. TypeOK' /\ Elsewhere(r)
        BY <3>1, TypeStep, StepIsLocal DEF IInv
      <3>3. SlotInv(r)'
        BY <3>1, SlotInvStep DEF IInv
      <3>4. ASSUME NEW q \in Requests \ {r} PROVE SlotInv(q)'
        BY <3>2, SlotInvElsewhere DEF IInv
      <3> QED
        BY <3>2, <3>3, <3>4 DEF IInv
    <2>2. CASE UNCHANGED vars
      BY <2>2 DEF vars, IInv, TypeOK, SlotInv, Fresh, Attended, Refused, Abandoned, Collected,
                  AppWire, AppOver, AppLive, HandlerOver, Watches, IsCapped
    <2> QED
      BY <2>1, <2>2
  <1> QED
    BY <1>1, <1>2, PTL DEF Spec

\* Every state variable keeps its type in every reachable state.
THEOREM TypeCorrect == Spec => []TypeOK
  BY Inductive, PTL DEF IInv

\* No client ever sees two answers mixed on the wire, for any number of
\* requests and any interleaving of the application, the 504, the 503 and the
\* server's own 500 (_ResponseChannel.send, __call__).
THEOREM OneResponseTheorem == Spec => []OneResponse
  <1>1. IInv => OneResponse
    BY DEF IInv, OneResponse, SlotInv, Fresh, Attended, Refused, Abandoned, Collected, AppWire,
           AppOver, AppStates, TypeOK, Head1, Full, Authors
  <1> QED
    BY <1>1, Inductive, PTL

\* Every application task left running after its handler returned is in
\* _abandoned, and what is there has been muted before it said anything.
THEOREM UnwatchedIsCountedTheorem == Spec => []UnwatchedIsCounted
  <1>1. IInv => UnwatchedIsCounted
    BY DEF IInv, UnwatchedIsCounted, SlotInv, Fresh, Attended, Refused, Abandoned, Collected,
           AppOver, AppLive, HandlerOver
  <1> QED
    BY <1>1, Inductive, PTL

\* A request outside the ceiling (a write, a websocket) is never answered 504
\* or 503, and never runs unattended.
THEOREM WritesNeverTimedOutTheorem == Spec => []WritesNeverTimedOut
  <1>1. ASSUME NEW a \in Authors
        PROVE  /\ \A i \in 1..Len(Head1(a)) : Head1(a)[i].by = a
               /\ \A i \in 1..Len(Full(a)) : Full(a)[i].by = a
               /\ Len(<<>>) = 0
    BY DEF Head1, Full, Start, Body
  <1>2. IInv => WritesNeverTimedOut
    <2> SUFFICES ASSUME IInv, NEW r \in Requests, ~Watches(r)
                 PROVE  /\ \A i \in 1..Len(wire[r]) : wire[r][i].by \in {"app", "server"}
                        /\ AppLive(r) => handler[r] = "direct"
      BY DEF WritesNeverTimedOut, Watches, IsCapped
    <2>1. wire[r] \in {<<>>, Head1("app"), Full("app"), Full("server")}
      BY DEF IInv, TypeOK, SlotInv, Fresh, Attended, Refused, Abandoned, Collected, AppWire,
             AppOver, AppStates
    <2>2. AppLive(r) => handler[r] = "direct"
      BY DEF IInv, SlotInv, Fresh, Attended, Refused, Abandoned, Collected, AppOver, AppLive
    <2> QED
      BY <2>1, <2>2, <1>1 DEF Authors
  <1> QED
    BY <1>2, Inductive, PTL

-----------------------------------------------------------------------------
\* The images of the slots in AnswerContract.

Sent(r) == Len(wire[r])

SameKind(r) == KindOf(r)' = KindOf(r)
SameAuthor(r) == AnsweredBy(r)' = AnsweredBy(r)
SameSent(r) == Sent(r)' = Sent(r)
SamePool == pool' = pool

\* What the contract's steps do to one slot, in terms of its image.
Stutters(r) == SameKind(r) /\ SameAuthor(r) /\ SameSent(r) /\ SamePool

AnswersItself(r) ==
    /\ AnsweredBy(r) = "nobody" /\ AnsweredBy(r)' \in {"app", "server"}
    /\ Sent(r)' \in 1..2
    /\ SameKind(r) /\ SamePool

TimesOut(r) ==
    /\ KindOf(r) # "open"
    /\ AnsweredBy(r) = "nobody" /\ AnsweredBy(r)' = "timeout"
    /\ pool' = pool \cup {r}
    /\ SameKind(r) /\ SameSent(r)

IsRefused(r) ==
    /\ KindOf(r) = "capped"
    /\ Overloaded
    /\ AnsweredBy(r) = "nobody" /\ AnsweredBy(r)' = "overloaded"
    /\ SameKind(r) /\ SameSent(r) /\ SamePool

SendsOn(r) ==
    /\ AnsweredBy(r) # "nobody"
    /\ Sent(r) < 2 /\ Sent(r)' = Sent(r) + 1
    /\ SameKind(r) /\ SameAuthor(r) /\ SamePool

OrphanIsOver(r) ==
    /\ r \in pool /\ pool' = pool \ {r}
    /\ SameKind(r) /\ SameAuthor(r) /\ SameSent(r)

TurnsOver(r) ==
    /\ Sent(r) > 0 /\ r \notin pool
    /\ AnsweredBy(r)' = "nobody" /\ Sent(r)' = 0
    /\ SamePool

Maps(r) ==
    \/ Stutters(r) \/ AnswersItself(r) \/ TimesOut(r) \/ IsRefused(r)
    \/ SendsOn(r) \/ OrphanIsOver(r) \/ TurnsOver(r)

-----------------------------------------------------------------------------

\* The author and the number of messages of the answers that SlotInv lists.
LEMMA AnswerFacts ==
    /\ Len(<<>>) = 0
    /\ \A a \in Authors :
         /\ Head1(a) # <<>> /\ Len(Head1(a)) = 1 /\ Head1(a)[1].by = a
         /\ Full(a) # <<>> /\ Len(Full(a)) = 2 /\ Full(a)[1].by = a
  BY DEF Head1, Full, Start, Body

\* A slot's author and count, from what is on its wire.
LEMMA ImageFacts ==
    ASSUME NEW r \in Requests
    PROVE  /\ wire[r] = <<>> => Sent(r) = 0
           /\ wire[r] = <<>> /\ handler[r] = "shedHead" => AnsweredBy(r) = "overloaded"
           /\ wire[r] = <<>> /\ handler[r] # "shedHead" /\ abandoned[r] => AnsweredBy(r) = "timeout"
           /\ wire[r] = <<>> /\ handler[r] # "shedHead" /\ ~abandoned[r] => AnsweredBy(r) = "nobody"
           /\ \A a \in Authors : /\ wire[r] = Head1(a) => AnsweredBy(r) = a /\ Sent(r) = 1
                                 /\ wire[r] = Full(a) => AnsweredBy(r) = a /\ Sent(r) = 2
  <1>1. CASE wire[r] = <<>>
    BY <1>1, AnswerFacts DEF AnsweredBy, Sent
  <1>2. CASE wire[r] # <<>>
    <2>1. AnsweredBy(r) = wire[r][1].by
      BY <1>2 DEF AnsweredBy
    <2> QED
      BY <1>2, <2>1, AnswerFacts DEF Sent
  <1> QED
    BY <1>1, <1>2

\* The same of the next state.
LEMMA NextImageFacts ==
    ASSUME NEW r \in Requests
    PROVE  /\ wire'[r] = <<>> => Sent(r)' = 0
           /\ wire'[r] = <<>> /\ handler'[r] = "shedHead" => AnsweredBy(r)' = "overloaded"
           /\ wire'[r] = <<>> /\ handler'[r] # "shedHead" /\ abandoned'[r] => AnsweredBy(r)' = "timeout"
           /\ wire'[r] = <<>> /\ handler'[r] # "shedHead" /\ ~abandoned'[r] => AnsweredBy(r)' = "nobody"
           /\ \A a \in Authors : /\ wire'[r] = Head1(a) => AnsweredBy(r)' = a /\ Sent(r)' = 1
                                 /\ wire'[r] = Full(a) => AnsweredBy(r)' = a /\ Sent(r)' = 2
  <1>1. CASE wire'[r] = <<>>
    BY <1>1, AnswerFacts DEF AnsweredBy, Sent
  <1>2. CASE wire'[r] # <<>>
    <2>1. AnsweredBy(r)' = wire'[r][1].by
      BY <1>2 DEF AnsweredBy
    <2> QED
      BY <1>2, <2>1, AnswerFacts DEF Sent
  <1> QED
    BY <1>1, <1>2

\* A slot is open, capped or exempt by its request's scope alone.
LEMMA ScopeDecidesKind ==
    ASSUME NEW r \in Requests, scope' = scope
    PROVE  SameKind(r)
  BY DEF SameKind, KindOf, Watches, IsCapped

\* The steps of the middleware that settle or send nothing.
LEMMA QuietStep ==
    ASSUME NEW r \in Requests, wire' = wire, abandoned' = abandoned, scope' = scope, pool' = pool,
           handler'[r] = "shedHead" <=> handler[r] = "shedHead"
    PROVE  Stutters(r)
  BY ScopeDecidesKind DEF Stutters, SameAuthor, AnsweredBy, SameSent, Sent, SamePool

\* One step of slot r is a step of the contract, or none, on its image.
LEMMA SlotMapped ==
    ASSUME TypeOK, NEW r \in Requests, SlotInv(r), SlotStep(r)
    PROVE  Maps(r)
  <1> USE DEF Maps
  <1>1. CASE PassThrough(r) \/ Watch(r) \/ Collect(r) \/ TimeoutStarted(r)
    BY <1>1, QuietStep DEF PassThrough, Watch, Collect, TimeoutStarted, TypeOK
  <1>2. CASE AppSend(r) \/ AppReturn(r) \/ AppFail(r)
    BY <1>2, QuietStep DEF AppSend, AppReturn, AppFail
  <1>3. CASE Shed(r)
    <2>1. Fresh(r)
      BY <1>3 DEF Shed, SlotInv, Fresh, Attended, Refused, Abandoned, Collected, HandlerOver
    <2>2. AnsweredBy(r) = "nobody" /\ AnsweredBy(r)' = "overloaded"
      BY <1>3, <2>1, ImageFacts, NextImageFacts DEF Shed, Fresh, TypeOK
    <2>3. KindOf(r) = "capped"
      BY <1>3 DEF Shed, KindOf
    <2> QED
      BY <1>3, <2>2, <2>3, ScopeDecidesKind DEF Shed, IsRefused, SameSent, Sent, SamePool
  <1>4. CASE TimeoutAbandon(r)
    <2>1. Attended(r) /\ wire[r] = <<>>
      BY <1>4 DEF TimeoutAbandon, SlotInv, Fresh, Attended, Refused, Abandoned, Collected, HandlerOver, AppWire, AppOver
    <2>2. AnsweredBy(r) = "nobody" /\ AnsweredBy(r)' = "timeout"
      BY <1>4, <2>1, ImageFacts, NextImageFacts DEF TimeoutAbandon, Attended, TypeOK
    <2>3. KindOf(r) # "open"
      BY <1>4, <2>1 DEF TimeoutAbandon, Attended, KindOf
    <2> QED
      BY <1>4, <2>2, <2>3, ScopeDecidesKind DEF TimeoutAbandon, TimesOut, SameSent, Sent
  <1>5. CASE Reply(r)
    <2>1. /\ handler[r] = "shedHead" => wire[r] = <<>> /\ wire'[r] = Head1("overloaded")
          /\ handler[r] = "shedBody" => wire[r] = Head1("overloaded") /\ wire'[r] = Full("overloaded")
          /\ handler[r] = "timeoutHead" => abandoned[r] /\ wire[r] = <<>> /\ wire'[r] = Head1("timeout")
          /\ handler[r] = "timeoutBody" => wire[r] = Head1("timeout") /\ wire'[r] = Full("timeout")
      BY ZenonT(30), <1>5, AppendAnswer DEF Reply, SlotInv, Fresh, Attended, Refused, Abandoned, Collected, HandlerOver, TypeOK, Authors
    <2>2. AnsweredBy(r) \in {"overloaded", "timeout"} /\ SameAuthor(r) /\ Sent(r) < 2 /\ Sent(r)' = Sent(r) + 1
      BY <1>5, <2>1, ImageFacts, NextImageFacts DEF Reply, Authors, SameAuthor
    <2> QED
      BY <1>5, <2>2, ScopeDecidesKind DEF Reply, SendsOn, SamePool
  <1>6. CASE LateFinish(r)
    BY <1>6, ScopeDecidesKind DEF LateFinish, OrphanIsOver, SameAuthor, AnsweredBy, SameSent, Sent
  <1>7. CASE AppWrite(r)
    <2>1. Attended(r) \/ Collected(r)
      BY <1>7 DEF AppWrite, SlotInv, Fresh, Attended, Refused, Abandoned, Collected
    <2>2. CASE app[r] = "sendingHead"
      <3>1. wire[r] = <<>> /\ handler[r] # "shedHead" /\ ~abandoned[r] /\ wire'[r] = Head1("app")
        BY <1>7, <2>1, <2>2, AppendAnswer DEF AppWrite, Attended, Collected, AppOver, AppWire, TypeOK, Authors
      <3>2. AnsweredBy(r) = "nobody" /\ AnsweredBy(r)' = "app" /\ Sent(r)' = 1
        BY <3>1, ImageFacts, NextImageFacts DEF Authors
      <3> QED
        BY <1>7, <3>2, ScopeDecidesKind DEF AppWrite, AnswersItself, SamePool
    <2>3. CASE app[r] = "sendingBody"
      <3>1. wire[r] = Head1("app") /\ wire'[r] = Full("app")
        BY <1>7, <2>1, <2>3, AppendAnswer DEF AppWrite, Attended, Collected, AppOver, AppWire, TypeOK, Authors
      <3>2. AnsweredBy(r) = "app" /\ AnsweredBy(r)' = "app" /\ Sent(r) = 1 /\ Sent(r)' = 2
        BY <3>1, ImageFacts, NextImageFacts DEF Authors
      <3> QED
        BY <1>7, <3>2, ScopeDecidesKind DEF AppWrite, SendsOn, SameAuthor, SamePool
    <2> QED
      BY <1>7, <2>2, <2>3 DEF AppWrite
  <1>8. CASE ServerError(r)
    <2>1. wire[r] = <<>> /\ handler[r] # "shedHead" /\ ~abandoned[r] /\ wire'[r] = Full("server")
      BY <1>8, AnswerFacts DEF ServerError, SlotInv, Fresh, Attended, Refused, Abandoned, Collected, HandlerOver, TypeOK, Full, Authors
    <2>2. AnsweredBy(r) = "nobody" /\ AnsweredBy(r)' = "server" /\ Sent(r)' = 2
      BY <2>1, ImageFacts, NextImageFacts DEF Authors
    <2> QED
      BY <1>8, <2>2, ScopeDecidesKind DEF ServerError, AnswersItself, SamePool
  <1>9. CASE NextRequest(r)
    <2>1. wire[r] \in Seq(Messages) /\ wire[r] # <<>>
      BY <1>9 DEF NextRequest, TypeOK
    <2>2. Sent(r) > 0
      BY <2>1 DEF Sent
    <2>3. AnsweredBy(r)' = "nobody" /\ Sent(r)' = 0
      BY <1>9, NextImageFacts DEF NextRequest, TypeOK
    <2> QED
      BY <1>9, <2>2, <2>3 DEF NextRequest, TurnsOver, SamePool
  <1> QED
    BY <1>1, <1>2, <1>3, <1>4, <1>5, <1>6, <1>7, <1>8, <1>9 DEF SlotStep, Call, HandlerStep, AppStep

-----------------------------------------------------------------------------

\* The contract's variables: each is a function of the slots' images.
KindMap   == [r \in Requests |-> KindOf(r)]
AuthorMap == [r \in Requests |-> AnsweredBy(r)]
SentMap   == [r \in Requests |-> Len(wire[r])]

\* A step of slot r leaves the other slots' images alone, so it updates each
\* function of the contract at r only.
LEMMA MapsAtSlot ==
    ASSUME TypeOK, NEW r \in Requests, SlotStep(r)
    PROVE  /\ KindMap' = [KindMap EXCEPT ![r] = KindOf(r)']
           /\ AuthorMap' = [AuthorMap EXCEPT ![r] = AnsweredBy(r)']
           /\ SentMap' = [SentMap EXCEPT ![r] = Sent(r)']
  <1>1. ASSUME NEW q \in Requests, q # r
        PROVE  SameKind(q) /\ SameAuthor(q) /\ SameSent(q)
    <2>1. Elsewhere(r)
      BY StepIsLocal
    <2> QED
      BY <1>1, <2>1 DEF Elsewhere, SameKind, KindOf, Watches, IsCapped, SameAuthor, AnsweredBy,
                        SameSent, Sent
  <1>2. KindMap' = [KindMap EXCEPT ![r] = KindOf(r)']
    BY <1>1 DEF KindMap, SameKind
  <1>3. AuthorMap' = [AuthorMap EXCEPT ![r] = AnsweredBy(r)']
    BY <1>1 DEF AuthorMap, SameAuthor
  <1>4. SentMap' = [SentMap EXCEPT ![r] = Sent(r)']
    BY <1>1 DEF SentMap, SameSent, Sent
  <1> QED
    BY <1>2, <1>3, <1>4

\* So what SlotMapped says of the slot's image is a step of the contract.
LEMMA Lifted ==
    ASSUME TypeOK, NEW r \in Requests, SlotInv(r), SlotStep(r)
    PROVE  [Contract!Next]_(Contract!vars)
  <1> DEFINE K == KindMap  A == AuthorMap  S == SentMap
  <1>1. /\ K[r] = KindOf(r) /\ A[r] = AnsweredBy(r) /\ S[r] = Sent(r)
        /\ K' = [K EXCEPT ![r] = KindOf(r)']
        /\ A' = [A EXCEPT ![r] = AnsweredBy(r)']
        /\ S' = [S EXCEPT ![r] = Sent(r)']
    BY MapsAtSlot DEF KindMap, AuthorMap, SentMap, Sent
  <1>2. /\ SameKind(r) => K' = K
        /\ SameAuthor(r) => A' = A
        /\ SameSent(r) => S' = S
    BY <1>1 DEF KindMap, AuthorMap, SentMap, SameKind, SameAuthor, SameSent
  <1>3. KindOf(r)' \in Contract!Kinds
    BY DEF KindOf, Contract!Kinds
  <1>4. CASE Stutters(r)
    BY <1>2, <1>4 DEF Stutters, SamePool, Contract!vars, KindMap, AuthorMap, SentMap
  <1>5. CASE AnswersItself(r)
    <2>1. Contract!AnswerItself(r)
      BY <1>1, <1>2, <1>5 DEF AnswersItself, SamePool, Contract!AnswerItself, Contract!TakeAnswer,
                              KindMap, AuthorMap, SentMap
    <2> QED
      BY <2>1 DEF Contract!Next
  <1>6. CASE TimesOut(r)
    <2>1. Contract!AnswerTimeout(r)
      BY <1>1, <1>2, <1>6 DEF TimesOut, Contract!AnswerTimeout, Contract!TakeAnswer,
                              KindMap, AuthorMap, SentMap
    <2> QED
      BY <2>1 DEF Contract!Next
  <1>7. CASE IsRefused(r)
    <2>0. Contract!Cardinality(pool) = Cardinality(pool)
      BY DEF Contract!Cardinality, Cardinality
    <2>1. Contract!AnswerOverloaded(r)
      BY <1>1, <1>2, <1>7, <2>0 DEF IsRefused, Overloaded, SamePool, Contract!AnswerOverloaded,
                              Contract!TakeAnswer, KindMap, AuthorMap, SentMap
    <2> QED
      BY <2>1 DEF Contract!Next
  <1>8. CASE SendsOn(r)
    <2>1. Contract!SendOn(r)
      BY <1>1, <1>2, <1>8 DEF SendsOn, SamePool, Contract!SendOn, KindMap, AuthorMap, SentMap
    <2> QED
      BY <2>1 DEF Contract!Next
  <1>9. CASE OrphanIsOver(r)
    <2>1. Contract!OrphanEnds(r)
      BY <1>2, <1>9 DEF OrphanIsOver, Contract!OrphanEnds, KindMap, AuthorMap, SentMap
    <2> QED
      BY <2>1 DEF Contract!Next
  <1>10. CASE TurnsOver(r)
    <2>1. Contract!TurnOver(r)
      BY <1>1, <1>3, <1>10 DEF TurnsOver, SamePool, Contract!TurnOver, KindMap, AuthorMap, SentMap
    <2> QED
      BY <2>1 DEF Contract!Next
  <1> QED
    BY SlotMapped, <1>4, <1>5, <1>6, <1>7, <1>8, <1>9, <1>10 DEF Maps

\* The middleware implements AnswerContract: whatever the coroutines, the timer
\* and the application do, the author of an answer is settled once, a 503 is
\* decided at the limit only, a 504 always counts the work it leaves behind, and
\* a slot is not reused before that work is over (__call__, _abandon, _reply).
THEOREM Implements == Spec => ImplementsContract
  <1>1. Init => Contract!Init
    <2> SUFFICES ASSUME Init PROVE Contract!Init
      OBVIOUS
    <2>1. \A r \in Requests : KindOf(r) \in Contract!Kinds
      BY DEF KindOf, Contract!Kinds
    <2>2. \A r \in Requests : AnsweredBy(r) = "nobody" /\ Len(wire[r]) = 0
      BY AnswerFacts DEF Init, AnsweredBy
    <2> QED
      BY <2>1, <2>2 DEF Init, Contract!Init
  <1>2. IInv /\ [Next]_vars => [Contract!Next]_(Contract!vars)
    <2> SUFFICES ASSUME IInv, [Next]_vars PROVE [Contract!Next]_(Contract!vars)
      OBVIOUS
    <2>1. CASE Next
      <3>1. PICK r \in Requests : SlotStep(r)
        BY <2>1 DEF Next, SlotStep
      <3> QED
        BY <3>1, Lifted DEF IInv
    <2>2. CASE UNCHANGED vars
      BY <2>2 DEF vars, Contract!vars, KindOf, Watches, IsCapped, AnsweredBy
    <2> QED
      BY <2>1, <2>2
  <1> QED
    BY <1>1, <1>2, Inductive, PTL DEF Spec, ImplementsContract, Contract!Spec
=============================================================================
