--------------------------- MODULE AnswerContract ---------------------------
(***************************************************************************)
(* What asgi/timeout.py promises a server and its clients, without the     *)
(* coroutines, channels and timers that keep the promise: every request is *)
(* answered by one author, a 503 only while too much orphaned work is      *)
(* under way, a 504 only where a retry is harmless and only by counting    *)
(* the work it leaves behind.                                              *)
(***************************************************************************)
EXTENDS Naturals, FiniteSets

CONSTANTS
    Requests,  \* request slots
    Limit      \* how much orphaned work is tolerated before refusing

VARIABLES
    kind,     \* kind[r]: "open" (never cut short), "capped" or "exempt" (never refused)
    author,   \* author[r]: who answers, "nobody" until that is settled
    sent,     \* sent[r]: how many of the answer's two messages are out
    orphans   \* requests whose work goes on although they were answered 504

vars == <<kind, author, sent, orphans>>

Kinds == {"open", "capped", "exempt"}

Init ==
    /\ kind \in [Requests -> Kinds]
    /\ author = [r \in Requests |-> "nobody"]
    /\ sent = [r \in Requests |-> 0]
    /\ orphans = {}

\* a takes the answer, and no one else may from then on.
TakeAnswer(r, a) ==
    /\ author[r] = "nobody"
    /\ author' = [author EXCEPT ![r] = a]
    /\ UNCHANGED kind

\* The application, or the server for it, begins its own answer.
AnswerItself(r) ==
    /\ \E a \in {"app", "server"} : TakeAnswer(r, a)
    /\ \E n \in 1..2 : sent' = [sent EXCEPT ![r] = n]
    /\ UNCHANGED orphans

AnswerTimeout(r) ==
    /\ kind[r] # "open"
    /\ TakeAnswer(r, "timeout")
    /\ orphans' = orphans \cup {r}
    /\ UNCHANGED sent

AnswerOverloaded(r) ==
    /\ kind[r] = "capped"
    /\ Cardinality(orphans) >= Limit
    /\ TakeAnswer(r, "overloaded")
    /\ UNCHANGED <<sent, orphans>>

SendOn(r) ==
    /\ author[r] # "nobody"
    /\ sent[r] < 2
    /\ sent' = [sent EXCEPT ![r] = @ + 1]
    /\ UNCHANGED <<kind, author, orphans>>

OrphanEnds(r) ==
    /\ r \in orphans
    /\ orphans' = orphans \ {r}
    /\ UNCHANGED <<kind, author, sent>>

\* The slot is used again once its answer went out and its work is over.
TurnOver(r) ==
    /\ sent[r] > 0
    /\ r \notin orphans
    /\ \E k \in Kinds : kind' = [kind EXCEPT ![r] = k]
    /\ author' = [author EXCEPT ![r] = "nobody"]
    /\ sent' = [sent EXCEPT ![r] = 0]
    /\ UNCHANGED orphans

Next == \E r \in Requests :
    \/ AnswerItself(r) \/ AnswerTimeout(r) \/ AnswerOverloaded(r)
    \/ SendOn(r) \/ OrphanEnds(r) \/ TurnOver(r)

Spec == Init /\ [][Next]_vars
=============================================================================
