------------------------ MODULE RequestContextProofs ------------------------
(***************************************************************************)
(* Proofs about Tracing and RequestContext for any number of threads,      *)
(* tasks, users, reasons, nested blocks and copies.                        *)
(*                                                                         *)
(* An actor fits a block when a save in it is attributed as the property   *)
(* allows.  Good(x, s, n, a, h) says of a context with the stack s, n      *)
(* copies, the actor a and the Context object h that a fits the innermost  *)
(* block, and that the actor each token remembers fits the block around    *)
(* its own: what leaving a block then restores is right again.  The        *)
(* lemmas say so for pushing, popping and re-labelling a stack.            *)
(***************************************************************************)
EXTENDS RequestContext, SequenceTheorems, FiniteSetTheorems, TLAPS

Reasons == RawReasons \cup {BlankReason}

\* The actors that can be bound: nobody is never bound with a reason.
Bindable == [who : Users \cup {"system"}, reason : Reasons] \cup {Nobody}

\* A save as a, in a block meant for m, after n copies, is attributed correctly.
Fits(n, a, m) ==
    \/ OrSystem(a) = OrSystem(m)
    \/ /\ n > 0
       /\ OrSystem(a).who = "system"
       /\ OrSystem(a).reason \in {BlankReason, OrSystem(m).reason}

BindingKinds == {"middleware", "actor", "reason", "save"}

\* Whom the code around block i is meant to act for; whether nothing is bound there.
Around(s, i) == IF i = 1 THEN Nobody ELSE s[i - 1].meant
Bare(s, i) == i = 1 \/ s[i - 1].kind = "trace"

TokenFits(s, n, i) ==
    LET t == s[i].token
    IN  /\ t.value \in Bindable
        /\ t.home \in 1..(n + 1)
        /\ Fits(n, t.value, Around(s, i))
        /\ Bare(s, i) => t.value = Nobody

\* Block i of a stack is where its kind can be, and remembers what it should.
BlockOK(x, s, n, i) ==
    LET b == s[i]
    IN  /\ b \in Blocks
        /\ b.meant \in Bindable
        /\ b.kind \in BindingKinds => TokenFits(s, n, i)
        /\ b.kind \notin BindingKinds => b.token = NoToken
        /\ b.kind = "trace" => i = 1 /\ b.meant = Nobody
        /\ b.kind = "spawned" => i = 1 /\ x \in Tasks
        /\ b.kind = "middleware" => i = 1 \/ (i = 2 /\ s[1].kind = "trace")
        /\ b.kind = "copy" => i > 1 /\ s[i - 1].kind = "middleware"

\* The actor a is right for what is innermost.
ActorFits(s, n, a) ==
    /\ a \in Bindable
    /\ s = <<>> => a = Nobody
    /\ s # <<>> => /\ Fits(n, a, s[Len(s)].meant)
                   /\ s[Len(s)].kind = "trace" => a = Nobody

\* Only inside a copy does code run in another Context object than its own.
HomeFits(s, n, h) ==
    /\ h \in 1..(n + 1)
    /\ h # 1 => \E i \in 1..Len(s) : s[i].kind = "copy"

Good(x, s, n, a, h) ==
    /\ s \in Seq(Blocks)
    /\ \A i \in 1..Len(s) : BlockOK(x, s, n, i)
    /\ ActorFits(s, n, a)
    /\ HomeFits(s, n, h)

KeptFits(t, n) == t = NoToken \/ (t.value \in Bindable /\ t.home \in 1..(n + 1))

ContextInv(x) ==
    /\ Good(x, stack[x], copies[x], current[x], home[x])
    /\ KeptFits(kept[x], copies[x])
    /\ Idle(x) => kept[x] = NoToken

-----------------------------------------------------------------------------

\* Every bindable actor, and every reason after normalize_reason, has its type.
LEMMA ActorTypes ==
    /\ Bindable \subseteq Actors
    /\ Nobody \in Bindable /\ System \in Bindable
    /\ \A a \in Bindable : OrSystem(a) \in Bindable /\ OrSystem(a) # Nobody
    /\ \A r \in Reasons \cup {"absent"} : normalize_reason(r) \in Reasons
    /\ \A w \in Users \cup {"system"}, r \in Reasons \cup {"absent"} : Actor(w, r) \in Bindable
  <1>1. Nobody \in Bindable /\ System \in Bindable /\ System # Nobody
    BY DEF Bindable, Nobody, System, Reasons
  <1>2. Bindable \subseteq Actors
    BY DEF Bindable, Actors, Nobody, Reasons
  <1>3. \A r \in Reasons \cup {"absent"} : normalize_reason(r) \in Reasons
    BY DEF normalize_reason, Reasons
  <1>4. \A w \in Users \cup {"system"}, r \in Reasons \cup {"absent"} : Actor(w, r) \in Bindable
    BY <1>3 DEF Actor, Bindable
  <1> QED
    BY <1>1, <1>2, <1>3, <1>4 DEF OrSystem

\* The actor that is meant fits; a mere loss of the actor fits once a copy was made.
LEMMA FitsFacts ==
    /\ \A n \in Nat, a \in Bindable : Fits(n, a, a)
    /\ \A n, k \in Nat, a, m \in Bindable : Fits(n, a, m) /\ n <= k => Fits(k, a, m)
    /\ \A n \in Nat, m \in Bindable : n > 0 => Fits(n, Nobody, m)
  BY DEF Fits, OrSystem, System

\* The actor with another reason.
Restated(m, r) == [OrSystem(m) EXCEPT !.reason = r]

\* reason_context keeps who is acting: what fitted fits with the new reason.
LEMMA FitsRestated ==
    ASSUME NEW n \in Nat, NEW a \in Bindable, NEW m \in Bindable, Fits(n, a, m), NEW r \in Reasons
    PROVE  /\ Restated(a, r) \in Bindable /\ Restated(m, r) \in Bindable
           /\ Fits(n, Restated(a, r), Restated(m, r))
  <1>1. ASSUME NEW b \in Bindable
        PROVE  /\ Restated(b, r) = [who |-> OrSystem(b).who, reason |-> r]
               /\ Restated(b, r) \in Bindable
               /\ OrSystem(Restated(b, r)) = Restated(b, r)
    <2>1. OrSystem(b) \in [who : Users \cup {"system"}, reason : Reasons]
      BY ActorTypes DEF Bindable, System, OrSystem, Reasons
    <2>2. Restated(b, r) = [who |-> OrSystem(b).who, reason |-> r] /\ OrSystem(b).who \in Users \cup {"system"}
      BY <2>1 DEF Restated
    <2>3. Restated(b, r) # Nobody
      BY <2>2, ContextAssumption DEF Nobody
    <2> QED
      BY <2>2, <2>3 DEF Bindable, OrSystem
  <1> QED
    BY <1>1 DEF Fits

-----------------------------------------------------------------------------

\* A block keeps its place in another stack when what it stands on is the same
\* there, and only its label, whom its code is meant to act for, may differ.
LEMMA BlockCarries ==
    ASSUME NEW x, NEW s, NEW t, NEW n \in Nat, NEW k \in Nat, n <= k, NEW i \in Nat \ {0},
           BlockOK(x, s, n, i),
           t[i] \in Blocks, t[i].kind = s[i].kind, t[i].token = s[i].token,
           t[i].meant \in Bindable, t[i].kind = "trace" => t[i].meant = Nobody,
           t[1].kind = s[1].kind,
           i > 1 => /\ t[i - 1].kind = s[i - 1].kind /\ t[i - 1].meant = s[i - 1].meant
                    /\ s[i - 1].meant \in Bindable
    PROVE  BlockOK(x, t, k, i)
  <1>1. Around(t, i) = Around(s, i) /\ Around(s, i) \in Bindable /\ (Bare(t, i) <=> Bare(s, i))
    BY ActorTypes DEF Around, Bare
  <1>2. TokenFits(s, n, i) => TokenFits(t, k, i)
    BY <1>1, FitsFacts DEF TokenFits
  <1> QED
    BY <1>2 DEF BlockOK

\* What an appended stack looks like.
LEMMA AppendFacts ==
    ASSUME NEW s \in Seq(Blocks), NEW b \in Blocks
    PROVE  /\ Append(s, b) \in Seq(Blocks) /\ Len(Append(s, b)) = Len(s) + 1
           /\ Len(s) \in Nat /\ Append(s, b) # <<>>
           /\ \A i \in 1..Len(s) : Append(s, b)[i] = s[i]
           /\ Append(s, b)[Len(s) + 1] = b
  BY AppendProperties, EmptySeq, LenProperties

\* What a stack without its innermost block looks like.
LEMMA FrontFacts ==
    ASSUME NEW s \in Seq(Blocks), s # <<>>
    PROVE  /\ Front(s) \in Seq(Blocks) /\ Len(Front(s)) = Len(s) - 1 /\ Len(s) \in Nat \ {0}
           /\ \A i \in 1..(Len(s) - 1) : Front(s)[i] = s[i]
           /\ Front(s) = <<>> <=> Len(s) = 1
  <1>1. Len(s) \in Nat \ {0}
    BY EmptySeq
  <1>2. /\ SubSeq(s, 1, Len(s) - 1) \in Seq(Blocks)
        /\ Len(SubSeq(s, 1, Len(s) - 1)) = Len(s) - 1
        /\ \A i \in 1..(Len(s) - 1) : SubSeq(s, 1, Len(s) - 1)[i] = s[i]
    <2> DEFINE k == Len(s) - 1
    <2>1. /\ k \in Int /\ k >= 0 /\ \A i \in 1..k : s[i] \in Blocks
          /\ k - 1 + 1 = k /\ \A i \in 1..k : 1 + i - 1 = i
      BY <1>1, LenProperties
    <2> HIDE DEF k
    <2>2. /\ SubSeq(s, 1, k) \in Seq(Blocks)
          /\ Len(SubSeq(s, 1, k)) = IF 1 <= k THEN k - 1 + 1 ELSE 0
          /\ \A i \in 1..(k - 1 + 1) : SubSeq(s, 1, k)[i] = s[1 + i - 1]
      BY <2>1, SubSeqProperties
    <2>3. Len(SubSeq(s, 1, k)) = k /\ \A i \in 1..k : SubSeq(s, 1, k)[i] = s[i]
      BY <2>1, <2>2
    <2> QED
      BY <2>2, <2>3 DEF k
  <1>3. Front(s) = <<>> <=> Len(s) = 1
    <2>1. Front(s) = SubSeq(s, 1, Len(s) - 1)
      BY DEF Front
    <2>2. Front(s) = <<>> <=> Len(Front(s)) = 0
      BY <1>2, <2>1, EmptySeq
    <2> QED
      BY <1>1, <1>2, <2>1, <2>2
  <1> QED
    BY <1>1, <1>2, <1>3 DEF Front

\* Pushing a block that fits leaves a good stack, also when a copy is counted.
LEMMA PushGood ==
    ASSUME NEW x, NEW n \in Nat, NEW k \in Nat, n <= k, NEW s, NEW a, NEW h, Good(x, s, n, a, h),
           NEW b \in Blocks, BlockOK(x, Append(s, b), k, Len(s) + 1)
    PROVE  /\ Append(s, b) \in Seq(Blocks)
           /\ \A i \in 1..Len(Append(s, b)) : BlockOK(x, Append(s, b), k, i)
  <1> DEFINE t == Append(s, b)
  <1>1. s \in Seq(Blocks) /\ \A i \in 1..Len(s) : BlockOK(x, s, n, i)
    BY DEF Good
  <1>2. /\ t \in Seq(Blocks) /\ Len(t) = Len(s) + 1 /\ Len(s) \in Nat
        /\ \A i \in 1..Len(s) : t[i] = s[i]
    BY <1>1, AppendFacts
  <1>3. BlockOK(x, t, k, Len(s) + 1)
    OBVIOUS
  <1> HIDE DEF t
  <1>4. ASSUME NEW i \in 1..Len(s) PROVE BlockOK(x, t, k, i)
    <2>1. BlockOK(x, s, n, i) /\ (i > 1 => BlockOK(x, s, n, i - 1))
      BY <1>1, <1>2
    <2>2. i \in Nat \ {0} /\ t[i] = s[i] /\ t[1] = s[1] /\ (i > 1 => t[i - 1] = s[i - 1])
      BY <1>2
    <2>3. t[i] \in Blocks /\ t[i].meant \in Bindable /\ (t[i].kind = "trace" => t[i].meant = Nobody)
      BY <2>1, <2>2 DEF BlockOK
    <2>4. i > 1 => s[i - 1].meant \in Bindable
      BY <2>1 DEF BlockOK
    <2> QED
      BY <2>1, <2>2, <2>3, <2>4, BlockCarries
  <1>5. t \in Seq(Blocks) /\ \A i \in 1..Len(t) : BlockOK(x, t, k, i)
    BY <1>2, <1>3, <1>4
  <1> QED
    BY <1>5 DEF t

\* The actor that the innermost block's token restores is right for what is left.
LEMMA PopGood ==
    ASSUME NEW x, NEW n \in Nat, NEW s, NEW a, NEW h, Good(x, s, n, a, h), s # <<>>
    PROVE  /\ Front(s) \in Seq(Blocks)
           /\ \A i \in 1..Len(Front(s)) : BlockOK(x, Front(s), n, i)
           /\ Front(s) = <<>> => 1..Len(Front(s)) = {}
  <1> DEFINE t == Front(s)
  <1>1. s \in Seq(Blocks) /\ \A i \in 1..Len(s) : BlockOK(x, s, n, i)
    BY DEF Good
  <1>2. /\ t \in Seq(Blocks) /\ Len(t) = Len(s) - 1 /\ Len(s) \in Nat \ {0}
        /\ \A i \in 1..(Len(s) - 1) : t[i] = s[i]
        /\ t = <<>> <=> Len(s) = 1
    BY <1>1, FrontFacts
  <1> HIDE DEF t
  <1>3. ASSUME NEW i \in 1..Len(t) PROVE BlockOK(x, t, n, i)
    <2>1. BlockOK(x, s, n, i) /\ (i > 1 => BlockOK(x, s, n, i - 1))
      BY <1>1, <1>2
    <2>2. i \in Nat \ {0} /\ t[i] = s[i] /\ t[1] = s[1] /\ (i > 1 => t[i - 1] = s[i - 1])
      BY <1>2
    <2>3. t[i] \in Blocks /\ t[i].meant \in Bindable /\ (t[i].kind = "trace" => t[i].meant = Nobody)
      BY <2>1, <2>2 DEF BlockOK
    <2>4. i > 1 => s[i - 1].meant \in Bindable
      BY <2>1 DEF BlockOK
    <2> QED
      BY <2>1, <2>2, <2>3, <2>4, BlockCarries
  <1>4. t \in Seq(Blocks) /\ (\A i \in 1..Len(t) : BlockOK(x, t, n, i)) /\ (t = <<>> => 1..Len(t) = {})
    BY <1>2, <1>3
  <1> QED
    BY <1>4 DEF t

\* The stack with another label on its innermost block.
Relabelled(s, m) == [s EXCEPT ![Len(s)].meant = m]

\* The stack t has the blocks of s, still in place, and the innermost is meant for m.
RelabelsTo(x, n, s, m, t) ==
    /\ t \in Seq(Blocks) /\ Len(t) = Len(s) /\ t # <<>>
    /\ \A i \in 1..Len(s) : BlockOK(x, t, n, i) /\ t[i].kind = s[i].kind /\ t[i].token = s[i].token
    /\ t[Len(s)].meant = m

\* Re-labelling the innermost block, which is not a trace, leaves a good stack.
LEMMA RelabelGood ==
    ASSUME NEW x, NEW n \in Nat, NEW s \in Seq(Blocks), s # <<>>,
           \A i \in 1..Len(s) : BlockOK(x, s, n, i),
           s[Len(s)].kind # "trace", NEW m \in Bindable
    PROVE  RelabelsTo(x, n, s, m, Relabelled(s, m))
  <1>1. Len(s) \in Nat \ {0} /\ s \in [1..Len(s) -> Blocks]
    BY EmptySeq, LenProperties
  <1> DEFINE b == [s[Len(s)] EXCEPT !.meant = m]
             t == Relabelled(s, m)
             l == Len(s)
  <1>2. s[Len(s)] \in Blocks /\ m \in Actors
    BY <1>1, ActorTypes
  <1>3. b \in Blocks /\ b.kind = s[Len(s)].kind /\ b.token = s[Len(s)].token /\ b.meant = m
    BY <1>2 DEF Blocks
  <1>4. t = [s EXCEPT ![l] = b] /\ l \in 1..Len(s) /\ l = Len(s)
    BY <1>1 DEF Relabelled
  <1> HIDE DEF b, t, l
  <1>5. /\ t \in Seq(Blocks) /\ Len(t) = l /\ l \in Nat \ {0}
        /\ \A i \in 1..l : t[i] = IF i = l THEN b ELSE s[i]
    <2>1. t \in Seq(Blocks) /\ Len(t) = Len(s) /\ \A i \in 1..Len(s) : t[i] = IF i = l THEN b ELSE s[i]
      BY <1>3, <1>4, ExceptSeq
    <2> QED
      BY <1>1, <1>4, <2>1
  <1>6. t # <<>>
    BY <1>1, <1>5, EmptySeq
  <1>7. ASSUME NEW i \in 1..l PROVE BlockOK(x, t, n, i) /\ t[i].kind = s[i].kind /\ t[i].token = s[i].token
    <2>0. i \in 1..l /\ (i > 1 => i - 1 \in 1..l) /\ 1 \in 1..l
      BY <1>5
    <2>1. BlockOK(x, s, n, i) /\ (i > 1 => BlockOK(x, s, n, i - 1))
      BY <1>4, <2>0
    <2>2. /\ i \in Nat \ {0} /\ t[i].kind = s[i].kind /\ t[i].token = s[i].token
          /\ t[1].kind = s[1].kind /\ (i > 1 => t[i - 1] = s[i - 1])
      BY <1>3, <1>4, <1>5, <2>0
    <2>3. t[i] \in Blocks /\ t[i].meant \in Bindable /\ (t[i].kind = "trace" => t[i].meant = Nobody)
      BY <1>3, <1>4, <1>5, <2>0, <2>1 DEF BlockOK
    <2>4. i > 1 => s[i - 1].meant \in Bindable
      BY <2>1 DEF BlockOK
    <2> QED
      <3>1. BlockOK(x, s, n, i) /\ n <= n
        BY <2>1
      <3>2. BlockOK(x, t, n, i)
        <4>1. i > 1 => /\ t[i - 1].kind = s[i - 1].kind /\ t[i - 1].meant = s[i - 1].meant
                       /\ s[i - 1].meant \in Bindable
          BY <2>2, <2>4
        <4> QED
          BY <2>2, <2>3, <3>1, <4>1, BlockCarries
      <3> QED
        BY <2>2, <3>2
  <1>8. t[l].meant = m
    BY <1>3, <1>5
  <1> QED
    BY <1>4, <1>5, <1>6, <1>7, <1>8 DEF t, RelabelsTo

\* Blocks that bind nothing are at the bottom, and one copy: the rest are bindings.
LEMMA DepthBound ==
    ASSUME NEW x, NEW n \in Nat, NEW s, NEW a, NEW h, Good(x, s, n, a, h)
    PROVE  /\ IsFiniteSet({i \in DOMAIN s : s[i].token # NoToken})
           /\ Len(s) <= Cardinality({i \in DOMAIN s : s[i].token # NoToken}) + 2
  <1> DEFINE B == {i \in DOMAIN s : s[i].token # NoToken}
  <1>1. Len(s) \in Nat /\ DOMAIN s = 1..Len(s) /\ \A i \in 1..Len(s) : BlockOK(x, s, n, i)
    BY LenProperties DEF Good
  <1>2. IsFiniteSet(1..Len(s)) /\ Cardinality(1..Len(s)) = Len(s)
    <2> DEFINE l == Len(s)
    <2>0. 1 \in Int /\ l \in Int
      BY <1>1
    <2> HIDE DEF l
    <2>1. IsFiniteSet(1..l) /\ Cardinality(1..l) = IF 1 > l THEN 0 ELSE l - 1 + 1
      BY <2>0, FS_Interval
    <2> USE DEF l
    <2> QED
      BY <1>1, <2>1
  <1>3. IsFiniteSet(B)
    BY <1>1, <1>2, FS_Subset
  <1>4. PICK c \in Nat : \A i \in 1..Len(s) : i \in B \/ i = 1 \/ i = c
    <2>1. \A i \in 1..Len(s) : i \notin B /\ i # 1 =>
              s[i].kind = "copy" /\ i - 1 \in 1..Len(s) /\ s[i - 1].kind = "middleware"
      <3> SUFFICES ASSUME NEW i \in 1..Len(s), s[i].token = NoToken, i # 1
                   PROVE  s[i].kind = "copy" /\ i - 1 \in 1..Len(s) /\ s[i - 1].kind = "middleware"
        BY <1>1
      <3>1. BlockOK(x, s, n, i) /\ s[i].kind \in BindingKinds \cup {"trace", "spawned", "copy"}
        BY <1>1 DEF BlockOK, Blocks, BindingKinds
      <3>2. s[i].kind \notin BindingKinds
        BY <3>1 DEF BlockOK, TokenFits, NoToken
      <3> QED
        BY <1>1, <3>1, <3>2 DEF BlockOK
    <2>2. \A i \in 1..Len(s) : s[i].kind = "middleware" => i = 1 \/ (i = 2 /\ s[1].kind = "trace")
      BY <1>1 DEF BlockOK
    <2>3. \A i, j \in 1..Len(s) : i \notin B /\ i # 1 /\ j \notin B /\ j # 1 => i = j
      BY <1>1, <2>1, <2>2
    <2> HIDE DEF B
    <2>4. CASE \E i \in 1..Len(s) : i \notin B /\ i # 1
      <3>1. PICK c \in 1..Len(s) : c \notin B /\ c # 1
        BY <2>4
      <3>2. c \in Nat /\ \A i \in 1..Len(s) : i \in B \/ i = 1 \/ i = c
        BY <1>1, <2>3, <3>1
      <3> QED
        BY <3>2
    <2>5. CASE \A i \in 1..Len(s) : i \in B \/ i = 1
      BY <2>5
    <2> QED
      BY <2>4, <2>5
  <1>5. 1..Len(s) \subseteq (B \cup {1}) \cup {c}
    BY <1>4
  <1> HIDE DEF B
  <1>6. /\ IsFiniteSet(B \cup {1}) /\ Cardinality(B \cup {1}) <= Cardinality(B) + 1
        /\ Cardinality(B) \in Nat /\ Cardinality(B \cup {1}) \in Nat
    <2>1. /\ IsFiniteSet(B \cup {1}) /\ Cardinality(B) \in Nat
          /\ Cardinality(B \cup {1}) = IF 1 \in B THEN Cardinality(B) ELSE Cardinality(B) + 1
      BY <1>3, FS_AddElement, FS_CardinalityType
    <2> QED
      BY <2>1
  <1>7. /\ IsFiniteSet((B \cup {1}) \cup {c})
        /\ Cardinality((B \cup {1}) \cup {c}) <= Cardinality(B \cup {1}) + 1
        /\ Cardinality((B \cup {1}) \cup {c}) \in Nat
    <2>1. /\ IsFiniteSet((B \cup {1}) \cup {c})
          /\ Cardinality((B \cup {1}) \cup {c}) =
                IF c \in B \cup {1} THEN Cardinality(B \cup {1}) ELSE Cardinality(B \cup {1}) + 1
      BY <1>6, FS_AddElement
    <2> QED
      BY <1>6, <2>1
  <1>8. Len(s) <= Cardinality((B \cup {1}) \cup {c})
    BY <1>2, <1>5, <1>7, FS_Subset
  <1>9. Len(s) <= Cardinality(B) + 2
    BY <1>1, <1>6, <1>7, <1>8
  <1> QED
    BY <1>3, <1>9 DEF B

\* A block that binds goes on top of anything; the middleware's, on nothing or a trace.
LEMMA BindingOK ==
    ASSUME NEW x, NEW n \in 0..MaxCopies, NEW s, NEW a, NEW h, Good(x, s, n, a, h),
           NEW k \in BindingKinds, NEW m \in Bindable,
           k = "middleware" => s = <<>> \/ (Len(s) = 1 /\ s[1].kind = "trace"),
           NEW b, b = Block(k, [value |-> a, home |-> h], m)
    PROVE  b \in Blocks /\ BlockOK(x, Append(s, b), n, Len(s) + 1)
  <1>1. n \in Nat /\ s \in Seq(Blocks) /\ a \in Bindable /\ h \in 1..(n + 1) /\ MaxCopies \in Nat
    BY ContextAssumption DEF Good, ActorFits, HomeFits
  <1>2. [value |-> a, home |-> h] \in Tokens
    BY <1>1, ActorTypes DEF Tokens
  <1>3. b \in Blocks /\ b.kind = k /\ b.token = [value |-> a, home |-> h] /\ b.meant = m
    BY <1>2, ActorTypes DEF Blocks, Block, BindingKinds
  <1> DEFINE t == Append(s, b)
  <1>4. /\ Len(s) \in Nat /\ t[Len(s) + 1] = b
        /\ \A i \in 1..Len(s) : t[i] = s[i]
        /\ s # <<>> => Len(s) > 0
        /\ s = <<>> => Len(s) = 0
    BY <1>1, <1>3, AppendFacts, EmptySeq
  <1> HIDE DEF t
  <1> DEFINE j == Len(s) + 1
  <1>5. CASE s = <<>>
    <2>1. j = 1 /\ Around(t, j) = Nobody /\ a = Nobody
      BY <1>4, <1>5 DEF Around, Good, ActorFits
    <2>2. TokenFits(t, n, j)
      BY <1>1, <1>3, <1>4, <2>1, ActorTypes, FitsFacts DEF TokenFits
    <2> QED
      BY <1>3, <1>4, <2>1, <2>2 DEF BlockOK, BindingKinds, t
  <1>6. CASE s # <<>>
    <2>1. /\ j # 1 /\ j > 1 /\ j - 1 = Len(s) /\ t[j - 1] = s[Len(s)] /\ t[1] = s[1]
          /\ Around(t, j) = s[Len(s)].meant
      BY <1>4, <1>6 DEF Around
    <2>2. Fits(n, a, Around(t, j)) /\ (Bare(t, j) => a = Nobody)
      BY <1>6, <2>1 DEF Good, ActorFits, Bare
    <2>3. TokenFits(t, n, j)
      BY <1>1, <1>3, <1>4, <2>2 DEF TokenFits
    <2>4. k = "middleware" => j = 2 /\ t[1].kind = "trace"
      BY <1>4, <1>6, <2>1
    <2> QED
      BY <1>3, <1>4, <2>3, <2>4 DEF BlockOK, BindingKinds, t
  <1> QED
    BY <1>5, <1>6

\* Entering a block that binds b for code meant to act for m.
LEMMA BindGood ==
    ASSUME NEW x, NEW n \in 0..MaxCopies, NEW s, NEW a, NEW h, Good(x, s, n, a, h),
           NEW k \in BindingKinds, NEW m \in Bindable, NEW c \in Bindable, Fits(n, c, m),
           k = "middleware" => s = <<>> \/ (Len(s) = 1 /\ s[1].kind = "trace")
    PROVE  Good(x, Append(s, Block(k, [value |-> a, home |-> h], m)), n, c, h)
  <1> DEFINE b == Block(k, [value |-> a, home |-> h], m)
             t == Append(s, b)
  <1>1. n \in Nat /\ n <= n /\ s \in Seq(Blocks)
    BY ContextAssumption DEF Good
  <1>2. b \in Blocks /\ BlockOK(x, t, n, Len(s) + 1)
    BY BindingOK
  <1>3. t \in Seq(Blocks) /\ \A i \in 1..Len(t) : BlockOK(x, t, n, i)
    BY <1>1, <1>2, PushGood
  <1>4. /\ Len(t) = Len(s) + 1 /\ Len(s) \in Nat /\ t # <<>> /\ t[Len(s) + 1] = b
        /\ \A i \in 1..Len(s) : t[i] = s[i]
    BY <1>1, <1>2, AppendFacts
  <1>5. b.kind = k /\ b.meant = m
    BY DEF Block
  <1> HIDE DEF b, t
  <1>6. ActorFits(t, n, c)
    BY <1>4, <1>5 DEF ActorFits, BindingKinds
  <1>7. HomeFits(t, n, h)
    BY <1>4 DEF HomeFits, Good
  <1>8. Good(x, t, n, c, h)
    BY <1>3, <1>6, <1>7 DEF Good
  <1> QED
    BY <1>8 DEF t, b

\* What is bound in thread h after the innermost block of s is left with actor a.
Restored(s, a, h) ==
    IF s[Len(s)].kind \in BindingKinds
    THEN IF s[Len(s)].token.home = h THEN s[Len(s)].token.value ELSE Nobody
    ELSE a

\* The stack t left behind is good with actor c; an empty one is back in the
\* first thread, with nobody bound outside the tasks.
PopsTo(x, t, n, c, h) ==
    /\ t # <<>> => Good(x, t, n, c, h)
    /\ t = <<>> => h = 1 /\ (x \in Tasks \/ c = Nobody)

\* Leaving a block restores what is right for the one around it, whether its
\* token is accepted or crossed a thread boundary; at the bottom it is nobody.
LEMMA PopFits ==
    ASSUME NEW x, NEW n \in Nat, NEW s, NEW a, NEW h, Good(x, s, n, a, h), s # <<>>,
           s[Len(s)].kind # "copy"
    PROVE  PopsTo(x, Front(s), n, Restored(s, a, h), h)
  <1> DEFINE t == Front(s)
             j == Len(s)
             c == Restored(s, a, h)
  <1>0. /\ s[j].kind \in BindingKinds => c = IF s[j].token.home = h THEN s[j].token.value ELSE Nobody
        /\ s[j].kind \notin BindingKinds => c = a
    BY DEF Restored
  <1>1. s \in Seq(Blocks) /\ \A i \in 1..Len(s) : BlockOK(x, s, n, i)
    BY DEF Good
  <1>2. /\ t \in Seq(Blocks) /\ Len(t) = j - 1 /\ j \in Nat \ {0}
        /\ \A i \in 1..(j - 1) : t[i] = s[i]
        /\ t = <<>> <=> j = 1
    BY <1>1, FrontFacts
  <1>3. \A i \in 1..Len(t) : BlockOK(x, t, n, i)
    BY PopGood
  <1>4. BlockOK(x, s, n, j) /\ s[j].kind \in BindingKinds \cup {"trace", "spawned"}
    BY <1>1, <1>2 DEF BlockOK, Blocks, BindingKinds
  <1> HIDE DEF t, c
  <1>5. CASE j = 1
    <2>1. h = 1
      <3>1. ~\E i \in 1..Len(s) : s[i].kind = "copy"
        BY <1>2, <1>5
      <3> QED
        BY <3>1 DEF Good, HomeFits
    <2>2. x \in Tasks \/ c = Nobody
      <3>1. CASE s[j].kind \in BindingKinds
        BY <1>0, <1>4, <1>5, <3>1 DEF BlockOK, TokenFits, Bare
      <3>2. CASE s[j].kind = "trace"
        BY <1>0, <3>2 DEF Good, ActorFits, BindingKinds
      <3>3. CASE s[j].kind = "spawned"
        BY <1>4, <3>3 DEF BlockOK
      <3> QED
        BY <1>4, <3>1, <3>2, <3>3
    <2> QED
      BY <1>2, <1>5, <2>1, <2>2 DEF PopsTo, t, c
  <1>6. CASE j # 1
    <2>1. s[j].kind \in BindingKinds /\ TokenFits(s, n, j)
      BY <1>4, <1>6 DEF BlockOK
    <2>2. t # <<>> /\ j - 1 \in 1..Len(t) /\ t[Len(t)] = s[j - 1] /\ Around(s, j) = s[j - 1].meant
      BY <1>2, <1>6 DEF Around
    <2>3. s[j - 1].meant \in Bindable
      BY <1>1, <1>2, <2>2 DEF BlockOK
    <2>4. ActorFits(t, n, c)
      <3>1. CASE s[j].token.home = h
        BY <1>0, <2>1, <2>2, <3>1 DEF ActorFits, TokenFits, Bare
      <3>2. CASE s[j].token.home # h
        <4>1. n > 0 /\ c = Nobody
          BY <1>0, <2>1, <3>2 DEF TokenFits, Good, HomeFits
        <4> QED
          BY <2>2, <2>3, <4>1, FitsFacts, ActorTypes DEF ActorFits
      <3> QED
        BY <3>1, <3>2
    <2>5. HomeFits(t, n, h)
      <3>1. ASSUME NEW i \in 1..Len(s), s[i].kind = "copy" PROVE \E k \in 1..Len(t) : t[k].kind = "copy"
        BY <1>2, <3>1
      <3> QED
        BY <3>1 DEF HomeFits, Good
    <2>6. Good(x, t, n, c, h)
      BY <1>2, <1>3, <2>4, <2>5 DEF Good
    <2> QED
      BY <2>2, <2>6 DEF PopsTo, t, c
  <1> QED
    BY <1>5, <1>6

-----------------------------------------------------------------------------

\* The types of a context's own variables.
ContextTypes ==
    /\ current \in [Contexts -> Actors]
    /\ stack \in [Contexts -> Seq(Blocks)]
    /\ \A x \in Contexts : Len(stack[x]) <= MaxDepth + 2
    /\ home \in [Contexts -> 1..(MaxCopies + 1)]
    /\ copies \in [Contexts -> 0..MaxCopies]
    /\ kept \in [Contexts -> Tokens]

\* What a step leaves behind: everything in order, one context changed.
Stepped(x) ==
    /\ ContextTypes'
    /\ \A y \in Contexts : ContextInv(y)'
    /\ \A y \in Contexts \ {x} : stack'[y] = stack[y]

\* The step gave context x these values, and no other context any.
Became(x, s, n, a, h, t) ==
    /\ stack' = [stack EXCEPT ![x] = s]
    /\ copies' = [copies EXCEPT ![x] = n]
    /\ current' = [current EXCEPT ![x] = a]
    /\ home' = [home EXCEPT ![x] = h]
    /\ kept' = [kept EXCEPT ![x] = t]

\* Context x is inside the tracing middleware: its trace is its outermost block.
Starts(x) == stack[x] # <<>> /\ stack[x][1].kind = "trace"

\* It is enough that the new values are in order.
LEMMA BecameStepped ==
    ASSUME ContextTypes, \A y \in Contexts : ContextInv(y), NEW x \in Contexts,
           NEW s, NEW n \in 0..MaxCopies, NEW a, NEW h, NEW t \in Tokens,
           Became(x, s, n, a, h, t), Good(x, s, n, a, h), KeptFits(t, n), s = <<>> => t = NoToken,
           Len(s) <= MaxDepth + 2
    PROVE  Stepped(x)
  <1>1. s \in Seq(Blocks) /\ a \in Actors /\ h \in 1..(MaxCopies + 1)
    BY ActorTypes, ContextAssumption DEF Good, ActorFits, HomeFits
  <1> QED
    BY <1>1 DEF Became, Stepped, ContextTypes, ContextInv, Idle

\* The values of context x.
LEMMA ContextFacts ==
    ASSUME ContextTypes, NEW x \in Contexts, ContextInv(x)
    PROVE  /\ Good(x, stack[x], copies[x], current[x], home[x])
           /\ stack[x] \in Seq(Blocks) /\ Len(stack[x]) \in Nat /\ copies[x] \in 0..MaxCopies
           /\ current[x] \in Bindable /\ kept[x] \in Tokens
           /\ home[x] \in 1..(copies[x] + 1) /\ MaxCopies \in Nat /\ copies[x] \in Nat
           /\ Meant(x) \in Bindable
           /\ Fits(copies[x], current[x], Meant(x))
           /\ Token(x) \in Tokens /\ KeptFits(Token(x), copies[x]) /\ KeptFits(kept[x], copies[x])
           /\ Top(x) = stack[x][Len(stack[x])]
           /\ Len(stack[x]) <= MaxDepth + 2
           /\ stack[x] = <<>> => home[x] = 1 /\ kept[x] = NoToken
  <1>1. /\ Good(x, stack[x], copies[x], current[x], home[x])
        /\ stack[x] \in Seq(Blocks) /\ Len(stack[x]) \in Nat /\ copies[x] \in 0..MaxCopies
        /\ current[x] \in Bindable /\ kept[x] \in Tokens
        /\ home[x] \in 1..(copies[x] + 1) /\ MaxCopies \in Nat /\ copies[x] \in Nat
        /\ KeptFits(kept[x], copies[x]) /\ Len(stack[x]) <= MaxDepth + 2
    BY ContextAssumption, EmptySeq, LenProperties DEF ContextTypes, ContextInv, Good, ActorFits, HomeFits
  <1>2. Top(x) = stack[x][Len(stack[x])]
    BY DEF Top, Last
  <1>3. Meant(x) \in Bindable /\ Fits(copies[x], current[x], Meant(x))
    <2>1. CASE Idle(x)
      BY <1>1, <2>1, ActorTypes, FitsFacts DEF Idle, Meant, Good, ActorFits
    <2>2. CASE ~Idle(x)
      <3>1. BlockOK(x, stack[x], copies[x], Len(stack[x]))
        BY <1>1, <2>2, EmptySeq DEF Good, Idle
      <3> QED
        BY <1>1, <1>2, <2>2, <3>1 DEF Idle, Meant, Good, ActorFits, BlockOK
    <2> QED
      BY <2>1, <2>2
  <1>4. Token(x) \in Tokens /\ KeptFits(Token(x), copies[x])
    BY <1>1, ActorTypes DEF Token, Tokens, KeptFits
  <1>5. stack[x] = <<>> => home[x] = 1 /\ kept[x] = NoToken
    BY <1>1 DEF ContextInv, Idle, Good, HomeFits
  <1> QED
    BY <1>1, <1>2, <1>3, <1>4, <1>5

\* actor_context, reason_context and a serializer's save bind an actor that fits.
LEMMA BindSteps ==
    ASSUME ContextTypes, \A y \in Contexts : ContextInv(y), NEW x \in Contexts,
           NEW k \in {"actor", "reason", "save"}, NEW a \in Bindable, NEW m \in Bindable,
           Bind(x, k, a, m), Fits(copies[x], a, m)
    PROVE  Stepped(x) /\ (Starts(x)' <=> Starts(x))
  <1>0. ContextInv(x)
    OBVIOUS
  <1> DEFINE s == Append(stack[x], Block(k, Token(x), m))
  <1>1. Good(x, s, copies[x], a, home[x])
    BY <1>0, ContextFacts, BindGood DEF BindingKinds, Token
  <1>2. Len(s) = Len(stack[x]) + 1 /\ Len(stack[x]) + 1 <= MaxDepth + 2
    <2>1. Len(stack[x]) <= Cardinality(Bindings(x)) + 2 /\ Cardinality(Bindings(x)) \in Nat
      <3> DEFINE B == {i \in DOMAIN stack[x] : stack[x][i].token # NoToken}
      <3>1. Good(x, stack[x], copies[x], current[x], home[x]) /\ copies[x] \in Nat
        BY <1>0, ContextFacts
      <3>2. IsFiniteSet(B) /\ Len(stack[x]) <= Cardinality(B) + 2
        BY <3>1, DepthBound
      <3> QED
        BY <3>2, FS_CardinalityType DEF Bindings
    <2>2. Cardinality(Bindings(x)) < MaxDepth /\ MaxDepth \in Nat
      BY ContextAssumption DEF Bind
    <2>3. Len(s) = Len(stack[x]) + 1
      <3>1. Block(k, Token(x), m) \in Blocks
        BY <1>0, ContextFacts, BindingOK DEF BindingKinds, Token
      <3> QED
        BY <1>0, <3>1, ContextFacts, AppendFacts
    <2> QED
      BY <1>0, <2>1, <2>2, <2>3, ContextFacts
  <1>4. /\ s # <<>> /\ (stack[x] = <<>> => s[1].kind = k) /\ (stack[x] # <<>> => s[1] = stack[x][1])
        /\ stack'[x] = s
    <2> DEFINE b == Block(k, Token(x), m)
    <2>1. b \in Blocks /\ b.kind = k
      BY <1>0, ContextFacts, BindingOK DEF BindingKinds, Token, Block
    <2> HIDE DEF b
    <2>2. /\ Append(stack[x], b) # <<>> /\ Append(stack[x], b)[Len(stack[x]) + 1] = b
          /\ \A i \in 1..Len(stack[x]) : Append(stack[x], b)[i] = stack[x][i]
          /\ Len(stack[x]) \in Nat /\ (stack[x] = <<>> => Len(stack[x]) = 0)
          /\ (stack[x] # <<>> => 1 \in 1..Len(stack[x]))
      BY <1>0, <2>1, ContextFacts, AppendFacts, EmptySeq
    <2>3. stack'[x] = Append(stack[x], b)
      BY DEF Bind, ContextTypes, b
    <2> QED
      BY <2>1, <2>2, <2>3 DEF b
  <1> HIDE DEF s
  <1>3. Became(x, s, copies[x], a, home[x], kept[x])
    BY DEF Bind, Became, ContextTypes, s
  <1>5. Stepped(x)
    BY <1>0, <1>1, <1>2, <1>3, <1>4, ContextFacts, BecameStepped
  <1> QED
    BY <1>4, <1>5 DEF Starts

\* A job or a view binds an actor, another reason, or the serializer's reason.
LEMMA BoundSteps ==
    ASSUME ContextTypes, \A y \in Contexts : ContextInv(y), NEW x \in Contexts,
           actor_context(x) \/ reason_context(x) \/ SerializerSave(x)
    PROVE  Stepped(x) /\ (Starts(x)' <=> Starts(x))
  <1>0. /\ current[x] \in Bindable /\ Meant(x) \in Bindable /\ copies[x] \in Nat
        /\ Fits(copies[x], current[x], Meant(x))
    BY ContextFacts
  <1>1. CASE actor_context(x)
    <2>1. PICK w \in Users \cup {"system"}, r \in RawReasons : Bind(x, "actor", Actor(w, r), Actor(w, r))
      BY <1>1 DEF actor_context
    <2>2. Actor(w, r) \in Bindable /\ Fits(copies[x], Actor(w, r), Actor(w, r))
      BY <1>0, ActorTypes, FitsFacts DEF Reasons
    <2> QED
      BY <2>1, <2>2, BindSteps
  <1>2. ASSUME NEW r \in RawReasons
        PROVE  /\ WithReason(current[x], r) = Restated(current[x], normalize_reason(r))
               /\ WithReason(current[x], r) \in Bindable
               /\ Restated(Meant(x), normalize_reason(r)) \in Bindable
               /\ Fits(copies[x], WithReason(current[x], r), Restated(Meant(x), normalize_reason(r)))
    <2>1. normalize_reason(r) \in Reasons
      BY ActorTypes DEF Reasons
    <2>2. WithReason(current[x], r) = Restated(current[x], normalize_reason(r))
      BY DEF WithReason, Restated
    <2> QED
      BY <1>0, <2>1, <2>2, FitsRestated
  <1>3. CASE reason_context(x)
    <2>1. PICK r \in RawReasons :
             Bind(x, "reason", WithReason(current[x], r), Restated(Meant(x), normalize_reason(r)))
      BY <1>3 DEF reason_context, Restated
    <2> QED
      BY <1>2, <2>1, BindSteps
  <1>4. CASE SerializerSave(x)
    <2>1. PICK r \in RawReasons :
             /\ normalize_reason(r) # BlankReason
             /\ Bind(x, "save", WithReason(current[x], r), Restated(Meant(x), r))
      BY <1>4 DEF SerializerSave, Restated
    <2>2. normalize_reason(r) = r
      BY <2>1 DEF normalize_reason
    <2>3. Bind(x, "save", WithReason(current[x], r), Restated(Meant(x), normalize_reason(r)))
      BY <2>1, <2>2
    <2> QED
      BY <1>2, <2>3, BindSteps
  <1> QED
    BY <1>1, <1>3, <1>4

\* A request's first blocks stand on an empty stack.
LEMMA RequestStep ==
    ASSUME ContextTypes, \A y \in Contexts : ContextInv(y), NEW x \in Contexts, Request(x)
    PROVE  /\ Stepped(x) /\ stack'[x] # <<>>
           /\ stack'[x][1].kind = "trace" <=> middleware # "absent"
  <1> DEFINE b == Block("trace", NoToken, Nobody)
             base == IF middleware = "absent" THEN <<>> ELSE <<b>>
             n == copies[x]
             h == home[x]
  <1>1. PICK a \in {Nobody} \cup {Actor(u, "absent") : u \in Users} :
            /\ stack' = [stack EXCEPT ![x] = Append(base, Block("middleware", Token(x), a))]
            /\ current' = [current EXCEPT ![x] = a]
            /\ UNCHANGED <<home, copies, kept>>
            /\ stack[x] = <<>>
    BY DEF Request, Idle
  <1>2. a \in Bindable
    BY ActorTypes
  <1>3. /\ n \in Nat /\ n \in 0..MaxCopies /\ h \in 1..(n + 1) /\ current[x] = Nobody
        /\ Good(x, <<>>, n, Nobody, h)
    BY <1>1, ContextFacts DEF Good, ActorFits
  <1>4. b \in Blocks /\ b.kind = "trace" /\ b.token = NoToken /\ b.meant = Nobody
    BY <1>3, ActorTypes, ContextAssumption DEF Block, Blocks, Tokens, NoToken
  <1>5. /\ <<b>> \in Seq(Blocks) /\ Len(<<b>>) = 1 /\ <<b>>[1] = b /\ <<b>> # <<>>
        /\ Len(<<>>) = 0
    BY <1>4
  <1>6. Good(x, base, n, Nobody, h)
    <2>1. CASE middleware = "absent"
      BY <1>3, <2>1
    <2>2. CASE middleware # "absent"
      <3> HIDE DEF b
      <3>1. h = 1
        BY <1>3, <1>5 DEF Good, HomeFits
      <3>2. BlockOK(x, <<b>>, n, 1)
        BY <1>4, <1>5, ActorTypes DEF BlockOK, BindingKinds
      <3>3. ActorFits(<<b>>, n, Nobody)
        BY <1>3, <1>4, <1>5, ActorTypes, FitsFacts DEF ActorFits
      <3> QED
        BY <1>3, <1>5, <2>2, <3>1, <3>2, <3>3 DEF Good, HomeFits
    <2> QED
      BY <2>1, <2>2
  <1>7. /\ Len(base) \in {0, 1}
        /\ base # <<>> => Len(base) = 1 /\ base[1] = b /\ middleware # "absent"
        /\ base = <<>> => Len(base) = 0 /\ middleware = "absent"
    BY <1>5
  <1> DEFINE m == Block("middleware", [value |-> Nobody, home |-> h], a)
             s == Append(base, m)
  <1> HIDE DEF base, b
  <1>8. Good(x, s, n, a, h) /\ m \in Blocks
    <2>1. Fits(n, a, a)
      BY <1>2, <1>3, FitsFacts
    <2>2. Good(x, s, n, a, h)
      BY <1>2, <1>3, <1>4, <1>6, <1>7, <2>1, BindGood DEF BindingKinds
    <2>3. m \in Blocks
      BY ZenonT(30), <1>2, <1>3, <1>4, <1>6, <1>7, BindingOK DEF BindingKinds
    <2> QED
      BY <2>2, <2>3
  <1>9. m.kind = "middleware" /\ Token(x) = [value |-> Nobody, home |-> h]
    BY <1>3 DEF Block, Token
  <1>10. /\ Len(s) = Len(base) + 1 /\ s # <<>> /\ s[Len(base) + 1] = m
         /\ \A i \in 1..Len(base) : s[i] = base[i]
    BY <1>6, <1>8, AppendFacts DEF Good
  <1>12. stack' = [stack EXCEPT ![x] = s]
    BY <1>1, <1>9
  <1> HIDE DEF s, m
  <1>11. Len(s) <= MaxDepth + 2
    BY <1>7, <1>10, ContextAssumption
  <1>13. Became(x, s, n, a, h, kept[x])
    BY <1>1, <1>12 DEF Became, ContextTypes
  <1>14. Stepped(x)
    BY <1>3, <1>8, <1>10, <1>11, <1>13, ContextFacts, BecameStepped
  <1>15. stack'[x] = s
    BY <1>12 DEF ContextTypes
  <1>16. s[1].kind = "trace" <=> middleware # "absent"
    BY <1>4, <1>7, <1>9, <1>10
  <1> QED
    BY <1>10, <1>14, <1>15, <1>16

\* A view's hook binds the user, or gives the token back where it may not count.
LEMMA HookSteps ==
    ASSUME ContextTypes, \A y \in Contexts : ContextInv(y), NEW x \in Contexts,
           SetActor(x) \/ ResetActor(x)
    PROVE  Stepped(x) /\ stack'[x] # <<>> /\ stack[x] # <<>> /\ stack'[x][1].kind = stack[x][1].kind
  <1> DEFINE s == stack[x]
             n == copies[x]
             h == home[x]
  <1>1. /\ Good(x, s, n, current[x], h) /\ n \in Nat /\ n \in 0..MaxCopies
        /\ s \in Seq(Blocks) /\ Len(s) <= MaxDepth + 2 /\ h \in 1..(n + 1)
        /\ kept[x] \in Tokens /\ KeptFits(kept[x], n) /\ Token(x) \in Tokens /\ KeptFits(Token(x), n)
        /\ NoToken \in Tokens
    <2>1. NoToken \in Tokens
      BY ActorTypes, ContextAssumption DEF Tokens, NoToken
    <2> QED
      BY <2>1, ContextFacts
  <1>2. s # <<>> /\ s[Len(s)].kind # "trace"
    BY ContextFacts DEF SetActor, ResetActor, InHook, Idle
  <1>3. ASSUME NEW m \in Bindable, NEW a \in Bindable, Fits(n, a, m), NEW t \in Tokens, KeptFits(t, n),
               stack' = Means(x, m), current' = [current EXCEPT ![x] = a],
               kept' = [kept EXCEPT ![x] = t], UNCHANGED <<home, copies>>
        PROVE  Stepped(x) /\ stack'[x] # <<>> /\ stack'[x][1].kind = s[1].kind
    <2> DEFINE u == Relabelled(s, m)
    <2>1. stack' = [stack EXCEPT ![x] = u] /\ stack'[x] = u
      BY <1>3 DEF Means, ContextTypes, Relabelled
    <2>2. \A i \in 1..Len(s) : BlockOK(x, s, n, i)
      BY <1>1 DEF Good
    <2> HIDE DEF s, n
    <2>3. /\ u \in Seq(Blocks) /\ Len(u) = Len(s) /\ u # <<>>
          /\ \A i \in 1..Len(u) : BlockOK(x, u, n, i)
          /\ \A i \in 1..Len(u) : u[i].kind = s[i].kind /\ u[i].token = s[i].token
          /\ u[Len(u)].meant = m
      <3>1. n \in Nat /\ s \in Seq(Blocks) /\ s # <<>> /\ s[Len(s)].kind # "trace"
        BY <1>1, <1>2
      <3>2. RelabelsTo(x, n, s, m, u)
        BY <3>1, <2>2, RelabelGood
      <3> HIDE DEF u
      <3> QED
        BY <3>2 DEF RelabelsTo
    <2> HIDE DEF u
    <2>4. Len(u) \in 1..Len(u) /\ 1 \in 1..Len(u)
      BY <2>3, EmptySeq
    <2>5. ActorFits(u, n, a)
      BY <1>2, <1>3, <2>3, <2>4 DEF ActorFits
    <2>6. HomeFits(u, n, h)
      BY <1>1, <2>3 DEF HomeFits, Good
    <2>7. Good(x, u, n, a, h)
      BY <2>3, <2>5, <2>6 DEF Good
    <2>8. Became(x, u, n, a, h, t)
      BY <1>3, <2>1 DEF Became, ContextTypes, n
    <2>9. Stepped(x)
      BY <1>1, <1>3, <2>3, <2>7, <2>8, BecameStepped
    <2> QED
      BY <2>1, <2>3, <2>4, <2>9
  <1>4. CASE SetActor(x)
    <2>1. PICK u \in Users, r \in RawReasons :
             current' = [current EXCEPT ![x] = Actor(u, r)] /\ stack' = Means(x, Actor(u, r))
      BY <1>4 DEF SetActor
    <2>2. kept' = [kept EXCEPT ![x] = Token(x)] /\ UNCHANGED <<home, copies>>
      BY <1>4 DEF SetActor
    <2>3. Actor(u, r) \in Bindable /\ Fits(n, Actor(u, r), Actor(u, r))
      BY <1>1, ActorTypes, FitsFacts DEF Reasons
    <2> QED
      BY <1>1, <1>2, <1>3, <2>1, <2>2, <2>3
  <1>5. CASE ResetActor(x)
    <2>1. /\ current' = [current EXCEPT ![x] = ResetTo(kept[x], x)]
          /\ stack' = Means(x, kept[x].value)
          /\ kept' = [kept EXCEPT ![x] = NoToken] /\ UNCHANGED <<home, copies>>
          /\ kept[x].value \in Bindable /\ kept[x].home \in 1..(n + 1)
      BY <1>1, <1>5 DEF ResetActor, KeptFits
    <2>2. ResetTo(kept[x], x) \in Bindable /\ Fits(n, ResetTo(kept[x], x), kept[x].value)
      <3>1. CASE kept[x].home = h
        BY <1>1, <2>1, <3>1, FitsFacts DEF ResetTo
      <3>2. CASE kept[x].home # h
        <4>1. n > 0
          BY <1>1, <2>1, <3>2
        <4> QED
          BY <1>1, <2>1, <3>2, <4>1, FitsFacts, ActorTypes DEF ResetTo
      <3> QED
        BY <3>1, <3>2
    <2>3. KeptFits(NoToken, n)
      BY DEF KeptFits
    <2> QED
      BY <1>1, <1>2, <1>3, <2>1, <2>2, <2>3
  <1> QED
    BY <1>4, <1>5

\* asgiref's copy: one more Context object, in which what was bound still holds.
LEMMA EnterCopyStep ==
    ASSUME ContextTypes, \A y \in Contexts : ContextInv(y), NEW x \in Contexts, EnterCopy(x)
    PROVE  Stepped(x) /\ stack'[x] # <<>> /\ stack[x] # <<>> /\ stack'[x][1].kind = stack[x][1].kind
  <1> DEFINE s == stack[x]
             n == copies[x]
             b == Block("copy", NoToken, Meant(x))
             t == Append(s, b)
  <1>1. /\ Good(x, s, n, current[x], home[x]) /\ n \in Nat /\ n + 1 \in 0..MaxCopies /\ n <= n + 1
        /\ s \in Seq(Blocks) /\ s # <<>> /\ s[Len(s)].kind = "middleware"
        /\ Meant(x) \in Bindable /\ Meant(x) = s[Len(s)].meant /\ Fits(n, current[x], Meant(x))
        /\ current[x] \in Bindable
        /\ kept[x] \in Tokens /\ KeptFits(kept[x], n)
    BY ContextFacts DEF EnterCopy, Idle, Meant
  <1>2. b \in Blocks /\ b.kind = "copy" /\ b.token = NoToken /\ b.meant = Meant(x)
    BY <1>1, ActorTypes, ContextAssumption DEF Block, Blocks, Tokens, NoToken
  <1>3. stack' = [stack EXCEPT ![x] = t] /\ stack'[x] = t
    BY DEF EnterCopy, ContextTypes
  <1> HIDE DEF b, s, n
  <1>4. /\ t \in Seq(Blocks) /\ Len(t) = Len(s) + 1 /\ Len(s) \in Nat \ {0} /\ t # <<>>
        /\ \A i \in 1..Len(s) : t[i] = s[i]
        /\ t[Len(s) + 1] = b
    BY <1>1, <1>2, AppendFacts, EmptySeq
  <1>5. Len(t) <= MaxDepth + 2
    <2>1. Len(s) \in 1..2
      <3>1. BlockOK(x, s, n, Len(s))
        BY <1>1, <1>4 DEF Good
      <3>2. Len(s) = 1 \/ Len(s) = 2
        BY <1>1, <3>1 DEF BlockOK
      <3> QED
        BY <3>2
    <2>2. MaxDepth + 2 >= 3
      BY ContextAssumption
    <2> HIDE DEF t
    <2> QED
      BY <1>4, <2>1, <2>2, ContextAssumption
  <1> HIDE DEF t
  <1>6. BlockOK(x, t, n + 1, Len(s) + 1)
    BY <1>1, <1>2, <1>4 DEF BlockOK, BindingKinds
  <1>7. \A i \in 1..Len(t) : BlockOK(x, t, n + 1, i)
    BY <1>1, <1>2, <1>6, PushGood DEF t
  <1>8. ActorFits(t, n + 1, current[x])
    BY <1>1, <1>2, <1>4, FitsFacts DEF ActorFits
  <1>9. HomeFits(t, n + 1, n + 2)
    BY <1>1, <1>2, <1>4 DEF HomeFits
  <1>10. Good(x, t, n + 1, current[x], n + 2)
    BY <1>4, <1>7, <1>8, <1>9 DEF Good
  <1>11. KeptFits(kept[x], n + 1)
    BY <1>1 DEF KeptFits
  <1>12. Became(x, t, n + 1, current[x], n + 2, kept[x])
    BY <1>3 DEF EnterCopy, Became, ContextTypes, n
  <1>13. Stepped(x)
    BY <1>1, <1>4, <1>5, <1>10, <1>11, <1>12, BecameStepped
  <1> QED
    BY <1>1, <1>3, <1>4, <1>13 DEF s

\* Leaving a block that is not a copy.
LEMMA PopStep ==
    ASSUME ContextTypes, \A y \in Contexts : ContextInv(y), NEW x \in Contexts,
           ~Idle(x), Top(x).kind # "copy", UNCHANGED home,
           Pop(x, IF Top(x).kind \in BindingKinds THEN ResetTo(Top(x).token, x) ELSE current[x])
    PROVE  Stepped(x) /\ stack'[x] = Front(stack[x])
  <1> DEFINE s == stack[x]
             n == copies[x]
             h == home[x]
             t == Front(s)
             c == Restored(s, current[x], h)
  <1>1. /\ Good(x, s, n, current[x], h) /\ n \in Nat /\ n \in 0..MaxCopies
        /\ s \in Seq(Blocks) /\ s # <<>> /\ s[Len(s)].kind # "copy" /\ Len(s) <= MaxDepth + 2
        /\ kept[x] \in Tokens /\ KeptFits(kept[x], n) /\ NoToken \in Tokens
    <2>1. NoToken \in Tokens
      BY ActorTypes, ContextAssumption DEF Tokens, NoToken
    <2> QED
      BY <2>1, ContextFacts DEF Idle
  <1>2. c = IF Top(x).kind \in BindingKinds THEN ResetTo(Top(x).token, x) ELSE current[x]
    BY ContextFacts DEF ResetTo, Restored
  <1>3. /\ stack' = [stack EXCEPT ![x] = t]
        /\ current' = [current EXCEPT ![x] = IF t = <<>> /\ x \in Tasks THEN Nobody ELSE c]
        /\ copies' = [copies EXCEPT ![x] = IF t = <<>> THEN 0 ELSE n]
        /\ kept' = [kept EXCEPT ![x] = IF t = <<>> THEN NoToken ELSE kept[x]]
    BY <1>2 DEF Pop
  <1>4. PopsTo(x, t, n, c, h)
    BY <1>1, PopFits
  <1> HIDE DEF s, n, h, c
  <1>5. Len(t) <= MaxDepth + 2 /\ t \in Seq(Blocks)
    BY <1>1, FrontFacts, ContextAssumption
  <1>6. stack'[x] = t
    BY <1>3 DEF ContextTypes
  <1>7. CASE t # <<>>
    <2>1. Became(x, t, n, c, h, kept[x])
      BY <1>3, <1>7 DEF Became, ContextTypes, h
    <2> QED
      BY <1>1, <1>4, <1>5, <1>6, <1>7, <2>1, BecameStepped DEF s, PopsTo
  <1>8. CASE t = <<>>
    <2>1. Became(x, t, 0, Nobody, 1, NoToken)
      BY <1>3, <1>4, <1>8 DEF Became, ContextTypes, h, PopsTo
    <2>2. Good(x, t, 0, Nobody, 1)
      <3>1. Len(t) = 0
        BY <1>8
      <3> QED
        BY <1>5, <1>8, <3>1, ActorTypes DEF Good, ActorFits, HomeFits
    <2>3. KeptFits(NoToken, 0) /\ 0 \in 0..MaxCopies
      BY ContextAssumption DEF KeptFits
    <2> QED
      BY <1>1, <1>5, <1>6, <2>1, <2>2, <2>3, BecameStepped DEF s
  <1> QED
    BY <1>7, <1>8

\* Back from asgiref's copy: what the copy bound now holds around it.
LEMMA LeaveCopyStep ==
    ASSUME ContextTypes, \A y \in Contexts : ContextInv(y), NEW x \in Contexts, LeaveCopy(x)
    PROVE  Stepped(x) /\ stack'[x] # <<>> /\ stack[x] # <<>> /\ stack'[x][1].kind = stack[x][1].kind
  <1> DEFINE s == stack[x]
             n == copies[x]
             f == Front(s)
             m == Meant(x)
             t == Relabelled(f, m)
  <1>1. /\ Good(x, s, n, current[x], home[x]) /\ n \in Nat /\ n \in 0..MaxCopies
        /\ s \in Seq(Blocks) /\ s # <<>> /\ s[Len(s)].kind = "copy" /\ Len(s) <= MaxDepth + 2
        /\ m \in Bindable /\ Fits(n, current[x], m) /\ current[x] \in Bindable
        /\ kept[x] \in Tokens /\ KeptFits(kept[x], n)
    BY ContextFacts DEF LeaveCopy, MayLeave, Idle
  <1>2. stack' = [stack EXCEPT ![x] = [f EXCEPT ![Len(s) - 1].meant = m]]
    BY DEF LeaveCopy
  <1>3. home' = [home EXCEPT ![x] = 1] /\ UNCHANGED <<current, copies, kept>>
    BY DEF LeaveCopy
  <1> HIDE DEF s, n, m
  <1>4. /\ f \in Seq(Blocks) /\ Len(f) = Len(s) - 1 /\ Len(s) \in Nat \ {0}
        /\ \A i \in 1..(Len(s) - 1) : f[i] = s[i]
        /\ f = <<>> <=> Len(s) = 1
    BY <1>1, FrontFacts
  <1>5. \A i \in 1..Len(f) : BlockOK(x, f, n, i)
    BY <1>1, PopGood
  <1> HIDE DEF f
  <1>6. f # <<>> /\ f[Len(f)].kind = "middleware" /\ f[1] = s[1] /\ 1 \in 1..Len(f)
    <2>1. BlockOK(x, s, n, Len(s))
      BY <1>1, <1>4 DEF Good
    <2>2. Len(s) > 1 /\ s[Len(s) - 1].kind = "middleware"
      BY <1>1, <2>1 DEF BlockOK
    <2> QED
      BY <1>4, <2>2
  <1>7. /\ t \in Seq(Blocks) /\ Len(t) = Len(f) /\ t # <<>>
        /\ \A i \in 1..Len(f) : BlockOK(x, t, n, i) /\ t[i].kind = f[i].kind /\ t[i].token = f[i].token
        /\ t[Len(f)].meant = m
    <2>1. n \in Nat /\ f \in Seq(Blocks) /\ f # <<>> /\ f[Len(f)].kind # "trace" /\ m \in Bindable
      BY <1>1, <1>4, <1>6
    <2>2. RelabelsTo(x, n, f, m, t)
      BY <1>5, <2>1, RelabelGood
    <2> HIDE DEF t
    <2> QED
      BY <2>2 DEF RelabelsTo
  <1>8. stack' = [stack EXCEPT ![x] = t] /\ stack'[x] = t
    BY <1>2, <1>4 DEF Relabelled, ContextTypes
  <1> HIDE DEF t
  <1>9. Len(f) \in 1..Len(f) /\ t[Len(f)].kind = "middleware" /\ t[1].kind = s[1].kind
    BY <1>4, <1>6, <1>7
  <1>10. ActorFits(t, n, current[x])
    BY <1>1, <1>7, <1>9 DEF ActorFits
  <1>11. Good(x, t, n, current[x], 1)
    BY <1>1, <1>7, <1>10 DEF Good, HomeFits
  <1>12. Became(x, t, n, current[x], 1, kept[x])
    BY <1>3, <1>8 DEF Became, ContextTypes, n
  <1>13. Len(t) <= MaxDepth + 2
    BY <1>1, <1>4, <1>7, ContextAssumption
  <1>14. Stepped(x)
    BY <1>1, <1>7, <1>11, <1>12, <1>13, BecameStepped
  <1> QED
    BY <1>1, <1>7, <1>8, <1>9, <1>14 DEF s

\* A task that is started runs in a copy of its parent's context: an actor that
\* is right for the parent is right for it.
LEMMA SpawnStep ==
    ASSUME ContextTypes, \A z \in Contexts : ContextInv(z), NEW x \in Contexts, NEW y \in Tasks,
           SpawnTask(x, y)
    PROVE  y \in Contexts /\ Stepped(y) /\ stack'[y] # <<>> /\ stack[y] = <<>> /\ stack'[y][1].kind = "spawned"
  <1> DEFINE n == copies[x]
             b == Block("spawned", NoToken, Meant(x))
             t == <<b>>
  <1>1. /\ y \in Contexts /\ stack[y] = <<>> /\ home[y] = 1 /\ kept[y] = NoToken
        /\ n \in Nat /\ n \in 0..MaxCopies
        /\ Meant(x) \in Bindable /\ Fits(n, current[x], Meant(x)) /\ current[x] \in Bindable
        /\ NoToken \in Tokens
    <2>1. NoToken \in Tokens
      BY ActorTypes, ContextAssumption DEF Tokens, NoToken
    <2>2. y \in Contexts
      BY DEF Contexts
    <2>3. stack[y] = <<>>
      BY DEF SpawnTask, Idle
    <2>4. ContextInv(y) /\ ContextInv(x)
      BY <2>2
    <2> QED
      BY <2>1, <2>2, <2>3, <2>4, ContextFacts
  <1>2. b \in Blocks /\ b.kind = "spawned" /\ b.token = NoToken /\ b.meant = Meant(x)
    BY <1>1, ActorTypes DEF Block, Blocks
  <1>3. /\ stack' = [stack EXCEPT ![y] = t] /\ stack'[y] = t
        /\ current' = [current EXCEPT ![y] = current[x]] /\ copies' = [copies EXCEPT ![y] = n]
        /\ UNCHANGED <<home, kept>>
    BY <1>1 DEF SpawnTask, ContextTypes
  <1> HIDE DEF b, n
  <1>4. t \in Seq(Blocks) /\ Len(t) = 1 /\ t[1] = b /\ t # <<>>
    BY <1>2
  <1> HIDE DEF t
  <1>5. BlockOK(y, t, n, 1)
    BY <1>1, <1>2, <1>4 DEF BlockOK, BindingKinds
  <1>6. ActorFits(t, n, current[x]) /\ HomeFits(t, n, 1)
    BY <1>1, <1>2, <1>4 DEF ActorFits, HomeFits
  <1>7. Good(y, t, n, current[x], 1)
    BY <1>4, <1>5, <1>6 DEF Good
  <1>8. Became(y, t, n, current[x], 1, NoToken)
    BY <1>1, <1>3 DEF Became, ContextTypes
  <1>9. KeptFits(NoToken, n) /\ Len(t) <= MaxDepth + 2
    BY <1>4, ContextAssumption DEF KeptFits
  <1>10. Stepped(y)
    BY <1>1, <1>4, <1>7, <1>8, <1>9, BecameStepped
  <1> QED
    BY <1>1, <1>2, <1>3, <1>4, <1>10

\* Leaving: which block, what the step does to the trace.
LEMMA LeaveSteps ==
    ASSUME ContextTypes, \A y \in Contexts : ContextInv(y), NEW x \in Contexts, LeaveStep(x)
    PROVE  /\ Stepped(x)
           /\ Starts(x)' => Starts(x)
           /\ Starts(x) /\ ~Starts(x)' <=> CloseSpan(x) \/ LoseSpan(x)
  <1>0. Good(x, stack[x], copies[x], current[x], home[x]) /\ stack[x] \in Seq(Blocks)
    BY ContextFacts
  <1>1. stack[x] # <<>> => Top(x).kind \in BindingKinds \cup {"trace", "spawned", "copy"}
    BY <1>0, ContextFacts, FrontFacts DEF Good, BlockOK, Blocks, BindingKinds
  <1>2. ASSUME stack[x] # <<>>, stack'[x] = Front(stack[x])
        PROVE  /\ Starts(x)' => Starts(x)
               /\ Starts(x) /\ ~Starts(x)' <=> Top(x).kind = "trace"
    <2>1. /\ Len(stack[x]) \in Nat \ {0} /\ Top(x) = stack[x][Len(stack[x])]
          /\ Front(stack[x]) = <<>> <=> Len(stack[x]) = 1
          /\ \A i \in 1..(Len(stack[x]) - 1) : Front(stack[x])[i] = stack[x][i]
      BY <1>0, <1>2, FrontFacts, ContextFacts
    <2>2. Top(x).kind = "trace" => Len(stack[x]) = 1
      <3>1. BlockOK(x, stack[x], copies[x], Len(stack[x]))
        BY <1>0, <2>1 DEF Good
      <3> QED
        BY <2>1, <3>1 DEF BlockOK
    <2>3. CASE Len(stack[x]) = 1
      BY <1>2, <2>1, <2>3 DEF Starts
    <2>4. CASE Len(stack[x]) # 1
      <3>1. Front(stack[x])[1] = stack[x][1]
        <4> DEFINE l == Len(stack[x])
        <4>0. l \in Nat \ {0} /\ l # 1
          BY <2>1, <2>4
        <4> HIDE DEF l
        <4>2. 1 \in 1..(l - 1)
          BY <4>0
        <4>1. 1 \in 1..(Len(stack[x]) - 1)
          BY <4>2 DEF l
        <4> QED
          BY <2>1, <4>1
      <3> QED
        BY <1>2, <2>1, <2>2, <2>4, <3>1 DEF Starts
    <2> QED
      BY <2>3, <2>4
  <1>3. CASE LeaveBinding(x)
    <2>1. ~Idle(x) /\ Top(x).kind \in BindingKinds /\ Pop(x, ResetTo(Top(x).token, x)) /\ UNCHANGED home
      BY <1>3 DEF LeaveBinding, MayLeave, BindingKinds
    <2>2. Top(x).kind # "copy" /\ Top(x).kind # "trace"
      BY <2>1 DEF BindingKinds
    <2>3. Stepped(x) /\ stack'[x] = Front(stack[x])
      BY <2>1, <2>2, PopStep
    <2> QED
      BY <1>2, <2>1, <2>2, <2>3 DEF Idle, CloseSpan, LoseSpan
  <1>4. CASE LeaveSpawned(x) \/ CloseSpan(x) \/ LoseSpan(x)
    <2>1. ~Idle(x) /\ Top(x).kind \in {"spawned", "trace"} /\ Pop(x, current[x]) /\ UNCHANGED home
      BY <1>4 DEF LeaveSpawned, CloseSpan, LoseSpan, MayLeave
    <2>2. Top(x).kind # "copy" /\ Top(x).kind \notin BindingKinds
      BY <2>1 DEF BindingKinds
    <2>3. Stepped(x) /\ stack'[x] = Front(stack[x])
      BY <2>1, <2>2, PopStep
    <2>4. Top(x).kind = "trace" <=> CloseSpan(x) \/ LoseSpan(x)
      BY <1>4 DEF LeaveSpawned, CloseSpan, LoseSpan
    <2> QED
      BY <1>2, <2>1, <2>3, <2>4 DEF Idle
  <1>5. CASE LeaveCopy(x)
    <2>1. Stepped(x) /\ (Starts(x)' <=> Starts(x))
      BY <1>5, LeaveCopyStep DEF Starts
    <2>2. ~CloseSpan(x) /\ ~LoseSpan(x)
      BY <1>5 DEF LeaveCopy, CloseSpan, LoseSpan
    <2> QED
      BY <2>1, <2>2
  <1> QED
    BY <1>3, <1>4, <1>5 DEF LeaveStep

-----------------------------------------------------------------------------

\* A trace is only ever the outermost block.
LEMMA TraceOutermost ==
    ASSUME NEW x, NEW s, NEW n, NEW a, NEW h, Good(x, s, n, a, h)
    PROVE  (\E i \in DOMAIN s : s[i].kind = "trace") <=> (s # <<>> /\ s[1].kind = "trace")
  <1>1. /\ s \in Seq(Blocks) /\ DOMAIN s = 1..Len(s) /\ Len(s) \in Nat
        /\ \A i \in 1..Len(s) : BlockOK(x, s, n, i)
        /\ s = <<>> <=> Len(s) = 0
    BY LenProperties, EmptySeq DEF Good
  <1>2. (\E i \in DOMAIN s : s[i].kind = "trace") => s # <<>> /\ s[1].kind = "trace"
    BY <1>1 DEF BlockOK
  <1>3. s # <<>> => 1 \in DOMAIN s
    BY <1>1
  <1> QED
    BY <1>2, <1>3

\* The contexts that are inside the tracing middleware.
Traced == {x \in Contexts : Inside(x, "trace")}

LEMMA TracedFacts ==
    /\ (\A x \in Contexts : ContextInv(x)) => Traced = {x \in Contexts : Starts(x)}
    /\ (\A x \in Contexts : ContextInv(x)') => Traced' = {x \in Contexts : Starts(x)'}
    /\ IsFiniteSet(Traced) /\ Cardinality(Traced) \in Nat
    /\ IsFiniteSet(Traced') /\ Cardinality(Traced') \in Nat
  <1>1. IsFiniteSet(Contexts)
    BY ContextAssumption, FS_Union DEF Contexts
  <1>2. Traced \subseteq Contexts /\ Traced' \subseteq Contexts
    BY DEF Traced
  <1>3. ASSUME NEW x \in Contexts, ContextInv(x) PROVE Inside(x, "trace") <=> Starts(x)
    BY <1>3, TraceOutermost DEF ContextInv, Inside, Starts
  <1>4. ASSUME NEW x \in Contexts, ContextInv(x)' PROVE Inside(x, "trace")' <=> Starts(x)'
    BY <1>4, TraceOutermost DEF ContextInv, Inside, Starts
  <1> QED
    BY <1>1, <1>2, <1>3, <1>4, FS_Subset, FS_CardinalityType DEF Traced

\* A step of x adds x to them, removes it, or neither.
LEMMA TracedSteps ==
    ASSUME ContextTypes, \A y \in Contexts : ContextInv(y), NEW x \in Contexts, Stepped(x)
    PROVE  /\ (Starts(x)' <=> Starts(x)) => Cardinality(Traced)' = Cardinality(Traced)
           /\ ~Starts(x) /\ Starts(x)' => Cardinality(Traced)' = Cardinality(Traced) + 1
           /\ Starts(x) /\ ~Starts(x)' => Cardinality(Traced)' = Cardinality(Traced) - 1
  <1>1. Traced = {y \in Contexts : Starts(y)} /\ IsFiniteSet(Traced)
    BY TracedFacts
  <1>2. Traced' = {y \in Contexts : Starts(y)'}
    BY TracedFacts DEF Stepped
  <1>3. \A y \in Contexts \ {x} : Starts(y)' <=> Starts(y)
    BY DEF Stepped, Starts
  <1>4. CASE Starts(x)' <=> Starts(x)
    <2>1. Traced' = Traced
      BY <1>1, <1>2, <1>3, <1>4
    <2> QED
      BY <1>4, <2>1
  <1>5. CASE ~Starts(x) /\ Starts(x)'
    <2>1. Traced' = Traced \cup {x} /\ x \notin Traced
      BY <1>1, <1>2, <1>3, <1>5
    <2> QED
      BY <1>1, <1>5, <2>1, FS_AddElement
  <1>6. CASE Starts(x) /\ ~Starts(x)'
    <2>1. Traced' = Traced \ {x} /\ x \in Traced
      BY <1>1, <1>2, <1>3, <1>6
    <2> QED
      BY <1>1, <1>6, <2>1, FS_RemoveElement
  <1> QED
    BY <1>4, <1>5, <1>6

-----------------------------------------------------------------------------

\* _configured is set before anything that may raise: while it is not, nothing
\* was set to work, and once it is, configure() installs nothing.
TracingInv ==
    /\ ~configured => \A i \in Instrumentors : asked[i] = 0
    /\ InstrumentedOnce

LEMMA TracingInductive ==
    /\ TracingInit => TracingTypeOK /\ TracingInv
    /\ TracingTypeOK /\ TracingInv /\ [TracingNext]_tracing => TracingTypeOK' /\ TracingInv'
  <1>1. TracingInit => TracingTypeOK /\ TracingInv
    <2> SUFFICES ASSUME TracingInit PROVE TracingTypeOK /\ TracingInv
      OBVIOUS
    <2>1. \A i \in Instrumentors : asked[i] = 0
      BY DEF TracingInit
    <2>2. asked \in [Instrumentors -> Nat] /\ InstrumentedOnce
      BY <2>1 DEF TracingInit, InstrumentedOnce
    <2> QED
      BY <2>1, <2>2 DEF TracingInit, TracingTypeOK, TracingInv
  <1>2. ASSUME TracingTypeOK, TracingInv, Configure PROVE TracingTypeOK' /\ TracingInv'
    <2>1. PICK e \in Environments, s \in {"sdk", "django", "logging", "end"} :
             /\ configured' = Latch(s)
             /\ asked' = Asked(e, s)
             /\ middleware' = IF s \in {"sdk", "django"} THEN middleware ELSE UseAsync(DjangoInstrumented(e))
      BY <1>2 DEF Configure
    <2>2. configured' = TRUE /\ booting' = TRUE
      BY <1>2, <2>1 DEF Latch, Configure
    <2>3. \A i \in Instrumentors : asked[i] = 0
      BY <1>2 DEF Configure, TracingInv
    <2>4. /\ asked' \in [Instrumentors -> Nat]
          /\ \A i \in Instrumentors : asked'[i] <= 1
      BY <2>1, <2>3 DEF Asked
    <2>5. middleware' \in {"absent", "upstream", "async"}
      BY <1>2, <2>1 DEF UseAsync, DjangoInstrumented, TracingTypeOK
    <2> QED
      BY <2>2, <2>4, <2>5 DEF TracingTypeOK, TracingInv, InstrumentedOnce
  <1>3. ASSUME TracingTypeOK, TracingInv, Boot PROVE TracingTypeOK' /\ TracingInv'
    BY <1>3 DEF Boot, TracingTypeOK, TracingInv, InstrumentedOnce
  <1>4. ASSUME TracingTypeOK, TracingInv, UNCHANGED tracing PROVE TracingTypeOK' /\ TracingInv'
    BY <1>4 DEF tracing, TracingTypeOK, TracingInv, InstrumentedOnce
  <1> QED
    BY <1>1, <1>2, <1>3, <1>4 DEF TracingNext

\* The invariant of the whole.
IInv ==
    /\ ContextTypes /\ \A x \in Contexts : ContextInv(x)
    /\ TracingTypeOK /\ TracingInv
    /\ unwinding \in [Contexts -> BOOLEAN]
    /\ loop \in {"running", "wedged"}
    /\ lost \in 0..MaxLost
    /\ GaugeCountsRequests

\* It holds initially ...
LEMMA InitInv == Init => IInv
  <1> SUFFICES ASSUME Init PROVE IInv
    OBVIOUS
  <1>1. TracingTypeOK /\ TracingInv
    BY TracingInductive DEF Init
  <1>2. /\ NoToken \in Tokens /\ Nobody \in Actors /\ 0 \in 0..MaxCopies /\ 1 \in 1..(MaxCopies + 1)
        /\ 0 \in 0..MaxLost /\ <<>> \in Seq(Blocks) /\ Len(<<>>) = 0 /\ Len(<<>>) <= MaxDepth + 2
    BY ActorTypes, ContextAssumption, EmptySeq DEF Tokens, NoToken
  <1>3. ContextTypes
    BY <1>2 DEF Init, ContextTypes
  <1>4. ASSUME NEW x \in Contexts PROVE ContextInv(x)
    <2>1. /\ stack[x] = <<>> /\ current[x] = Nobody /\ home[x] = 1 /\ copies[x] = 0 /\ kept[x] = NoToken
      BY DEF Init
    <2>2. Good(x, <<>>, 0, Nobody, 1)
      BY <1>2, ActorTypes DEF Good, ActorFits, HomeFits
    <2> QED
      BY <2>1, <2>2 DEF ContextInv, KeptFits
  <1>5. GaugeCountsRequests
    <2>1. Traced = {}
      BY DEF Init, Traced, Inside
    <2> QED
      BY <2>1, FS_EmptySet DEF Init, GaugeCountsRequests, Traced
  <1> QED
    BY <1>1, <1>2, <1>3, <1>4, <1>5 DEF Init, IInv

\* ... a context's step, with what it does to the gauge, preserves it ...
LEMMA CountStep ==
    ASSUME IInv, NEW x \in Contexts, Stepped(x), UNCHANGED tracing,
           unwinding' \in [Contexts -> BOOLEAN], loop' \in {"running", "wedged"}, lost' \in 0..MaxLost,
           \/ (Starts(x)' <=> Starts(x)) /\ gauge' = gauge /\ lost' = lost
           \/ ~Starts(x) /\ Starts(x)' /\ gauge' = gauge + 1 /\ lost' = lost
           \/ Starts(x) /\ ~Starts(x)' /\ gauge' = gauge - 1 /\ lost' = lost
           \/ Starts(x) /\ ~Starts(x)' /\ gauge' = gauge /\ lost' = lost + 1
    PROVE  IInv'
  <1>1. TracingTypeOK' /\ TracingInv'
    BY TracingInductive DEF IInv
  <1>2. gauge = Cardinality(Traced) + lost /\ Cardinality(Traced) \in Nat /\ lost \in Nat
    BY TracedFacts, ContextAssumption DEF IInv, GaugeCountsRequests, Traced
  <1>3. gauge' = Cardinality(Traced)' + lost'
    BY <1>2, TracedSteps DEF IInv
  <1>4. GaugeCountsRequests'
    BY <1>3 DEF GaugeCountsRequests, Traced
  <1> QED
    BY <1>1, <1>4 DEF IInv, Stepped

\* ... and so does every step of the system.
LEMMA NextInv == IInv /\ [Next]_vars => IInv'
  <1> SUFFICES ASSUME IInv, [Next]_vars PROVE IInv'
    OBVIOUS
  <1> USE DEF spans
  <1>1. /\ ContextTypes /\ (\A y \in Contexts : ContextInv(y))
        /\ unwinding \in [Contexts -> BOOLEAN] /\ loop \in {"running", "wedged"} /\ lost \in 0..MaxLost
    BY DEF IInv
  <1>2. ASSUME UNCHANGED <<context, spans>>, [TracingNext]_tracing PROVE IInv'
    <2>1. TracingTypeOK' /\ TracingInv'
      BY <1>2, TracingInductive DEF IInv
    <2>2. ContextTypes' /\ \A y \in Contexts : ContextInv(y)'
      BY <1>1, <1>2 DEF context, ContextTypes, ContextInv, Idle
    <2>3. GaugeCountsRequests'
      BY <1>2 DEF IInv, GaugeCountsRequests, Inside, context
    <2> QED
      BY <1>2, <2>1, <2>2, <2>3 DEF IInv, context
  <1>3. ASSUME NEW x \in Contexts, Request(x) PROVE IInv'
    <2>1. Stepped(x) /\ stack'[x] # <<>> /\ (stack'[x][1].kind = "trace" <=> middleware # "absent")
      BY <1>1, <1>3, RequestStep
    <2>2. ~Starts(x) /\ (Starts(x)' <=> middleware # "absent")
      BY <1>3, <2>1 DEF Starts, Request, Idle
    <2>3. UNCHANGED <<tracing, unwinding, loop, lost>> /\ gauge' = IF middleware = "absent" THEN gauge ELSE gauge + 1
      BY <1>3 DEF Request
    <2> QED
      BY <1>1, <2>1, <2>2, <2>3, CountStep
  <1>4. ASSUME NEW x \in Contexts, SetActor(x) \/ ResetActor(x) \/ EnterCopy(x) PROVE IInv'
    <2>1. Stepped(x) /\ (Starts(x)' <=> Starts(x))
      BY <1>1, <1>4, HookSteps, EnterCopyStep DEF Starts
    <2>2. UNCHANGED <<tracing, unwinding, loop, gauge, lost>>
      BY <1>4 DEF SetActor, ResetActor, EnterCopy
    <2> QED
      BY <1>1, <2>1, <2>2, CountStep
  <1>5. ASSUME NEW x \in Contexts, actor_context(x) \/ reason_context(x) \/ SerializerSave(x) PROVE IInv'
    <2>1. Stepped(x) /\ (Starts(x)' <=> Starts(x))
      BY <1>1, <1>5, BoundSteps
    <2>2. UNCHANGED <<tracing, unwinding, loop, gauge, lost>>
      BY <1>5 DEF actor_context, reason_context, SerializerSave, Bind
    <2> QED
      BY <1>1, <2>1, <2>2, CountStep
  <1>6. ASSUME NEW x \in Contexts, Cancel(x) PROVE IInv'
    <2>1. UNCHANGED <<tracing, current, stack, home, copies, kept, gauge, lost>>
      BY <1>6 DEF Cancel
    <2>2. ContextTypes' /\ \A y \in Contexts : ContextInv(y)'
      BY <1>1, <2>1 DEF ContextTypes, ContextInv, Idle
    <2>3. Stepped(x) /\ (Starts(x)' <=> Starts(x))
      BY <2>1, <2>2 DEF Stepped, Starts
    <2>4. unwinding' \in [Contexts -> BOOLEAN] /\ loop' \in {"running", "wedged"}
      BY <1>1, <1>6 DEF Cancel
    <2> QED
      BY <1>1, <2>1, <2>3, <2>4, CountStep
  <1>7. ASSUME NEW x \in Contexts, NEW y \in Tasks, SpawnTask(x, y) PROVE IInv'
    <2>1. y \in Contexts /\ Stepped(y) /\ ~Starts(y) /\ ~Starts(y)'
      BY <1>1, <1>7, SpawnStep DEF Starts
    <2>2. UNCHANGED <<tracing, unwinding, loop, gauge, lost>>
      BY <1>7 DEF SpawnTask
    <2> QED
      BY <1>1, <2>1, <2>2, CountStep
  <1>8. ASSUME NEW x \in Contexts, LeaveStep(x) PROVE IInv'
    <2>1. /\ Stepped(x) /\ (Starts(x)' => Starts(x))
          /\ Starts(x) /\ ~Starts(x)' <=> CloseSpan(x) \/ LoseSpan(x)
      BY <1>1, <1>8, LeaveSteps
    <2>2. UNCHANGED <<tracing, loop>> /\ unwinding' \in [Contexts -> BOOLEAN]
      BY <1>1, <1>8 DEF LeaveStep, LeaveBinding, LeaveSpawned, LeaveCopy, CloseSpan, LoseSpan, Pop
    <2>3. CASE CloseSpan(x)
      BY <1>1, <2>1, <2>2, <2>3, CountStep DEF CloseSpan
    <2>4. CASE LoseSpan(x)
      <3>1. gauge' = gauge /\ lost' = lost + 1 /\ lost' \in 0..MaxLost
        BY <1>1, <2>4, ContextAssumption DEF LoseSpan
      <3> QED
        BY <1>1, <2>1, <2>2, <2>4, <3>1, CountStep
    <2>5. CASE ~CloseSpan(x) /\ ~LoseSpan(x)
      <3>1. UNCHANGED <<gauge, lost>>
        BY <1>8, <2>5 DEF LeaveStep, LeaveBinding, LeaveSpawned, LeaveCopy
      <3> QED
        BY <1>1, <2>1, <2>2, <2>5, <3>1, CountStep
    <2> QED
      BY <2>3, <2>4, <2>5
  <1>9. CASE UNCHANGED vars
    BY <1>2, <1>9 DEF vars
  <1>10. CASE Next
    BY <1>2, <1>3, <1>4, <1>5, <1>6, <1>7, <1>8, <1>10 DEF Next, ContextStep
  <1> QED
    BY <1>9, <1>10

LEMMA Invariant == Spec => []IInv
  BY InitInv, NextInv, PTL DEF Spec

-----------------------------------------------------------------------------

\* Every variable keeps its type; in particular the gauge is never negative and
\* blocks nest no deeper than the bindings, a trace and a copy allow.
THEOREM TypeCorrect == Spec => []TypeOK
  <1>1. IInv => TypeOK
    <2> SUFFICES ASSUME IInv PROVE TypeOK
      OBVIOUS
    <2>1. gauge \in Nat
      BY TracedFacts, ContextAssumption DEF IInv, GaugeCountsRequests, Traced
    <2> QED
      BY <2>1 DEF IInv, TypeOK, ContextTypes
  <1> QED
    BY <1>1, Invariant, PTL

\* However often configure() is called, and wherever a call raised, no
\* instrumentor of otel.py is set to work twice.
THEOREM InstrumentedOnceTheorem == Spec => []InstrumentedOnce
  <1>1. IInv => InstrumentedOnce
    BY DEF IInv, TracingInv
  <1> QED
    BY <1>1, Invariant, PTL

\* get_actor() names the actor the blocks around a save ask for, or the system's
\* where a token crossed a thread boundary; a context that serves nothing holds
\* nobody.  For any number of contexts, however their blocks are entered, left,
\* copied, inherited and unwound.
THEOREM SavesAreAttributedTheorem == Spec => []SavesAreAttributed
  <1>1. IInv => SavesAreAttributed
    <2> SUFFICES ASSUME IInv, NEW x \in Contexts
                 PROVE  /\ Idle(x) => current[x] = Nobody
                        /\ ~Idle(x) /\ Top(x).kind # "trace" =>
                             \/ get_actor(x) = OrSystem(Meant(x))
                             \/ /\ copies[x] > 0
                                /\ get_actor(x).who = "system"
                                /\ get_actor(x).reason \in {BlankReason, OrSystem(Meant(x)).reason}
      BY DEF SavesAreAttributed
    <2>1. ContextTypes /\ ContextInv(x)
      BY DEF IInv
    <2>2. Fits(copies[x], current[x], Meant(x)) /\ (Idle(x) => current[x] = Nobody)
      BY <2>1, ContextFacts DEF Good, ActorFits, Idle
    <2> QED
      BY <2>2 DEF Fits, get_actor
  <1> QED
    BY <1>1, Invariant, PTL

\* OTel's gauge counts the requests inside the tracing middleware, those that
\* were cancelled included, apart from the spans its own hooks lost.
THEOREM GaugeCountsRequestsTheorem == Spec => []GaugeCountsRequests
  <1>1. IInv => GaugeCountsRequests
    BY DEF IInv
  <1> QED
    BY <1>1, Invariant, PTL
=============================================================================
